-------------------------- MODULE SsdpSearchProofs --------------------------
(***************************************************************************)
(* What search() refers to outlives every use of it, for any number of     *)
(* answers.                                                                *)
(***************************************************************************)
EXTENDS SsdpSearch, TLAPS

\* The initial state satisfies the type and lifetime invariants.
LEMMA InvInit == Init => TypeOK /\ UsedInCallOnly
  BY SearchConstants DEF Init, TypeOK, TaskState, UsedInCallOnly

\* Every step of the task keeps them: only the join ends its part, and it
\* waits for the runner.
LEMMA TaskStep ==
  ASSUME TypeOK, UsedInCallOnly, TaskRuns \/ OpenThrows \/ CloseRaces
  PROVE  TypeOK' /\ UsedInCallOnly'
<1>1. CASE Open
  BY <1>1 DEF TypeOK, TaskState, UsedInCallOnly, Open
<1>2. CASE SendQuery \/ SendThrows \/ Close \/ StopIo
  BY <1>2 DEF TypeOK, TaskState, UsedInCallOnly, SendQuery, SendThrows, Close,
              StopIo
<1>3. CASE Join
  BY <1>3 DEF TypeOK, TaskState, UsedInCallOnly, Join, RunnerEnded
<1>4. CASE OpenThrows \/ CloseRaces
  BY <1>4 DEF TypeOK, UsedInCallOnly, OpenThrows, CloseRaces
<1> QED
  BY <1>1, <1>2, <1>3, <1>4 DEF TaskRuns

\* The runner only moves on when it is alive, and so within the task.
LEMMA RunnerStep ==
  ASSUME TypeOK, UsedInCallOnly, RunnerRuns \/ ReceiveError
  PROVE  TypeOK' /\ UsedInCallOnly'
<1>1. CASE handle_receive_from
  BY <1>1, SearchConstants DEF TypeOK, UsedInCallOnly, handle_receive_from
<1>2. CASE handle_response \/ Rearm \/ RunReturns \/ ReceiveError
  BY <1>2 DEF TypeOK, UsedInCallOnly, handle_response, Rearm, RunReturns,
              ReceiveError
<1> QED
  BY <1>1, <1>2 DEF RunnerRuns

\* The two invariants are inductive together.
LEMMA InvStep == TypeOK /\ UsedInCallOnly /\ [Next]_vars => TypeOK' /\ UsedInCallOnly'
<1> SUFFICES ASSUME TypeOK, UsedInCallOnly, [Next]_vars
             PROVE  TypeOK' /\ UsedInCallOnly'
  OBVIOUS
<1>1. CASE search
  BY <1>1, SearchConstants DEF TypeOK, TaskState, UsedInCallOnly, search
<1>2. CASE Return
  BY <1>2 DEF TypeOK, UsedInCallOnly, Return
<1>3. CASE TaskRuns \/ OpenThrows \/ CloseRaces
  BY <1>3, TaskStep
<1>4. CASE RunnerRuns \/ ReceiveError
  BY <1>4, RunnerStep
<1>5. CASE UNCHANGED vars
  BY <1>5 DEF TypeOK, UsedInCallOnly, vars
<1> QED
  BY <1>1, <1>2, <1>3, <1>4, <1>5 DEF Next

\* The task and the runner use the caller's object, its argument and the
\* connection only while the caller is in search().
THEOREM NoUseAfterReturn == Spec => [](TypeOK /\ UsedInCallOnly)
  BY InvInit, InvStep, PTL DEF Spec
=============================================================================
