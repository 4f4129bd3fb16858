----------------------------- MODULE SsdpSearch -----------------------------
(***************************************************************************)
(* SSDPServerImpl::search(): three threads again.  The caller starts a     *)
(* task with std::async and discards the future, whose destructor waits    *)
(* for the task; the task multicasts the M-SEARCH through an               *)
(* SSDPClientConnection, sleeps, closes the socket and destroys the        *)
(* connection; the connection's runner hands the answers to                *)
(* handle_response().  The threads share the socket without a lock.        *)
(***************************************************************************)
EXTENDS Naturals

CONSTANT MaxAnswers    \* bound: answers that come in per search

ASSUME SearchConstants == MaxAnswers \in Nat

VARIABLES
    caller,   \* "idle", "waiting" in search(), "returned"
    task,     \* where the async task is
    socket,   \* of the connection: "closed" or "open"
    runner,   \* where the connection's asio thread is; "none": not started
    answers,  \* datagrams received so far
    status    \* of the process

vars == <<caller, task, socket, runner, answers, status>>

TaskState == {"none", "open", "query", "sleep", "stop_io", "join", "done"}

TypeOK ==
    /\ caller \in {"idle", "waiting", "returned"}
    /\ task \in TaskState
    /\ socket \in {"closed", "open"}
    /\ runner \in {"none", "armed", "handle", "rearm", "done"}
    /\ answers \in 0..MaxAnswers
    /\ status \in {"up", "crashed"}

Init ==
    /\ caller = "idle"
    /\ task = "none"
    /\ socket = "closed"
    /\ runner = "none"
    /\ answers = 0
    /\ status = "up"
-----------------------------------------------------------------------------
(***************************************************************************)
(* The caller.                                                             *)
(***************************************************************************)
search ==
    /\ status = "up"
    /\ caller \in {"idle", "returned"}
    /\ caller' = "waiting"
    /\ task' = "open"
    /\ runner' = "none"
    /\ answers' = 0
    /\ UNCHANGED <<socket, status>>

\* The temporary future is destroyed when the task has ended.
Return ==
    /\ status = "up"
    /\ caller = "waiting"
    /\ task = "done"
    /\ caller' = "returned"
    /\ UNCHANGED <<task, socket, runner, answers, status>>
-----------------------------------------------------------------------------
(***************************************************************************)
(* The task: SSDPClientConnection::send() and its destructor.              *)
(***************************************************************************)
\* The socket is opened, a receive started and then the runner.
Open ==
    /\ status = "up"
    /\ task = "open"
    /\ socket' = "open"
    /\ runner' = "armed"
    /\ task' = "query"
    /\ UNCHANGED <<caller, answers, status>>

\* Opening or binding throws: the destructor joins a runner that was never
\* made.
OpenThrows ==
    /\ status = "up"
    /\ task = "open"
    /\ status' = "crashed"
    /\ UNCHANGED <<caller, task, socket, runner, answers>>

SendQuery ==
    /\ status = "up"
    /\ task = "query"
    /\ task' = "sleep"
    /\ UNCHANGED <<caller, socket, runner, answers, status>>

\* The exception ends in the discarded future, after the destructor.
SendThrows ==
    /\ status = "up"
    /\ task = "query"
    /\ task' = "stop_io"
    /\ UNCHANGED <<caller, socket, runner, answers, status>>

\* Five seconds later.
Close ==
    /\ status = "up"
    /\ task = "sleep"
    /\ socket' = "closed"
    /\ task' = "stop_io"
    /\ UNCHANGED <<caller, runner, answers, status>>

\* Closing the socket while the runner starts a receive on it is a data race.
CloseRaces ==
    /\ status = "up"
    /\ task = "sleep"
    /\ runner = "rearm"
    /\ status' = "crashed"
    /\ UNCHANGED <<caller, task, socket, runner, answers>>

StopIo ==
    /\ status = "up"
    /\ task = "stop_io"
    /\ task' = "join"
    /\ UNCHANGED <<caller, socket, runner, answers, status>>

\* Mutant: the runner is detached instead of joined.
RunnerEnded_Detached == TRUE
RunnerEnded == runner = "done"

\* The socket, a member, is destroyed after the join.
Join ==
    /\ status = "up"
    /\ task = "join"
    /\ RunnerEnded
    /\ socket' = "closed"
    /\ task' = "done"
    /\ UNCHANGED <<caller, runner, answers, status>>
-----------------------------------------------------------------------------
(***************************************************************************)
(* The runner.                                                             *)
(***************************************************************************)
\* Mutant: io_service is never stopped: run() returns only when a receive fails.
Stopped_Never == FALSE
Stopped == task \in {"join", "done"}

handle_receive_from ==
    /\ status = "up"
    /\ runner = "armed"
    /\ ~Stopped
    /\ socket = "open"
    /\ answers < MaxAnswers
    /\ answers' = answers + 1
    /\ runner' = "handle"
    /\ UNCHANGED <<caller, task, socket, status>>

\* The response is looked at and dropped: the notification is still to be
\* written.
handle_response ==
    /\ status = "up"
    /\ runner = "handle"
    /\ runner' = "rearm"
    /\ UNCHANGED <<caller, task, socket, answers, status>>

Rearm ==
    /\ status = "up"
    /\ runner = "rearm"
    /\ runner' = "armed"
    /\ UNCHANGED <<caller, task, socket, answers, status>>

\* run() returns when it is stopped, or when the receive has failed, which it
\* does on a closed socket, and is not started again.
RunReturns ==
    /\ status = "up"
    /\ runner = "armed"
    /\ Stopped \/ socket = "closed"
    /\ runner' = "done"
    /\ UNCHANGED <<caller, task, socket, answers, status>>

ReceiveError ==
    /\ status = "up"
    /\ runner = "armed"
    /\ ~Stopped
    /\ socket = "open"
    /\ runner' = "done"
    /\ UNCHANGED <<caller, task, socket, answers, status>>
-----------------------------------------------------------------------------
TaskRuns == Open \/ SendQuery \/ SendThrows \/ Close \/ StopIo \/ Join
RunnerRuns == handle_receive_from \/ handle_response \/ Rearm \/ RunReturns

Next ==
    \/ search \/ Return
    \/ TaskRuns \/ RunnerRuns
    \/ OpenThrows \/ CloseRaces \/ ReceiveError

\* Started threads are scheduled, and a caller whose wait is over goes on.
Fairness == WF_vars(Return) /\ WF_vars(TaskRuns) /\ WF_vars(RunnerRuns)

Spec == Init /\ [][Next]_vars
FairSpec == Spec /\ Fairness
-----------------------------------------------------------------------------
(***************************************************************************)
(* Properties.                                                             *)
(***************************************************************************)
\* handle_response() and the connection, on the task's stack, are only used
\* while the caller, whose object and argument the task refers to, is still in
\* search().
UsedInCallOnly ==
    /\ task \notin {"none", "done"} => caller = "waiting"
    /\ runner \in {"armed", "handle", "rearm"} => task \notin {"none", "done"}

\* A search comes to an end, unless the process dies: the join does not wait
\* for a receive that never completes, whichever step failed.
SearchEnds == caller = "waiting" ~> (caller = "returned" \/ status = "crashed")
=============================================================================
