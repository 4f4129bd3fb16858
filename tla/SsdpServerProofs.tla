-------------------------- MODULE SsdpServerProofs --------------------------
(***************************************************************************)
(* Proofs about SsdpServer, for any number of namespaces, rounds and       *)
(* endpoints and any length of the socket buffer.                          *)
(***************************************************************************)
EXTENDS SsdpServer, TLAPS

(***************************************************************************)
(* The loop over positions covers everything: a namespace has been sent to *)
(* when a full round is done or the loop has passed it in the first one.   *)
(***************************************************************************)
Covered(p, m) == p.i > 0 \/ m < p.n

\* At the start nothing is covered.
LEMMA StartPosition == Start \in Position /\ \A m \in Namespace : ~Covered(Start, m)
  BY SsdpConstants DEF Start, Position, Namespace, Covered

\* A step that is not the last stays in range, and covers only what was
\* covered before and the namespace just sent.
LEMMA SuccPosition ==
  ASSUME NEW p \in Position, ~IsLast(p)
  PROVE  /\ Succ(p) \in Position
         /\ \A m \in Namespace : Covered(Succ(p), m) => Covered(p, m) \/ m = p.n
  BY SsdpConstants DEF Position, IsLast, Succ, Namespace, Covered

\* At the last position everything else is covered.
LEMMA LastPosition ==
  ASSUME NEW p \in Position, IsLast(p)
  PROVE  \A m \in Namespace : Covered(p, m) \/ m = p.n
  BY SsdpConstants DEF Position, IsLast, Namespace, Covered
-----------------------------------------------------------------------------
(***************************************************************************)
(* The inductive invariant.                                                *)
(***************************************************************************)
AllSent(nts) == \A m \in Namespace : wire[m] = nts
SentSoFar(nts) == \A m \in Namespace : Covered(pos, m) => wire[m] = nts

\* The announcer exists from construction to the join; only while it cannot
\* run may the owner withdraw for good.
AnnouncerLife ==
    /\ owner \in {"new", "connecting"} => announcer = "off"
    /\ owner \in {"byebye", "members", "stop_io", "join_io", "gone"} =>
           announcer = "done"

\* Outside its loops the owner's position is the start; inside, everything
\* covered so far has the status the loop sends.
LoopProgress ==
    /\ owner \notin {"suppress", "announce", "byebye"} => pos = Start
    /\ owner = "announce" => SentSoFar("ssdp:alive")
    /\ owner = "byebye" => SentSoFar("ssdp:byebye")

\* The members go in order: the map, then the connection with its thread.
MemberLife ==
    /\ namespaces = "destroyed" => owner \in {"stop_io", "join_io", "gone"}
    /\ owner = "gone" => RunnerEnded

IInv ==
    /\ TypeOK
    /\ AnnouncerLife
    /\ LoopProgress
    /\ AliveInService
    /\ ByeIsFinal
    /\ MemberLife
    /\ FaultsAtEdgesOnly
    /\ ReplyToSearcher
-----------------------------------------------------------------------------
(***************************************************************************)
(* Type correctness.                                                       *)
(***************************************************************************)
\* The initial state is well typed.
LEMMA TypeInit == Init => TypeOK
<1> SUFFICES ASSUME Init PROVE TypeOK
  OBVIOUS
<1>1. Unregistered \in Target
  BY SsdpConstants DEF Target, Unregistered
<1>2. request \in Datagram
  BY <1>1 DEF Init, Datagram
<1>3. inbox \in Seq(Datagram)
  BY DEF Init
<1> QED
  BY <1>2, <1>3, StartPosition DEF Init, TypeOK, OwnerState

\* Every action keeps the state well typed.
LEMMA TypeStep == TypeOK /\ [Next]_vars => TypeOK'
<1> SUFFICES ASSUME TypeOK, [Next]_vars PROVE TypeOK'
  OBVIOUS
<1> USE DEF TypeOK, ownerVars, announcerVars, runnerVars, OwnerState
<1>1. CASE announce_suppress
  BY <1>1, StartPosition, SuccPosition DEF announce_suppress, suppress, send_suppress
<1>2. CASE announce
  BY <1>2, StartPosition, SuccPosition DEF announce, send_anounce
<1>3. CASE DestroySuppress
  BY <1>3, StartPosition, SuccPosition DEF DestroySuppress, suppress, send_suppress
<1>4. CASE Reannounce
  BY <1>4, StartPosition, SuccPosition DEF Reannounce, send_anounce
<1>5. CASE JoinAnnouncer \/ DestroyNamespaces \/ StopIo \/ JoinRunner \/ StartAnnouncer
  BY <1>5 DEF JoinAnnouncer, DestroyNamespaces, StopIo, JoinRunner, StartAnnouncer
<1>6. CASE CheckTimer \/ Wake
  BY <1>6 DEF CheckTimer, Wake
<1>7. CASE handle_receive_from
  <2>1. Head(inbox) \in Datagram /\ Tail(inbox) \in Seq(Datagram)
    BY <1>7 DEF handle_receive_from
  <2>2. Head(inbox).from \in Endpoint
    BY <2>1 DEF Datagram
  <2> QED
    BY <1>7, <2>1, <2>2 DEF handle_receive_from
<1>8. CASE handle_receive
  <2>1. Matching(request.st) \subseteq Namespace
    BY DEF Matching
  <2> QED
    BY <1>8, <2>1 DEF handle_receive
<1>9. CASE Reply
  BY <1>9 DEF Reply
<1>10. CASE Replied \/ Rearm \/ RunReturns
  BY <1>10 DEF Replied, Rearm, RunReturns
<1>11. CASE Construct \/ ConstructThrows \/ Destroy
  BY <1>11 DEF Construct, ConstructThrows, Destroy
<1>12. CASE SendThrows \/ ReceiveError \/ ReplyFaults \/ Interrupt
  BY <1>12 DEF SendThrows, ReceiveError, ReplyFaults, Interrupt
<1>13. CASE Arrive
  <2>1. PICK d \in Datagram : inbox' = Append(inbox, d)
    BY <1>13 DEF Arrive, Arrivals
  <2>2. inbox' \in Seq(Datagram)
    BY <2>1
  <2> QED
    BY <1>13, <2>2 DEF Arrive
<1>14. CASE UNCHANGED vars
  BY <1>14 DEF vars
<1> QED
  BY <1>1, <1>2, <1>3, <1>4, <1>5, <1>6, <1>7, <1>8, <1>9, <1>10, <1>11,
     <1>12, <1>13, <1>14
  DEF Next, OwnerRuns, AnnouncerRuns, RunnerRuns

\* Type correctness of the server object.
THEOREM TypeCorrect == Spec => []TypeOK
  BY TypeInit, TypeStep, PTL DEF Spec
-----------------------------------------------------------------------------
(***************************************************************************)
(* The safety invariants.                                                  *)
(***************************************************************************)
\* The invariant holds initially.
LEMMA InvInit == Init => IInv
<1> SUFFICES ASSUME Init PROVE IInv
  OBVIOUS
<1>1. sender_endpoint = request.from
  BY DEF Init
<1> QED
  BY <1>1, TypeInit
  DEF Init, IInv, AnnouncerLife, LoopProgress, AliveInService, ByeIsFinal,
      MemberLife, FaultsAtEdgesOnly, ReplyToSearcher

\* Steps that leave the owner, its position, the wire and the members alone
\* keep what the invariant says of them.
LEMMA OwnerUntouched ==
  ASSUME IInv, UNCHANGED <<owner, pos, wire, namespaces>>
  PROVE  LoopProgress' /\ AliveInService' /\ ByeIsFinal'
  BY DEF IInv, LoopProgress, AliveInService, ByeIsFinal, SentSoFar, Covered

\* Multicasting n as nts keeps every other namespace's last message.
LEMMA WireUpdate ==
  ASSUME TypeOK, NEW n \in Namespace, NEW nts,
         wire' = [wire EXCEPT ![n] = nts]
  PROVE  \A m \in Namespace : wire'[m] = IF m = n THEN nts ELSE wire[m]
  BY DEF TypeOK

\* The owner's loops: each pass keeps the invariant, and the last one
\* completes what the loop is for.
LEMMA LoopStep ==
  ASSUME IInv, announce_suppress \/ announce \/ DestroySuppress
  PROVE  LoopProgress' /\ AliveInService' /\ ByeIsFinal'
<1> USE DEF IInv, LoopProgress, AliveInService, ByeIsFinal, SentSoFar
<1>1. pos \in Position /\ pos.n \in Namespace
  BY DEF TypeOK, Position
<1>2. CASE announce_suppress
  <2>1. owner = "suppress" /\ owner' \in {"suppress", "announce"}
    BY <1>2 DEF announce_suppress, suppress
  <2>2. owner' = "announce" => pos' = Start
    BY <1>2, <2>1 DEF announce_suppress, suppress
  <2> QED
    BY <2>1, <2>2, StartPosition
<1>3. CASE announce
  <2>1. \A m \in Namespace :
           wire'[m] = IF m = pos.n THEN "ssdp:alive" ELSE wire[m]
    BY <1>1, <1>3, WireUpdate DEF announce, send_anounce
  <2>2. owner = "announce"
    BY <1>3 DEF announce
  <2>3. CASE IsLast(pos)
    <3>1. owner' = "idle" /\ pos' = Start
      BY <1>3, <2>3 DEF announce
    <3> QED
      BY <1>1, <2>1, <2>2, <2>3, <3>1, LastPosition
  <2>4. CASE ~IsLast(pos)
    <3>1. owner' = "announce" /\ pos' = Succ(pos)
      BY <1>3, <2>2, <2>4 DEF announce
    <3> QED
      BY <1>1, <2>1, <2>2, <2>4, <3>1, SuccPosition
  <2> QED
    BY <2>3, <2>4
<1>4. CASE DestroySuppress
  <2>1. \A m \in Namespace :
           wire'[m] = IF m = pos.n THEN "ssdp:byebye" ELSE wire[m]
    <3>1. wire' = [wire EXCEPT ![pos.n] = "ssdp:byebye"]
      BY <1>4 DEF DestroySuppress, suppress, send_suppress
    <3> QED
      BY <1>1, <3>1 DEF TypeOK
  <2>2. owner = "byebye"
    BY <1>4 DEF DestroySuppress, suppress
  <2>3. CASE IsLast(pos)
    <3>1. owner' = "members" /\ pos' = Start
      BY <1>4, <2>3 DEF DestroySuppress, suppress
    <3> QED
      BY <1>1, <2>1, <2>2, <2>3, <3>1, LastPosition
  <2>4. CASE ~IsLast(pos)
    <3>1. owner' = "byebye" /\ pos' = Succ(pos)
      BY <1>4, <2>2, <2>4 DEF DestroySuppress, suppress
    <3> QED
      BY <1>1, <2>1, <2>2, <2>4, <3>1, SuccPosition
  <2> QED
    BY <2>3, <2>4
<1> QED
  BY <1>2, <1>3, <1>4

\* The announcer only ever adds alive messages, and never after its join.
LEMMA ReannounceStep ==
  ASSUME IInv, Reannounce
  PROVE  LoopProgress' /\ AliveInService' /\ ByeIsFinal'
<1>1. apos.n \in Namespace
  BY DEF IInv, TypeOK, Position
<1>2. \A m \in Namespace :
         wire'[m] = IF m = apos.n THEN "ssdp:alive" ELSE wire[m]
  BY <1>1, WireUpdate DEF IInv, Reannounce, send_anounce
<1>3. owner \notin {"byebye", "members", "stop_io", "join_io", "gone"}
  BY DEF IInv, AnnouncerLife, Reannounce
<1>4. UNCHANGED <<owner, pos>>
  BY DEF Reannounce, ownerVars
<1> QED
  BY <1>2, <1>3, <1>4
  DEF IInv, LoopProgress, AliveInService, ByeIsFinal, SentSoFar, Covered

\* Every action keeps the invariant.
LEMMA InvStep == IInv /\ [Next]_vars => IInv'
<1> SUFFICES ASSUME IInv, [Next]_vars PROVE IInv'
  OBVIOUS
<1> USE DEF ownerVars, announcerVars, runnerVars
<1>0. TypeOK'
  BY TypeStep DEF IInv
<1>1. CASE announce_suppress \/ announce \/ DestroySuppress
  <2>1. LoopProgress' /\ AliveInService' /\ ByeIsFinal'
    BY <1>1, LoopStep
  <2>2. /\ owner \in {"suppress", "announce", "byebye"}
        /\ owner' \in {"suppress", "announce", "idle", "byebye", "members"}
        /\ owner' \in {"byebye", "members"} => owner = "byebye"
        /\ status = "up"
        /\ UNCHANGED <<announcerVars, runnerVars, namespaces, status>>
    BY <1>1 DEF announce_suppress, announce, DestroySuppress, suppress
  <2>3. AnnouncerLife' /\ MemberLife' /\ FaultsAtEdgesOnly' /\ ReplyToSearcher'
    BY <2>2 DEF IInv, AnnouncerLife, MemberLife, FaultsAtEdgesOnly, ReplyToSearcher
  <2> QED
    BY <1>0, <2>1, <2>3 DEF IInv
<1>2. CASE Reannounce
  <2>1. LoopProgress' /\ AliveInService' /\ ByeIsFinal'
    BY <1>2, ReannounceStep
  <2>2. AnnouncerLife' /\ MemberLife' /\ FaultsAtEdgesOnly' /\ ReplyToSearcher'
    BY <1>2 DEF Reannounce, IInv, AnnouncerLife, MemberLife, RunnerEnded,
       FaultsAtEdgesOnly, ReplyToSearcher
  <2> QED
    BY <1>0, <2>1, <2>2 DEF IInv
<1>3. CASE CheckTimer \/ Wake
  <2>1. LoopProgress' /\ AliveInService' /\ ByeIsFinal'
    BY <1>3, OwnerUntouched DEF CheckTimer, Wake
  <2>2. AnnouncerLife' /\ MemberLife' /\ FaultsAtEdgesOnly' /\ ReplyToSearcher'
    BY <1>3 DEF CheckTimer, Wake, IInv, AnnouncerLife, MemberLife, RunnerEnded,
       FaultsAtEdgesOnly, ReplyToSearcher
  <2> QED
    BY <1>0, <2>1, <2>2 DEF IInv
<1>4. CASE handle_receive_from
  <2>1. LoopProgress' /\ AliveInService' /\ ByeIsFinal'
    BY <1>4, OwnerUntouched DEF handle_receive_from
  <2>2. AnnouncerLife' /\ MemberLife' /\ FaultsAtEdgesOnly' /\ ReplyToSearcher'
    BY <1>4 DEF handle_receive_from, IInv, AnnouncerLife, MemberLife,
       RunnerEnded, FaultsAtEdgesOnly, ReplyToSearcher
  <2> QED
    BY <1>0, <2>1, <2>2 DEF IInv
<1>5. CASE handle_receive
  <2>1. LoopProgress' /\ AliveInService' /\ ByeIsFinal'
    BY <1>5, OwnerUntouched DEF handle_receive
  <2>2. AnnouncerLife' /\ MemberLife' /\ FaultsAtEdgesOnly' /\ ReplyToSearcher'
    BY <1>5 DEF handle_receive, IInv, AnnouncerLife, MemberLife, RunnerEnded,
       FaultsAtEdgesOnly, ReplyToSearcher
  <2> QED
    BY <1>0, <2>1, <2>2 DEF IInv
<1>6. CASE Reply \/ Replied \/ Rearm \/ RunReturns \/ ReceiveError \/ Arrive
  <2>1. UNCHANGED <<owner, pos, announcer, sender_endpoint, request,
                    namespaces, wire, status>>
    BY <1>6 DEF Reply, Replied, Rearm, RunReturns, ReceiveError, Arrive
  <2>2. /\ RunnerEnded => RunnerEnded'
        /\ runner' \in {"handle", "reply"} => runner \in {"handle", "reply"}
    BY <1>6 DEF Reply, Replied, Rearm, RunReturns, ReceiveError, Arrive, RunnerEnded
  <2>3. LoopProgress' /\ AliveInService' /\ ByeIsFinal'
    BY <2>1, OwnerUntouched
  <2>4. AnnouncerLife' /\ MemberLife' /\ FaultsAtEdgesOnly' /\ ReplyToSearcher'
    BY <2>1, <2>2 DEF IInv, AnnouncerLife, MemberLife, FaultsAtEdgesOnly, ReplyToSearcher
  <2> QED
    BY <1>0, <2>3, <2>4 DEF IInv
<1>7. CASE SendThrows \/ ConstructThrows \/ Interrupt \/ ReplyFaults
  <2>1. UNCHANGED <<owner, pos, announcer, runner, sender_endpoint, request,
                    namespaces, wire>>
    BY <1>7 DEF SendThrows, ConstructThrows, Interrupt, ReplyFaults
  <2>2. FaultsAtEdgesOnly'
    BY <1>7 DEF SendThrows, ConstructThrows, Interrupt, ReplyFaults, IInv,
       MemberLife, RunnerEnded, FaultsAtEdgesOnly
  <2>3. LoopProgress' /\ AliveInService' /\ ByeIsFinal'
    BY <2>1, OwnerUntouched
  <2>4. AnnouncerLife' /\ MemberLife' /\ ReplyToSearcher'
    BY <2>1 DEF IInv, AnnouncerLife, MemberLife, RunnerEnded, ReplyToSearcher
  <2> QED
    BY <1>0, <2>2, <2>3, <2>4 DEF IInv
<1>8. CASE Construct \/ StartAnnouncer \/ Destroy \/ JoinAnnouncer
  <2>1. LoopProgress' /\ AliveInService' /\ ByeIsFinal'
    BY <1>8, StartPosition
    DEF Construct, StartAnnouncer, Destroy, JoinAnnouncer, IInv, LoopProgress,
        AliveInService, ByeIsFinal, SentSoFar
  <2>2. AnnouncerLife' /\ MemberLife' /\ FaultsAtEdgesOnly' /\ ReplyToSearcher'
    BY <1>8 DEF Construct, StartAnnouncer, Destroy, JoinAnnouncer, IInv,
       AnnouncerEnded, AnnouncerLife, MemberLife, FaultsAtEdgesOnly, ReplyToSearcher
  <2> QED
    BY <1>0, <2>1, <2>2 DEF IInv
<1>9. CASE DestroyNamespaces \/ StopIo \/ JoinRunner
  <2>1. LoopProgress' /\ AliveInService' /\ ByeIsFinal'
    BY <1>9
    DEF DestroyNamespaces, StopIo, JoinRunner, IInv, LoopProgress,
        AliveInService, ByeIsFinal
  <2>2. AnnouncerLife' /\ MemberLife' /\ FaultsAtEdgesOnly' /\ ReplyToSearcher'
    BY <1>9 DEF DestroyNamespaces, StopIo, JoinRunner, IInv, RunnerEnded,
       AnnouncerLife, MemberLife, FaultsAtEdgesOnly, ReplyToSearcher
  <2> QED
    BY <1>0, <2>1, <2>2 DEF IInv
<1>10. CASE UNCHANGED vars
  <2>1. LoopProgress' /\ AliveInService' /\ ByeIsFinal'
    BY <1>10, OwnerUntouched DEF vars
  <2>2. AnnouncerLife' /\ MemberLife' /\ FaultsAtEdgesOnly' /\ ReplyToSearcher'
    BY <1>10 DEF vars, IInv, AnnouncerLife, MemberLife, RunnerEnded,
       FaultsAtEdgesOnly, ReplyToSearcher
  <2> QED
    BY <1>0, <2>1, <2>2 DEF IInv
<1> QED
  BY <1>1, <1>2, <1>3, <1>4, <1>5, <1>6, <1>7, <1>8, <1>9, <1>10
  DEF Next, OwnerRuns, AnnouncerRuns, RunnerRuns

\* The invariant holds in every reachable state.
LEMMA Invariance == Spec => []IInv
  BY InvInit, InvStep, PTL DEF Spec

\* The answer to a search goes to the endpoint that asked, whatever arrives
\* on the socket meanwhile.
THEOREM AnswersGoToTheSearcher == Spec => []ReplyToSearcher
<1>1. IInv => ReplyToSearcher
  BY DEF IInv
<1> QED
  BY <1>1, Invariance, PTL

\* After announce() every namespace stands announced until the destructor
\* withdraws it, although suppress() and the announcer multicast concurrently.
THEOREM StandsAnnounced == Spec => []AliveInService
<1>1. IInv => AliveInService
  BY DEF IInv
<1> QED
  BY <1>1, Invariance, PTL

\* After the destructor's suppress() no namespace is left announced.
THEOREM Withdrawn == Spec => []ByeIsFinal
<1>1. IInv => ByeIsFinal
  BY DEF IInv
<1> QED
  BY <1>1, Invariance, PTL

\* No handler touches an unassigned connection or a destroyed map while the
\* server is in service or after it is gone.
THEOREM NoFaultInService == Spec => []FaultsAtEdgesOnly
<1>1. IInv => FaultsAtEdgesOnly
  BY DEF IInv
<1> QED
  BY <1>1, Invariance, PTL
-----------------------------------------------------------------------------
(***************************************************************************)
(* Refinement of Advertisement.                                            *)
(***************************************************************************)
\* A step of the loops or of the announcer is one message of the abstract
\* stream; the message that ends a loop changes the phase.
LEMMA MessageStep ==
  ASSUME IInv, IInv',
         announce_suppress \/ announce \/ DestroySuppress \/ Reannounce
  PROVE  Adv!Next
<1>1. pos.n \in Namespace /\ apos.n \in Namespace
  BY DEF IInv, TypeOK, Position
<1>2. CASE announce_suppress
  <2>1. Phase = "fresh" /\ Phase' = "fresh"
    BY <1>2 DEF announce_suppress, suppress, Phase
  <2>2. Adv!Withdraw(pos.n)
    BY <1>2, <2>1 DEF announce_suppress, suppress, send_suppress, Adv!Withdraw
  <2> QED
    BY <1>1, <2>1, <2>2 DEF Adv!Next
<1>3. CASE announce
  <2>1. Phase = "fresh"
    BY <1>3 DEF announce, Phase
  <2>2. Adv!Offer(pos.n)
    BY <1>3, <2>1 DEF announce, send_anounce, Adv!Offer
  <2>3. CASE owner' = "idle"
    <3>1. Phase' = "serving"
      BY <2>3 DEF Phase
    <3>2. Adv!Complete("ssdp:alive")
      BY <2>3 DEF IInv, AliveInService, Adv!Complete
    <3> QED
      BY <1>1, <2>1, <2>2, <3>1, <3>2 DEF Adv!Next, Adv!Serve
  <2>4. CASE owner' = "announce"
    <3>1. Phase' = "fresh"
      BY <2>4 DEF Phase
    <3> QED
      BY <1>1, <2>1, <2>2, <3>1 DEF Adv!Next
  <2> QED
    BY <1>3, <2>3, <2>4 DEF announce
<1>4. CASE DestroySuppress
  <2>1. Phase = "leaving"
    BY <1>4 DEF DestroySuppress, suppress, Phase
  <2>2. Adv!Withdraw(pos.n)
    BY <1>4, <2>1 DEF DestroySuppress, suppress, send_suppress, Adv!Withdraw
  <2>3. CASE owner' = "members"
    <3>1. Phase' = "left"
      BY <2>3 DEF Phase
    <3>2. Adv!Complete("ssdp:byebye")
      BY <2>3 DEF IInv, ByeIsFinal, Adv!Complete
    <3> QED
      BY <1>1, <2>1, <2>2, <3>1, <3>2 DEF Adv!Next, Adv!Left
  <2>4. CASE owner' = "byebye"
    <3>1. Phase' = "leaving"
      BY <2>4 DEF Phase
    <3> QED
      BY <1>1, <2>1, <2>2, <3>1 DEF Adv!Next
  <2> QED
    BY <1>4, <2>3, <2>4 DEF DestroySuppress, suppress
<1>5. CASE Reannounce
  <2>1. Phase' = Phase
    BY <1>5 DEF Reannounce, ownerVars, Phase
  <2>2. Phase \in {"fresh", "serving"}
    BY <1>5 DEF Reannounce, IInv, AnnouncerLife, Phase, TypeOK, OwnerState
  <2>3. Adv!Offer(apos.n)
    BY <1>5, <2>2 DEF Reannounce, send_anounce, Adv!Offer
  <2> QED
    BY <1>1, <2>1, <2>3 DEF Adv!Next
<1> QED
  BY <1>2, <1>3, <1>4, <1>5

\* Every other step leaves the stream alone; JoinAnnouncer starts the leaving.
LEMMA QuietStep ==
  ASSUME IInv, [Next]_vars,
         ~(announce_suppress \/ announce \/ DestroySuppress \/ Reannounce)
  PROVE  [Adv!Next]_(Adv!vars)
<1> USE DEF ownerVars
<1>1. CASE JoinAnnouncer
  <2>1. Phase = "serving" /\ Phase' = "leaving" /\ wire' = wire
    BY <1>1 DEF JoinAnnouncer, Phase
  <2> QED
    BY <2>1 DEF Adv!Next, Adv!Leave
<1>2. CASE StartAnnouncer \/ DestroyNamespaces \/ StopIo \/ JoinRunner
           \/ Construct \/ Destroy
  <2>1. Phase' = Phase /\ wire' = wire
    BY <1>2 DEF StartAnnouncer, DestroyNamespaces, StopIo, JoinRunner,
       Construct, Destroy, Phase
  <2> QED
    BY <2>1 DEF Adv!vars
<1>3. CASE CheckTimer \/ Wake \/ RunnerRuns \/ ConstructThrows \/ SendThrows
           \/ ReceiveError \/ ReplyFaults \/ Arrive \/ Interrupt \/ UNCHANGED vars
  <2>1. owner' = owner /\ wire' = wire
    BY <1>3 DEF CheckTimer, Wake, RunnerRuns, handle_receive_from, handle_receive,
       Reply, Replied, Rearm, RunReturns, ConstructThrows, SendThrows,
       ReceiveError, ReplyFaults, Arrive, Interrupt, vars
  <2> QED
    BY <2>1 DEF Adv!vars, Phase
<1> QED
  BY <1>1, <1>2, <1>3 DEF Next, OwnerRuns, AnnouncerRuns

\* The three threads of the server implement the multicast stream of
\* Advertisement, whatever their interleaving.
THEOREM Refinement == Spec => ImplementsAdvertisement
<1>1. Init => Adv!Init
  BY DEF Init, Adv!Init, Phase
<1>2. IInv /\ [Next]_vars => [Adv!Next]_(Adv!vars)
  <2>1. IInv /\ [Next]_vars => IInv'
    BY InvStep
  <2> QED
    BY <2>1, MessageStep, QuietStep
<1> QED
  BY <1>1, <1>2, Invariance, PTL DEF Spec, ImplementsAdvertisement, Adv!Spec
=============================================================================
