----------------------------- MODULE SsdpServer -----------------------------
(***************************************************************************)
(* The SSDP server object, SSDPServerImpl, with its SSDPServerConnection.  *)
(* Three threads share it:                                                 *)
(*   - the owner, which constructs it, calls announce() and may later run  *)
(*     its destructor;                                                     *)
(*   - the announcer, annouceThread(), which repeats the announcement;     *)
(*   - the runner, which executes the asio handlers of the UDP socket and  *)
(*     answers M-SEARCH requests.                                          *)
(* Time is abstracted here: whether the re-announce timer has elapsed is a *)
(* free choice (module SsdpPresence models the timer).  A NOTIFY message   *)
(* is reduced to the status it carries for a namespace, a request to what  *)
(* handle_receive() inspects.                                              *)
(***************************************************************************)
EXTENDS Integers, Sequences

CONSTANTS NsCount,       \* number of registered namespaces
          NetworkCount,  \* NETWORK_COUNT: how often a NOTIFY is repeated
          Endpoint,      \* UDP endpoints datagrams come from
          SockBuf        \* bound: datagrams the kernel buffers for the socket

ASSUME SsdpConstants ==
    /\ NsCount \in Nat \ {0}
    /\ NetworkCount \in Nat \ {0}
    /\ Endpoint # {}
    /\ SockBuf \in Nat \ {0}

VARIABLES
    owner,       \* where the owner thread is in the life of the object
    pos,         \* the owner's position in the loops of announce()/suppress()
    announce_thread_run,
    announcer,   \* where annouceThread() is
    apos,        \* its position in the announcing loops
    runner,      \* where the asio thread, ssdp_runner, is
    inbox,       \* datagrams waiting in the socket buffer
    sender_endpoint,
    request,     \* the request handle_receive() works on
    todo,        \* namespaces still to be answered for request
    namespaces,  \* the map: "live", or "destroyed" with the members
    wire,        \* last NOTIFY multicast for each namespace
    status       \* of the process

vars == <<owner, pos, announce_thread_run, announcer, apos, runner, inbox,
          sender_endpoint, request, todo, namespaces, wire, status>>

ownerVars == <<owner, pos>>
announcerVars == <<announcer, apos>>
runnerVars == <<runner, sender_endpoint, request, todo>>

(***************************************************************************)
(* Namespaces are numbered in the iteration order of the std::map.  A      *)
(* search target is a namespace, ssdp:all or something not registered.     *)
(***************************************************************************)
Namespace == 1..NsCount
SSDP_NS_ALL == 0
Unregistered == NsCount + 1
Target == 0..(NsCount + 1)

\* Mutant: ssdp:all is taken for a namespace like any other.
Matching_NoAll(st) == {st} \cap Namespace
\* The namespaces handle_receive() answers for.
Matching(st) == IF st = SSDP_NS_ALL THEN Namespace ELSE {st} \cap Namespace

Datagram == [from : Endpoint, method : {"M-SEARCH", "NOTIFY", "other"},
             own : BOOLEAN, st : Target]

OwnerState == {"new", "connecting", "suppress", "announce", "idle", "join",
               "byebye", "members", "stop_io", "join_io", "gone"}

\* A position <<i, n>> in the two nested loops over rounds and namespaces.
Position == [i : 0..(NetworkCount - 1), n : Namespace]
Start == [i |-> 0, n |-> 1]
IsLast(p) == p.i = NetworkCount - 1 /\ p.n = NsCount
Succ_NoWrap(p) == [p EXCEPT !.n = @ + 1]
Succ(p) == IF p.n < NsCount THEN [p EXCEPT !.n = @ + 1]
                            ELSE [i |-> p.i + 1, n |-> 1]

TypeOK ==
    /\ owner \in OwnerState
    /\ pos \in Position
    /\ announce_thread_run \in BOOLEAN
    /\ announcer \in {"off", "check", "send", "sleep", "done"}
    /\ apos \in Position
    /\ runner \in {"off", "armed", "handle", "reply", "rearm", "dead", "done"}
    /\ inbox \in Seq(Datagram)
    /\ sender_endpoint \in Endpoint
    /\ request \in Datagram
    /\ todo \in SUBSET Namespace
    /\ namespaces \in {"live", "destroyed"}
    /\ wire \in [Namespace -> {"none", "ssdp:alive", "ssdp:byebye"}]
    /\ status \in {"up", "aborted", "crashed", "terminated", "exited"}

Init ==
    /\ owner = "new"
    /\ pos = Start
    /\ announce_thread_run = TRUE
    /\ announcer = "off"
    /\ apos = Start
    /\ runner = "off"
    /\ inbox = <<>>
    /\ sender_endpoint \in Endpoint
    /\ request \in [from : {sender_endpoint}, method : {"other"},
                    own : {FALSE}, st : {Unregistered}]
    /\ todo = {}
    /\ namespaces = "live"
    /\ wire = [n \in Namespace |-> "none"]
    /\ status = "up"
-----------------------------------------------------------------------------
(***************************************************************************)
(* Multicasting.  The message carries Nt, Nts and the Usn built from them. *)
(***************************************************************************)
send_anounce(n) == wire' = [wire EXCEPT ![n] = "ssdp:alive"]
send_suppress(n) == wire' = [wire EXCEPT ![n] = "ssdp:byebye"]

\* One pass of the loop body of suppress(), run by the owner at control
\* point `here'; the call returns to `next'.
suppress(here, next) ==
    /\ status = "up"
    /\ owner = here
    /\ send_suppress(pos.n)
    /\ IF IsLast(pos) THEN owner' = next /\ pos' = Start
                      ELSE owner' = owner /\ pos' = Succ(pos)
    /\ UNCHANGED <<announce_thread_run, announcerVars, runnerVars, inbox,
                   namespaces, status>>

\* Mutant: announce() ends with the withdrawal.
announce_suppress_Only == suppress("suppress", "idle")
\* announce() runs suppress() and then sends the alive messages.
announce_suppress == suppress("suppress", "announce")

announce ==
    /\ status = "up"
    /\ owner = "announce"
    /\ send_anounce(pos.n)
    /\ IF IsLast(pos) THEN owner' = "idle" /\ pos' = Start
                      ELSE owner' = owner /\ pos' = Succ(pos)
    /\ UNCHANGED <<announce_thread_run, announcerVars, runnerVars, inbox,
                   namespaces, status>>

\* Multicasting opens a socket and sends on it without catching the
\* exception a failure throws: whichever thread runs it, the process ends.
SendThrows ==
    /\ status = "up"
    /\ owner \in {"suppress", "announce", "byebye"} \/ announcer = "send"
    /\ status' = "terminated"
    /\ UNCHANGED <<ownerVars, announce_thread_run, announcerVars, runnerVars,
                   inbox, namespaces, wire>>
-----------------------------------------------------------------------------
(***************************************************************************)
(* The owner: construction, and destruction in the order of the destructor *)
(* body and then of the members (namespaces before connection).            *)
(***************************************************************************)
\* The connection's constructor starts the runner; only when it has returned
\* is the member `connection', which the handlers use, assigned.
Construct ==
    /\ status = "up"
    /\ owner = "new"
    /\ owner' = "connecting"
    /\ runner' = "armed"
    /\ UNCHANGED <<pos, announce_thread_run, announcerVars, inbox,
                   sender_endpoint, request, todo, namespaces, wire, status>>

\* `connection' is assigned and the announcer started; main then calls
\* announce().
StartAnnouncer ==
    /\ status = "up"
    /\ owner = "connecting"
    /\ owner' = "suppress"
    /\ announce_thread_run' = TRUE
    /\ announcer' = "check"
    /\ UNCHANGED <<pos, apos, runnerVars, inbox, namespaces, wire, status>>

\* Opening, binding or joining the multicast group fails.
ConstructThrows ==
    /\ status = "up"
    /\ owner = "new"
    /\ status' = "terminated"
    /\ UNCHANGED <<ownerVars, announce_thread_run, announcerVars, runnerVars,
                   inbox, namespaces, wire>>

\* Mutant: the announcer is not told to stop.
Destroy_FlagKept ==
    /\ status = "up"
    /\ owner = "idle"
    /\ owner' = "join"
    /\ UNCHANGED <<pos, announce_thread_run, announcerVars, runnerVars, inbox,
                   namespaces, wire, status>>

Destroy ==
    /\ status = "up"
    /\ owner = "idle"
    /\ announce_thread_run' = FALSE
    /\ owner' = "join"
    /\ UNCHANGED <<pos, announcerVars, runnerVars, inbox, namespaces, wire,
                   status>>

\* Mutant: the thread is detached instead of joined.
AnnouncerEnded_Detached == TRUE
AnnouncerEnded == announcer = "done"

JoinAnnouncer ==
    /\ status = "up"
    /\ owner = "join"
    /\ AnnouncerEnded
    /\ owner' = "byebye"
    /\ UNCHANGED <<pos, announce_thread_run, announcerVars, runnerVars, inbox,
                   namespaces, wire, status>>

DestroySuppress == suppress("byebye", "members")

DestroyNamespaces ==
    /\ status = "up"
    /\ owner = "members"
    /\ namespaces' = "destroyed"
    /\ owner' = "stop_io"
    /\ UNCHANGED <<pos, announce_thread_run, announcerVars, runnerVars, inbox,
                   wire, status>>

\* ~SSDPServerConnection: io_service.stop(), then join the runner.
StopIo ==
    /\ status = "up"
    /\ owner = "stop_io"
    /\ owner' = "join_io"
    /\ UNCHANGED <<pos, announce_thread_run, announcerVars, runnerVars, inbox,
                   namespaces, wire, status>>

\* Mutant: the thread is detached instead of joined.
RunnerEnded_Detached == TRUE
RunnerEnded == runner \in {"dead", "done"}

JoinRunner ==
    /\ status = "up"
    /\ owner = "join_io"
    /\ RunnerEnded
    /\ owner' = "gone"
    /\ UNCHANGED <<pos, announce_thread_run, announcerVars, runnerVars, inbox,
                   namespaces, wire, status>>
-----------------------------------------------------------------------------
(***************************************************************************)
(* The announcer thread: while the flag is set, announce when the timer    *)
(* has elapsed, then sleep.                                                *)
(***************************************************************************)
CheckTimer ==
    /\ status = "up"
    /\ announcer = "check"
    /\ announcer' \in IF announce_thread_run THEN {"send", "sleep"}
                                             ELSE {"done"}
    /\ UNCHANGED <<ownerVars, announce_thread_run, apos, runnerVars, inbox,
                   namespaces, wire, status>>

Reannounce ==
    /\ status = "up"
    /\ announcer = "send"
    /\ send_anounce(apos.n)
    /\ IF IsLast(apos) THEN announcer' = "sleep" /\ apos' = Start
                       ELSE announcer' = announcer /\ apos' = Succ(apos)
    /\ UNCHANGED <<ownerVars, announce_thread_run, runnerVars, inbox,
                   namespaces, status>>

Wake ==
    /\ status = "up"
    /\ announcer = "sleep"
    /\ announcer' = "check"
    /\ UNCHANGED <<ownerVars, announce_thread_run, apos, runnerVars, inbox,
                   namespaces, wire, status>>
-----------------------------------------------------------------------------
(***************************************************************************)
(* The runner thread.  One receive is outstanding at a time; it writes the *)
(* shared sender_endpoint and is only started again when the handler is    *)
(* through with the request.                                               *)
(***************************************************************************)
Stopped == owner \in {"join_io", "gone"}

\* Mutant: the next receive is started before the handler has answered.
handle_receive_from_Early ==
    /\ status = "up"
    /\ runner \in {"armed", "reply"}
    /\ ~Stopped
    /\ inbox # <<>>
    /\ sender_endpoint' = Head(inbox).from
    /\ request' = IF runner = "armed" THEN Head(inbox) ELSE request
    /\ inbox' = Tail(inbox)
    /\ runner' = IF runner = "armed" THEN "handle" ELSE runner
    /\ UNCHANGED <<ownerVars, announce_thread_run, announcerVars, todo,
                   namespaces, wire, status>>

handle_receive_from ==
    /\ status = "up"
    /\ runner = "armed"
    /\ ~Stopped
    /\ inbox # <<>>
    /\ sender_endpoint' = Head(inbox).from
    /\ request' = Head(inbox)
    /\ inbox' = Tail(inbox)
    /\ runner' = "handle"
    /\ UNCHANGED <<ownerVars, announce_thread_run, announcerVars, todo,
                   namespaces, wire, status>>

\* A receive that completes with an error is not followed by another one.
ReceiveError ==
    /\ status = "up"
    /\ runner = "armed"
    /\ ~Stopped
    /\ runner' = "dead"
    /\ UNCHANGED <<ownerVars, announce_thread_run, announcerVars, inbox,
                   sender_endpoint, request, todo, namespaces, wire, status>>

handle_receive ==
    /\ status = "up"
    /\ runner = "handle"
    /\ \/ /\ request.own \/ request.method = "NOTIFY"
          /\ runner' = "rearm"
          /\ UNCHANGED <<todo, status>>
       \/ /\ ~request.own /\ request.method = "M-SEARCH"
          /\ todo' = Matching(request.st)
          /\ runner' = "reply"
          /\ UNCHANGED status
       \/ /\ ~request.own /\ request.method = "other"
          /\ status' = "aborted"      \* assert ( false )
          /\ UNCHANGED <<runner, todo>>
    /\ UNCHANGED <<ownerVars, announce_thread_run, announcerVars, inbox,
                   sender_endpoint, request, namespaces, wire>>

\* The next response in map order goes out, or its failure is logged.
Reply ==
    /\ status = "up"
    /\ runner = "reply"
    /\ owner # "connecting"
    /\ \E n \in todo : /\ \A m \in todo : n <= m
                       /\ todo' = todo \ {n}
    /\ UNCHANGED <<ownerVars, announce_thread_run, announcerVars, runner,
                   inbox, sender_endpoint, request, namespaces, wire, status>>

\* Answering faults while `connection' is still null, and may fault, or go on
\* as if the memory were intact, when the map has been destroyed.
ReplyFaults ==
    /\ status = "up"
    /\ \/ runner = "reply" /\ todo # {} /\ owner = "connecting"
       \/ /\ namespaces = "destroyed"
          /\ \/ runner = "reply"
             \/ runner = "handle" /\ ~request.own /\ request.method = "M-SEARCH"
    /\ status' = "crashed"
    /\ UNCHANGED <<ownerVars, announce_thread_run, announcerVars, runnerVars,
                   inbox, namespaces, wire>>

Replied ==
    /\ status = "up"
    /\ runner = "reply"
    /\ todo = {}
    /\ runner' = "rearm"
    /\ UNCHANGED <<ownerVars, announce_thread_run, announcerVars, inbox,
                   sender_endpoint, request, todo, namespaces, wire, status>>

Rearm ==
    /\ status = "up"
    /\ runner = "rearm"
    /\ runner' = "armed"
    /\ UNCHANGED <<ownerVars, announce_thread_run, announcerVars, inbox,
                   sender_endpoint, request, todo, namespaces, wire, status>>

\* After io_service.stop(), run() returns once no handler is executing.
RunReturns ==
    /\ status = "up"
    /\ runner = "armed"
    /\ Stopped
    /\ runner' = "done"
    /\ UNCHANGED <<ownerVars, announce_thread_run, announcerVars, inbox,
                   sender_endpoint, request, todo, namespaces, wire, status>>
-----------------------------------------------------------------------------
(***************************************************************************)
(* The environment: datagrams reach the bound socket, the server's own     *)
(* NOTIFYs among them once it has multicast something, and the process is  *)
(* interrupted (signalHandler calls exit(), and before it is installed     *)
(* SIGINT kills the process: either way no destructor runs).               *)
(***************************************************************************)
Arrivals ==
    {d \in Datagram :
        /\ d.method # "M-SEARCH" => d.st = Unregistered
        /\ d.own => /\ d.method = "NOTIFY"
                    /\ \E n \in Namespace : wire[n] # "none"}

Arrive ==
    /\ status = "up"
    /\ owner \notin {"new", "gone"}
    /\ Len(inbox) < SockBuf
    /\ \E d \in Arrivals : inbox' = Append(inbox, d)
    /\ UNCHANGED <<ownerVars, announce_thread_run, announcerVars, runnerVars,
                   namespaces, wire, status>>

Interrupt ==
    /\ status = "up"
    /\ owner # "gone"
    /\ status' = "exited"
    /\ UNCHANGED <<ownerVars, announce_thread_run, announcerVars, runnerVars,
                   inbox, namespaces, wire>>
-----------------------------------------------------------------------------
OwnerRuns == \/ StartAnnouncer \/ announce_suppress \/ announce
             \/ JoinAnnouncer \/ DestroySuppress \/ DestroyNamespaces
             \/ StopIo \/ JoinRunner
AnnouncerRuns == CheckTimer \/ Reannounce \/ Wake
RunnerRuns == \/ handle_receive_from \/ handle_receive \/ Reply \/ Replied
              \/ Rearm \/ RunReturns

Next ==
    \/ OwnerRuns
    \/ AnnouncerRuns
    \/ RunnerRuns
    \/ Construct \/ ConstructThrows \/ Destroy
    \/ SendThrows \/ ReceiveError \/ ReplyFaults
    \/ Arrive \/ Interrupt

\* Every started thread is scheduled; nothing obliges the owner to construct
\* or destroy the object, a send to fail or a datagram to arrive.
Fairness == WF_vars(OwnerRuns) /\ WF_vars(AnnouncerRuns) /\ WF_vars(RunnerRuns)

Spec == Init /\ [][Next]_vars
FairSpec == Spec /\ Fairness
-----------------------------------------------------------------------------
(***************************************************************************)
(* Properties.                                                             *)
(***************************************************************************)
\* While the runner works on a request, sender_endpoint, to which send()
\* addresses every response, is the endpoint that request came from: no
\* later datagram redirects the answer.
ReplyToSearcher ==
    runner \in {"handle", "reply"} => sender_endpoint = request.from

\* Once announce() has returned and until the destructor withdraws them,
\* every namespace was last multicast as alive, although suppress() ran first
\* and the announcer was multicasting at the same time.
AliveInService ==
    owner \in {"idle", "join"} => \A n \in Namespace : wire[n] = "ssdp:alive"

\* After the destructor's suppress() no namespace is left announced: the
\* announcer cannot slip an alive in behind the byebye.
ByeIsFinal ==
    owner \in {"members", "stop_io", "join_io", "gone"} =>
        \A n \in Namespace : wire[n] = "ssdp:byebye"

\* A bad memory access is confined to two windows: before the constructor has
\* assigned `connection', and between the destruction of `namespaces' and the
\* join of the runner.  A server in service, or one that is gone, has none.
FaultsAtEdgesOnly ==
    status = "crashed" => owner \in {"connecting", "stop_io", "join_io"}

\* The destructor, once entered, completes unless the process dies: neither
\* the announcer's nor the runner's join waits for ever.
ShutdownCompletes == owner = "join" ~> (owner = "gone" \/ status # "up")

\* No receive will complete any more.
Deaf == runner \in {"dead", "done"} \/ status # "up"

\* A search the socket has buffered is taken up for every namespace it asks
\* for, and then answered for all of them, unless the server has stopped
\* receiving by an error or for good: no datagram before it blocks it.
SearchAnswered ==
    /\ \A from \in Endpoint, st \in Target :
           LET d == [from |-> from, method |-> "M-SEARCH", own |-> FALSE, st |-> st]
           IN  (inbox # <<>> /\ Head(inbox) = d) ~>
                   \/ /\ runner = "reply" /\ request = d
                      /\ \A n \in Namespace : st \in {SSDP_NS_ALL, n} => n \in todo
                   \/ Deaf
    /\ runner = "reply" ~> (runner = "rearm" /\ todo = {}) \/ Deaf

\* The threads together implement the multicast stream Advertisement promises.
Phase == CASE owner \in {"idle", "join"} -> "serving"
           [] owner = "byebye" -> "leaving"
           [] owner \in {"members", "stop_io", "join_io", "gone"} -> "left"
           [] OTHER -> "fresh"
Adv == INSTANCE Advertisement WITH adv <- wire, phase <- Phase
ImplementsAdvertisement == Adv!Spec

\* The stop the destructor's comment and suppress() promise, for the unicast
\* side: no search response advertises the device behind the last byebye.
SilentAfterSuppress ==
    [][runner = "reply" /\ todo' # todo =>
           owner \notin {"members", "stop_io", "join_io"}]_vars
=============================================================================
