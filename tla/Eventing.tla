------------------------------ MODULE Eventing ------------------------------
(***************************************************************************)
(* Event subscriptions.  The handler of a SUBSCRIBE, on a thread of the    *)
(* web server, publishes the callback on a redis channel and answers; the  *)
(* subscriber thread of the same server takes it from there, has the       *)
(* callback of a cds subscription stored, and sends the initial event.     *)
(*                                                                         *)
(* Redis keeps nothing for a subscriber that is not connected.  The thread *)
(* handles one message at a time and waits for the control point's answer. *)
(***************************************************************************)
EXTENDS Naturals, Sequences, SequencesExt, FiniteSets

CONSTANTS ControlPoint,
          MaxRequests   \* bound: requests of each control point

ASSUME EventingConstants == MaxRequests \in Nat

Service == {"cds", "cms"}
Method == {"SUBSCRIBE", "UNSUBSCRIBE"}
Message == [method : Method, service : Service, cp : ControlPoint]

VARIABLES
    sub,        \* sub_: "starting", "listening" or "down"
    channel,    \* messages on the way to the subscriber thread
    worker,     \* what its callback is at: <<>>, or <<a message, a step>>
    zadd,       \* ZADDs sent and not yet executed
    persisted,  \* upnp:event:cds
    failed,     \* a ZADD has failed
    response,   \* the request's response: "none", "due" or "sent"
    requests,   \* SUBSCRIBEs and UNSUBSCRIBEs made
    subscribes, \* SUBSCRIBEs made
    events      \* initial events received

vars == <<sub, channel, worker, zadd, persisted, failed, response, requests,
          subscribes, events>>

Each == ControlPoint \X Service

TypeOK ==
    /\ sub \in {"starting", "listening", "down"}
    /\ channel \in Seq(Message)
    /\ worker \in {<<>>} \union (Message \X {"sleep", "notify"})
    /\ zadd \in SUBSET ControlPoint
    /\ persisted \in SUBSET ControlPoint
    /\ failed \in BOOLEAN
    /\ response \in [Each -> {"none", "due", "sent"}]
    /\ requests \in [ControlPoint -> 0..MaxRequests]
    /\ subscribes \in [Each -> 0..MaxRequests]
    /\ events \in [Each -> 0..MaxRequests]

Init ==
    /\ sub = "starting"
    /\ channel = <<>>
    /\ worker = <<>>
    /\ zadd = {}
    /\ persisted = {}
    /\ failed = FALSE
    /\ response = [e \in Each |-> "none"]
    /\ requests = [c \in ControlPoint |-> 0]
    /\ subscribes = [e \in Each |-> 0]
    /\ events = [e \in Each |-> 0]
-----------------------------------------------------------------------------
(***************************************************************************)
(* The handlers of the web server.                                         *)
(***************************************************************************)
At(m) == <<m.cp, m.service>>

\* The next request of a control point comes in.
Receive(e) ==
    /\ response[e] # "due"
    /\ requests[e[1]] < MaxRequests
    /\ requests' = [requests EXCEPT ![e[1]] = @ + 1]

publish(m) == channel' = IF sub = "listening" THEN Append(channel, m) ELSE channel

\* cds() and cms() publish the callback, without its brackets, and answer.
Request(m) ==
    /\ Receive(At(m))
    /\ publish(m)
    /\ subscribes' = IF m.method = "SUBSCRIBE"
                     THEN [subscribes EXCEPT ![At(m)] = @ + 1] ELSE subscribes
    /\ response' = [response EXCEPT ![At(m)] = "due"]
    /\ UNCHANGED <<sub, worker, zadd, persisted, failed, events>>

\* A request without Callback is answered, but nothing is published.
NoCallback(e) ==
    /\ Receive(e)
    /\ response' = [response EXCEPT ![e] = "due"]
    /\ UNCHANGED <<sub, channel, worker, zadd, persisted, failed, subscribes, events>>

\* A Callback that is only the opening bracket throws out of the handler.
BadCallback(e) ==
    /\ Receive(e)
    /\ UNCHANGED <<sub, channel, worker, zadd, persisted, failed, response,
                   subscribes, events>>

Respond(e) ==
    /\ response[e] = "due"
    /\ response' = [response EXCEPT ![e] = "sent"]
    /\ UNCHANGED <<sub, channel, worker, zadd, persisted, failed, requests,
                   subscribes, events>>
-----------------------------------------------------------------------------
(***************************************************************************)
(* The subscriber.  A failure to connect is logged, a connection that is   *)
(* lost is not made again.                                                 *)
(***************************************************************************)
Connect ==
    /\ sub = "starting"
    /\ sub' \in {"listening", "down"}
    /\ UNCHANGED <<channel, worker, zadd, persisted, failed, response, requests,
                   subscribes, events>>

Disconnect ==
    /\ sub = "listening"
    /\ sub' = "down"
    /\ channel' = <<>>
    /\ UNCHANGED <<worker, zadd, persisted, failed, response, requests,
                   subscribes, events>>

\* Mutant: the callback of a cds subscription is not stored.
Persisting_Nothing(m) == zadd
\* ZADD, sent without waiting for its reply: only for cds.
Persisting(m) == IF m.service = "cds" THEN zadd \union {m.cp} ELSE zadd

\* The next message's callback begins; UNSUBSCRIBE is only logged.
Take ==
    /\ worker = <<>>
    /\ channel # <<>>
    /\ channel' = Tail(channel)
    /\ LET m == Head(channel)
       IN  \/ /\ m.method = "SUBSCRIBE"
              /\ zadd' = Persisting(m)
              /\ worker' = <<m, IF m.service = "cds" THEN "notify" ELSE "sleep">>
           \/ /\ m.method = "UNSUBSCRIBE"
              /\ UNCHANGED <<worker, zadd>>
    /\ UNCHANGED <<sub, persisted, failed, response, requests, subscribes, events>>

\* Mutant: the callback of a cms subscription goes on sleeping.
Slept_Never ==
    /\ worker # <<>> /\ worker[2] = "sleep"
    /\ UNCHANGED vars
Slept ==
    /\ worker # <<>> /\ worker[2] = "sleep"
    /\ worker' = <<worker[1], "notify">>
    /\ UNCHANGED <<sub, channel, zadd, persisted, failed, response, requests,
                   subscribes, events>>

\* Mutant: the event is sent again although it has arrived.
Notify_Again ==
    /\ worker # <<>> /\ worker[2] = "notify"
    /\ events' = [events EXCEPT ![At(worker[1])] = @ + 1]
    /\ UNCHANGED <<sub, channel, worker, zadd, persisted, failed, response,
                   requests, subscribes>>
\* The initial event; the callback returns with the control point's answer.
Notify ==
    /\ worker # <<>> /\ worker[2] = "notify"
    /\ events' = [events EXCEPT ![At(worker[1])] = @ + 1]
    /\ worker' = <<>>
    /\ UNCHANGED <<sub, channel, zadd, persisted, failed, response, requests,
                   subscribes>>

\* An event that does not get through is logged and not repeated.
NotifyFails ==
    /\ worker # <<>> /\ worker[2] = "notify"
    /\ worker' = <<>>
    /\ UNCHANGED <<sub, channel, zadd, persisted, failed, response, requests,
                   subscribes, events>>

\* Redis executes a ZADD, or it fails, which nobody looks at.
Persist(c) ==
    /\ c \in zadd
    /\ zadd' = zadd \ {c}
    /\ \/ persisted' = persisted \union {c} /\ UNCHANGED failed
       \/ failed' = TRUE /\ UNCHANGED persisted
    /\ UNCHANGED <<sub, channel, worker, response, requests, subscribes, events>>
-----------------------------------------------------------------------------
SubscriberRuns == Take \/ Slept \/ Notify \/ NotifyFails

Next ==
    \/ \E m \in Message : Request(m)
    \/ \E e \in Each : NoCallback(e) \/ BadCallback(e) \/ Respond(e)
    \/ Connect \/ Disconnect
    \/ SubscriberRuns
    \/ \E c \in ControlPoint : Persist(c)

\* The subscriber thread is scheduled and every exchange with a control point
\* ends, with an answer or an error.
Fairness == WF_vars(SubscriberRuns)

Spec == Init /\ [][Next]_vars
FairSpec == Spec /\ Fairness
-----------------------------------------------------------------------------
\* Initial events of e that may still come.
Underway(e) ==
    Cardinality({i \in DOMAIN channel : channel[i].method = "SUBSCRIBE"
                                       /\ At(channel[i]) = e})
      + (IF worker # <<>> /\ At(worker[1]) = e THEN 1 ELSE 0)

\* No control point gets an initial event it did not subscribe for, nor two
\* for one SUBSCRIBE, whatever is queued and whichever exchange fails.
EventsAccounted == \A e \in Each : events[e] + Underway(e) <= subscribes[e]

\* A control point that has got its initial cds event is stored, once redis
\* has executed what it was sent: UNSUBSCRIBE and other subscribers' failures
\* do not lose it.
CdsRemembered ==
    \A c \in ControlPoint :
        events[<<c, "cds">>] > 0 /\ c \notin zadd /\ ~failed => c \in persisted

\* A published subscription gets its turn, however many control points that
\* do not answer are before it, as long as the subscriber is connected.
Dispatched ==
    \A e \in Each :
        LET m == [method |-> "SUBSCRIBE", service |-> e[2], cp |-> e[1]]
        IN  m \in Range(channel) ~> ((worker # <<>> /\ worker[1] = m) \/ sub = "down")
=============================================================================
