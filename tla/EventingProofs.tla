---------------------------- MODULE EventingProofs ----------------------------
(***************************************************************************)
(* Initial events, for any number of control points and requests.          *)
(***************************************************************************)
EXTENDS Eventing, FiniteSetTheorems, SequenceTheorems, TLAPS

\* The places of a queue that hold a SUBSCRIBE of e.
Queued(s, e) == {i \in DOMAIN s : s[i].method = "SUBSCRIBE" /\ At(s[i]) = e}
InHand(e) == IF worker # <<>> /\ At(worker[1]) = e THEN 1 ELSE 0
-----------------------------------------------------------------------------
(***************************************************************************)
(* The inductive invariant.                                                *)
(***************************************************************************)
\* TypeOK without the bounds that follow from the rest.
TypeInv ==
    /\ sub \in {"starting", "listening", "down"}
    /\ channel \in Seq(Message)
    /\ worker \in {<<>>} \union (Message \X {"sleep", "notify"})
    /\ zadd \in SUBSET ControlPoint
    /\ persisted \in SUBSET ControlPoint
    /\ failed \in BOOLEAN
    /\ response \in [Each -> {"none", "due", "sent"}]
    /\ requests \in [ControlPoint -> 0..MaxRequests]
    /\ subscribes \in [Each -> Nat]
    /\ events \in [Each -> Nat]

\* Every SUBSCRIBE is one of its control point's requests.
RequestsInv ==
    \A c \in ControlPoint :
        subscribes[<<c, "cds">>] + subscribes[<<c, "cms">>] <= requests[c]

\* The ZADD of a cds subscription is sent before its event.
Remembered(c) == c \in zadd \/ c \in persisted \/ failed
RememberInv ==
    /\ \A c \in ControlPoint : events[<<c, "cds">>] > 0 => Remembered(c)
    /\ worker # <<>> /\ worker[1].service = "cds" => Remembered(worker[1].cp)

IInv == TypeInv /\ RequestsInv /\ EventsAccounted /\ RememberInv
-----------------------------------------------------------------------------
(***************************************************************************)
(* The queue.                                                              *)
(***************************************************************************)
\* A queue holds finitely many messages, an empty one none.
LEMMA QueuedFinite ==
    ASSUME NEW s \in Seq(Message), NEW e
    PROVE  /\ IsFiniteSet(Queued(s, e))
           /\ Cardinality(Queued(s, e)) \in Nat
           /\ s = <<>> => Cardinality(Queued(s, e)) = 0
<1>1. Queued(s, e) \in SUBSET (1..Len(s)) /\ Len(s) \in Nat
  BY LenProperties DEF Queued
<1>2. IsFiniteSet(1..Len(s))
  BY <1>1, FS_Interval
<1>3. IsFiniteSet(Queued(s, e)) /\ Cardinality(Queued(s, e)) \in Nat
  BY <1>1, <1>2, FS_Subset, FS_CardinalityType
<1>4. s = <<>> => Queued(s, e) = {}
  BY DEF Queued
<1> QED
  BY <1>3, <1>4, FS_EmptySet

\* publish() adds the message to those that are queued.
LEMMA QueuedAppend ==
    ASSUME NEW s \in Seq(Message), NEW m \in Message, NEW e
    PROVE  Cardinality(Queued(Append(s, m), e)) = Cardinality(Queued(s, e))
               + (IF m.method = "SUBSCRIBE" /\ At(m) = e THEN 1 ELSE 0)
<1> DEFINE n == Len(s) + 1
<1>1. /\ Len(s) \in Nat /\ DOMAIN s = 1..Len(s) /\ DOMAIN Append(s, m) = 1..n
      /\ \A i \in 1..Len(s) : Append(s, m)[i] = s[i]
      /\ Append(s, m)[n] = m
  BY LenProperties
<1>2. Queued(Append(s, m), e) =
          IF m.method = "SUBSCRIBE" /\ At(m) = e THEN Queued(s, e) \union {n}
                                                 ELSE Queued(s, e)
  BY <1>1 DEF Queued
<1>3. n \notin Queued(s, e)
  BY <1>1 DEF Queued
<1>4. Cardinality(Queued(s, e) \union {n}) = Cardinality(Queued(s, e)) + 1
  BY <1>3, QueuedFinite, FS_AddElement
<1> QED
  BY <1>2, <1>4, QueuedFinite

\* Taking the first message leaves the others.
LEMMA QueuedTail ==
    ASSUME NEW s \in Seq(Message), s # <<>>, NEW e
    PROVE  Cardinality(Queued(s, e)) = Cardinality(Queued(Tail(s), e))
               + (IF Head(s).method = "SUBSCRIBE" /\ At(Head(s)) = e THEN 1 ELSE 0)
<1> DEFINE S == Queued(Tail(s), e)
           T == Queued(s, e) \ {1}
           f == [i \in S |-> i + 1]
<1>1. /\ Len(s) \in Nat \ {0} /\ DOMAIN s = 1..Len(s)
      /\ DOMAIN Tail(s) = 1..(Len(s) - 1)
      /\ \A i \in 1..(Len(s) - 1) : Tail(s)[i] = s[i + 1]
      /\ Head(s) = s[1] /\ Tail(s) \in Seq(Message)
  BY LenProperties, EmptySeq
<1>2. \A i \in S : i \in Nat /\ f[i] = i + 1 /\ f[i] \in T
  BY <1>1 DEF Queued
<1>3. \A j \in T : j - 1 \in S /\ f[j - 1] = j
  <2> TAKE j \in T
  <2>1. j \in 2..Len(s) /\ s[j].method = "SUBSCRIBE" /\ At(s[j]) = e
    BY <1>1 DEF Queued
  <2>2. j - 1 \in 1..(Len(s) - 1) /\ (j - 1) + 1 = j
    BY <2>1, <1>1
  <2>3. Tail(s)[j - 1] = s[j]
    BY <2>2, <1>1
  <2> QED
    BY <2>1, <2>2, <2>3, <1>1 DEF Queued
<1>4. f \in Bijection(S, T)
  <2>1. f \in [S -> T]
    BY <1>2
  <2>2. \A i, j \in S : f[i] = f[j] => i = j
    BY <1>2
  <2>3. \A j \in T : \E i \in S : f[i] = j
    BY <1>3
  <2> HIDE DEF f, S, T
  <2> QED
    BY <2>1, <2>2, <2>3 DEF Bijection, Injection, IsInjective, Surjection
<1>5. IsFiniteSet(S) /\ Cardinality(T) = Cardinality(S)
  <2>1. IsFiniteSet(S)
    BY <1>1, QueuedFinite
  <2> HIDE DEF f, S, T
  <2> QED
    BY <2>1, <1>4, FS_Bijection DEF ExistsBijection
<1>6. 1 \in Queued(s, e) <=> Head(s).method = "SUBSCRIBE" /\ At(Head(s)) = e
  BY <1>1 DEF Queued
<1>7. Cardinality(T) = IF 1 \in Queued(s, e) THEN Cardinality(Queued(s, e)) - 1
                                             ELSE Cardinality(Queued(s, e))
  BY QueuedFinite, FS_RemoveElement
<1> QED
  BY <1>5, <1>6, <1>7, QueuedFinite
-----------------------------------------------------------------------------
(***************************************************************************)
(* Init and the steps.                                                     *)
(***************************************************************************)
LEMMA InvInit == Init => IInv
<1> SUFFICES ASSUME Init PROVE IInv
  OBVIOUS
<1>1. TypeInv
  <2>1. requests \in [ControlPoint -> 0..MaxRequests]
    BY EventingConstants DEF Init
  <2>2. channel \in Seq(Message)
    BY EmptySeq DEF Init
  <2>3. /\ response \in [Each -> {"none", "due", "sent"}]
        /\ subscribes \in [Each -> Nat] /\ events \in [Each -> Nat]
    BY DEF Init
  <2> QED
    BY <2>1, <2>2, <2>3 DEF Init, TypeInv
<1>2. RequestsInv
  BY DEF Init, RequestsInv, Each, Service
<1>3. EventsAccounted
  <2> SUFFICES ASSUME NEW e \in Each
               PROVE  events[e] + Underway(e) <= subscribes[e]
    BY DEF EventsAccounted
  <2>1. Cardinality(Queued(channel, e)) = 0
    BY QueuedFinite, EmptySeq DEF Init
  <2>2. Underway(e) = 0
    BY <2>1 DEF Init, Underway, Queued
  <2> QED
    BY <2>2 DEF Init
<1>4. RememberInv
  BY DEF Init, RememberInv, Each, Service
<1> QED
  BY <1>1, <1>2, <1>3, <1>4 DEF IInv

\* The count of events to come is in the terms of the queue.
LEMMA UnderwayQueued ==
    /\ \A e : Underway(e) = Cardinality(Queued(channel, e)) + InHand(e)
    /\ \A e : Underway(e)' = Cardinality(Queued(channel', e)) + InHand(e)'
BY DEF Underway, Queued, InHand

\* A step that touches neither the queue nor the subscriber.
LEMMA OutsideStep ==
    ASSUME IInv, TypeInv',
           UNCHANGED <<worker, subscribes, events>>,
           channel' \in {channel, <<>>},
           \A c \in ControlPoint : requests[c] <= requests'[c],
           \A c \in ControlPoint : Remembered(c) => Remembered(c)'
    PROVE  IInv'
<1>1. RequestsInv'
  <2> SUFFICES ASSUME NEW c \in ControlPoint
               PROVE  subscribes[<<c, "cds">>] + subscribes[<<c, "cms">>]
                          <= requests'[c]
    BY DEF RequestsInv
  <2>1. /\ subscribes[<<c, "cds">>] \in Nat /\ subscribes[<<c, "cms">>] \in Nat
        /\ requests[c] \in Nat /\ requests'[c] \in Nat
    BY DEF IInv, TypeInv, Each, Service
  <2> QED
    BY <2>1 DEF IInv, RequestsInv
<1>2. EventsAccounted'
  <2> SUFFICES ASSUME NEW e \in Each
               PROVE  events[e] + Underway(e)' <= subscribes[e]
    BY DEF EventsAccounted
  <2>1. events[e] + Underway(e) <= subscribes[e] /\ InHand(e)' = InHand(e)
        /\ InHand(e) \in Nat
    BY DEF IInv, EventsAccounted, InHand
  <2>2. Cardinality(Queued(channel', e)) <= Cardinality(Queued(channel, e))
        /\ Cardinality(Queued(channel', e)) \in Nat
        /\ Cardinality(Queued(channel, e)) \in Nat
    BY QueuedFinite DEF IInv, TypeInv
  <2>3. events[e] \in Nat /\ subscribes[e] \in Nat
    BY DEF IInv, TypeInv
  <2> QED
    BY <2>1, <2>2, <2>3, UnderwayQueued
<1>3. RememberInv'
  <2>1. worker # <<>> => worker[1].cp \in ControlPoint
    BY DEF IInv, TypeInv, Message
  <2> QED
    BY <2>1 DEF IInv, RememberInv
<1> QED
  BY <1>1, <1>2, <1>3 DEF IInv

\* A request counts as one of its control point's.
LEMMA Received ==
    ASSUME TypeInv, NEW e \in Each, Receive(e)
    PROVE  /\ requests' \in [ControlPoint -> 0..MaxRequests]
           /\ \A c \in ControlPoint :
                  requests'[c] = IF c = e[1] THEN requests[c] + 1 ELSE requests[c]
<1>1. e[1] \in ControlPoint
  BY DEF Each
<1>2. \A c \in ControlPoint : requests[c] \in 0..MaxRequests
  BY DEF TypeInv
<1>3. requests[e[1]] + 1 \in 0..MaxRequests
  BY <1>1, <1>2, EventingConstants DEF Receive
<1>4. /\ requests' = [requests EXCEPT ![e[1]] = @ + 1]
      /\ requests \in [ControlPoint -> 0..MaxRequests]
  BY DEF Receive, TypeInv
<1> QED
  BY <1>1, <1>3, <1>4

\* A SUBSCRIBE is counted when it is queued, if it is queued at all.
LEMMA RequestStep ==
    ASSUME IInv, NEW m \in Message, Request(m)
    PROVE  IInv'
<1> DEFINE isSub == m.method = "SUBSCRIBE"
           n(e) == IF isSub /\ At(m) = e THEN 1 ELSE 0
<1>1. At(m) \in Each /\ At(m)[1] = m.cp /\ m.cp \in ControlPoint /\ m.service \in Service
  BY DEF At, Each, Message
<1>2. Receive(At(m)) /\ TypeInv /\ channel \in Seq(Message)
  BY DEF Request, IInv, TypeInv
<1>3. \A e \in Each : subscribes'[e] = subscribes[e] + n(e)
  BY <1>1, <1>2 DEF Request, TypeInv
<1>4. TypeInv'
  <2>1. requests' \in [ControlPoint -> 0..MaxRequests]
    BY <1>1, <1>2, Received
  <2>2. channel' \in Seq(Message)
    BY <1>2 DEF Request, publish
  <2>3. subscribes' \in [Each -> Nat]
    BY <1>1, <1>2 DEF Request, TypeInv
  <2>4. response' \in [Each -> {"none", "due", "sent"}]
    BY <1>1, <1>2 DEF Request, TypeInv
  <2> QED
    BY <1>2, <2>1, <2>2, <2>3, <2>4 DEF Request, TypeInv
<1>5. RequestsInv'
  <2> SUFFICES ASSUME NEW c \in ControlPoint
               PROVE  subscribes'[<<c, "cds">>] + subscribes'[<<c, "cms">>]
                          <= requests'[c]
    BY DEF RequestsInv
  <2>1. /\ <<c, "cds">> \in Each /\ <<c, "cms">> \in Each
        /\ subscribes[<<c, "cds">>] \in Nat /\ subscribes[<<c, "cms">>] \in Nat
        /\ requests[c] \in Nat
    BY <1>2 DEF Each, Service, TypeInv
  <2>2. subscribes[<<c, "cds">>] + subscribes[<<c, "cms">>] <= requests[c]
    BY DEF IInv, RequestsInv
  <2>3. requests'[c] = IF c = m.cp THEN requests[c] + 1 ELSE requests[c]
    BY <1>1, <1>2, Received
  <2>4. n(<<c, "cds">>) + n(<<c, "cms">>) <= IF c = m.cp THEN 1 ELSE 0
    BY DEF At
  <2> HIDE DEF n
  <2>5. n(<<c, "cds">>) \in Nat /\ n(<<c, "cms">>) \in Nat
    BY DEF n
  <2>6. /\ subscribes'[<<c, "cds">>] = subscribes[<<c, "cds">>] + n(<<c, "cds">>)
        /\ subscribes'[<<c, "cms">>] = subscribes[<<c, "cms">>] + n(<<c, "cms">>)
    BY <1>3, <2>1
  <2> QED
    BY <2>1, <2>2, <2>3, <2>4, <2>5, <2>6
<1>6. EventsAccounted'
  <2> SUFFICES ASSUME NEW e \in Each
               PROVE  events'[e] + Underway(e)' <= subscribes'[e]
    BY DEF EventsAccounted
  <2>1. /\ Underway(e)' = Cardinality(Queued(channel', e)) + InHand(e)'
        /\ Underway(e) = Cardinality(Queued(channel, e)) + InHand(e)
        /\ events[e] + Underway(e) <= subscribes[e]
    BY UnderwayQueued DEF IInv, EventsAccounted
  <2>2. InHand(e)' = InHand(e) /\ InHand(e) \in Nat /\ events' = events
    BY DEF Request, InHand
  <2>3. Cardinality(Queued(channel', e)) <= Cardinality(Queued(channel, e)) + n(e)
        /\ Cardinality(Queued(channel', e)) \in Nat
        /\ Cardinality(Queued(channel, e)) \in Nat
    BY <1>2, <1>4, QueuedAppend, QueuedFinite DEF Request, publish, TypeInv
  <2>4. n(e) \in Nat /\ events[e] \in Nat /\ subscribes[e] \in Nat
    BY <1>2 DEF TypeInv
  <2>5. subscribes'[e] = subscribes[e] + n(e)
    BY <1>3
  <2> HIDE DEF n
  <2> QED
    BY <2>1, <2>2, <2>3, <2>4, <2>5
<1>7. RememberInv'
  BY DEF IInv, Request, RememberInv, Remembered
<1> QED
  BY <1>4, <1>5, <1>6, <1>7 DEF IInv

\* A step of the subscriber that hands on, sends or gives up an event.
LEMMA SubscriberStep ==
    ASSUME IInv, TypeInv', RememberInv', UNCHANGED <<requests, subscribes>>,
           \A e \in Each : events'[e] + Underway(e)' <= events[e] + Underway(e)
    PROVE  IInv'
<1>1. RequestsInv'
  BY DEF IInv, RequestsInv
<1>2. EventsAccounted'
  <2> SUFFICES ASSUME NEW e \in Each
               PROVE  events'[e] + Underway(e)' <= subscribes[e]
    BY DEF EventsAccounted
  <2>1. /\ events[e] + Underway(e) <= subscribes[e]
        /\ events'[e] + Underway(e)' <= events[e] + Underway(e)
    BY DEF IInv, EventsAccounted
  <2>2. /\ events[e] \in Nat /\ events'[e] \in Nat /\ subscribes[e] \in Nat
    BY DEF IInv, TypeInv
  <2>3. Underway(e) \in Nat /\ Underway(e)' \in Nat
    <3>1. InHand(e) \in Nat /\ InHand(e)' \in Nat
      BY DEF InHand
    <3>2. /\ Cardinality(Queued(channel, e)) \in Nat
          /\ Cardinality(Queued(channel', e)) \in Nat
      BY QueuedFinite DEF IInv, TypeInv
    <3> QED
      BY <3>1, <3>2, UnderwayQueued
  <2> QED
    BY <2>1, <2>2, <2>3
<1> QED
  BY <1>1, <1>2 DEF IInv

LEMMA TakeStep == ASSUME IInv, Take PROVE IInv'
<1> DEFINE m == Head(channel)
<1>1. /\ channel \in Seq(Message) /\ channel # <<>> /\ worker = <<>>
      /\ channel' = Tail(channel) /\ m \in Message /\ Tail(channel) \in Seq(Message)
  BY HeadTailProperties DEF Take, IInv, TypeInv
<1>2. \/ /\ m.method = "SUBSCRIBE"
         /\ zadd' = Persisting(m)
         /\ worker' = <<m, IF m.service = "cds" THEN "notify" ELSE "sleep">>
      \/ m.method = "UNSUBSCRIBE" /\ UNCHANGED <<worker, zadd>>
  BY DEF Take
<1>3. zadd \subseteq zadd' /\ zadd' \in SUBSET ControlPoint
  BY <1>1, <1>2 DEF Persisting, Message, IInv, TypeInv
<1>4. TypeInv'
  <2>1. worker' \in {<<>>} \union (Message \X {"sleep", "notify"})
    BY <1>1, <1>2
  <2> QED
    BY <1>1, <1>3, <2>1 DEF Take, IInv, TypeInv
<1>5. RememberInv'
  <2>1. /\ \A c \in ControlPoint : events[<<c, "cds">>] > 0 => Remembered(c)
        /\ UNCHANGED <<events, persisted, failed>>
    BY DEF Take, IInv, RememberInv
  <2>2. \A c \in ControlPoint : Remembered(c) => Remembered(c)'
    BY <1>3, <2>1 DEF Remembered
  <2>3. worker' # <<>> /\ worker'[1].service = "cds" => worker'[1].cp \in zadd'
    BY <1>1, <1>2 DEF Persisting
  <2> QED
    BY <2>1, <2>2, <2>3 DEF RememberInv, Remembered
<1>6. ASSUME NEW e \in Each
      PROVE  events'[e] + Underway(e)' <= events[e] + Underway(e)
  <2> DEFINE q == Cardinality(Queued(channel, e))
             r == Cardinality(Queued(Tail(channel), e))
             n == IF m.method = "SUBSCRIBE" /\ At(m) = e THEN 1 ELSE 0
  <2>1. q = r + n /\ q \in Nat /\ r \in Nat /\ n \in Nat
    BY <1>1, QueuedTail, QueuedFinite
  <2>2. InHand(e) = 0
    BY <1>1 DEF InHand
  <2>3. InHand(e)' = n
    BY <1>1, <1>2 DEF InHand
  <2>4. Underway(e) = q + InHand(e) /\ Underway(e)' = r + InHand(e)'
    BY <1>1, UnderwayQueued
  <2>5. events' = events /\ events[e] \in Nat
    BY DEF Take, IInv, TypeInv
  <2> HIDE DEF q, r, n
  <2> QED
    BY <2>1, <2>2, <2>3, <2>4, <2>5
<1> QED
  BY <1>4, <1>5, <1>6, SubscriberStep DEF Take

LEMMA SleptStep == ASSUME IInv, Slept PROVE IInv'
<1>1. /\ worker \in Message \X {"sleep", "notify"}
      /\ worker' = <<worker[1], "notify">> /\ worker' # <<>> /\ worker'[1] = worker[1]
  BY DEF Slept, IInv, TypeInv
<1>2. TypeInv'
  BY <1>1 DEF Slept, IInv, TypeInv
<1>3. RememberInv'
  BY <1>1 DEF Slept, IInv, RememberInv, Remembered
<1>4. ASSUME NEW e \in Each
      PROVE  events'[e] + Underway(e)' <= events[e] + Underway(e)
  <2>1. Underway(e)' = Underway(e) /\ events' = events /\ events[e] \in Nat
    BY <1>1 DEF Slept, Underway, IInv, TypeInv
  <2>2. Underway(e) \in Nat
    <3>1. InHand(e) \in Nat
      BY DEF InHand
    <3>2. Cardinality(Queued(channel, e)) \in Nat
      BY QueuedFinite DEF IInv, TypeInv
    <3> QED
      BY <3>1, <3>2, UnderwayQueued
  <2> QED
    BY <2>1, <2>2
<1> QED
  BY <1>2, <1>3, <1>4, SubscriberStep DEF Slept

\* The event that gets through, or is lost, is no longer underway.
LEMMA NotifyStep == ASSUME IInv, Notify \/ NotifyFails PROVE IInv'
<1> DEFINE w == worker[1]
<1>1. /\ worker # <<>> /\ worker' = <<>> /\ w \in Message
      /\ UNCHANGED <<sub, channel, zadd, persisted, failed, response, requests, subscribes>>
  BY DEF Notify, NotifyFails, IInv, TypeInv
<1>2. At(w) \in Each /\ w.cp \in ControlPoint
  BY <1>1 DEF At, Each, Message
<1>3. /\ events' \in [Each -> Nat]
      /\ \A e \in Each : events'[e] \in {events[e], events[e] + InHand(e)}
  <2>1. events \in [Each -> Nat] /\ InHand(At(w)) = 1
    BY <1>1 DEF IInv, TypeInv, InHand
  <2>2. CASE events' = events
    BY <2>1, <2>2
  <2>3. CASE events' = [events EXCEPT ![At(w)] = @ + 1]
    BY <1>2, <2>1, <2>3
  <2> QED
    BY <2>2, <2>3 DEF Notify, NotifyFails
<1>4. TypeInv'
  BY <1>1, <1>3 DEF IInv, TypeInv
<1>5. RememberInv'
  <2> SUFFICES ASSUME NEW c \in ControlPoint, events'[<<c, "cds">>] > 0
               PROVE  Remembered(c)
    BY <1>1 DEF RememberInv, Remembered
  <2>1. <<c, "cds">> \in Each /\ events[<<c, "cds">>] \in Nat
    BY DEF Each, Service, IInv, TypeInv
  <2>2. CASE events[<<c, "cds">>] > 0
    BY <2>2 DEF IInv, RememberInv
  <2>3. CASE At(w) = <<c, "cds">>
    BY <1>1, <2>3 DEF At, IInv, RememberInv
  <2>4. CASE events[<<c, "cds">>] = 0 /\ At(w) # <<c, "cds">>
    BY <1>1, <1>3, <2>1, <2>4 DEF InHand
  <2> QED
    BY <2>1, <2>2, <2>3, <2>4
<1>6. ASSUME NEW e \in Each
      PROVE  events'[e] + Underway(e)' <= events[e] + Underway(e)
  <2> HIDE DEF w
  <2>0. InHand(e)' = 0 /\ InHand(e) \in Nat
    BY <1>1 DEF InHand
  <2>1. /\ events[e] \in Nat /\ events'[e] \in Nat
        /\ events'[e] <= events[e] + InHand(e)
    <3>1. events[e] \in Nat /\ events'[e] \in {events[e], events[e] + InHand(e)}
      BY <1>3 DEF IInv, TypeInv
    <3> QED
      BY <3>1, <2>0
  <2>2. Cardinality(Queued(channel, e)) \in Nat /\ channel' = channel
    BY <1>1, QueuedFinite DEF IInv, TypeInv
  <2>3. /\ Underway(e) = Cardinality(Queued(channel, e)) + InHand(e)
        /\ Underway(e)' = Cardinality(Queued(channel, e)) + InHand(e)'
    BY <2>2, UnderwayQueued
  <2> QED
    BY <2>0, <2>1, <2>2, <2>3
<1> QED
  BY <1>1, <1>4, <1>5, <1>6, SubscriberStep

LEMMA PersistStep ==
    ASSUME IInv, NEW c \in ControlPoint, Persist(c) PROVE IInv'
<1>1. TypeInv' /\ UNCHANGED <<worker, subscribes, events, channel, requests>>
  BY DEF Persist, IInv, TypeInv
<1>2. \A d \in ControlPoint : Remembered(d) => Remembered(d)'
  BY DEF Persist, Remembered
<1>3. \A d \in ControlPoint : requests[d] <= requests'[d]
  BY <1>1 DEF IInv, TypeInv
<1> QED
  BY <1>1, <1>2, <1>3, OutsideStep

LEMMA ConnectionStep == ASSUME IInv, Connect \/ Disconnect PROVE IInv'
<1>1. /\ UNCHANGED <<worker, subscribes, events, requests, zadd, persisted, failed>>
      /\ channel' \in {channel, <<>>}
  BY DEF Connect, Disconnect
<1>2. TypeInv'
  BY EmptySeq DEF Connect, Disconnect, IInv, TypeInv
<1>3. \A d \in ControlPoint : requests[d] <= requests'[d]
  BY <1>1 DEF IInv, TypeInv
<1> QED
  BY <1>1, <1>2, <1>3, OutsideStep DEF Remembered

\* Requests that publish nothing, and responses.
LEMMA HandlerStep ==
    ASSUME IInv, NEW e \in Each, NoCallback(e) \/ BadCallback(e) \/ Respond(e)
    PROVE  IInv'
<1>1. UNCHANGED <<worker, subscribes, events, channel, zadd, persisted, failed>>
  BY DEF NoCallback, BadCallback, Respond
<1>2. /\ requests' \in [ControlPoint -> 0..MaxRequests]
      /\ \A d \in ControlPoint : requests[d] <= requests'[d]
  <2>1. TypeInv /\ \A d \in ControlPoint : requests[d] \in Nat
    BY DEF IInv, TypeInv
  <2>2. CASE Receive(e)
    BY <2>1, <2>2, Received
  <2>3. CASE UNCHANGED requests
    BY <2>1, <2>3 DEF TypeInv
  <2> QED
    BY <2>2, <2>3 DEF NoCallback, BadCallback, Respond
<1>3. TypeInv'
  BY <1>1, <1>2 DEF NoCallback, BadCallback, Respond, IInv, TypeInv
<1> QED
  BY <1>1, <1>2, <1>3, OutsideStep DEF Remembered

LEMMA InvStep == IInv /\ [Next]_vars => IInv'
<1> SUFFICES ASSUME IInv, [Next]_vars PROVE IInv'
  OBVIOUS
<1>1. ASSUME NEW m \in Message, Request(m) PROVE IInv'
  BY <1>1, RequestStep
<1>2. ASSUME NEW e \in Each, NoCallback(e) \/ BadCallback(e) \/ Respond(e) PROVE IInv'
  BY <1>2, HandlerStep
<1>3. CASE Connect \/ Disconnect
  BY <1>3, ConnectionStep
<1>4. CASE SubscriberRuns
  BY <1>4, TakeStep, SleptStep, NotifyStep DEF SubscriberRuns
<1>5. ASSUME NEW c \in ControlPoint, Persist(c) PROVE IInv'
  BY <1>5, PersistStep
<1>6. CASE UNCHANGED vars
  BY <1>6 DEF vars, IInv, TypeInv, RequestsInv, EventsAccounted, Underway,
              RememberInv, Remembered
<1> QED
  BY <1>1, <1>2, <1>3, <1>4, <1>5, <1>6 DEF Next

LEMMA Invariance == Spec => []IInv
BY InvInit, InvStep, PTL DEF Spec
-----------------------------------------------------------------------------
\* The bounds in TypeOK: nobody gets more events than it made requests.
LEMMA Bounded == IInv => TypeOK
<1> SUFFICES ASSUME IInv PROVE TypeOK
  OBVIOUS
<1>1. ASSUME NEW e \in Each
      PROVE  subscribes[e] \in 0..MaxRequests /\ events[e] \in 0..MaxRequests
  <2>1. e[1] \in ControlPoint /\ e \in {<<e[1], "cds">>, <<e[1], "cms">>}
    BY DEF Each, Service
  <2>2. /\ subscribes[<<e[1], "cds">>] \in Nat /\ subscribes[<<e[1], "cms">>] \in Nat
        /\ requests[e[1]] \in 0..MaxRequests /\ MaxRequests \in Nat /\ events[e] \in Nat
    BY <2>1, EventingConstants DEF IInv, TypeInv, Each, Service
  <2>3. subscribes[<<e[1], "cds">>] + subscribes[<<e[1], "cms">>] <= requests[e[1]]
    BY <2>1 DEF IInv, RequestsInv
  <2>4. subscribes[e] \in 0..MaxRequests
    BY <2>1, <2>2, <2>3
  <2>5. Underway(e) \in Nat
    <3>1. InHand(e) \in Nat
      BY DEF InHand
    <3>2. Cardinality(Queued(channel, e)) \in Nat
      BY QueuedFinite DEF IInv, TypeInv
    <3> QED
      BY <3>1, <3>2, UnderwayQueued
  <2>6. events[e] + Underway(e) <= subscribes[e]
    BY DEF IInv, EventsAccounted
  <2> QED
    BY <2>2, <2>4, <2>5, <2>6
<1> QED
  BY <1>1 DEF IInv, TypeInv, TypeOK

\* The state of the handlers, the channel and the subscriber is well-formed,
\* and no counter of requests, subscriptions or events outruns the requests.
THEOREM TypeCorrect == Spec => []TypeOK
BY Invariance, Bounded, PTL

\* No control point gets an initial event it did not subscribe for, nor two for
\* one SUBSCRIBE: every event is the one the subscriber thread took from the
\* channel, and the handler published each message once.
THEOREM OneEventEach == Spec => []EventsAccounted
<1>1. IInv => EventsAccounted
  BY DEF IInv
<1> QED
  BY <1>1, Invariance, PTL

\* Who has got its initial cds event is stored, once redis has executed the
\* ZADDs and unless one has failed.
THEOREM Stored == Spec => []CdsRemembered
<1>1. IInv => CdsRemembered
  BY DEF IInv, RememberInv, Remembered, CdsRemembered
<1> QED
  BY <1>1, Invariance, PTL
=============================================================================
