------------------------- MODULE SsdpPresenceProofs -------------------------
(***************************************************************************)
(* Proofs about SsdpPresence for every timing that satisfies               *)
(* PresenceConstants, the code's 60 s, 5 s and 1800 s among them, and any  *)
(* setting of the clock.                                                   *)
(***************************************************************************)
EXTENDS SsdpPresence, TLAPS

\* What the arithmetic needs of the derived bounds.
LEMMA Bounds ==
  /\ Round \in Nat /\ Round < UInt
  /\ Period \in Nat
  /\ Bound = (MaxLost + 1) * Period + Delay
  /\ Bound \in Nat
  /\ Lifetime \in Nat
  /\ Bound < Lifetime
<1>1. Round \in Nat
  BY PresenceConstants DEF Round
<1>2. Period \in Nat
  BY <1>1, PresenceConstants DEF Period
<1>3. (MaxLost + 1) * Period \in Nat
  BY <1>2, PresenceConstants
<1> QED
  BY <1>1, <1>2, <1>3, PresenceConstants DEF Bound, Lifetime

\* Settings of the clock cost one round each.
LEMMA SetSteps ==
  ASSUME NEW k \in 0..MaxSet
  PROVE  /\ k * Round \in Nat
         /\ (k + 1) * Round = k * Round + Round
         /\ (k + 1) * Round <= Period
<1>1. k \in Nat /\ Round \in Nat /\ MaxSet \in Nat /\ k <= MaxSet
  BY Bounds, PresenceConstants
<1>2. k * Round \in Nat
  BY <1>1
<1>3. (k + 1) * Round = k * Round + Round
  BY <1>1
<1>4. PICK d \in Nat : MaxSet = k + d
  <2>1. MaxSet - k \in Nat /\ MaxSet = k + (MaxSet - k)
    BY <1>1
  <2> QED
    BY <2>1
<1>5. Period = (k + 1) * Round + d * Round
  BY <1>1, <1>4 DEF Period
<1>6. d * Round \in Nat
  BY <1>1, <1>4
<1>7. \A a, b, c \in Int : a = b + c /\ c \in Nat => b <= a
  OBVIOUS
<1>8. (k + 1) * Round \in Int /\ Period \in Int
  BY <1>1, Bounds
<1>9. (k + 1) * Round <= Period
  BY <1>5, <1>6, <1>7, <1>8
<1> QED
  BY <1>2, <1>3, <1>9

\* Losses in a row cost one period each.
LEMMA LossSteps ==
  ASSUME NEW k \in 0..MaxLost
  PROVE  /\ k * Period \in Nat
         /\ (k + 1) * Period = k * Period + Period
         /\ (k + 1) * Period <= (MaxLost + 1) * Period
<1>1. k \in Nat /\ Period \in Nat /\ MaxLost \in Nat /\ k <= MaxLost
  BY Bounds, PresenceConstants
<1>2. k * Period \in Nat
  BY <1>1
<1>3. (k + 1) * Period = k * Period + Period
  BY <1>1
<1>4. PICK d \in Nat : MaxLost = k + d
  <2>1. MaxLost - k \in Nat /\ MaxLost = k + (MaxLost - k)
    BY <1>1
  <2> QED
    BY <2>1
<1>5. (MaxLost + 1) * Period = (k + 1) * Period + d * Period
  BY <1>1, <1>4
<1>6. d * Period \in Nat
  BY <1>1, <1>4
<1>7. \A a, b, c \in Int : a = b + c /\ c \in Nat => b <= a
  OBVIOUS
<1>8. (k + 1) * Period \in Int /\ (MaxLost + 1) * Period \in Int
  BY <1>1
<1>9. (k + 1) * Period <= (MaxLost + 1) * Period
  BY <1>5, <1>6, <1>7, <1>8
<1> QED
  BY <1>2, <1>3, <1>9

\* Sleeping after a pass that found the timer short of Interval, or that has
\* just reset it, keeps the next pass within a round by the clock.
LEMMA NextPass ==
  ASSUME NEW e \in Nat, e < Interval \/ e = 0, NEW n \in 0..(Sleep + Slack)
  PROVE  e + n <= Round
<1>1. Interval \in Nat /\ Sleep \in Nat /\ Slack \in Nat
  BY PresenceConstants
<1> QED
  BY <1>1 DEF Round
-----------------------------------------------------------------------------
(***************************************************************************)
(* The inductive invariant.                                                *)
(***************************************************************************)
\* Each setting of the clock costs a round at most. Until the next pass after a
\* setting, nothing is known of the reading; then it is less than Interval, and
\* it has lost no more than that.
TimerBound ==
    server # "down" =>
        \/ elapsed + nap <= set * Round
        \/ elapsed <= set * Round + reading /\ reading + nap <= Round

\* The silence is explained: by an announcement under way that is as old as
\* the excess over the losses, or by the losses so far and the running timer.
Explained ==
    \/ \E m \in air : /\ m.nts = "ssdp:alive"
                      /\ silence <= (MaxLost + 1) * Period + m.age
    \/ silence <= lost * Period + elapsed

SilenceBound == server = "up" => Explained

\* What the control point holds is as old as its silence.
EntryAge == server = "up" /\ heard => ttl = Lifetime - silence

\* Whatever is under way was sent before the server went down, and an entry
\* written by the last of it expires a lifetime later.
StaleEntry ==
    server = "down" =>
        /\ \A m \in air : downFor <= m.age
        /\ downFor > Delay => ttl <= Lifetime + Delay - downFor

IInv ==
    /\ TypeOK
    /\ TimerBound
    /\ SilenceBound
    /\ EntryAge
    /\ StaleEntry
-----------------------------------------------------------------------------
\* A silence that is explained is bounded.
LEMMA SilenceBounded ==
  ASSUME TypeOK, Explained
  PROVE  silence <= Bound
<1>1. /\ (MaxLost + 1) * Period \in Nat /\ Delay \in Nat /\ silence \in Nat
      /\ Bound = (MaxLost + 1) * Period + Delay
  BY Bounds, PresenceConstants DEF TypeOK
<1>2. CASE \E m \in air : /\ m.nts = "ssdp:alive"
                         /\ silence <= (MaxLost + 1) * Period + m.age
  <2>1. PICK m \in air : silence <= (MaxLost + 1) * Period + m.age
    BY <1>2
  <2>2. m.age \in 0..Delay
    BY DEF TypeOK, Datagram
  <2> QED
    BY <1>1, <2>1, <2>2
<1>3. CASE silence <= lost * Period + elapsed
  <2>1. /\ lost \in 0..MaxLost /\ elapsed \in 0..Period /\ Period \in Nat
        /\ lost * Period \in Nat
        /\ (lost + 1) * Period = lost * Period + Period
        /\ (lost + 1) * Period <= (MaxLost + 1) * Period
    BY LossSteps, Bounds DEF TypeOK
  <2>2. silence <= lost * Period + Period
    BY <1>1, <1>3, <2>1
  <2>3. \A a, b, c, d, e \in Int : a <= b /\ c = b /\ c <= d /\ e >= 0 => a <= d + e
    OBVIOUS
  <2> QED
    BY <1>1, <2>1, <2>2, <2>3
<1> QED
  BY <1>2, <1>3 DEF Explained

\* The announcer comes round within a period.
LEMMA TimerPeriod ==
  ASSUME TypeOK, TimerBound, server # "down"
  PROVE  elapsed + nap <= (set + 1) * Round /\ elapsed + nap <= Period
<1> DEFINE a == set * Round
           b == (set + 1) * Round
<1>1. /\ a \in Nat /\ b = a + Round /\ b <= Period /\ Round \in Nat /\ Period \in Nat
      /\ elapsed \in Nat /\ nap \in Nat /\ reading \in Nat
  BY SetSteps, Bounds, PresenceConstants DEF TypeOK
<1>2. \/ elapsed + nap <= a
      \/ elapsed <= a + reading /\ reading + nap <= Round
  BY DEF TimerBound
<1> HIDE DEF a, b
<1>3. elapsed + nap <= b /\ elapsed + nap <= Period
  BY <1>1, <1>2
<1> QED
  BY <1>3 DEF b

\* Taking the time starts a round.
LEMMA TimeTaken ==
  ASSUME TakeTime, nap' \in 0..(Sleep + Slack)
  PROVE  TimerBound'
<1>1. elapsed' = 0 /\ reading' = 0 /\ set' = 0
  BY DEF TakeTime
<1>2. 0 * Round = 0
  BY Bounds
<1>3. 0 + nap' <= Round
  BY NextPass
<1>4. elapsed' <= set' * Round + reading' /\ reading' + nap' <= Round
  BY <1>1, <1>2, <1>3
<1> QED
  BY <1>4 DEF TimerBound

\* The invariant holds initially.
LEMMA InvInit == Init => IInv
<1> SUFFICES ASSUME Init PROVE IInv
  OBVIOUS
<1>1. TypeOK
  <2>1. /\ 0 \in 0..Period /\ 0 \in 0..(Sleep + Slack) /\ 0 \in 0..MaxLost
        /\ 0 \in 0..Lifetime /\ 0 \in 0..(Lifetime + Delay) /\ 0 \in Nat
        /\ 0 \in 0..(UInt - 1) /\ 0 \in 0..MaxSet
    BY PresenceConstants, Bounds
  <2> QED
    BY <2>1 DEF Init, TypeOK
<1>2. TimerBound /\ SilenceBound /\ EntryAge
  BY DEF Init, TimerBound, SilenceBound, EntryAge
<1>3. StaleEntry
  BY PresenceConstants DEF Init, StaleEntry
<1> QED
  BY <1>1, <1>2, <1>3 DEF IInv

\* A new datagram is well typed.
LEMMA FreshTyped ==
  /\ Fresh("ssdp:alive") \in Datagram /\ Fresh("ssdp:byebye") \in Datagram
  /\ Fresh("ssdp:alive").nts = "ssdp:alive" /\ Fresh("ssdp:alive").age = 0
  BY PresenceConstants DEF Fresh, Datagram

\* An announcement is well typed, whatever else is sent with it.
LEMMA AnnounceTyped ==
  ASSUME TypeOK, NEW bye \in SUBSET {Fresh("ssdp:byebye")}, Announce(air \union bye)
  PROVE  air' \in SUBSET Datagram /\ lost' \in 0..MaxLost
  BY FreshTyped, PresenceConstants DEF TypeOK, Announce

\* An announcement at the end of a period keeps the silence explained: it is
\* itself under way, or one more loss pays for the period that has passed.
LEMMA AnnounceExplains ==
  ASSUME TypeOK, Explained, Announce(air), elapsed <= Period,
         elapsed' = 0, silence' = silence
  PROVE  Explained'
<1>1. lost \in 0..MaxLost /\ silence \in Nat /\ elapsed \in Nat /\ Period \in Nat
  BY Bounds DEF TypeOK
<1>2. air \subseteq air'
  BY DEF Announce
<1>3. CASE \E m \in air : /\ m.nts = "ssdp:alive"
                         /\ silence <= (MaxLost + 1) * Period + m.age
  BY <1>2, <1>3 DEF Explained
<1>4. CASE silence <= lost * Period + elapsed
  <2>1. silence <= (lost + 1) * Period
    BY <1>1, <1>4, LossSteps
  <2>2. CASE air' = air \union {Fresh("ssdp:alive")} /\ lost' = 0
    <3>1. silence <= (MaxLost + 1) * Period
      <4>1. /\ (lost + 1) * Period <= (MaxLost + 1) * Period
            /\ (lost + 1) * Period \in Int /\ (MaxLost + 1) * Period \in Int
        BY <1>1, LossSteps, PresenceConstants
      <4>2. \A a, b, c \in Int : a <= b /\ b <= c => a <= c
        OBVIOUS
      <4> QED
        BY <1>1, <2>1, <4>1, <4>2
    <3>2. (MaxLost + 1) * Period \in Nat
      BY <1>1, PresenceConstants
    <3>3. silence <= (MaxLost + 1) * Period + Fresh("ssdp:alive").age
      BY <1>1, <3>1, <3>2, FreshTyped
    <3> QED
      BY <2>2, <3>3, FreshTyped DEF Explained
  <2>3. CASE lost' = lost + 1
    <3>1. silence' <= lost' * Period + elapsed'
      <4>1. (lost + 1) * Period \in Int
        BY <1>1
      <4> QED
        BY <1>1, <2>1, <2>3, <4>1
    <3> QED
      BY <3>1 DEF Explained
  <2> QED
    BY <2>2, <2>3 DEF Announce
<1> QED
  BY <1>3, <1>4 DEF Explained

\* Time adds the same to the silence and to both explanations of it.
LEMMA TickExplains ==
  ASSUME IInv, Tick, server = "up"
  PROVE  Explained'
<1>1. /\ silence' = silence + 1 /\ elapsed' = elapsed + 1 /\ lost' = lost
      /\ silence \in Nat /\ elapsed \in Nat /\ lost * Period \in Nat
      /\ (MaxLost + 1) * Period \in Nat
  BY Bounds, LossSteps, PresenceConstants DEF Tick, IInv, TypeOK
<1>2. CASE \E m \in air : /\ m.nts = "ssdp:alive"
                         /\ silence <= (MaxLost + 1) * Period + m.age
  <2>1. PICK m \in air : /\ m.nts = "ssdp:alive"
                         /\ silence <= (MaxLost + 1) * Period + m.age
    BY <1>2
  <2> DEFINE n == [m EXCEPT !.age = @ + 1]
  <2>2. n \in air'
    BY DEF Tick
  <2>3. m \in Datagram
    BY DEF IInv, TypeOK
  <2>4. n.nts = "ssdp:alive" /\ n.age = m.age + 1 /\ m.age \in Nat
    BY <2>1, <2>3, PresenceConstants DEF Datagram
  <2>5. silence' <= (MaxLost + 1) * Period + n.age
    BY <1>1, <2>1, <2>4
  <2> QED
    BY <2>2, <2>4, <2>5 DEF Explained
<1>3. CASE silence <= lost * Period + elapsed
  BY <1>1, <1>3 DEF Explained
<1> QED
  BY <1>2, <1>3 DEF IInv, SilenceBound, Explained
-----------------------------------------------------------------------------
(***************************************************************************)
(* One lemma per action.                                                   *)
(***************************************************************************)
\* A start resets the clocks; what is under way from before cannot matter.
LEMMA StartStep == IInv /\ Start => IInv'
<1> SUFFICES ASSUME IInv, Start PROVE IInv'
  OBVIOUS
<1>1. /\ server' = "up" /\ elapsed' = 0 /\ reading' = 0 /\ set' = 0
      /\ nap' \in 0..(Sleep + Slack)
      /\ heard' = FALSE /\ silence' = 0 /\ downFor' = 0 /\ ttl' = ttl
  BY PresenceConstants DEF Start, TakeTime
<1>2. air' \in SUBSET Datagram /\ lost' \in 0..MaxLost
  BY AnnounceTyped DEF Start, IInv
<1>3. TypeOK'
  <2>1. /\ 0 \in 0..Period /\ 0 \in 0..(Lifetime + Delay)
        /\ 0 \in 0..(UInt - 1) /\ 0 \in 0..MaxSet
    BY Bounds, PresenceConstants
  <2> QED
    BY <1>1, <1>2, <2>1 DEF IInv, TypeOK
<1>4. TimerBound'
  BY <1>1, TimeTaken DEF Start
<1>5. SilenceBound'
  <2>1. lost' * Period \in Nat
    BY <1>2, LossSteps
  <2> QED
    BY <1>1, <2>1 DEF SilenceBound, Explained
<1>6. EntryAge' /\ StaleEntry'
  BY <1>1 DEF EntryAge, StaleEntry
<1> QED
  BY <1>3, <1>4, <1>5, <1>6 DEF IInv

\* A pass of the announcer's loop.
LEMMA CheckTimerStep == IInv /\ CheckTimer => IInv'
<1> SUFFICES ASSUME IInv, CheckTimer PROVE IInv'
  OBVIOUS
<1>1. /\ server = "up" /\ nap' \in 0..(Sleep + Slack) /\ nap = 0
      /\ UNCHANGED <<server, ttl, heard, silence, downFor>>
  BY PresenceConstants DEF CheckTimer
<1>2. elapsed \in Nat /\ elapsed <= Period
  BY Bounds DEF IInv, TypeOK
<1>3. EntryAge' /\ StaleEntry'
  BY <1>1 DEF IInv, EntryAge, StaleEntry
<1>4. CASE Due
  <2>1. Announce(air) /\ TakeTime /\ elapsed' = 0 /\ reading' = 0 /\ set' = 0
    BY <1>4 DEF CheckTimer, TakeTime
  <2>2. air' \in SUBSET Datagram /\ lost' \in 0..MaxLost
    <3>1. air \union {} = air /\ {} \in SUBSET {Fresh("ssdp:byebye")}
      OBVIOUS
    <3> QED
      BY <2>1, <3>1, AnnounceTyped DEF IInv
  <2>3. TypeOK'
    <3>1. 0 \in 0..Period /\ 0 \in 0..(UInt - 1) /\ 0 \in 0..MaxSet
      BY Bounds, PresenceConstants
    <3> QED
      BY <1>1, <2>1, <2>2, <3>1 DEF IInv, TypeOK
  <2>4. TimerBound'
    BY <1>1, <2>1, TimeTaken
  <2>5. SilenceBound'
    BY <1>1, <1>2, <2>1, AnnounceExplains DEF IInv, SilenceBound
  <2> QED
    BY <1>3, <2>3, <2>4, <2>5 DEF IInv
<1>5. CASE ~Due
  <2>1. UNCHANGED <<air, lost, elapsed, reading, set>>
    BY <1>5 DEF CheckTimer
  <2>2. TypeOK'
    BY <1>1, <2>1 DEF IInv, TypeOK
  <2>3. TimerBound'
    <3> DEFINE a == set * Round
    <3>1. /\ a \in Nat /\ reading \in Nat /\ Interval \in Nat /\ Round \in Nat
      BY SetSteps, Bounds, PresenceConstants DEF IInv, TypeOK
    <3>2. reading < Interval
      BY <1>5, <3>1 DEF Due
    <3>3. reading + nap' <= Round
      BY <1>1, <3>1, <3>2, NextPass
    <3>4. \/ elapsed + nap <= a
          \/ elapsed <= a + reading /\ reading + nap <= Round
      BY <1>1 DEF IInv, TimerBound
    <3> HIDE DEF a
    <3>5. elapsed <= a + reading
      BY <1>1, <1>2, <3>1, <3>4
    <3> QED
      BY <2>1, <3>3, <3>5 DEF TimerBound, a
  <2>4. SilenceBound'
    BY <1>1, <2>1 DEF IInv, SilenceBound, Explained
  <2> QED
    BY <1>3, <2>2, <2>3, <2>4 DEF IInv
<1> QED
  BY <1>4, <1>5

\* An answer only adds to what is under way.
LEMMA AnswerStep == IInv /\ Answer => IInv'
<1> SUFFICES ASSUME IInv, Answer PROVE IInv'
  OBVIOUS
<1>1. /\ server # "down" /\ air \subseteq air'
      /\ UNCHANGED <<server, elapsed, reading, set, nap, lost, ttl, heard, silence, downFor>>
  BY DEF Answer
<1>2. TypeOK'
  BY <1>1, FreshTyped DEF Answer, IInv, TypeOK
<1>3. TimerBound' /\ EntryAge' /\ StaleEntry'
  BY <1>1 DEF IInv, TimerBound, EntryAge, StaleEntry
<1>4. SilenceBound'
  BY <1>1 DEF IInv, SilenceBound, Explained
<1> QED
  BY <1>2, <1>3, <1>4 DEF IInv

\* Going down, cleanly or not, starts the clock of the stale entry.
LEMMA StopStep == IInv /\ (Destroy \/ Suppress \/ Interrupt) => IInv'
<1> SUFFICES ASSUME IInv, Destroy \/ Suppress \/ Interrupt PROVE IInv'
  OBVIOUS
<1>1. CASE Destroy
  <2>1. /\ server = "up" /\ server' = "stopping"
        /\ UNCHANGED <<elapsed, reading, set, nap, lost, air, ttl, heard, silence, downFor>>
    BY <1>1 DEF Destroy
  <2> QED
    BY <2>1 DEF IInv, TypeOK, TimerBound, SilenceBound, EntryAge, StaleEntry
<1>2. CASE Suppress \/ Interrupt
  <2>1. /\ server' = "down" /\ downFor' = 0
        /\ UNCHANGED <<elapsed, reading, set, nap, lost, ttl, heard, silence>>
    BY <1>2 DEF Suppress, Interrupt
  <2>2. air' \in SUBSET Datagram
    BY <1>2, FreshTyped DEF Suppress, Interrupt, IInv, TypeOK
  <2>3. TypeOK'
    <3>1. 0 \in 0..(Lifetime + Delay)
      BY Bounds, PresenceConstants
    <3> QED
      BY <2>1, <2>2, <3>1 DEF IInv, TypeOK
  <2>4. StaleEntry'
    <3>1. \A m \in air' : 0 <= m.age
      BY <2>2, PresenceConstants DEF Datagram
    <3>2. ~(0 > Delay)
      BY PresenceConstants
    <3> QED
      BY <2>1, <3>1, <3>2 DEF StaleEntry
  <2> QED
    BY <2>1, <2>3, <2>4 DEF IInv, TimerBound, SilenceBound, EntryAge
<1> QED
  BY <1>1, <1>2

\* A delivery ends the silence; what it writes is no younger than its sender.
LEMMA DeliverStep == IInv /\ Deliver => IInv'
<1> SUFFICES ASSUME IInv, Deliver PROVE IInv'
  OBVIOUS
<1>1. PICK m \in air :
        /\ air' = air \ {m} \/ air' = air
        /\ IF m.nts = "ssdp:alive" THEN ttl' = Lifetime /\ heard' = (server = "up")
                                   ELSE ttl' = 0 /\ heard' = FALSE
        /\ silence' = 0
        /\ UNCHANGED <<server, elapsed, reading, set, nap, lost, downFor>>
  BY DEF Deliver
<1>2. air' \subseteq air
  BY <1>1
<1>3. ttl' \in 0..Lifetime
  BY <1>1, Bounds
<1>4. heard' \in BOOLEAN
  BY <1>1
<1>5. TypeOK'
  BY <1>1, <1>2, <1>3, <1>4 DEF IInv, TypeOK
<1>6. TimerBound'
  BY <1>1 DEF IInv, TimerBound
<1>7. SilenceBound'
  <2>1. lost * Period \in Nat /\ elapsed \in Nat
    BY LossSteps, Bounds DEF IInv, TypeOK
  <2> QED
    BY <1>1, <2>1 DEF SilenceBound, Explained
<1>8. EntryAge'
  <2>1. heard' => ttl' = Lifetime
    BY <1>1
  <2>2. Lifetime - silence' = Lifetime
    BY <1>1, Bounds
  <2> QED
    BY <2>1, <2>2 DEF EntryAge
<1>9. StaleEntry'
  <2> SUFFICES ASSUME server = "down"
               PROVE  /\ \A k \in air : downFor <= k.age
                      /\ ~(downFor > Delay)
    BY <1>1, <1>2 DEF StaleEntry
  <2>1. \A k \in air : downFor <= k.age
    BY DEF IInv, StaleEntry
  <2>2. m.age <= Delay /\ m.age \in Nat /\ downFor \in Nat
    BY PresenceConstants, Bounds DEF IInv, TypeOK, Datagram
  <2>3. downFor <= m.age
    BY <2>1
  <2> QED
    BY <2>1, <2>2, <2>3, PresenceConstants
<1> QED
  BY <1>5, <1>6, <1>7, <1>8, <1>9 DEF IInv

\* Time: datagrams, entry and clocks age together.
LEMMA TickStep == IInv /\ Tick => IInv'
<1> SUFFICES ASSUME IInv, Tick PROVE IInv'
  OBVIOUS
<1>1. /\ UNCHANGED <<server, set, lost, heard>>
      /\ ttl' = IF ttl > 0 THEN ttl - 1 ELSE 0
      /\ ttl \in 0..Lifetime /\ Lifetime \in Nat /\ Delay \in Nat
  BY Bounds, PresenceConstants DEF Tick, IInv, TypeOK
<1>2. \A k \in air' : \E m \in air : k.nts = m.nts /\ k.age = m.age + 1
  BY DEF Tick, IInv, TypeOK, Datagram
<1>3. air' \in SUBSET Datagram
  <2> SUFFICES ASSUME NEW m \in air PROVE [m EXCEPT !.age = @ + 1] \in Datagram
    BY DEF Tick
  <2>1. m \in Datagram /\ m.age < Delay
    BY DEF Tick, IInv, TypeOK
  <2>2. m.age + 1 \in 0..Delay
    BY <2>1, PresenceConstants DEF Datagram
  <2> QED
    BY <2>1, <2>2 DEF Datagram
<1>4. ttl' \in 0..Lifetime
  BY <1>1
<1>5. CASE server = "down"
  <2>1. /\ downFor' = IF downFor < Lifetime + Delay THEN downFor + 1 ELSE downFor
        /\ UNCHANGED <<elapsed, reading, nap, silence>>
        /\ downFor \in 0..(Lifetime + Delay)
    BY <1>5 DEF Tick, IInv, TypeOK
  <2>2. downFor' \in 0..(Lifetime + Delay)
    BY <1>1, <2>1
  <2>3. TypeOK'
    BY <1>1, <1>3, <1>4, <2>1, <2>2 DEF IInv, TypeOK
  <2>4. \A k \in air' : downFor' <= k.age
    <3> SUFFICES ASSUME NEW k \in air' PROVE downFor' <= k.age
      OBVIOUS
    <3>1. PICK m \in air : k.age = m.age + 1
      BY <1>2
    <3>2. downFor <= m.age /\ m.age \in Nat
      BY <1>5, PresenceConstants DEF IInv, StaleEntry, TypeOK, Datagram
    <3> QED
      BY <1>1, <2>1, <3>1, <3>2
  <2>5. downFor' > Delay => ttl' <= Lifetime + Delay - downFor'
    <3>1. downFor > Delay => ttl <= Lifetime + Delay - downFor
      BY <1>5 DEF IInv, StaleEntry
    <3> QED
      BY <1>1, <2>1, <2>2, <3>1
  <2> QED
    BY <1>1, <1>5, <2>3, <2>4, <2>5
    DEF IInv, TimerBound, SilenceBound, EntryAge, StaleEntry
<1>6. CASE server # "down"
  <2>1. /\ nap > 0 /\ nap' = nap - 1 /\ elapsed' = elapsed + 1
        /\ reading' = (reading + 1) % UInt
        /\ silence' = silence + 1 /\ UNCHANGED downFor
    BY <1>6 DEF Tick
  <2>2. /\ elapsed + nap <= Period /\ elapsed \in Nat /\ Period \in Nat
        /\ nap \in 0..(Sleep + Slack) /\ silence \in Nat
        /\ Sleep + Slack \in Nat
    BY <1>6, TimerPeriod, Bounds, PresenceConstants DEF IInv, TypeOK
  <2>3. /\ elapsed' \in 0..Period /\ nap' \in 0..(Sleep + Slack)
        /\ silence' \in Nat
    BY <2>1, <2>2
  <2>8. /\ UInt \in Nat /\ Round \in Nat /\ Round < UInt /\ reading \in 0..(UInt - 1)
        /\ set * Round \in Nat
    BY SetSteps, Bounds, PresenceConstants DEF IInv, TypeOK
  <2>9. /\ reading' \in 0..(UInt - 1)
        /\ reading + 1 < UInt => reading' = reading + 1
    BY <2>1, <2>8
  <2>4. TypeOK'
    BY <1>1, <1>3, <1>4, <2>1, <2>3, <2>9 DEF IInv, TypeOK
  <2>10. TimerBound'
    <3> DEFINE a == set * Round
    <3>1. \/ elapsed + nap <= a
          \/ elapsed <= a + reading /\ reading + nap <= Round
      BY <1>6 DEF IInv, TimerBound
    <3>2. a \in Nat
      BY <2>8
    <3> HIDE DEF a
    <3>3. \/ elapsed' + nap' <= a
          \/ elapsed' <= a + reading' /\ reading' + nap' <= Round
      BY <2>1, <2>2, <2>8, <2>9, <3>1, <3>2
    <3> QED
      BY <1>1, <3>3 DEF TimerBound, a
  <2>5. SilenceBound'
    BY <1>1, TickExplains DEF SilenceBound
  <2>6. EntryAge'
    <3> SUFFICES ASSUME server = "up", heard PROVE ttl' = Lifetime - silence'
      BY <1>1 DEF EntryAge
    <3>1. ttl = Lifetime - silence
      BY DEF IInv, EntryAge
    <3>2. silence <= Bound
      BY SilenceBounded DEF IInv, SilenceBound
    <3> QED
      BY <1>1, <2>1, <2>2, <3>1, <3>2, Bounds
  <2>7. StaleEntry'
    BY <1>1, <1>6 DEF StaleEntry
  <2> QED
    BY <2>4, <2>5, <2>6, <2>7, <2>10 DEF IInv
<1> QED
  BY <1>5, <1>6

\* A setting of the clock is paid for by a round.
LEMMA SetClockStep == IInv /\ SetClock => IInv'
<1> SUFFICES ASSUME IInv, SetClock PROVE IInv'
  OBVIOUS
<1>1. /\ server = "up" /\ set < MaxSet /\ reading' \in 0..(UInt - 1) /\ set' = set + 1
      /\ UNCHANGED <<server, elapsed, nap, lost, air, ttl, heard, silence, downFor>>
  BY DEF SetClock
<1>2. TypeOK'
  <2>1. set' \in 0..MaxSet
    BY <1>1, PresenceConstants DEF IInv, TypeOK
  <2> QED
    BY <1>1, <2>1 DEF IInv, TypeOK
<1>3. TimerBound'
  BY <1>1, TimerPeriod DEF IInv, TimerBound
<1>4. SilenceBound' /\ EntryAge' /\ StaleEntry'
  BY <1>1 DEF IInv, SilenceBound, Explained, EntryAge, StaleEntry
<1> QED
  BY <1>2, <1>3, <1>4 DEF IInv

\* Every action keeps the invariant.
LEMMA InvStep == IInv /\ [Next]_vars => IInv'
<1> SUFFICES ASSUME IInv, [Next]_vars PROVE IInv'
  OBVIOUS
<1>1. CASE UNCHANGED vars
  BY <1>1 DEF vars, IInv, TypeOK, TimerBound, SilenceBound, Explained,
     EntryAge, StaleEntry
<1> QED
  BY <1>1, StartStep, CheckTimerStep, AnswerStep, StopStep, DeliverStep,
     TickStep, SetClockStep DEF Next

\* The invariant holds in every reachable state.
LEMMA Invariance == Spec => []IInv
  BY InvInit, InvStep, PTL DEF Spec

\* Type correctness of the timed model.
THEOREM TypeCorrect == Spec => []TypeOK
<1>1. IInv => TypeOK
  BY DEF IInv
<1> QED
  BY <1>1, Invariance, PTL

\* A control point hears of a running server within Bound: (MaxLost + 1)
\* periods of the announcer and one network delay.
THEOREM Discovery == Spec => []HeardInTime
<1>1. IInv => HeardInTime
  BY SilenceBounded DEF IInv, SilenceBound, HeardInTime
<1> QED
  BY <1>1, Invariance, PTL

\* A control point that has heard of the running server keeps it: with Bound
\* below max-age, no MaxLost losses in a row let the entry expire.
THEOREM KeptAlive == Spec => []NoLapse
<1>1. IInv => NoLapse
  <2> SUFFICES ASSUME IInv, server = "up", heard PROVE ttl > 0
    BY DEF NoLapse
  <2>1. silence <= Bound
    BY SilenceBounded DEF IInv, SilenceBound
  <2>2. ttl = Lifetime - silence /\ silence \in Nat
    BY DEF IInv, EntryAge, TypeOK
  <2> QED
    BY <2>1, <2>2, Bounds
<1> QED
  BY <1>1, Invariance, PTL

\* An entry outlives the server by no more than max-age and one delay,
\* however the server ended.
THEOREM Forgotten == Spec => []StaleBounded
<1>1. IInv => StaleBounded
  <2> SUFFICES ASSUME IInv, server = "down", downFor >= MaxAge + Delay PROVE ttl = 0
    BY DEF StaleBounded
  <2>1. downFor > Delay => ttl <= Lifetime + Delay - downFor
    BY DEF IInv, StaleEntry
  <2>2. /\ ttl \in 0..Lifetime /\ downFor \in 0..(Lifetime + Delay)
        /\ Lifetime = MaxAge /\ Lifetime \in Nat /\ Delay \in Nat
        /\ Bound \in Nat /\ Bound < Lifetime
    BY Bounds, PresenceConstants DEF IInv, TypeOK, Lifetime
  <2> QED
    BY <2>1, <2>2
<1> QED
  BY <1>1, Invariance, PTL
=============================================================================
