---------------------------- MODULE SsdpPresence ----------------------------
(***************************************************************************)
(* How long a control point knows the device.  The server re-announces     *)
(* itself by a timer it polls between sleeps, each announcement is good    *)
(* for max-age, the network delays, reorders, duplicates and loses, the    *)
(* process may be interrupted without a byebye and started again, and the  *)
(* clock the timer is read from may be set.                                *)
(*                                                                         *)
(* Time is discrete.  All namespaces are treated alike by the code, so one *)
(* stands for all; the NETWORK_COUNT copies of a message are one message   *)
(* that may be delivered several times and is lost when every copy is.     *)
(***************************************************************************)
EXTENDS Integers

CONSTANTS Interval,  \* re-announce when so much time has passed (60 s)
          Sleep,     \* SSDP_THREAD_SLEEP (5 s)
          MaxAge,    \* ANNOUNCE_INTERVAL, advertised as max-age (1800 s)
          Slack,     \* bound: multicasting and late wake-ups, per sleep
          Delay,     \* bound: how long a datagram is under way
          MaxLost,   \* bound: consecutive announcements lost with all copies
          MaxSet,    \* bound: settings of the clock between two announcements
          UInt       \* values of an unsigned int (2^32)

\* From one announcement to the next, at most, by a clock that is not set.
Round == Interval + Sleep + Slack
\* The same by one that is: a setting costs no more than starting over.
Period == (MaxSet + 1) * Round
\* The longest a control point can go without hearing a server that is up.
Bound == (MaxLost + 1) * Period + Delay

ASSUME PresenceConstants ==
    /\ Interval \in Nat \ {0} /\ Sleep \in Nat \ {0} /\ MaxAge \in Nat
    /\ Slack \in Nat /\ Delay \in Nat /\ MaxLost \in Nat /\ MaxSet \in Nat
    /\ UInt \in Nat /\ Round < UInt
    /\ Bound < MaxAge

VARIABLES
    server,   \* "up", "stopping" (the destructor joins the announcer) or "down"
    elapsed,  \* time since _announce_time was taken
    reading,  \* the clock's time less _announce_time, as an unsigned int
    set,      \* how often the clock was set since then
    nap,      \* what is left of the announcer's sleep
    lost,     \* announcements lost in a row
    air,      \* datagrams under way
    ttl,      \* lifetime left of the control point's entry; 0: not known
    heard,    \* the entry comes from this life of the server
    silence,  \* since the last datagram that reached the control point, or start
    downFor   \* time since the server went down

vars == <<server, elapsed, reading, set, nap, lost, air, ttl, heard, silence, downFor>>

\* Mutants: the message promises too short or too long a lifetime.
Lifetime_Half == MaxAge \div 2
Lifetime_Twice == 2 * MaxAge
Lifetime == MaxAge

Datagram == [nts : {"ssdp:alive", "ssdp:byebye"}, age : 0..Delay]
Fresh(nts) == [nts |-> nts, age |-> 0]

TypeOK ==
    /\ server \in {"up", "stopping", "down"}
    /\ elapsed \in 0..Period /\ reading \in 0..(UInt - 1) /\ set \in 0..MaxSet
    /\ nap \in 0..(Sleep + Slack)
    /\ lost \in 0..MaxLost
    /\ air \in SUBSET Datagram
    /\ ttl \in 0..Lifetime
    /\ heard \in BOOLEAN
    /\ silence \in Nat
    /\ downFor \in 0..(Lifetime + Delay)

\* Before the first start nobody knows the device.
Init ==
    /\ server = "down"
    /\ elapsed = 0 /\ reading = 0 /\ set = 0
    /\ nap = 0
    /\ lost = 0
    /\ air = {}
    /\ ttl = 0
    /\ heard = FALSE
    /\ silence = 0
    /\ downFor = 0
-----------------------------------------------------------------------------
(***************************************************************************)
(* The server.                                                             *)
(***************************************************************************)
\* One announcement next to what is already under way: a copy survives or,
\* at most MaxLost times in a row, none does.
Announce(others) ==
    \/ /\ air' = others \union {Fresh("ssdp:alive")}
       /\ lost' = 0
    \/ /\ lost < MaxLost
       /\ air' = others
       /\ lost' = lost + 1

\* _announce_time = now().
TakeTime == elapsed' = 0 /\ reading' = 0 /\ set' = 0

\* Construction, with the announcer's first pass over its timer, and
\* announce(): byebye, which may be lost, then alive.
Start ==
    /\ server = "down"
    /\ server' = "up"
    /\ TakeTime
    /\ nap' \in Sleep..(Sleep + Slack)
    /\ \E bye \in SUBSET {Fresh("ssdp:byebye")} : Announce(air \union bye)
    /\ heard' = FALSE
    /\ silence' = 0
    /\ downFor' = 0
    /\ UNCHANGED ttl

\* Mutant: the difference is signed, so that a clock that was set back far has
\* to catch up first.
Due_Signed == reading >= Interval /\ reading < UInt \div 2
\* The difference in unsigned seconds, negative ones wrapping round.
Due == reading >= Interval

\* Mutant: the time of the announcement is not taken.
CheckTimer_NoReset ==
    /\ server = "up"
    /\ nap = 0
    /\ IF Due THEN Announce(air) ELSE UNCHANGED <<air, lost>>
    /\ UNCHANGED <<elapsed, reading, set>>
    /\ nap' \in Sleep..(Sleep + Slack)
    /\ UNCHANGED <<server, ttl, heard, silence, downFor>>
\* A pass of annouceThread() with the flag set.
CheckTimer ==
    /\ server = "up"
    /\ nap = 0
    /\ IF Due THEN Announce(air) /\ TakeTime
              ELSE UNCHANGED <<air, lost, elapsed, reading, set>>
    /\ nap' \in Sleep..(Sleep + Slack)
    /\ UNCHANGED <<server, ttl, heard, silence, downFor>>

\* A search is answered with the same lifetime, also while the destructor runs.
Answer ==
    /\ server # "down"
    /\ air' = air \union {Fresh("ssdp:alive")}
    /\ UNCHANGED <<server, elapsed, reading, set, nap, lost, ttl, heard, silence, downFor>>

\* The destructor clears the flag ...
Destroy ==
    /\ server = "up"
    /\ server' = "stopping"
    /\ UNCHANGED <<elapsed, reading, set, nap, lost, air, ttl, heard, silence, downFor>>

\* ... and when the announcer has woken up and ended, sends the byebye; until
\* the connection is destroyed a search may still be answered behind it.
Suppress ==
    /\ server = "stopping"
    /\ nap = 0
    /\ server' = "down"
    /\ \E sent \in SUBSET {Fresh("ssdp:byebye"), Fresh("ssdp:alive")} :
           air' = air \union sent
    /\ downFor' = 0
    /\ UNCHANGED <<elapsed, reading, set, nap, lost, ttl, heard, silence>>

\* SIGINT ends the process at once: nothing is withdrawn.
Interrupt ==
    /\ server # "down"
    /\ server' = "down"
    /\ downFor' = 0
    /\ UNCHANGED <<elapsed, reading, set, nap, lost, air, ttl, heard, silence>>
-----------------------------------------------------------------------------
(***************************************************************************)
(* The network and the control point (not part of this repository).        *)
(***************************************************************************)
\* Copies of the datagram may be left under way.
Deliver ==
    \E m \in air :
        /\ \/ air' = air \ {m}
           \/ air' = air
        /\ IF m.nts = "ssdp:alive" THEN ttl' = Lifetime /\ heard' = (server = "up")
                                   ELSE ttl' = 0 /\ heard' = FALSE
        /\ silence' = 0
        /\ UNCHANGED <<server, elapsed, reading, set, nap, lost, downFor>>

\* Time passes while nothing is overdue: no thread has its sleep behind it and
\* no datagram its longest delay.
Tick ==
    /\ \A m \in air : m.age < Delay
    /\ air' = {[m EXCEPT !.age = @ + 1] : m \in air}
    /\ ttl' = IF ttl > 0 THEN ttl - 1 ELSE 0
    /\ IF server = "down"
       THEN /\ downFor' = IF downFor < Lifetime + Delay THEN downFor + 1 ELSE downFor
            /\ UNCHANGED <<elapsed, reading, nap, silence>>
       ELSE /\ nap > 0
            /\ nap' = nap - 1
            /\ elapsed' = elapsed + 1
            /\ reading' = (reading + 1) % UInt
            /\ silence' = silence + 1
            /\ UNCHANGED downFor
    /\ UNCHANGED <<server, set, lost, heard>>

\* The system clock, which is the high resolution clock, is set, to any time;
\* the sleep does not depend on it.
SetClock ==
    /\ server = "up"
    /\ set < MaxSet
    /\ reading' \in 0..(UInt - 1)
    /\ set' = set + 1
    /\ UNCHANGED <<server, elapsed, nap, lost, air, ttl, heard, silence, downFor>>
-----------------------------------------------------------------------------
Next ==
    \/ Start \/ CheckTimer \/ Answer
    \/ Destroy \/ Suppress \/ Interrupt
    \/ Deliver \/ Tick \/ SetClock

Spec == Init /\ [][Next]_vars
-----------------------------------------------------------------------------
\* A control point that has heard of the running server never drops it: the
\* next announcement that gets through arrives before max-age is over, even
\* when MaxLost in a row are lost and the clock is set, forward or back, up to
\* MaxSet times before each.
NoLapse == server = "up" /\ heard => ttl > 0

\* A control point that knows nothing of a running server, because it is new,
\* everything was lost or the startup byebye overtook the alive, hears of it
\* within Bound: the timer keeps announcing, however far the clock is set back,
\* since the unsigned difference makes it due.
HeardInTime == server = "up" => silence <= Bound

\* After an exit without byebye, or with one that is lost or overtaken, the
\* entry is gone when the last datagram's delay and max-age have passed.
StaleBounded == server = "down" /\ downFor >= MaxAge + Delay => ttl = 0
=============================================================================
