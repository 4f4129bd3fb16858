------------------------------- MODULE Browse -------------------------------
(***************************************************************************)
(* Browsing the children of one container: the ContentDirectory handler    *)
(* reads a page of keys from redis, then each node, then the total, with   *)
(* no transaction around them, while the indexer that fills the database   *)
(* goes on writing.  A control point pages through the container.          *)
(*                                                                         *)
(* The handlers only read and share nothing but the connection, so one     *)
(* request at a time stands for all.  Keys are numbered in sort order; a   *)
(* node is reduced to whether Didl::write() can write it.                  *)
(***************************************************************************)
EXTENDS Integers, FiniteSets, Sequences, SequencesExt

CONSTANTS Key,        \* children, numbered in the order redis keeps them in
          Counts,     \* RequestedCounts control points use
          IntMax,     \* the largest int
          MaxWrites   \* bound: writes of the indexer

\* An int is 32 bits wide, and no container has 2^30 children.
ASSUME BrowseConstants ==
    /\ IsFiniteSet(Key) /\ Key \subseteq Nat
    /\ Counts \subseteq Nat
    /\ IntMax \in Nat \ {0} /\ 2 * Cardinality(Key) <= IntMax + 1
    /\ MaxWrites \in Nat

VARIABLES
    class,    \* the container: "root", "album" or any "other"
    list,     \* fs:KEY:list, the children (ZSET)
    sorted,   \* fs:KEY:list:sort:alpha:asc (LIST), made from list now and then
    tracks,   \* fs:KEY:types:audio, an album's files (ZSET)
    node,     \* fs:CHILD:node: "none", "ok", or "partial" when a field is missing
    writes,   \* writes of the indexer so far
    pc,       \* the handler: "idle", "range", "write"
    index, count, \* _index and _count
    keys,     \* the rest of the page that is to be written
    didl,     \* children written to the result
    client,   \* the control point: "new", "paging", "finished", "failed"
    at,       \* its next StartingIndex
    requested,\* its RequestedCount
    got,      \* what it has received
    expected  \* what it was to receive when it began

db == <<class, list, sorted, tracks, node, writes>>
handler == <<pc, index, count, keys, didl>>
controlPoint == <<client, at, requested, got, expected>>
vars == <<db, handler, controlPoint>>

\* How many of S come before k: its place in a sorted list, from 0.
Place(S, k) == Cardinality({j \in S : j < k})
InOrder(S) == [i \in 1..Cardinality(S) |-> CHOOSE k \in S : Place(S, k) = i - 1]
album == class = "album"

\* The keys the handler pages through, if it knows the class or not.
Source(known) == IF album /\ known THEN tracks ELSE sorted

\* What a control point that begins now is to get: all, if all can be written
\* and none has been removed from the list.
Promised == IF \A k \in Source(TRUE) : node[k] = "ok" /\ k \in list
            THEN Source(TRUE) ELSE {}

TypeOK ==
    /\ class \in {"root", "album", "other"}
    /\ list \subseteq Key /\ sorted \subseteq Key /\ tracks \subseteq Key
    /\ node \in [Key -> {"none", "partial", "ok"}]
    /\ writes \in 0..MaxWrites
    /\ pc \in {"idle", "range", "write"}
    /\ index \in 0..IntMax /\ count \in -1..IntMax
    /\ keys \in Seq(Key) /\ didl \in Seq(Key)
    /\ client \in {"new", "paging", "finished", "failed"}
    /\ at \in Nat /\ requested \in Counts
    /\ got \subseteq Key /\ expected \subseteq Key

\* The indexer has listed some children, and made the lists from them.
Init ==
    /\ class \in {"root", "album", "other"}
    /\ list \in SUBSET Key
    /\ sorted = list
    /\ tracks = IF album THEN list ELSE {}
    /\ node \in [Key -> {"none", "partial", "ok"}]
    /\ writes = 0
    /\ pc = "idle"
    /\ index = 0
    /\ count = 0
    /\ keys = <<>>
    /\ didl = <<>>
    /\ client = "new"
    /\ at = 0
    /\ requested \in Counts
    /\ got = {}
    /\ expected = {}
-----------------------------------------------------------------------------
(***************************************************************************)
(* Redis ranges: positions from 0, both ends included, negative ones from  *)
(* the end.                                                                *)
(***************************************************************************)
RedisRange(s, start, stop) ==
    LET n == Len(s)
        from == IF start < 0 THEN n + start ELSE start
        to == IF stop < 0 THEN n + stop ELSE stop
    IN  SubSeq(s, Max({from, 0}) + 1, Min({to, n - 1}) + 1)

\* An int that overflows wraps around on the machines the server is built for.
Int32(n) == ((n + IntMax + 1) % (2 * (IntMax + 1))) - (IntMax + 1)

\* Mutants: the page is a child too long, or begins a child too late.
Page_TooLong(s, i, n) == RedisRange(s, i, i + n)
Page_TooLate(s, i, n) == RedisRange(s, i + 1, i + n)
\* The range children() and files() ask for.
Page(s, i, n) == RedisRange(s, i, Int32(i + n - 1))
-----------------------------------------------------------------------------
(***************************************************************************)
(* The handler of a BrowseDirectChildren request.  Any command may fail    *)
(* (ok is FALSE); the helpers of struct data then return what is empty.    *)
(***************************************************************************)
\* A reply that did not come excuses what the control point misses.
Owed(ok) == expected' = IF ok THEN expected ELSE {}

\* The arguments parse() finds in the request; a count of 0 is left out.
Arguments == IF requested = 0 THEN [StartingIndex |-> at]
             ELSE [StartingIndex |-> at, RequestedCount |-> requested]

\* Mutant: StartingIndex is taken to begin at one.
argument_FromOne(a) == IF a \in DOMAIN Arguments THEN Arguments[a] - 1 ELSE 0
argument(a) == IF a \in DOMAIN Arguments THEN Arguments[a] ELSE 0

\* stoi() takes what fits an int.
Asks(fits) ==
    /\ pc = "idle"
    /\ client \in {"new", "paging"}
    /\ fits <=> \A a \in {"StartingIndex", "RequestedCount"} : argument(a) <= IntMax

Request ==
    /\ Asks(TRUE)
    /\ client' = "paging"
    /\ expected' = IF client = "new" THEN Promised ELSE expected
    /\ index' = argument("StartingIndex")
    /\ count' = LET n == argument("RequestedCount") IN IF n = 0 THEN -1 ELSE n
    /\ didl' = <<>>
    /\ pc' = "range"
    /\ UNCHANGED <<db, keys, at, requested, got>>

\* It throws out of the handler otherwise, although the service description
\* has both arguments as ui4.
RequestThrows ==
    /\ Asks(FALSE)
    /\ client' = "failed"
    /\ UNCHANGED <<db, handler, at, requested, got, expected>>

\* The class is read to tell an album, then children() or files() its page.
\* An album whose class cannot be read is paged as any container.
ReadPage == \E classOk, ok \in BOOLEAN :
    /\ pc = "range"
    /\ keys' = IF ok THEN Page(InOrder(Source(classOk)), index, count) ELSE <<>>
    /\ Owed(ok /\ (classOk \/ ~album))
    /\ pc' = "write"
    /\ UNCHANGED <<db, index, count, didl, client, at, requested, got>>

\* Didl::write() of the next node: one without class, so also one that could
\* not be read, is passed over.
write == \E ok \in BOOLEAN :
    /\ pc = "write"
    /\ keys # <<>>
    /\ ok => node[Head(keys)] # "partial"
    /\ keys' = Tail(keys)
    /\ didl' = IF ok /\ node[Head(keys)] = "ok" THEN Append(didl, Head(keys))
                                                ELSE didl
    /\ Owed(ok)
    /\ UNCHANGED <<db, pc, index, count, client, at, requested, got>>

\* A missing field throws out of the handler.
WriteThrows ==
    /\ pc = "write"
    /\ keys # <<>>
    /\ node[Head(keys)] = "partial"
    /\ pc' = "idle"
    /\ keys' = <<>>
    /\ client' = "failed"
    /\ UNCHANGED <<db, index, count, didl, at, requested, got, expected>>

\* Mutant: NumberReturned is missing from the response.
soap_envelope_NoCount(body, total) ==
    [Result |-> body, NumberReturned |-> 0, TotalMatches |-> total]
soap_envelope(body, total) ==
    [Result |-> body, NumberReturned |-> Len(body), TotalMatches |-> total]

children_count(ok) == IF ok THEN Cardinality(list) ELSE 0

\* NumberReturned is what was written, TotalMatches the number of listed
\* children, for albums too.  The control point asks on from NumberReturned
\* children further until it has as many as there are, or gets none.
Respond == \E ok \in BOOLEAN :
    /\ pc = "write"
    /\ keys = <<>>
    /\ pc' = "idle"
    /\ LET response == soap_envelope(didl, children_count(ok))
       IN  /\ got' = got \union Range(response.Result)
           /\ at' = at + response.NumberReturned
           /\ client' = IF response.Result = <<>> \/ at' >= response.TotalMatches
                        THEN "finished" ELSE client
    /\ Owed(ok)
    /\ UNCHANGED <<db, index, count, keys, didl, requested>>
-----------------------------------------------------------------------------
(***************************************************************************)
(* The indexer, another process, writing through struct data: it saves a   *)
(* node before it lists it, and lists it before it sorts the lists or adds *)
(* it to the album's files. Scores are left out: it is taken to give a     *)
(* member the score it had when it adds it again, which keeps its place.   *)
(* None of this is checked by struct data, which sends what it is given.   *)
(***************************************************************************)
Write(action) ==
    /\ writes < MaxWrites
    /\ writes' = writes + 1
    /\ action
    /\ UNCHANGED <<class, handler, client, at, requested, got>>

save(k) == Write(/\ node' = [node EXCEPT ![k] = "ok"]
                 /\ UNCHANGED <<list, sorted, tracks, expected>>)

\* One field: the class of a node that is not there, or the last one missing.
set(k) == Write(/\ node[k] # "ok"
                /\ node' = [node EXCEPT ![k] = IF @ = "none" THEN "partial" ELSE "ok"]
                /\ UNCHANGED <<list, sorted, tracks, expected>>)

add_types(k) == Write(/\ node[k] = "ok"
                      /\ list' = list \union {k}
                      /\ UNCHANGED <<sorted, tracks, node, expected>>)

\* hash() keeps the keys of the root menu only: anywhere else there is no such
\* member and the child stays.
rem_types(k) == Write(/\ list' = IF class = "root" THEN list \ {k} ELSE list
                      /\ expected' = IF class = "root" THEN {} ELSE expected
                      /\ UNCHANGED <<sorted, tracks, node>>)

Sort == Write(/\ sorted' = list
              /\ expected' = IF album \/ sorted \subseteq list THEN expected ELSE {}
              /\ UNCHANGED <<list, tracks, node>>)

add_nodes(k) == Write(/\ album /\ k \in list /\ node[k] = "ok"
                      /\ tracks' = tracks \union {k}
                      /\ UNCHANGED <<list, sorted, node, expected>>)

\* A removal moves the files behind it to the front, past a client that pages:
\* it is owed nothing any more.
rem_nodes(k) == Write(/\ album
                      /\ tracks' = tracks \ {k}
                      /\ expected' = {}
                      /\ UNCHANGED <<list, sorted, node>>)

Indexer == Sort \/ \E k \in Key : \/ save(k) \/ set(k) \/ add_types(k)
                                  \/ rem_types(k)
                                  \/ add_nodes(k) \/ rem_nodes(k)
-----------------------------------------------------------------------------
Handler == ReadPage \/ write \/ WriteThrows \/ Respond

Next == Request \/ RequestThrows \/ Handler \/ Indexer

\* The handler thread runs on and the control point asks on.
Fairness == WF_vars(Request \/ RequestThrows) /\ WF_vars(Handler)

Spec == Init /\ [][Next]_vars
FairSpec == Spec /\ Fairness
-----------------------------------------------------------------------------
\* A page never holds more than was asked for, whatever is added meanwhile.
PageFits == requested > 0 /\ pc = "write" =>
                Len(didl) + Len(keys) <= requested

\* Paging by any number of children, with additions going on, misses nothing
\* that was there and complete when it began: additions only move children to
\* later pages, and a range that overflows comes after the page with all of them.
NothingMissed == client = "finished" /\ requested > 0 => expected \subseteq got

\* Paging comes to an end.
PagingEnds == client = "paging" ~> client \in {"finished", "failed"}

\* What the comment on the count says, "Browse all is -1 in redis": a request
\* with RequestedCount 0 returns every child.
BrowseAll == client = "finished" /\ requested = 0 /\ index = 0 =>
                 expected \subseteq Range(didl)
=============================================================================
