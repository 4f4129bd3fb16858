---------------------------- MODULE BrowseProofs ----------------------------
(***************************************************************************)
(* Paging through a container of any size, with pages of any length and    *)
(* any number of writes of the indexer in between.                         *)
(***************************************************************************)
EXTENDS Browse, FiniteSetTheorems, SequenceTheorems, TLAPS

(***************************************************************************)
(* Sorted lists.                                                           *)
(***************************************************************************)
LEMMA Finite ==
    ASSUME NEW S \in SUBSET Key
    PROVE  /\ IsFiniteSet(S) /\ Cardinality(S) \in Nat
           /\ Cardinality(Key) \in Nat /\ Cardinality(S) <= Cardinality(Key)
<1>1. IsFiniteSet(Key)
  BY BrowseConstants
<1> QED
  BY <1>1, FS_Subset, FS_CardinalityType

LEMMA KeysAreNumbers == ASSUME NEW S \in SUBSET Key, NEW k \in S PROVE k \in Nat
BY BrowseConstants

\* A key has its place within the list.
LEMMA PlaceBound ==
    ASSUME NEW S \in SUBSET Key, NEW k \in S
    PROVE  Place(S, k) \in 0..(Cardinality(S) - 1)
<1> DEFINE B == {j \in S : j < k}
<1>1. B \in SUBSET S /\ B \in SUBSET Key
  OBVIOUS
<1>2. k \notin B
  BY KeysAreNumbers
<1>3. IsFiniteSet(S) /\ Cardinality(S) \in Nat /\ Cardinality(B) \in Nat
  BY <1>1, Finite
<1>4. Cardinality(B) <= Cardinality(S) /\ (Cardinality(S) = Cardinality(B) => S = B)
  BY <1>1, <1>3, FS_Subset
<1>5. Cardinality(B) # Cardinality(S)
  BY <1>2, <1>4
<1> HIDE DEF B
<1>6. Cardinality(B) \in 0..(Cardinality(S) - 1)
  BY <1>3, <1>4, <1>5
<1> QED
  BY <1>6 DEF Place, B

\* The smaller key comes first.
LEMMA PlaceOrder ==
    ASSUME NEW S \in SUBSET Key, NEW j \in S, NEW k \in S, j < k
    PROVE  Place(S, j) < Place(S, k)
<1> DEFINE A == {i \in S : i < j}
           B == {i \in S : i < k}
<1>1. A \in SUBSET B /\ A \in SUBSET Key /\ B \in SUBSET Key
  BY KeysAreNumbers
<1>2. j \in B /\ j \notin A
  BY KeysAreNumbers
<1>3. IsFiniteSet(B) /\ Cardinality(B) \in Nat /\ Cardinality(A) \in Nat
  BY <1>1, Finite
<1>4. Cardinality(A) <= Cardinality(B) /\ (Cardinality(B) = Cardinality(A) => B = A)
  BY <1>1, <1>3, FS_Subset
<1>5. Cardinality(A) # Cardinality(B)
  BY <1>2, <1>4
<1> HIDE DEF A, B
<1>6. Cardinality(A) < Cardinality(B)
  BY <1>3, <1>4, <1>5
<1> QED
  BY <1>6 DEF Place, A, B

\* Every place is taken by one key.
LEMMA PlaceTaken ==
    ASSUME NEW S \in SUBSET Key
    PROVE  /\ \A j, k \in S : Place(S, j) = Place(S, k) => j = k
           /\ \A i \in 0..(Cardinality(S) - 1) : \E k \in S : Place(S, k) = i
<1> DEFINE n == Cardinality(S)
           f == [k \in S |-> Place(S, k)]
<1>1. \A k \in S : k \in Nat /\ Place(S, k) \in 0..(n - 1)
  BY KeysAreNumbers, PlaceBound
<1>2. \A j, k \in S : j < k => Place(S, j) < Place(S, k)
  BY PlaceOrder
<1>3. \A j, k \in S : Place(S, j) = Place(S, k) => j = k
  <2> TAKE j, k \in S
  <2>1. j \in Nat /\ k \in Nat /\ Place(S, j) \in Int /\ Place(S, k) \in Int
    BY <1>1
  <2>2. j < k \/ k < j \/ j = k
    BY <2>1
  <2> QED
    BY <2>1, <2>2, <1>2
<1>4. IsFiniteSet(S) /\ n \in Nat
  BY Finite
<1>5. IsFiniteSet(0..(n - 1)) /\ Cardinality(0..(n - 1)) = n
  <2>1. 0 \in Int /\ n - 1 \in Int
    BY <1>4
  <2>2. IsFiniteSet(0..(n - 1)) /\ Cardinality(0..(n - 1)) =
            IF 0 > n - 1 THEN 0 ELSE (n - 1) - 0 + 1
    BY <2>1, FS_Interval
  <2> HIDE DEF n
  <2> QED
    BY <2>2, <1>4
<1>6. f \in Injection(S, 0..(n - 1))
  <2>1. f \in [S -> 0..(n - 1)]
    BY <1>1
  <2>2. \A j, k \in S : f[j] = f[k] => j = k
    BY <1>3
  <2> HIDE DEF f
  <2> QED
    BY <2>1, <2>2 DEF Injection, IsInjective
<1>7. f \in Surjection(S, 0..(n - 1))
  <2> HIDE DEF f
  <2> QED
    BY <1>5, <1>6, FS_Injection
<1>8. \A i \in 0..(n - 1) : \E k \in S : f[k] = i
  <2> HIDE DEF f
  <2> QED
    BY <1>7 DEF Surjection
<1> QED
  BY <1>3, <1>8

\* What is added may only move a key to a later place.
LEMMA PlaceGrows ==
    ASSUME NEW T \in SUBSET Key, NEW S \in SUBSET T, NEW k \in S
    PROVE  Place(S, k) <= Place(T, k) /\ Place(S, k) \in Nat /\ Place(T, k) \in Nat
<1> DEFINE A == {i \in S : i < k}
           B == {i \in T : i < k}
<1>1. A \in SUBSET B /\ A \in SUBSET Key /\ B \in SUBSET Key
  OBVIOUS
<1>2. Cardinality(A) <= Cardinality(B) /\ Cardinality(A) \in Nat /\ Cardinality(B) \in Nat
  BY <1>1, Finite, FS_Subset
<1> QED
  BY <1>2 DEF Place

\* s lists S in order.
Lists(s, S) ==
    /\ s \in Seq(Key) /\ Len(s) = Cardinality(S) /\ Len(s) \in Nat
    /\ Len(s) <= Cardinality(Key)
    /\ \A i \in 1..Len(s) : s[i] \in S
    /\ \A k \in S : Place(S, k) \in Nat /\ Place(S, k) + 1 \in 1..Len(s)
                    /\ s[Place(S, k) + 1] = k

LEMMA Sorted == ASSUME NEW S \in SUBSET Key PROVE Lists(InOrder(S), S)
<1> DEFINE n == Cardinality(S)
           s == InOrder(S)
<1>0. n \in Nat /\ n <= Cardinality(Key)
  BY Finite
<1>1. /\ DOMAIN s = 1..n
      /\ \A i \in 1..n : s[i] = CHOOSE k \in S : Place(S, k) = i - 1
  BY DEF InOrder
<1>2. ASSUME NEW i \in 1..n PROVE s[i] \in S /\ Place(S, s[i]) = i - 1
  <2>1. i - 1 \in 0..(n - 1)
    BY <1>0
  <2>2. \E k \in S : Place(S, k) = i - 1
    BY <2>1, PlaceTaken
  <2> QED
    BY <2>2, <1>1
<1>3. s = [i \in 1..n |-> s[i]]
  BY DEF InOrder
<1> HIDE DEF s
<1>4. s \in Seq(Key) /\ Len(s) = n
  <2>1. \A i \in 1..n : s[i] \in Key
    BY <1>2
  <2>2. s \in [1..n -> Key]
    BY <1>3, <2>1
  <2> HIDE DEF n
  <2> QED
    BY <1>0, <2>2
<1>5. ASSUME NEW k \in S
      PROVE  Place(S, k) \in Nat /\ Place(S, k) + 1 \in 1..n /\ s[Place(S, k) + 1] = k
  <2> DEFINE p == Place(S, k)
  <2>1. p \in 0..(n - 1)
    BY PlaceBound
  <2> HIDE DEF p
  <2>2. p \in Nat /\ p + 1 \in 1..n /\ (p + 1) - 1 = p
    BY <2>1, <1>0
  <2>3. s[p + 1] \in S /\ Place(S, s[p + 1]) = p
    BY <2>2, <1>2
  <2> QED
    BY <2>2, <2>3, PlaceTaken DEF p
<1> QED
  BY <1>0, <1>2, <1>4, <1>5 DEF Lists, s
-----------------------------------------------------------------------------
(***************************************************************************)
(* Ranges.                                                                 *)
(***************************************************************************)
LEMMA MaxMin ==
    ASSUME NEW a \in Int, NEW b \in Int
    PROVE  /\ Max({a, b}) = IF a >= b THEN a ELSE b
           /\ Min({a, b}) = IF a <= b THEN a ELSE b
<1>1. Max({a, b}) \in {a, b} /\ \A y \in {a, b} : Max({a, b}) >= y
  <2>1. \E x \in {a, b} : \A y \in {a, b} : x >= y
    OBVIOUS
  <2> QED
    BY <2>1 DEF Max
<1>2. Min({a, b}) \in {a, b} /\ \A y \in {a, b} : Min({a, b}) <= y
  <2>1. \E x \in {a, b} : \A y \in {a, b} : x <= y
    OBVIOUS
  <2> QED
    BY <2>1 DEF Min
<1> QED
  BY <1>1, <1>2

\* The sum of two ints wraps around at most once.
LEMMA Wraps ==
    ASSUME NEW n \in Int, -(IntMax + 1) <= n, n <= 2 * IntMax
    PROVE  Int32(n) = IF n <= IntMax THEN n ELSE n - 2 * (IntMax + 1)
<1> DEFINE w == 2 * (IntMax + 1)
           x == n + IntMax + 1
<1>0. IntMax \in Nat
  BY BrowseConstants
<1>1. w \in Nat \ {0} /\ x \in Nat /\ x < w + w
  BY <1>0
<1>2. x % w = IF x < w THEN x ELSE x - w
  <2> HIDE DEF w, x
  <2> QED
    BY <1>1
<1> QED
  BY <1>0, <1>2 DEF Int32

\* p is a page of s that begins at i, for a count of n.  It is a run of s, no
\* longer than asked for, and it is empty only behind the end of s or when
\* its end overflows.
Paged(p, s, i, n) ==
    /\ p \in Seq(Key) /\ Len(p) \in Nat
    /\ \A j \in 1..Len(p) : i + j \in 1..Len(s) /\ p[j] = s[i + j]
    /\ Len(p) > 0 => i + Len(p) <= Len(s)
    /\ n > 0 => Len(p) <= n
    /\ n > 0 /\ i + n - 1 <= IntMax /\ Len(p) = 0 => i >= Len(s)
    /\ i = 0 /\ n >= Len(s) => Len(p) = Len(s)

LEMMA PageOf ==
    ASSUME NEW s \in Seq(Key), Len(s) <= Cardinality(Key),
           NEW i \in 0..IntMax, NEW n \in -1..IntMax, n # 0
    PROVE  Paged(Page(s, i, n), s, i, n)
<1> DEFINE m == Len(s)
           stop == Int32(i + n - 1)
           to == IF stop < 0 THEN m + stop ELSE stop
           e == IF to <= m - 1 THEN to ELSE m - 1
           p == Page(s, i, n)
<1>0. /\ IntMax \in Nat \ {0} /\ m \in Nat /\ i \in Nat /\ n \in Int
      /\ Cardinality(Key) \in Nat /\ m <= Cardinality(Key)
      /\ 2 * Cardinality(Key) <= IntMax + 1
  <2>1. Cardinality(Key) \in Nat
    BY Finite
  <2> QED
    BY <2>1, BrowseConstants, LenProperties
<1>1. stop = IF i + n - 1 <= IntMax THEN i + n - 1 ELSE (i + n - 1) - 2 * (IntMax + 1)
  BY <1>0, Wraps
<1>2. stop \in Int
  BY <1>0, <1>1
<1> HIDE DEF stop
<1>3. to \in Int /\ e \in Int
  BY <1>0, <1>2
<1>4. p = SubSeq(s, i + 1, e + 1)
  <2>1. Max({i, 0}) = i
    BY <1>0, MaxMin
  <2>2. Min({to, m - 1}) = e
    <3>1. m - 1 \in Int
      BY <1>0
    <3> HIDE DEF to, m
    <3> QED
      BY <1>3, <3>1, MaxMin
  <2>3. ~(i < 0)
    BY <1>0
  <2> QED
    BY <2>1, <2>2, <2>3 DEF Page, RedisRange, stop
<1> HIDE DEF p
<1>5. e <= m - 1
  BY <1>0, <1>3
<1>6. \A j \in (i + 1)..(e + 1) : s[j] \in Key
  <2> HIDE DEF e
  <2>1. \A j \in (i + 1)..(e + 1) : j \in 1..m
    BY <1>0, <1>3, <1>5
  <2> QED
    BY <2>1, ElementOfSeq
<1>7. /\ p \in Seq(Key)
      /\ Len(p) = IF i + 1 <= e + 1 THEN (e + 1) - (i + 1) + 1 ELSE 0
      /\ \A j \in 1..((e + 1) - (i + 1) + 1) : p[j] = s[(i + 1) + j - 1]
  <2> HIDE DEF e
  <2>1. i + 1 \in Int /\ e + 1 \in Int
    BY <1>0, <1>3
  <2> QED
    BY <2>1, <1>4, <1>6, SubSeqProperties
<1>8. Len(p) = (IF i <= e THEN e - i + 1 ELSE 0) /\ Len(p) \in Nat
  <2> HIDE DEF e
  <2> QED
    BY <1>0, <1>3, <1>7
<1>9. ASSUME NEW j \in 1..Len(p) PROVE i + j \in 1..m /\ p[j] = s[i + j]
  <2> HIDE DEF e
  <2>1. j \in 1..((e + 1) - (i + 1) + 1) /\ (i + 1) + j - 1 = i + j /\ i + j \in 1..m
    BY <1>0, <1>3, <1>5, <1>8
  <2> QED
    BY <2>1, <1>7
<1>10. Len(p) > 0 => i + Len(p) <= m
  <2> HIDE DEF e, m
  <2> QED
    BY <1>0, <1>3, <1>5, <1>8
<1>11. n > 0 => Len(p) <= n
  <2> HIDE DEF m
  <2> QED
    BY <1>0, <1>1, <1>2, <1>3, <1>8
<1>12. n > 0 /\ i + n - 1 <= IntMax /\ Len(p) = 0 => i >= m
  <2> HIDE DEF m
  <2> QED
    BY <1>0, <1>1, <1>2, <1>3, <1>8
<1>13. i = 0 /\ n >= m => Len(p) = m
  <2> HIDE DEF m
  <2> QED
    BY <1>0, <1>1, <1>2, <1>3, <1>8
<1> QED
  BY <1>7, <1>8, <1>9, <1>10, <1>11, <1>12, <1>13 DEF Paged, p
-----------------------------------------------------------------------------
(***************************************************************************)
(* The inductive invariant.                                                *)
(***************************************************************************)
All == Source(TRUE)
Size == Len(didl) + Len(keys)

\* The handler works on the control point's request, and no page goes beyond
\* the number of keys.
HandlerInv ==
    /\ pc \in {"range", "write"} =>
           /\ client = "paging" /\ index = at
           /\ count = IF requested = 0 THEN -1 ELSE requested
    /\ pc = "range" => didl = <<>>
    /\ at <= Cardinality(Key)
    /\ pc = "write" => at + Size <= Cardinality(Key)
    /\ client = "new" => at = 0 /\ expected = {}

\* What the indexer has listed since it sorted the list is complete.
IndexerInv ==
    /\ \A k \in list : k \in sorted \/ node[k] = "ok"
    /\ album => tracks \subseteq list

\* As long as children are owed, all there are can be written.
OwedInv == expected # {} =>
    /\ expected \subseteq All /\ All \subseteq list
    /\ \A k \in All : node[k] = "ok"
    /\ pc = "write" => \A i \in 1..Len(keys) : node[keys[i]] = "ok"

\* What the control point has, or gets with this page.
Have == got \union Range(didl) \union Range(keys)

\* Of E, what is not in H has its place in S at n or later.
Later(S, E, H, n) == \A k \in E : k \in H \/ Place(S, k) >= n

\* Whatever is owed and not had yet comes behind this page, and a count as
\* large as the number of keys has it all on the first one.
MissInv == requested > 0 /\ expected # {} /\ client = "paging" =>
    /\ pc # "write" => /\ Later(All, expected, got, at)
                       /\ requested >= Cardinality(Key) /\ at > 0 => expected \subseteq got
    /\ pc = "write" => /\ Later(All, expected, Have, at + Size)
                       /\ requested >= Cardinality(Key) => expected \subseteq Have
                       /\ Size = 0 => expected \subseteq got

IInv == /\ TypeOK /\ HandlerInv /\ PageFits /\ IndexerInv
        /\ OwedInv /\ MissInv /\ NothingMissed
-----------------------------------------------------------------------------
(***************************************************************************)
(* The indexer.                                                            *)
(***************************************************************************)
LEMMA SourceKeys == ASSUME TypeOK, NEW b \in BOOLEAN PROVE Source(b) \in SUBSET Key
BY DEF TypeOK, Source

\* A write either ends what is owed, or only adds complete children to what
\* is paged through.
LEMMA WriteKeeps ==
    ASSUME IInv, UNCHANGED <<class, handler, client, at, requested, got>>,
           TypeOK', IndexerInv',
           \A k \in Key : node[k] = "ok" => node'[k] = "ok",
           \/ expected' = {}
           \/ /\ expected' = expected /\ All \subseteq All'
              /\ expected # {} => All' \subseteq list' /\ \A k \in All' : node'[k] = "ok"
    PROVE  IInv'
<1>1. UNCHANGED <<pc, index, count, keys, didl, client, at, requested, got>>
  BY DEF handler
<1>2. HandlerInv' /\ PageFits'
  BY <1>1 DEF IInv, HandlerInv, PageFits, Size
<1>3. NothingMissed'
  BY <1>1 DEF IInv, NothingMissed
<1>4. CASE expected' = {}
  BY <1>2, <1>3, <1>4 DEF IInv, OwedInv, MissInv
<1>5. CASE /\ expected' = expected /\ All \subseteq All' /\ expected # {}
           /\ All' \subseteq list' /\ \A k \in All' : node'[k] = "ok"
  <2>1. All' \in SUBSET Key /\ All \in SUBSET All'
    <3>1. Source(TRUE)' \in SUBSET Key
      BY DEF TypeOK, Source, album
    <3> QED
      BY <3>1, <1>5 DEF All
  <2>2. expected \subseteq All /\ (pc = "write" => \A i \in 1..Len(keys) : node[keys[i]] = "ok")
    BY <1>5 DEF IInv, OwedInv
  <2>3. OwedInv'
    <3>1. \A i \in 1..Len(keys) : keys[i] \in Key
      BY ElementOfSeq DEF IInv, TypeOK
    <3> QED
      BY <1>1, <1>5, <2>2, <3>1 DEF OwedInv
  <2>4. ASSUME NEW H, NEW n \in Nat, Later(All, expected, H, n)
        PROVE  Later(All', expected, H, n)
    <3> SUFFICES ASSUME NEW k \in expected, k \notin H PROVE Place(All', k) >= n
      BY DEF Later
    <3>1. Place(All, k) >= n
      BY <2>4 DEF Later
    <3>2. Place(All, k) <= Place(All', k) /\ Place(All, k) \in Nat /\ Place(All', k) \in Nat
      BY <2>1, <2>2, PlaceGrows
    <3> QED
      BY <3>1, <3>2
  <2>5. at \in Nat /\ at + Size \in Nat
    BY LenProperties DEF IInv, TypeOK, Size
  <2>6. Size' = Size /\ Have' = Have
    BY <1>1 DEF Size, Have
  <2>7. MissInv'
    <3> SUFFICES ASSUME requested > 0, client = "paging"
                 PROVE  /\ pc # "write" =>
                               /\ Later(All', expected, got, at)
                               /\ requested >= Cardinality(Key) /\ at > 0 => expected \subseteq got
                        /\ pc = "write" =>
                               /\ Later(All', expected, Have, at + Size)
                               /\ requested >= Cardinality(Key) => expected \subseteq Have
                               /\ Size = 0 => expected \subseteq got
      BY <1>1, <1>5, <2>6 DEF MissInv
    <3> QED
      BY <1>5, <2>4, <2>5 DEF IInv, MissInv
  <2> QED
    BY <1>2, <1>3, <2>3, <2>7 DEF IInv
<1> QED
  BY <1>4, <1>5

LEMMA SaveStep == ASSUME IInv, NEW k \in Key, save(k) \/ set(k) PROVE IInv'
<1>1. /\ UNCHANGED <<class, handler, client, at, requested, got>>
      /\ UNCHANGED <<list, sorted, tracks, expected>>
      /\ writes < MaxWrites /\ writes' = writes + 1
      /\ node' \in [Key -> {"none", "partial", "ok"}]
      /\ \A j \in Key : node[j] = "ok" => node'[j] = "ok"
  BY DEF save, set, Write, IInv, TypeOK
<1>2. TypeOK'
  BY <1>1, BrowseConstants DEF IInv, TypeOK, handler
<1>3. IndexerInv'
  BY <1>1 DEF IInv, TypeOK, IndexerInv, album
<1>4. All' = All /\ All \in SUBSET Key
  BY <1>1, SourceKeys DEF IInv, All, Source, album
<1>5. expected # {} => All \subseteq list /\ \A j \in All : node[j] = "ok"
  BY DEF IInv, OwedInv
<1> QED
  BY <1>1, <1>2, <1>3, <1>4, <1>5, WriteKeeps

LEMMA ListStep == ASSUME IInv, NEW k \in Key, add_types(k) \/ rem_types(k) PROVE IInv'
<1>1. /\ UNCHANGED <<class, handler, client, at, requested, got>>
      /\ UNCHANGED <<sorted, tracks, node>>
      /\ writes < MaxWrites /\ writes' = writes + 1
      /\ \/ /\ node[k] = "ok" /\ list' = list \union {k} /\ expected' = expected
         \/ /\ class = "root" /\ list' = list \ {k} /\ expected' = {}
         \/ list' = list /\ expected' = expected
  BY DEF add_types, rem_types, Write
<1>2. TypeOK'
  <2>1. list' \subseteq Key /\ expected' \subseteq Key
    BY <1>1 DEF IInv, TypeOK
  <2> QED
    BY <1>1, <2>1, BrowseConstants DEF IInv, TypeOK, handler
<1>3. IndexerInv'
  BY <1>1 DEF IInv, IndexerInv, album
<1>4. All' = All /\ All \in SUBSET Key
  BY <1>1, SourceKeys DEF IInv, All, Source, album
<1>5. expected # {} => All \subseteq list /\ \A j \in All : node[j] = "ok"
  BY DEF IInv, OwedInv
<1> QED
  BY <1>1, <1>2, <1>3, <1>4, <1>5, WriteKeeps

LEMMA SortStep == ASSUME IInv, Sort PROVE IInv'
<1>1. /\ UNCHANGED <<class, handler, client, at, requested, got>>
      /\ UNCHANGED <<list, tracks, node>>
      /\ writes < MaxWrites /\ writes' = writes + 1 /\ sorted' = list
      /\ expected' = IF album \/ sorted \subseteq list THEN expected ELSE {}
  BY DEF Sort, Write
<1>2. TypeOK'
  BY <1>1, BrowseConstants DEF IInv, TypeOK, handler
<1>3. IndexerInv'
  BY <1>1 DEF IInv, IndexerInv, album
<1>4. CASE album
  <2>1. All' = All /\ All \in SUBSET Key
    BY <1>1, <1>4, SourceKeys DEF IInv, All, Source, album
  <2>2. expected # {} => All \subseteq list /\ \A j \in All : node[j] = "ok"
    BY DEF IInv, OwedInv
  <2> QED
    BY <1>1, <1>2, <1>3, <1>4, <2>1, <2>2, WriteKeeps
<1>5. CASE ~album /\ sorted \subseteq list
  <2>1. All = sorted /\ All' = list
    BY <1>1, <1>5 DEF All, Source, album
  <2>2. expected # {} => \A j \in list : node[j] = "ok"
    BY <2>1 DEF IInv, OwedInv, IndexerInv
  <2> QED
    BY <1>1, <1>2, <1>3, <1>5, <2>1, <2>2, WriteKeeps
<1> QED
  BY <1>1, <1>2, <1>3, <1>4, <1>5, WriteKeeps

LEMMA FilesStep == ASSUME IInv, NEW k \in Key, add_nodes(k) \/ rem_nodes(k) PROVE IInv'
<1>1. /\ UNCHANGED <<class, handler, client, at, requested, got>>
      /\ UNCHANGED <<list, sorted, node>>
      /\ writes < MaxWrites /\ writes' = writes + 1 /\ album
      /\ \/ /\ k \in list /\ node[k] = "ok"
            /\ tracks' = tracks \union {k} /\ expected' = expected
         \/ /\ tracks' = tracks \ {k} /\ expected' = {}
  BY DEF add_nodes, rem_nodes, Write
<1>2. TypeOK'
  <2>1. tracks' \subseteq Key /\ expected' \subseteq Key
    BY <1>1 DEF IInv, TypeOK
  <2> QED
    BY <1>1, <2>1, BrowseConstants DEF IInv, TypeOK, handler
<1>3. IndexerInv'
  BY <1>1 DEF IInv, IndexerInv, album
<1>4. All = tracks /\ All' = tracks'
  BY <1>1 DEF All, Source, album
<1>5. expected # {} => tracks \subseteq list /\ \A j \in tracks : node[j] = "ok"
  BY <1>4 DEF IInv, OwedInv
<1> QED
  BY <1>1, <1>2, <1>3, <1>4, <1>5, WriteKeeps
-----------------------------------------------------------------------------
(***************************************************************************)
(* The handler and the control point.                                      *)
(***************************************************************************)
LEMMA Args ==
    ASSUME TypeOK
    PROVE  argument("StartingIndex") = at /\ argument("RequestedCount") = requested
<1>1. CASE requested = 0
  BY <1>1 DEF argument, Arguments
<1>2. CASE requested # 0
  BY <1>2 DEF argument, Arguments
<1> QED
  BY <1>1, <1>2

\* The members of a sequence.
LEMMA Elements ==
    ASSUME NEW s \in Seq(Key)
    PROVE  /\ Range(s) \subseteq Key /\ Len(s) \in Nat
           /\ \A k : k \in Range(s) <=> \E i \in 1..Len(s) : s[i] = k
           /\ s = <<>> <=> Len(s) = 0
<1>1. DOMAIN s = 1..Len(s) /\ Len(s) \in Nat
  BY LenProperties
<1>2. \A i \in 1..Len(s) : s[i] \in Key
  BY ElementOfSeq
<1> QED
  BY <1>1, <1>2, EmptySeq DEF Range

\* Nothing but the request changes: the database and with it all that is
\* paged through stay.
LEMMA SameDb == ASSUME UNCHANGED db PROVE All' = All /\ (IndexerInv => IndexerInv')
<1>1. UNCHANGED <<class, list, sorted, tracks, node>>
  BY DEF db
<1> QED
  BY <1>1 DEF All, Source, album, IndexerInv

LEMMA RequestStep == ASSUME IInv, Request PROVE IInv'
<1>1. /\ pc = "idle" /\ client \in {"new", "paging"} /\ client' = "paging"
      /\ expected' = IF client = "new" THEN Promised ELSE expected
      /\ didl' = <<>> /\ pc' = "range" /\ UNCHANGED <<db, keys, at, requested, got>>
      /\ index' = at /\ at <= IntMax /\ requested <= IntMax
      /\ count' = IF requested = 0 THEN -1 ELSE requested
  BY Args DEF Request, Asks, IInv
<1>2. All' = All /\ IndexerInv' /\ All \in SUBSET Key
  BY <1>1, SameDb, SourceKeys DEF IInv, All
<1>3. expected' \subseteq All /\ expected' \subseteq Key
  BY <1>1, <1>2 DEF Promised, All, IInv, OwedInv
<1>4. TypeOK'
  <2>1. at \in Nat /\ requested \in Nat /\ IntMax \in Nat
    BY BrowseConstants DEF IInv, TypeOK
  <2>2. index' \in 0..IntMax /\ count' \in -1..IntMax /\ didl' \in Seq(Key)
    BY <1>1, <2>1, EmptySeq
  <2> QED
    BY <1>1, <1>3, <2>2 DEF IInv, TypeOK, db
<1>5. HandlerInv' /\ PageFits' /\ NothingMissed'
  BY <1>1 DEF IInv, HandlerInv, PageFits, NothingMissed
<1>6. OwedInv'
  <2> SUFFICES ASSUME expected' # {}
               PROVE  All \subseteq list /\ \A k \in All : node[k] = "ok"
    BY <1>1, <1>2, <1>3 DEF OwedInv, db
  <2>1. CASE client = "new"
    BY <1>1, <2>1 DEF Promised, All
  <2>2. CASE client # "new"
    BY <1>1, <2>2 DEF IInv, OwedInv
  <2> QED
    BY <2>1, <2>2
<1>7. MissInv'
  <2> SUFFICES ASSUME requested > 0, expected' # {}
               PROVE  /\ Later(All, expected', got, at)
                      /\ requested >= Cardinality(Key) /\ at > 0 => expected' \subseteq got
    BY <1>1, <1>2 DEF MissInv
  <2>1. CASE client = "new"
    <3>1. at = 0
      BY <2>1 DEF IInv, HandlerInv
    <3>2. ASSUME NEW k \in All PROVE Place(All, k) >= 0
      <4>1. Place(All, k) \in 0..(Cardinality(All) - 1) /\ Cardinality(All) \in Nat
        BY <1>2, PlaceBound, Finite
      <4> QED
        BY <4>1
    <3> QED
      BY <1>3, <3>1, <3>2 DEF Later
  <2>2. CASE client # "new"
    BY <1>1, <2>2 DEF IInv, MissInv
  <2> QED
    BY <2>1, <2>2
<1> QED
  BY <1>2, <1>4, <1>5, <1>6, <1>7 DEF IInv

\* The browse ends with an exception.
LEMMA ThrowsStep == ASSUME IInv, RequestThrows \/ WriteThrows PROVE IInv'
<1>1. /\ client' = "failed" /\ pc' = "idle" /\ keys' \in Seq(Key)
      /\ UNCHANGED <<db, index, count, didl, at, requested, got, expected>>
  <2>1. CASE RequestThrows
    BY <2>1 DEF RequestThrows, Asks, handler, IInv, TypeOK
  <2>2. CASE WriteThrows
    BY <2>2, EmptySeq DEF WriteThrows
  <2> QED
    BY <2>1, <2>2
<1>2. All' = All /\ IndexerInv'
  BY <1>1, SameDb DEF IInv
<1>3. TypeOK'
  BY <1>1 DEF IInv, TypeOK, db
<1>4. HandlerInv' /\ PageFits' /\ NothingMissed' /\ MissInv'
  BY <1>1 DEF IInv, HandlerInv, PageFits, NothingMissed, MissInv
<1>5. OwedInv'
  BY <1>1, <1>2 DEF IInv, OwedInv, db
<1> QED
  BY <1>2, <1>3, <1>4, <1>5 DEF IInv

LEMMA ReadPageStep == ASSUME IInv, ReadPage PROVE IInv'
<1>1. PICK classOk \in BOOLEAN, ok \in BOOLEAN :
      /\ pc = "range"
      /\ keys' = IF ok THEN Page(InOrder(Source(classOk)), index, count) ELSE <<>>
      /\ expected' = IF ok /\ (classOk \/ ~album) THEN expected ELSE {}
      /\ pc' = "write"
      /\ UNCHANGED <<db, index, count, didl, client, at, requested, got>>
  BY DEF ReadPage, Owed
<1>2. /\ client = "paging" /\ index = at /\ didl = <<>> /\ at <= Cardinality(Key)
      /\ count = IF requested = 0 THEN -1 ELSE requested
  BY <1>1 DEF IInv, HandlerInv
<1>3. /\ IntMax \in Nat /\ Cardinality(Key) \in Nat /\ 2 * Cardinality(Key) <= IntMax + 1
      /\ at \in Nat /\ requested \in Nat /\ index \in 0..IntMax /\ count \in -1..IntMax
  BY BrowseConstants, Finite DEF IInv, TypeOK
<1> DEFINE S == Source(classOk)
           s == InOrder(S)
<1>4. S \in SUBSET Key /\ Lists(s, S)
  BY Sorted, SourceKeys DEF IInv
<1>5. ok => Paged(keys', s, at, count)
  <2>1. s \in Seq(Key) /\ Len(s) <= Cardinality(Key)
    BY <1>4 DEF Lists
  <2>2. count # 0
    BY <1>2, <1>3
  <2> HIDE DEF s
  <2>3. Paged(Page(s, index, count), s, index, count)
    BY <1>3, <2>1, <2>2, PageOf
  <2> QED
    BY <1>1, <1>2, <2>3 DEF s
<1> HIDE DEF s, S
<1>6. /\ keys' \in Seq(Key) /\ Len(keys') \in Nat /\ Len(<<>>) = 0
      /\ at + Len(keys') <= Cardinality(Key) /\ (requested > 0 => Len(keys') <= requested)
  <2>1. CASE ok
    <3>1. Len(s) \in Nat /\ Len(s) <= Cardinality(Key)
      BY <1>4 DEF Lists
    <3>2. /\ keys' \in Seq(Key) /\ Len(keys') \in Nat
          /\ (Len(keys') > 0 => at + Len(keys') <= Len(s))
          /\ (count > 0 => Len(keys') <= count)
      BY <1>5, <2>1 DEF Paged
    <3> QED
      BY <1>2, <1>3, <3>1, <3>2
  <2>2. CASE ~ok
    BY <1>1, <1>2, <1>3, <2>2, EmptySeq
  <2> QED
    BY <2>1, <2>2
<1>7. Size' = Len(keys')
  BY <1>1, <1>2, <1>6 DEF Size
<1>8. All' = All /\ IndexerInv'
  BY <1>1, SameDb DEF IInv
<1>9. TypeOK'
  BY <1>1, <1>6 DEF IInv, TypeOK, db
<1>10. HandlerInv' /\ NothingMissed'
  BY <1>1, <1>2, <1>6, <1>7 DEF IInv, HandlerInv, NothingMissed
<1>11. PageFits'
  <2>1. Len(didl') + Len(keys') = Len(keys')
    BY <1>1, <1>2, <1>6
  <2> QED
    BY <1>1, <1>6, <2>1 DEF PageFits
<1> SUFFICES OwedInv' /\ MissInv'
  BY <1>8, <1>9, <1>10, <1>11 DEF IInv
<1>12. CASE expected' = {}
  BY <1>12 DEF OwedInv, MissInv
<1>13. CASE expected' # {}
  <2>1. ok /\ S = All /\ expected' = expected
    BY <1>1, <1>13 DEF S, All, Source
  <2>2. /\ expected \subseteq All /\ All \subseteq list /\ \A k \in All : node[k] = "ok"
    BY <1>13, <2>1 DEF IInv, OwedInv
  <2>3. \A j \in 1..Len(keys') : at + j \in 1..Len(s) /\ keys'[j] = s[at + j] /\ keys'[j] \in All
    BY <1>4, <1>5, <2>1 DEF Paged, Lists
  <2>4. OwedInv'
    BY <1>1, <1>8, <2>1, <2>2, <2>3 DEF OwedInv, db
  <2>5. Range(keys') \subseteq Have' /\ got \subseteq Have'
    BY <1>1 DEF Have
  <2>6. ASSUME NEW k \in All, NEW j \in 1..Len(keys'), at + j = Place(All, k) + 1
        PROVE  k \in Have'
    <3>1. s[Place(All, k) + 1] = k
      BY <1>4, <2>1 DEF Lists
    <3>2. keys'[j] = k
      BY <3>1, <2>3, <2>6
    <3> QED
      BY <3>2, <1>6, <2>5, Elements
  <2>7. \A k \in All : Place(All, k) \in Nat /\ Place(All, k) < Len(s)
    BY <1>4, <2>1 DEF Lists
  <2>8. Len(s) \in Nat /\ Len(s) <= Cardinality(Key)
    BY <1>4 DEF Lists
  <2>9. MissInv'
    <3> SUFFICES ASSUME requested > 0
                 PROVE  /\ Later(All, expected, Have', at + Len(keys'))
                        /\ requested >= Cardinality(Key) => expected \subseteq Have'
                        /\ Len(keys') = 0 => expected \subseteq got
      BY <1>1, <1>7, <1>8, <2>1 DEF MissInv
    <3>1. /\ Later(All, expected, got, at) /\ count = requested
          /\ requested >= Cardinality(Key) /\ at > 0 => expected \subseteq got
      BY <1>1, <1>2, <1>13, <2>1 DEF IInv, MissInv
    <3>2. Later(All, expected, Have', at + Len(keys'))
      <4> SUFFICES ASSUME NEW k \in expected, k \notin Have'
                   PROVE  Place(All, k) >= at + Len(keys')
        BY DEF Later
      <4>1. Place(All, k) >= at /\ k \in All
        BY <2>2, <2>5, <3>1 DEF Later
      <4> DEFINE j == Place(All, k) + 1 - at
      <4>2. j \in Int /\ j >= 1 /\ at + j = Place(All, k) + 1
        BY <1>3, <2>7, <4>1
      <4>3. ~(j <= Len(keys'))
        <5> SUFFICES ASSUME j <= Len(keys') PROVE FALSE
          OBVIOUS
        <5>1. j \in 1..Len(keys')
          BY <4>2, <1>6
        <5> QED
          BY <4>1, <4>2, <5>1, <2>6
      <4> QED
        BY <1>3, <1>6, <2>7, <4>1, <4>3
    <3>3. ASSUME requested >= Cardinality(Key) PROVE expected \subseteq Have'
      <4>1. CASE at > 0
        BY <3>1, <3>3, <4>1, <2>5
      <4>2. CASE at = 0
        <5>1. Len(keys') = Len(s)
          BY <1>3, <1>5, <2>1, <2>8, <3>1, <3>3, <4>2 DEF Paged
        <5> SUFFICES ASSUME NEW k \in expected PROVE k \in Have'
          OBVIOUS
        <5>2. k \in All /\ Place(All, k) + 1 \in 1..Len(keys')
              /\ at + (Place(All, k) + 1) = Place(All, k) + 1
          BY <2>2, <2>7, <2>8, <4>2, <5>1
        <5> QED
          BY <5>2, <2>6
      <4> QED
        BY <1>3, <4>1, <4>2
    <3>4. ASSUME Len(keys') = 0 PROVE expected \subseteq got
      <4>1. CASE at + requested - 1 <= IntMax
        <5>1. at >= Len(s)
          BY <1>5, <2>1, <3>1, <3>4, <4>1 DEF Paged
        <5> QED
          BY <5>1, <1>3, <2>2, <2>7, <2>8, <3>1 DEF Later
      <4>2. CASE at + requested - 1 > IntMax
        <5>1. requested >= Cardinality(Key) /\ at > 0
          BY <1>2, <1>3, <3>1, <4>2
        <5> QED
          BY <5>1, <3>1
      <4> QED
        BY <1>3, <4>1, <4>2
    <3> QED
      BY <3>2, <3>3, <3>4
  <2> QED
    BY <2>4, <2>9
<1> QED
  BY <1>12, <1>13

\* Writing a child moves it from the page to the result.
LEMMA Moves ==
    ASSUME NEW q \in Seq(Key), q # <<>>, NEW d \in Seq(Key)
    PROVE  /\ Head(q) \in Key /\ Head(q) = q[1] /\ 1 \in 1..Len(q)
           /\ Tail(q) \in Seq(Key) /\ Append(d, Head(q)) \in Seq(Key)
           /\ Len(Tail(q)) = Len(q) - 1 /\ Len(q) \in Nat \ {0} /\ Len(d) \in Nat
           /\ Len(Append(d, Head(q))) = Len(d) + 1
           /\ Range(Append(d, Head(q))) \union Range(Tail(q)) = Range(d) \union Range(q)
           /\ \A i \in 1..Len(Tail(q)) : i + 1 \in 1..Len(q) /\ Tail(q)[i] = q[i + 1]
<1> DEFINE h == Head(q)
           t == Tail(q)
           a == Append(d, h)
<1>1. /\ h \in Key /\ t \in Seq(Key) /\ Len(t) = Len(q) - 1 /\ Len(q) \in Nat \ {0}
      /\ \A i \in 1..Len(t) : t[i] = q[i + 1]
  BY HeadTailProperties, EmptySeq
<1>2. h = q[1] /\ 1 \in 1..Len(q)
  BY <1>1
<1>3. /\ a \in Seq(Key) /\ Len(a) = Len(d) + 1 /\ Len(d) \in Nat
      /\ \A i \in 1..Len(d) : a[i] = d[i]
      /\ a[Len(d) + 1] = h
  BY <1>1, AppendProperties, LenProperties
<1> HIDE DEF h, t, a
<1>4. ASSUME NEW k PROVE k \in Range(a) <=> k \in Range(d) \/ k = h
  <2>1. 1..Len(a) = 1..Len(d) \union {Len(d) + 1}
    BY <1>3
  <2> QED
    BY <1>3, <2>1, Elements
<1>5. ASSUME NEW k PROVE k \in Range(q) <=> k \in Range(t) \/ k = h
  <2>1. ASSUME NEW i \in 1..Len(q), q[i] = k, i # 1 PROVE \E j \in 1..Len(t) : t[j] = k
    <3>1. i - 1 \in 1..Len(t) /\ (i - 1) + 1 = i
      BY <1>1, <2>1
    <3> QED
      BY <1>1, <2>1, <3>1
  <2>2. ASSUME NEW j \in 1..Len(t), t[j] = k PROVE \E i \in 1..Len(q) : q[i] = k
    <3>1. j + 1 \in 1..Len(q)
      BY <1>1
    <3> QED
      BY <1>1, <2>2, <3>1
  <2>3. k \in Range(q) <=> \E i \in 1..Len(q) : q[i] = k
    BY Elements
  <2>4. k \in Range(t) <=> \E i \in 1..Len(t) : t[i] = k
    BY <1>1, Elements
  <2> QED
    BY <1>2, <2>1, <2>2, <2>3, <2>4
<1>6. \A i \in 1..Len(t) : i + 1 \in 1..Len(q)
  BY <1>1
<1> QED
  BY <1>1, <1>2, <1>3, <1>4, <1>5, <1>6 DEF h, t, a

LEMMA WriteStep == ASSUME IInv, write PROVE IInv'
<1>1. PICK ok \in BOOLEAN :
      /\ pc = "write" /\ keys # <<>> /\ keys' = Tail(keys)
      /\ didl' = IF ok /\ node[Head(keys)] = "ok" THEN Append(didl, Head(keys)) ELSE didl
      /\ expected' = IF ok THEN expected ELSE {}
      /\ UNCHANGED <<db, pc, index, count, client, at, requested, got>>
  BY DEF write, Owed
<1>2. keys \in Seq(Key) /\ didl \in Seq(Key) /\ at \in Nat /\ requested \in Nat
  BY BrowseConstants DEF IInv, TypeOK
<1>3. /\ Head(keys) = keys[1] /\ 1 \in 1..Len(keys)
      /\ keys' \in Seq(Key) /\ Append(didl, Head(keys)) \in Seq(Key)
      /\ Len(keys') = Len(keys) - 1 /\ Len(keys) \in Nat \ {0} /\ Len(didl) \in Nat
      /\ Len(Append(didl, Head(keys))) = Len(didl) + 1
      /\ Range(Append(didl, Head(keys))) \union Range(keys') = Range(didl) \union Range(keys)
      /\ \A i \in 1..Len(keys') : i + 1 \in 1..Len(keys) /\ keys'[i] = keys[i + 1]
  BY <1>1, <1>2, Moves
<1>4. /\ didl' \in Seq(Key) /\ Size \in Nat /\ Size' \in Nat /\ Size' <= Size
  BY <1>1, <1>3, <1>2 DEF Size
<1>5. All' = All /\ IndexerInv'
  BY <1>1, SameDb DEF IInv
<1>6. TypeOK'
  BY <1>1, <1>3, <1>4 DEF IInv, TypeOK, db
<1>7. HandlerInv'
  <2>1. at + Size <= Cardinality(Key) /\ Cardinality(Key) \in Nat
    BY <1>1, Finite DEF IInv, HandlerInv
  <2>2. at + Size' <= Cardinality(Key)
    BY <2>1, <1>2, <1>4
  <2> QED
    BY <1>1, <2>2 DEF IInv, HandlerInv
<1>8. PageFits'
  BY <1>1, <1>2, <1>4 DEF IInv, PageFits, Size
<1>9. NothingMissed'
  BY <1>1 DEF IInv, HandlerInv, NothingMissed
<1> SUFFICES OwedInv' /\ MissInv'
  BY <1>5, <1>6, <1>7, <1>8, <1>9 DEF IInv
<1>10. CASE expected' = {}
  BY <1>10 DEF OwedInv, MissInv
<1>11. CASE expected' # {}
  <2>1. /\ ok /\ expected' = expected /\ expected # {}
        /\ \A i \in 1..Len(keys) : node[keys[i]] = "ok"
    BY <1>1, <1>11 DEF IInv, OwedInv
  <2>2. didl' = Append(didl, Head(keys))
    BY <1>1, <1>3, <2>1
  <2>3. Size' = Size /\ Have' = Have
    <3>1. Size' = Size
      BY <1>3, <2>2 DEF Size
    <3>2. Range(didl') \union Range(keys') = Range(didl) \union Range(keys) /\ got' = got
      BY <1>1, <1>3, <2>2
    <3> QED
      BY <3>1, <3>2, Zenon DEF Have
  <2>4. OwedInv'
    BY <1>1, <1>3, <1>5, <2>1 DEF IInv, OwedInv, db
  <2>5. MissInv'
    BY <1>1, <1>5, <2>1, <2>3 DEF IInv, MissInv
  <2> QED
    BY <2>4, <2>5
<1> QED
  BY <1>10, <1>11

LEMMA RespondStep == ASSUME IInv, Respond PROVE IInv'
<1>1. PICK ok \in BOOLEAN :
      /\ pc = "write" /\ keys = <<>> /\ pc' = "idle"
      /\ got' = got \union Range(didl) /\ at' = at + Len(didl)
      /\ client' = IF didl = <<>> \/ at' >= children_count(ok) THEN "finished" ELSE client
      /\ expected' = IF ok THEN expected ELSE {}
      /\ UNCHANGED <<db, index, count, keys, didl, requested>>
  BY DEF Respond, soap_envelope, Owed
<1>2. didl \in Seq(Key) /\ at \in Nat /\ requested \in Nat
  BY BrowseConstants DEF IInv, TypeOK
<1>3. /\ Range(didl) \subseteq Key /\ Len(didl) \in Nat /\ (didl = <<>> <=> Len(didl) = 0)
      /\ Len(keys) = 0 /\ Range(keys) = {}
  <2>1. keys \in Seq(Key)
    BY DEF IInv, TypeOK
  <2>2. Len(keys) = 0
    BY <1>1, <2>1, Elements
  <2>3. Range(keys) = {}
    <3>1. 1..Len(keys) = {}
      BY <2>2
    <3> QED
      BY <2>1, <3>1, Elements
  <2>4. /\ Range(didl) \subseteq Key /\ Len(didl) \in Nat
        /\ (didl = <<>> <=> Len(didl) = 0)
    BY <1>2, Elements
  <2> QED
    BY <2>2, <2>3, <2>4
<1>4. Size = Len(didl) /\ Have = got' /\ at' = at + Size /\ at' \in Nat
  BY <1>1, <1>2, <1>3 DEF Size, Have
<1>5. client = "paging" /\ at + Size <= Cardinality(Key)
  BY <1>1 DEF IInv, HandlerInv
<1>6. All' = All /\ IndexerInv'
  BY <1>1, SameDb DEF IInv
<1>7. TypeOK'
  <2>1. got' \subseteq Key /\ expected' \subseteq Key
    BY <1>1, <1>3 DEF IInv, TypeOK
  <2>2. client' \in {"finished", "paging"}
    BY <1>1, <1>5
  <2> QED
    BY <1>1, <1>4, <2>1, <2>2 DEF IInv, TypeOK, db
<1>8. HandlerInv' /\ PageFits'
  BY <1>1, <1>4, <1>5 DEF HandlerInv, PageFits
<1>9. OwedInv'
  BY <1>1, <1>6 DEF IInv, OwedInv, db
<1> SUFFICES MissInv' /\ NothingMissed'
  BY <1>6, <1>7, <1>8, <1>9 DEF IInv
<1>10. CASE expected' = {} \/ ~(requested > 0)
  BY <1>1, <1>10 DEF MissInv, NothingMissed
<1>11. CASE expected' # {} /\ requested > 0
  <2>1. /\ ok /\ expected' = expected /\ expected # {}
        /\ expected \subseteq All /\ All \subseteq list
    BY <1>1, <1>11 DEF IInv, OwedInv
  <2>2. /\ Later(All, expected, got', at')
        /\ requested >= Cardinality(Key) => expected \subseteq got'
        /\ Len(didl) = 0 => expected \subseteq got
    BY <1>1, <1>4, <1>5, <1>11, <2>1 DEF IInv, MissInv
  <2>3. MissInv'
    BY <1>1, <1>6, <2>1, <2>2 DEF MissInv
  <2>4. ASSUME client' = "finished" PROVE expected \subseteq got'
    <3>1. CASE didl = <<>>
      BY <3>1, <1>1, <1>3, <2>2
    <3>2. CASE at' >= Cardinality(list)
      <4> SUFFICES ASSUME NEW k \in expected PROVE k \in got'
        OBVIOUS
      <4>1. list \in SUBSET Key /\ All \in SUBSET Key /\ k \in All
        BY <2>1 DEF IInv, TypeOK
      <4>2. Place(All, k) \in 0..(Cardinality(All) - 1)
        BY <4>1, PlaceBound
      <4>3. Cardinality(All) \in Nat /\ Cardinality(list) \in Nat /\ IsFiniteSet(list)
        BY <4>1, Finite
      <4>4. Cardinality(All) <= Cardinality(list)
        BY <2>1, <4>3, FS_Subset
      <4>5. Place(All, k) \in Int /\ ~(Place(All, k) >= at')
        BY <3>2, <4>2, <4>3, <4>4, <1>4
      <4> QED
        BY <4>5, <2>2 DEF Later
    <3> QED
      BY <1>1, <1>5, <2>1, <2>4, <3>1, <3>2 DEF children_count
  <2> QED
    BY <1>1, <2>1, <2>3, <2>4 DEF NothingMissed
<1> QED
  BY <1>10, <1>11
-----------------------------------------------------------------------------
(***************************************************************************)
(* The specification.                                                      *)
(***************************************************************************)
LEMMA InvInit == Init => IInv
<1> HAVE Init
<1>1. /\ class \in {"root", "album", "other"} /\ list \subseteq Key /\ sorted = list
      /\ tracks = (IF album THEN list ELSE {})
      /\ node \in [Key -> {"none", "partial", "ok"}] /\ writes = 0
      /\ pc = "idle" /\ index = 0 /\ count = 0 /\ keys = <<>> /\ didl = <<>>
      /\ client = "new" /\ at = 0 /\ requested \in Counts /\ got = {} /\ expected = {}
  BY DEF Init
<1>2. IntMax \in Nat /\ MaxWrites \in Nat /\ Cardinality(Key) \in Nat
  BY BrowseConstants, Finite
<1>3. TypeOK
  <2>1. keys \in Seq(Key) /\ didl \in Seq(Key) /\ tracks \subseteq Key
    BY <1>1, EmptySeq
  <2>2. writes \in 0..MaxWrites /\ index \in 0..IntMax /\ count \in -1..IntMax
    BY <1>1, <1>2
  <2> QED
    BY <1>1, <2>1, <2>2 DEF TypeOK
<1>4. HandlerInv /\ PageFits /\ IndexerInv /\ OwedInv /\ MissInv /\ NothingMissed
  BY <1>1, <1>2 DEF HandlerInv, PageFits, IndexerInv, OwedInv, MissInv, NothingMissed
<1> QED
  BY <1>3, <1>4 DEF IInv

LEMMA InvStep == IInv /\ [Next]_vars => IInv'
<1> SUFFICES ASSUME IInv, [Next]_vars PROVE IInv'
  OBVIOUS
<1>1. CASE Request
  BY <1>1, RequestStep
<1>2. CASE RequestThrows \/ WriteThrows
  BY <1>2, ThrowsStep
<1>3. CASE ReadPage
  BY <1>3, ReadPageStep
<1>4. CASE write
  BY <1>4, WriteStep
<1>5. CASE Respond
  BY <1>5, RespondStep
<1>6. CASE Indexer
  BY <1>6, SaveStep, ListStep, SortStep, FilesStep DEF Indexer
<1>7. CASE UNCHANGED vars
  <2>1. UNCHANGED <<db, handler, controlPoint>>
    BY <1>7 DEF vars
  <2>2. /\ UNCHANGED <<class, list, sorted, tracks, node, writes>>
        /\ UNCHANGED <<pc, index, count, keys, didl>>
        /\ UNCHANGED <<client, at, requested, got, expected>>
    BY <2>1 DEF db, handler, controlPoint
  <2>3. All' = All /\ Size' = Size /\ Have' = Have /\ (IndexerInv => IndexerInv')
    BY <2>1, <2>2, SameDb DEF Size, Have
  <2>4. TypeOK' /\ HandlerInv' /\ PageFits' /\ NothingMissed'
    BY <2>2, <2>3 DEF IInv, TypeOK, HandlerInv, PageFits, NothingMissed
  <2>5. OwedInv' /\ MissInv'
    BY <2>2, <2>3 DEF IInv, OwedInv, MissInv
  <2> QED
    BY <2>3, <2>4, <2>5 DEF IInv
<1> QED
  BY <1>1, <1>2, <1>3, <1>4, <1>5, <1>6, <1>7 DEF Next, Handler

LEMMA Invariance == Spec => []IInv
BY InvInit, InvStep, PTL DEF Spec

\* The handler's and the control point's state is well-formed, for pages of any
\* length: the int of an argument is never negative but for the count of all.
THEOREM TypeCorrect == Spec => []TypeOK
<1>1. IInv => TypeOK
  BY DEF IInv
<1> QED
  BY <1>1, Invariance, PTL

\* No page of children() or files() is longer than RequestedCount, although
\* the int in which its end is computed may overflow.
THEOREM NeverTooMany == Spec => []PageFits
<1>1. IInv => PageFits
  BY DEF IInv
<1> QED
  BY <1>1, Invariance, PTL

\* A control point that pages through a container of any size while the
\* indexer writes has, in the end, every child that was there and complete
\* when it began, unless a command failed or one was removed.
THEOREM AllFound == Spec => []NothingMissed
<1>1. IInv => NothingMissed
  BY DEF IInv
<1> QED
  BY <1>1, Invariance, PTL
=============================================================================
