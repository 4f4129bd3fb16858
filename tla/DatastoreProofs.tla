--------------------------- MODULE DatastoreProofs ---------------------------
(***************************************************************************)
(* The lists, the tag index and the mime counters, for any number of calls *)
(* and wherever the indexer ends or a command fails.                       *)
(***************************************************************************)
EXTENDS Datastore, FiniteSetTheorems, SequenceTheorems, TLAPS

IsSeq(s) == \E S : s \in Seq(S)

ListKey(x) == <<"fs", x, "list">>
FilesKey(x, n) == <<"fs", x, "types", n>>
TagKey(n, x) == <<"fs", n, "tag", x>>
MimeKey == <<"fs", "mime">>

Pair(c) == <<c.key, c.member>>
Touches(c, p) == c.op \in {"add", "rem"} /\ Pair(c) = p
-----------------------------------------------------------------------------
(***************************************************************************)
(* Keys.                                                                   *)
(***************************************************************************)
LEMMA Names == \A n \in TypeName : str(parse(n)) = n
<1> TAKE n \in TypeName
<1>1. n \in Range(Enum)
  BY DatastoreConstants
<1>2. \E i \in DOMAIN Enum : Enum[i] = n
  BY <1>1 DEF Range
<1>3. parse(n) \in DOMAIN Enum /\ Enum[parse(n)] = n
  BY <1>1, <1>2 DEF parse
<1>4. Enum = NAMES
  BY DEF Enum, NAMES
<1> QED
  BY <1>3, <1>4 DEF str

\* Joining tokens.
LEMMA Join ==
    ASSUME NEW a, NEW b, NEW c, NEW d
    PROVE  /\ <<a>> \o <<b, c>> = <<a, b, c>>
           /\ <<a>> \o <<b, c, d>> = <<a, b, c, d>>
<1> DEFINE S == {a, b, c, d}
<1>1. /\ <<a>> \in Seq(S) /\ <<b, c>> \in Seq(S) /\ <<b, c, d>> \in Seq(S)
      /\ <<a, b, c>> \in Seq(S) /\ <<a, b, c, d>> \in Seq(S)
  OBVIOUS
<1>2. <<a>> \o <<b, c>> = <<a, b, c>>
  <2>1. /\ <<a>> \o <<b, c>> \in Seq(S) /\ Len(<<a>> \o <<b, c>>) = 3
        /\ \A i \in 1..3 : (<<a>> \o <<b, c>>)[i] = IF i <= 1 THEN a ELSE <<b, c>>[i - 1]
    BY <1>1, ConcatProperties
  <2>2. \A i \in 1..3 : (<<a>> \o <<b, c>>)[i] = <<a, b, c>>[i]
    BY <2>1
  <2> QED
    BY <1>1, <2>1, <2>2, SeqEqual
<1>3. <<a>> \o <<b, c, d>> = <<a, b, c, d>>
  <2>1. /\ <<a>> \o <<b, c, d>> \in Seq(S) /\ Len(<<a>> \o <<b, c, d>>) = 4
        /\ \A i \in 1..4 :
               (<<a>> \o <<b, c, d>>)[i] = IF i <= 1 THEN a ELSE <<b, c, d>>[i - 1]
    BY <1>1, ConcatProperties
  <2>2. \A i \in 1..4 : (<<a>> \o <<b, c, d>>)[i] = <<a, b, c, d>>[i]
    BY <2>1
  <2> QED
    BY <1>1, <2>1, <2>2, SeqEqual
<1> QED
  BY <1>2, <1>3

LEMMA Keys ==
    /\ \A x : make_key_list(x) = ListKey(x)
    /\ \A x, n : make_key_types(x, n) = FilesKey(x, str(n))
    /\ \A n, x : make_key_tag(n, x) = TagKey(str(n), x)
<1>1. ASSUME NEW x PROVE make_key_list(x) = ListKey(x)
  <2>1. <<"fs">> \o <<x, "list">> = <<"fs", x, "list">>
    BY Join
  <2> QED
    BY <2>1, Zenon DEF make_key_list, make_key, ListKey
<1>2. ASSUME NEW x, NEW n PROVE make_key_types(x, n) = FilesKey(x, str(n))
  <2>1. <<"fs">> \o <<x, "types", str(n)>> = <<"fs", x, "types", str(n)>>
    BY Join
  <2> QED
    BY <2>1, Zenon DEF make_key_types, make_key, FilesKey
<1>3. ASSUME NEW n, NEW x PROVE make_key_tag(n, x) = TagKey(str(n), x)
  <2>1. <<"fs">> \o <<str(n), "tag", x>> = <<"fs", str(n), "tag", x>>
    BY Join
  <2> QED
    BY <2>1, Zenon DEF make_key_tag, make_key, TagKey
<1> QED
  BY <1>1, <1>2, <1>3

\* Different kinds of keys are never the same key.
LEMMA KeysDiffer ==
    ASSUME NEW x, NEW n, NEW y, NEW m
    PROVE  /\ ListKey(x) = ListKey(y) => x = y
           /\ FilesKey(x, n) = FilesKey(y, m) => x = y /\ n = m
           /\ TagKey(x, n) = TagKey(y, m) => x = y /\ n = m
           /\ ListKey(x) # FilesKey(y, m) /\ ListKey(x) # TagKey(y, m)
           /\ FilesKey(x, n) # TagKey(y, m)
           /\ MimeKey \notin {ListKey(x), FilesKey(x, n), TagKey(x, n)}
BY DEF ListKey, FilesKey, TagKey, MimeKey
-----------------------------------------------------------------------------
(***************************************************************************)
(* The connection.                                                         *)
(***************************************************************************)
\* r is what is on the connection when t is sent after q.
Sent(r, q, t) ==
    /\ IsSeq(r) /\ Len(r) = Len(q) + Len(t) /\ Len(q) \in Nat /\ Len(t) \in Nat
    /\ \A i \in 1..Len(q) : r[i] = q[i] /\ i \in 1..Len(r)
    /\ \A i \in 1..Len(t) : r[Len(q) + i] = t[i] /\ Len(q) + i \in 1..Len(r)
    /\ \A j \in 1..Len(r) : j \in 1..Len(q) \/ \E i \in 1..Len(t) : j = Len(q) + i

LEMMA Sending ==
    ASSUME NEW s, NEW t, IsSeq(s), IsSeq(t)
    PROVE  Sent(s \o t, s, t)
<1>1. PICK S : s \in Seq(S)
  BY DEF IsSeq
<1>2. PICK T : t \in Seq(T)
  BY DEF IsSeq
<1>3. s \in Seq(S \union T) /\ t \in Seq(S \union T)
  BY <1>1, <1>2, SeqMonotonic
<1>4. /\ s \o t \in Seq(S \union T) /\ Len(s \o t) = Len(s) + Len(t)
      /\ Len(s) \in Nat /\ Len(t) \in Nat
      /\ \A i \in 1 .. Len(s) + Len(t) :
             (s \o t)[i] = IF i <= Len(s) THEN s[i] ELSE t[i - Len(s)]
  BY <1>3, ConcatProperties, LenProperties
<1>5. \A i \in 1..Len(s) : (s \o t)[i] = s[i]
  BY <1>4
<1>6. ASSUME NEW i \in 1..Len(t) PROVE (s \o t)[Len(s) + i] = t[i]
  <2>1. Len(s) + i \in 1..Len(s) + Len(t) /\ ~(Len(s) + i <= Len(s))
        /\ (Len(s) + i) - Len(s) = i
    BY <1>4
  <2> QED
    BY <1>4, <2>1
<1>7. ASSUME NEW j \in 1..(Len(s) + Len(t)), j \notin 1..Len(s)
      PROVE  \E i \in 1..Len(t) : j = Len(s) + i
  <2>1. j - Len(s) \in 1..Len(t) /\ j = Len(s) + (j - Len(s))
    BY <1>4, <1>7
  <2> QED
    BY <2>1
<1>8. /\ \A i \in 1..Len(s) : i \in 1..Len(s \o t)
      /\ \A i \in 1..Len(t) : Len(s) + i \in 1..Len(s \o t)
  BY <1>4
<1> QED
  BY <1>4, <1>5, <1>6, <1>7, <1>8 DEF IsSeq, Sent

\* r is what is on the connection when the first command of q is done.
Rest(r, q) ==
    /\ IsSeq(r) /\ Len(q) \in Nat \ {0} /\ Len(r) = Len(q) - 1
    /\ \A i \in 1..Len(r) : r[i] = q[i + 1] /\ i + 1 \in 1..Len(q)
    /\ \A i \in 2..Len(q) : i - 1 \in 1..Len(r) /\ r[i - 1] = q[i]

LEMMA Taking ==
    ASSUME NEW s, IsSeq(s), s # <<>>
    PROVE  Rest(Tail(s), s) /\ Head(s) = s[1]
<1>1. PICK S : s \in Seq(S)
  BY DEF IsSeq
<1>2. /\ Tail(s) \in Seq(S) /\ Len(Tail(s)) = Len(s) - 1 /\ Len(s) \in Nat \ {0}
      /\ \A i \in 1..Len(Tail(s)) : Tail(s)[i] = s[i + 1]
      /\ Head(s) = s[1]
  BY <1>1, HeadTailProperties, EmptySeq
<1>3. \A i \in 1..Len(Tail(s)) : i + 1 \in 1..Len(s)
  BY <1>2
<1>4. ASSUME NEW i \in 2..Len(s)
      PROVE  i - 1 \in 1..Len(Tail(s)) /\ Tail(s)[i - 1] = s[i]
  <2>1. i - 1 \in 1..Len(Tail(s)) /\ (i - 1) + 1 = i
    BY <1>2
  <2> QED
    BY <1>2, <2>1
<1> QED
  BY <1>2, <1>3, <1>4 DEF IsSeq, Rest
-----------------------------------------------------------------------------
(***************************************************************************)
(* The inductive invariant.                                                *)
(***************************************************************************)
\* The keys from which nothing is ever removed.
Kept(key) == key = MimeKey \/ \E n, x : key = TagKey(n, x)

Formed(c) ==
    /\ c.op \in {"add", "rem", "incr"}
    /\ c.op = "incr" => c.key \in Mime
    /\ c.op = "rem" => ~Kept(c.key)

TypeInv ==
    /\ IsSeq(pipe) /\ \A i \in 1..Len(pipe) : Formed(pipe[i])
    /\ \A p \in db : p = <<p[1], p[2]>>
    /\ counter \in [Mime -> Nat] /\ counted \in [Mime -> Nat]
    /\ failed \in BOOLEAN /\ crashed \in BOOLEAN
    /\ \A p \in typed : \E x : p[1] = ListKey(x)

\* The pairs that ListsAsAsked is about.
Watched == {<<ListKey(n), k>> : n \in TypeName, k \in Item}
               \union {<<FilesKey(c, n), k>> : c \in Container, n \in TypeName, k \in Item}

\* p is in the database as it was asked for, or the last command on its way
\* for p makes it so.
Settled(q, D, L, p) ==
    /\ (\A i \in 1..Len(q) : ~Touches(q[i], p)) => (p \in D <=> p \in L)
    /\ \A i \in 1..Len(q) :
           Touches(q[i], p) /\ (\A j \in 1..Len(q) : j > i => ~Touches(q[j], p))
               => (q[i].op = "add" <=> p \in L)
ListInv ==
    ~failed /\ ~crashed =>
        \A p \in Watched : p \notin typed => Settled(pipe, db, listed, p)

\* x is under key, or will be before the i-th command is executed.
Before(q, D, i, key, x) ==
    \/ <<key, x>> \in D
    \/ \E j \in 1..Len(q) : j < i /\ q[j].op = "add" /\ Pair(q[j]) = <<key, x>>

\* The value v of type n is in the tag index, under a tag that is in it.
Entered(q, D, i, n, v) ==
    \E t \in Tag : Before(q, D, i, TagKey(n, "name"), t) /\ Before(q, D, i, TagKey(n, t), v)

WasTagged(T, p) ==
    \A n \in TypeName, v \in Value :
        p[1] = TagKey(n, v) => \E t \in Tag : <<n, t, v, p[2]>> \in T
TagInv ==
    /\ \A p \in db : WasTagged(tagged, p)
    /\ \A i \in 1..Len(pipe) : pipe[i].op = "add" => WasTagged(tagged, Pair(pipe[i]))
    /\ ~failed => \A n \in TypeName, v \in Value :
           /\ \A p \in db : p[1] = TagKey(n, v) => Entered(<<>>, db, 0, n, v)
           /\ \A i \in 1..Len(pipe) :
                  pipe[i].op = "add" /\ pipe[i].key = TagKey(n, v)
                      => Entered(pipe, db, i, n, v)

\* The INCRs of m on their way.
Incrs(q, m) == {i \in 1..Len(q) : q[i].op = "incr" /\ q[i].key = m}
CountInv ==
    \A m \in Mime :
        /\ counter[m] + Cardinality(Incrs(pipe, m)) <= counted[m]
        /\ ~failed /\ ~crashed => counter[m] + Cardinality(Incrs(pipe, m)) = counted[m]
MimeInv ==
    ~failed => \A m \in Mime :
        /\ counter[m] > 0 => <<MimeKey, m>> \in db
        /\ \A i \in Incrs(pipe, m) : Before(pipe, db, i, MimeKey, m)

IInv == TypeInv /\ ListInv /\ TagInv /\ CountInv /\ MimeInv
-----------------------------------------------------------------------------
(***************************************************************************)
(* Sending commands.                                                       *)
(***************************************************************************)
LEMMA SettledSend ==
    ASSUME NEW q, IsSeq(q), NEW t, IsSeq(t), NEW D, NEW L, NEW M, NEW p,
           Settled(q, D, L, p),
           \A i \in 1..Len(t) : Touches(t[i], p) => (t[i].op = "add" <=> p \in M),
           (\A i \in 1..Len(t) : ~Touches(t[i], p)) => (p \in M <=> p \in L)
    PROVE  Settled(q \o t, D, M, p)
<1> DEFINE r == q \o t
<1>0. Sent(r, q, t)
  BY Sending
<1> HIDE DEF r
<1>1. /\ Len(r) = Len(q) + Len(t) /\ Len(q) \in Nat /\ Len(t) \in Nat
      /\ \A i \in 1..Len(q) : r[i] = q[i] /\ i \in 1..Len(r)
      /\ \A i \in 1..Len(t) : r[Len(q) + i] = t[i] /\ Len(q) + i \in 1..Len(r)
      /\ \A j \in 1..Len(r) : j \in 1..Len(q) \/ \E i \in 1..Len(t) : j = Len(q) + i
  BY <1>0 DEF Sent
<1>2. ASSUME \A i \in 1..Len(r) : ~Touches(r[i], p)
      PROVE  p \in D <=> p \in M
  <2>1. \A i \in 1..Len(q) : ~Touches(q[i], p)
    BY <1>1, <1>2
  <2>2. \A i \in 1..Len(t) : ~Touches(t[i], p)
    BY <1>1, <1>2
  <2> QED
    BY <2>1, <2>2 DEF Settled
<1>3. ASSUME NEW i \in 1..Len(r), Touches(r[i], p),
             \A j \in 1..Len(r) : j > i => ~Touches(r[j], p)
      PROVE  r[i].op = "add" <=> p \in M
  <2>1. CASE i \in 1..Len(q)
    <3>1. ASSUME NEW k \in 1..Len(t) PROVE ~Touches(t[k], p)
      <4>1. Len(q) + k \in 1..Len(r) /\ Len(q) + k > i /\ r[Len(q) + k] = t[k]
        BY <1>1, <2>1
      <4> QED
        BY <4>1, <1>3
    <3>2. Touches(q[i], p) /\ r[i] = q[i] /\ \A j \in 1..Len(q) : j > i => ~Touches(q[j], p)
      BY <1>1, <1>3, <2>1
    <3> QED
      BY <3>1, <3>2, <2>1 DEF Settled
  <2>2. ASSUME NEW k \in 1..Len(t), i = Len(q) + k PROVE r[i].op = "add" <=> p \in M
    BY <1>1, <1>3, <2>2
  <2> QED
    BY <1>1, <2>1, <2>2
<1> QED
  BY <1>2, <1>3 DEF Settled, r

\* What comes before a command still does when others are sent after it.
LEMMA BeforeSend ==
    ASSUME NEW q, IsSeq(q), NEW t, IsSeq(t), NEW D, NEW i, NEW key, NEW x,
           Before(q, D, i, key, x)
    PROVE  Before(q \o t, D, i, key, x)
<1> DEFINE r == q \o t
<1>1. \A j \in 1..Len(q) : r[j] = q[j] /\ j \in 1..Len(r)
  BY Sending DEF Sent
<1> HIDE DEF r
<1> QED
  BY <1>1 DEF Before, r

LEMMA EnteredSend ==
    ASSUME NEW q, IsSeq(q), NEW t, IsSeq(t), NEW D, NEW i, NEW n, NEW v,
           Entered(q, D, i, n, v)
    PROVE  Entered(q \o t, D, i, n, v)
BY BeforeSend DEF Entered

LEMMA IncrsFinite ==
    ASSUME NEW q, IsSeq(q), NEW m
    PROVE  IsFiniteSet(Incrs(q, m)) /\ Cardinality(Incrs(q, m)) \in Nat
<1>1. Incrs(q, m) \in SUBSET (1..Len(q)) /\ Len(q) \in Nat
  BY LenProperties DEF Incrs, IsSeq
<1>2. IsFiniteSet(1..Len(q))
  BY <1>1, FS_Interval
<1> QED
  BY <1>1, <1>2, FS_Subset, FS_CardinalityType

LEMMA TypeSend ==
    ASSUME IInv, NEW t, IsSeq(t), pipe' = pipe \o t,
           \A i \in 1..Len(t) : Formed(t[i]),
           UNCHANGED <<db, counter, failed, crashed>>,
           counted' \in [Mime -> Nat], \A p \in typed' : \E x : p[1] = ListKey(x)
    PROVE  TypeInv'
<1>1. Sent(pipe', pipe, t)
  BY Sending DEF IInv, TypeInv
<1>2. \A i \in 1..Len(pipe') : Formed(pipe'[i])
  BY <1>1 DEF Sent, IInv, TypeInv
<1> QED
  BY <1>1, <1>2 DEF Sent, IInv, TypeInv

LEMMA ListSend ==
    ASSUME IInv, NEW t, IsSeq(t), pipe' = pipe \o t, UNCHANGED <<db, failed, crashed>>,
           typed \subseteq typed',
           \A p \in Watched : p \notin typed' =>
               /\ \A i \in 1..Len(t) :
                      Touches(t[i], p) => (t[i].op = "add" <=> p \in listed')
               /\ (\A i \in 1..Len(t) : ~Touches(t[i], p))
                      => (p \in listed' <=> p \in listed)
    PROVE  ListInv'
<1> SUFFICES ASSUME ~failed, ~crashed, NEW p \in Watched, p \notin typed'
             PROVE  Settled(pipe \o t, db, listed', p)
  BY DEF ListInv
<1>1. IsSeq(pipe) /\ Settled(pipe, db, listed, p)
  BY DEF IInv, TypeInv, ListInv
<1> QED
  BY <1>1, SettledSend

LEMMA TagSend ==
    ASSUME IInv, NEW t, IsSeq(t), pipe' = pipe \o t, UNCHANGED <<db, failed>>,
           tagged \subseteq tagged',
           \A i \in 1..Len(t) : t[i].op = "add" =>
               /\ WasTagged(tagged', Pair(t[i]))
               /\ \A n \in TypeName, v \in Value :
                      t[i].key = TagKey(n, v) =>
                          Entered(pipe \o t, db, Len(pipe) + i, n, v)
    PROVE  TagInv'
<1>1. IsSeq(pipe) /\ Sent(pipe', pipe, t)
  BY Sending DEF IInv, TypeInv
<1>2. \A p : WasTagged(tagged, p) => WasTagged(tagged', p)
  BY DEF WasTagged
<1>3. \A i \in 1..Len(pipe') : pipe'[i].op = "add" => WasTagged(tagged', Pair(pipe'[i]))
  BY <1>1, <1>2 DEF IInv, TagInv, Sent
<1>4. ASSUME ~failed, NEW n \in TypeName, NEW v \in Value, NEW i \in 1..Len(pipe'),
             pipe'[i].op = "add", pipe'[i].key = TagKey(n, v)
      PROVE  Entered(pipe', db, i, n, v)
  <2>1. CASE i \in 1..Len(pipe)
    <3>1. Entered(pipe, db, i, n, v)
      BY <1>1, <1>4, <2>1 DEF IInv, TagInv, Sent
    <3> QED
      BY <3>1, <1>1, EnteredSend
  <2>2. ASSUME NEW k \in 1..Len(t), i = Len(pipe) + k PROVE Entered(pipe', db, i, n, v)
    BY <1>1, <1>4, <2>2 DEF Sent
  <2> QED
    BY <1>1, <2>1, <2>2 DEF Sent
<1>5. \A p \in db' : WasTagged(tagged', p)
  BY <1>2 DEF IInv, TagInv
<1>6. ~failed => \A n \in TypeName, v \in Value :
          \A p \in db : p[1] = TagKey(n, v) => Entered(<<>>, db, 0, n, v)
  BY DEF IInv, TagInv
<1> QED
  BY <1>3, <1>4, <1>5, <1>6 DEF TagInv

LEMMA MimeSend ==
    ASSUME IInv, NEW t, IsSeq(t), pipe' = pipe \o t, UNCHANGED <<db, counter, failed>>,
           \A i \in 1..Len(t) : t[i].op = "incr" =>
               Before(pipe \o t, db, Len(pipe) + i, MimeKey, t[i].key)
    PROVE  MimeInv'
<1>1. IsSeq(pipe) /\ Sent(pipe', pipe, t)
  BY Sending DEF IInv, TypeInv
<1>2. ASSUME ~failed, NEW m \in Mime, NEW i \in Incrs(pipe', m)
      PROVE  Before(pipe', db, i, MimeKey, m)
  <2>1. i \in 1..Len(pipe') /\ pipe'[i].op = "incr" /\ pipe'[i].key = m
    BY DEF Incrs
  <2>2. CASE i \in 1..Len(pipe)
    <3>1. Before(pipe, db, i, MimeKey, m)
      BY <1>1, <1>2, <2>1, <2>2 DEF IInv, MimeInv, Incrs, Sent
    <3> QED
      BY <3>1, <1>1, BeforeSend
  <2>3. ASSUME NEW k \in 1..Len(t), i = Len(pipe) + k PROVE Before(pipe', db, i, MimeKey, m)
    BY <1>1, <2>1, <2>3 DEF Sent
  <2> QED
    BY <1>1, <2>1, <2>2, <2>3 DEF Sent
<1> QED
  BY <1>2 DEF IInv, MimeInv

\* Calls that count nothing.
LEMMA CountSend ==
    ASSUME IInv, NEW t, IsSeq(t), pipe' = pipe \o t,
           UNCHANGED <<counter, failed, crashed, counted>>,
           \A i \in 1..Len(t) : t[i].op # "incr"
    PROVE  CountInv'
<1>1. Sent(pipe', pipe, t)
  BY Sending DEF IInv, TypeInv
<1>2. ASSUME NEW m \in Mime PROVE Incrs(pipe', m) = Incrs(pipe, m)
  <2>1. \A i \in Incrs(pipe, m) : i \in Incrs(pipe', m)
    BY <1>1 DEF Incrs, Sent
  <2>2. ASSUME NEW i \in Incrs(pipe', m) PROVE i \in Incrs(pipe, m)
    <3>1. i \in 1..Len(pipe') /\ pipe'[i].op = "incr" /\ pipe'[i].key = m
      BY DEF Incrs
    <3>2. i \in 1..Len(pipe)
      BY <1>1, <3>1 DEF Sent
    <3> QED
      BY <1>1, <3>1, <3>2 DEF Sent, Incrs
  <2> QED
    BY <2>1, <2>2
<1> QED
  BY <1>2 DEF IInv, CountInv
-----------------------------------------------------------------------------
(***************************************************************************)
(* The calls.                                                              *)
(***************************************************************************)
LEMMA Single ==
    ASSUME NEW c
    PROVE  IsSeq(<<c>>) /\ Len(<<c>>) = 1 /\ <<c>>[1] = c /\ 1..1 = {1}
<1>1. <<c>> \in Seq({c})
  OBVIOUS
<1>2. IsSeq(<<c>>)
  BY <1>1, Zenon DEF IsSeq
<1> QED
  BY <1>2

\* A call that sends one command about a list of nodes or files.
LEMMA ListCall ==
    ASSUME IInv, NEW c, pipe' = pipe \o <<c>>, UNCHANGED <<db, counter, failed, crashed>>,
           UNCHANGED <<tagged, counted>>, c.op \in {"add", "rem"}, ~Kept(c.key),
           typed \subseteq typed', \A p \in typed' : \E x : p[1] = ListKey(x),
           \A p \in Watched : p \notin typed' =>
               IF Pair(c) = p THEN c.op = "add" <=> p \in listed'
                              ELSE p \in listed' <=> p \in listed
    PROVE  IInv'
<1> DEFINE t == <<c>>
<1>0. IsSeq(t) /\ \A i \in 1..Len(t) : i = 1 /\ t[i] = c
  BY Single
<1>00. 1 \in 1..Len(t)
  BY Single
<1> HIDE DEF t
<1>1. TypeInv'
  <2>1. \A i \in 1..Len(t) : Formed(t[i])
    BY <1>0 DEF Formed
  <2>2. counted' \in [Mime -> Nat]
    BY DEF IInv, TypeInv
  <2> QED
    BY <1>0, <2>1, <2>2, TypeSend DEF t
<1>2. ListInv'
  <2>1. \A p : Touches(c, p) <=> Pair(c) = p
    BY DEF Touches
  <2>2. ASSUME NEW p \in Watched, p \notin typed'
        PROVE  /\ \A i \in 1..Len(t) :
                      Touches(t[i], p) => (t[i].op = "add" <=> p \in listed')
               /\ (\A i \in 1..Len(t) : ~Touches(t[i], p))
                      => (p \in listed' <=> p \in listed)
    BY <1>0, <1>00, <2>1, <2>2
  <2> QED
    BY <1>0, <2>2, ListSend DEF t
<1>3. TagInv'
  <2>1. \A n, v : c.key # TagKey(n, v)
    BY DEF Kept
  <2>2. WasTagged(tagged', Pair(c))
    BY <2>1 DEF WasTagged, Pair
  <2> QED
    BY <1>0, <2>1, <2>2, TagSend DEF t
<1>4. \A i \in 1..Len(t) : t[i].op # "incr"
  BY <1>0
<1>5. CountInv'
  BY <1>0, <1>4, CountSend DEF t
<1>6. MimeInv'
  BY <1>0, <1>4, MimeSend DEF t
<1> QED
  BY <1>1, <1>2, <1>3, <1>5, <1>6 DEF IInv

\* The commands add and remove what they name.
LEMMA Commands ==
    ASSUME NEW key, NEW x
    PROVE  /\ Add(key, x).op = "add" /\ Add(key, x).key = key /\ Add(key, x).member = x
           /\ Rem(key, x).op = "rem" /\ Rem(key, x).key = key /\ Rem(key, x).member = x
           /\ Pair(Add(key, x)) = <<key, x>> /\ Pair(Rem(key, x)) = <<key, x>>
BY DEF Add, Rem, Pair

LEMMA NotKept == \A x, n : ~Kept(ListKey(x)) /\ ~Kept(FilesKey(x, n))
BY KeysDiffer DEF Kept

\* The pair a call asks for is the one its command is about.
LEMMA ExactCall ==
    ASSUME IInv, NEW key, NEW x, ~Kept(key),
           UNCHANGED <<db, counter, failed, crashed, typed, tagged, counted>>,
           \/ pipe' = pipe \o <<Add(key, x)>> /\ listed' = listed \union {<<key, x>>}
           \/ pipe' = pipe \o <<Rem(key, x)>> /\ listed' = listed \ {<<key, x>>}
    PROVE  IInv'
<1>1. typed \subseteq typed' /\ \A p \in typed' : \E y : p[1] = ListKey(y)
  BY DEF IInv, TypeInv
<1>2. CASE pipe' = pipe \o <<Add(key, x)>> /\ listed' = listed \union {<<key, x>>}
  <2> DEFINE c == Add(key, x)
  <2>1. c.op = "add" /\ c.key = key /\ Pair(c) = <<key, x>>
    BY Commands
  <2> HIDE DEF c
  <2>2. \A p \in Watched : IF Pair(c) = p THEN c.op = "add" <=> p \in listed'
                                          ELSE p \in listed' <=> p \in listed
    BY <1>2, <2>1
  <2> QED
    BY <1>1, <1>2, <2>1, <2>2, ListCall DEF c
<1>3. CASE pipe' = pipe \o <<Rem(key, x)>> /\ listed' = listed \ {<<key, x>>}
  <2> DEFINE c == Rem(key, x)
  <2>1. c.op = "rem" /\ c.key = key /\ Pair(c) = <<key, x>>
    BY Commands
  <2> HIDE DEF c
  <2>2. \A p \in Watched : IF Pair(c) = p THEN c.op = "add" <=> p \in listed'
                                          ELSE p \in listed' <=> p \in listed
    BY <1>3, <2>1
  <2> QED
    BY <1>1, <1>3, <2>1, <2>2, ListCall DEF c
<1> QED
  BY <1>2, <1>3

LEMMA ExactStep ==
    ASSUME IInv, NEW k \in Item,
           \/ \E x \in Container : add_types(x, k)
           \/ \E n \in TypeName : add_nodes(n, k) \/ rem_nodes(n, k)
           \/ \E x \in Container, n \in TypeName : add_files(x, n, k) \/ rem_files(x, n, k)
    PROVE  IInv'
<1>1. ASSUME NEW x \in Container, add_types(x, k) PROVE IInv'
  <2>1. /\ pipe' = pipe \o <<Add(ListKey(x), k)>>
        /\ listed' = listed \union {<<ListKey(x), k>>}
        /\ UNCHANGED <<db, counter, failed, crashed, typed, tagged, counted>>
    BY <1>1, Keys DEF add_types, Send
  <2> QED
    BY <2>1, NotKept, ExactCall
<1>2. ASSUME NEW n \in TypeName, add_nodes(n, k) \/ rem_nodes(n, k) PROVE IInv'
  <2>1. /\ \/ /\ pipe' = pipe \o <<Add(ListKey(n), k)>>
              /\ listed' = listed \union {<<ListKey(n), k>>}
           \/ /\ pipe' = pipe \o <<Rem(ListKey(n), k)>>
              /\ listed' = listed \ {<<ListKey(n), k>>}
        /\ UNCHANGED <<db, counter, failed, crashed, typed, tagged, counted>>
    BY <1>2, Keys, Names DEF add_nodes, rem_nodes, Send
  <2> QED
    BY <2>1, NotKept, ExactCall
<1>3. ASSUME NEW x \in Container, NEW n \in TypeName,
             add_files(x, n, k) \/ rem_files(x, n, k)
      PROVE  IInv'
  <2>0. <<"fs", x, "types", n>> = FilesKey(x, n)
    BY DEF FilesKey
  <2>1. /\ \/ /\ pipe' = pipe \o <<Add(FilesKey(x, n), k)>>
              /\ listed' = listed \union {<<FilesKey(x, n), k>>}
           \/ /\ pipe' = pipe \o <<Rem(FilesKey(x, n), k)>>
              /\ listed' = listed \ {<<FilesKey(x, n), k>>}
        /\ UNCHANGED <<db, counter, failed, crashed, typed, tagged, counted>>
    BY <1>3, <2>0, Keys, Names DEF add_files, rem_files, Send
  <2> QED
    BY <2>1, NotKept, ExactCall
<1> QED
  BY <1>1, <1>2, <1>3

\* rem_types() removes another member than it is asked to, which is in no list.
LEMMA RemTypesStep ==
    ASSUME IInv, NEW x \in Container, NEW k \in Item, rem_types(x, k)
    PROVE  IInv'
<1> DEFINE c == Rem(ListKey(x), hash(k))
<1>1. /\ pipe' = pipe \o <<c>> /\ listed' = listed \ {<<ListKey(x), k>>}
      /\ typed' = typed \union {<<ListKey(x), k>>}
      /\ UNCHANGED <<db, counter, failed, crashed, tagged, counted>>
  BY Keys DEF rem_types, Send
<1>2. c.op = "rem" /\ c.key = ListKey(x) /\ Pair(c) = <<ListKey(x), hash(k)>>
  BY Commands
<1> HIDE DEF c
<1>3. ASSUME NEW p \in typed' PROVE \E y : p[1] = ListKey(y)
  <2>1. CASE p \in typed
    BY <2>1 DEF IInv, TypeInv
  <2>2. CASE p = <<ListKey(x), k>>
    <3>1. p[1] = ListKey(x)
      BY <2>2
    <3> QED
      BY <3>1
  <2> QED
    BY <1>1, <2>1, <2>2
<1>4. hash(k) = k \/ hash(k) \notin Item
  BY DatastoreConstants
<1>5. ASSUME NEW p \in Watched, p \notin typed'
      PROVE  IF Pair(c) = p THEN c.op = "add" <=> p \in listed'
                            ELSE p \in listed' <=> p \in listed
  <2>1. p # <<ListKey(x), k>>
    BY <1>1, <1>5
  <2>2. Pair(c) # p
    <3>1. p[2] \in Item
      BY DEF Watched
    <3> QED
      BY <3>1, <2>1, <1>2, <1>4
  <2> QED
    BY <2>1, <2>2, <1>1
<1>6. c.op \in {"add", "rem"} /\ ~Kept(c.key) /\ typed \subseteq typed'
  BY <1>1, <1>2, NotKept
<1> QED
  BY <1>1, <1>3, <1>5, <1>6, ListCall

\* The commands of add_tag() and incr_mime() are about no list.
LEMMA OtherKeys ==
    ASSUME NEW p \in Watched
    PROVE  p[1] # MimeKey /\ \A n, x : p[1] # TagKey(n, x)
BY KeysDiffer DEF Watched

LEMMA AddTagStep ==
    ASSUME IInv, NEW n \in TypeName, NEW g \in Tag, NEW v \in Value, NEW k \in Item,
           add_tag(n, g, v, k)
    PROVE  IInv'
<1> DEFINE a == Add(TagKey(n, "name"), g)
           b == Add(TagKey(n, g), v)
           c == Add(TagKey(n, v), k)
           t == <<a, b, c>>
<1>1. /\ pipe' = pipe \o t /\ tagged' = tagged \union {<<n, g, v, k>>}
      /\ UNCHANGED <<db, counter, failed, crashed, listed, typed, counted>>
  BY Keys, Names DEF add_tag, Send, TagCommands
<1>2. /\ a.op = "add" /\ b.op = "add" /\ c.op = "add"
      /\ a.key = TagKey(n, "name") /\ b.key = TagKey(n, g) /\ c.key = TagKey(n, v)
      /\ Pair(a) = <<TagKey(n, "name"), g>> /\ Pair(b) = <<TagKey(n, g), v>>
      /\ Pair(c) = <<TagKey(n, v), k>>
  BY Commands
<1> HIDE DEF a, b, c
<1>3. /\ IsSeq(t) /\ Len(t) = 3 /\ 1..Len(t) = {1, 2, 3}
      /\ t[1] = a /\ t[2] = b /\ t[3] = c
  <2>1. t \in Seq({a, b, c})
    OBVIOUS
  <2>2. IsSeq(t)
    <3> HIDE DEF t
    <3> QED
      BY <2>1, Zenon DEF IsSeq
  <2> QED
    BY <2>2
<1>4. IsSeq(pipe) /\ Sent(pipe \o t, pipe, t)
  BY <1>3, Sending DEF IInv, TypeInv
<1> HIDE DEF t
<1>5. TypeInv'
  <2>1. \A i \in 1..Len(t) : Formed(t[i])
    BY <1>2, <1>3 DEF Formed
  <2>2. counted' \in [Mime -> Nat] /\ \A p \in typed' : \E x : p[1] = ListKey(x)
    BY <1>1 DEF IInv, TypeInv
  <2> QED
    BY <1>1, <1>3, <2>1, <2>2, TypeSend
<1>6. ListInv'
  <2>1. ASSUME NEW p \in Watched, NEW i \in 1..Len(t) PROVE ~Touches(t[i], p)
    BY <1>2, <1>3, OtherKeys DEF Touches
  <2> QED
    BY <1>1, <1>3, <2>1, ListSend
<1>7. TagInv'
  <2>1. "name" \notin Value /\ g \notin Value
    BY DatastoreConstants
  <2>2. \A m, w : w \in Value => TagKey(n, "name") # TagKey(m, w) /\ TagKey(n, g) # TagKey(m, w)
    BY <2>1, KeysDiffer
  <2>3. WasTagged(tagged', Pair(a)) /\ WasTagged(tagged', Pair(b))
    BY <1>2, <2>2 DEF WasTagged
  <2>4. WasTagged(tagged', Pair(c))
    <3> SUFFICES ASSUME NEW m \in TypeName, NEW w \in Value, TagKey(n, v) = TagKey(m, w)
                 PROVE  \E h \in Tag : <<m, h, w, k>> \in tagged'
      BY <1>2 DEF WasTagged
    <3>1. n = m /\ v = w
      BY KeysDiffer
    <3> QED
      BY <3>1, <1>1
  <2>5. Entered(pipe \o t, db, Len(pipe) + 3, n, v)
    <3> DEFINE q == pipe \o t
    <3>1. /\ Len(pipe) + 1 \in 1..Len(q) /\ q[Len(pipe) + 1] = a
          /\ Len(pipe) + 2 \in 1..Len(q) /\ q[Len(pipe) + 2] = b
          /\ Len(pipe) + 1 < Len(pipe) + 3 /\ Len(pipe) + 2 < Len(pipe) + 3
      <4>1. 1 \in 1..Len(t) /\ 2 \in 1..Len(t) /\ Len(pipe) \in Nat
        BY <1>3, <1>4 DEF Sent
      <4> QED
        BY <4>1, <1>3, <1>4 DEF Sent
    <3> HIDE DEF q
    <3>2. Before(q, db, Len(pipe) + 3, TagKey(n, "name"), g)
      BY <3>1, <1>2 DEF Before
    <3>3. Before(q, db, Len(pipe) + 3, TagKey(n, g), v)
      BY <3>1, <1>2 DEF Before
    <3> QED
      BY <3>2, <3>3 DEF Entered, q
  <2>6. ASSUME NEW i \in 1..Len(t)
        PROVE  /\ WasTagged(tagged', Pair(t[i]))
               /\ \A m \in TypeName, w \in Value : t[i].key = TagKey(m, w) =>
                      Entered(pipe \o t, db, Len(pipe) + i, m, w)
    <3>1. CASE i \in {1, 2}
      BY <3>1, <1>2, <1>3, <2>2, <2>3
    <3>2. CASE i = 3
      <4> SUFFICES ASSUME NEW m \in TypeName, NEW w \in Value, TagKey(n, v) = TagKey(m, w)
                   PROVE  Entered(pipe \o t, db, Len(pipe) + i, m, w)
        BY <3>2, <1>2, <1>3, <2>4
      <4>1. n = m /\ v = w
        BY KeysDiffer
      <4> QED
        BY <4>1, <3>2, <2>5
    <3> QED
      BY <3>1, <3>2, <1>3
  <2>7. tagged \subseteq tagged'
    BY <1>1
  <2> QED
    BY <1>1, <1>3, <2>6, <2>7, TagSend
<1>8. \A i \in 1..Len(t) : t[i].op # "incr"
  BY <1>2, <1>3
<1>9. CountInv'
  BY <1>1, <1>3, <1>8, CountSend
<1>10. MimeInv'
  BY <1>1, <1>3, <1>8, MimeSend
<1> QED
  BY <1>5, <1>6, <1>7, <1>9, <1>10 DEF IInv

LEMMA IncrMimeStep ==
    ASSUME IInv, NEW m \in Mime, incr_mime(m)
    PROVE  IInv'
<1> DEFINE a == Add(MimeKey, m)
           b == [op |-> "incr", key |-> m, member |-> m]
           t == <<a, b>>
<1>1. /\ pipe' = pipe \o t /\ counted' = [counted EXCEPT ![m] = @ + 1]
      /\ UNCHANGED <<db, counter, failed, crashed, listed, typed, tagged>>
  BY DEF incr_mime, Send, MimeCommands, MimeKey
<1>2. /\ a.op = "add" /\ a.key = MimeKey /\ Pair(a) = <<MimeKey, m>>
      /\ b.op = "incr" /\ b.key = m
  BY Commands
<1> HIDE DEF a, b
<1>3. IsSeq(t) /\ Len(t) = 2 /\ 1..Len(t) = {1, 2} /\ t[1] = a /\ t[2] = b
  <2>1. t \in Seq({a, b})
    OBVIOUS
  <2>2. IsSeq(t)
    <3> HIDE DEF t
    <3> QED
      BY <2>1, Zenon DEF IsSeq
  <2> QED
    BY <2>2
<1>4. IsSeq(pipe) /\ Sent(pipe', pipe, t)
  BY <1>1, <1>3, Sending DEF IInv, TypeInv
<1> HIDE DEF t
<1>5. TypeInv'
  <2>1. \A i \in 1..Len(t) : Formed(t[i])
    BY <1>2, <1>3 DEF Formed
  <2>2. counted' \in [Mime -> Nat] /\ \A p \in typed' : \E x : p[1] = ListKey(x)
    BY <1>1 DEF IInv, TypeInv
  <2> QED
    BY <1>1, <1>3, <2>1, <2>2, TypeSend
<1>6. ListInv'
  <2>1. ASSUME NEW p \in Watched, NEW i \in 1..Len(t) PROVE ~Touches(t[i], p)
    BY <1>2, <1>3, OtherKeys DEF Touches
  <2> QED
    BY <1>1, <1>3, <2>1, ListSend
<1>7. TagInv'
  <2>1. \A n, v : MimeKey # TagKey(n, v)
    BY KeysDiffer
  <2>2. ASSUME NEW i \in 1..Len(t), t[i].op = "add"
        PROVE  WasTagged(tagged', Pair(t[i])) /\ \A n, v : t[i].key # TagKey(n, v)
    BY <1>2, <1>3, <2>1, <2>2 DEF WasTagged
  <2> QED
    BY <1>1, <1>3, <2>2, TagSend
<1>8. CountInv'
  <2> SUFFICES ASSUME NEW x \in Mime
               PROVE  /\ counter[x] + Cardinality(Incrs(pipe', x)) <= counted'[x]
                      /\ ~failed /\ ~crashed =>
                             counter[x] + Cardinality(Incrs(pipe', x)) = counted'[x]
    BY <1>1 DEF CountInv
  <2>1. /\ counter[x] \in Nat /\ counted[x] \in Nat
        /\ counted'[x] = IF x = m THEN counted[x] + 1 ELSE counted[x]
    BY <1>1 DEF IInv, TypeInv
  <2>2. Incrs(pipe', x) = IF x = m THEN Incrs(pipe, x) \union {Len(pipe) + 2}
                                   ELSE Incrs(pipe, x)
    <3>1. /\ \A i \in 1..Len(pipe) : pipe'[i] = pipe[i] /\ i \in 1..Len(pipe')
          /\ Len(pipe) + 1 \in 1..Len(pipe') /\ pipe'[Len(pipe) + 1] = a
          /\ Len(pipe) + 2 \in 1..Len(pipe') /\ pipe'[Len(pipe) + 2] = b
          /\ \A j \in 1..Len(pipe') :
                 j \in 1..Len(pipe) \/ j \in {Len(pipe) + 1, Len(pipe) + 2}
      BY <1>3, <1>4 DEF Sent
    <3> QED
      BY <3>1, <1>2 DEF Incrs
  <2>3. Len(pipe) + 2 \notin Incrs(pipe, x)
    BY <1>4 DEF Incrs, Sent
  <2>4. IsFiniteSet(Incrs(pipe, x)) /\ Cardinality(Incrs(pipe, x)) \in Nat
    BY <1>4, IncrsFinite
  <2>5. Cardinality(Incrs(pipe, x) \union {Len(pipe) + 2}) = Cardinality(Incrs(pipe, x)) + 1
    BY <2>3, <2>4, FS_AddElement
  <2>6. /\ counter[x] + Cardinality(Incrs(pipe, x)) <= counted[x]
        /\ ~failed /\ ~crashed => counter[x] + Cardinality(Incrs(pipe, x)) = counted[x]
    BY DEF IInv, CountInv
  <2>7. CASE x = m
    <3>1. Cardinality(Incrs(pipe', x)) = Cardinality(Incrs(pipe, x)) + 1
      BY <2>2, <2>5, <2>7
    <3> QED
      BY <3>1, <2>1, <2>4, <2>6, <2>7
  <2>8. CASE x # m
    BY <2>1, <2>2, <2>6, <2>8
  <2> QED
    BY <2>7, <2>8
<1>9. MimeInv'
  <2>1. ASSUME NEW i \in 1..Len(t), t[i].op = "incr"
        PROVE  Before(pipe \o t, db, Len(pipe) + i, MimeKey, t[i].key)
    <3>1. i = 2 /\ t[i].key = m
      BY <1>2, <1>3, <2>1
    <3>2. /\ Len(pipe) + 1 \in 1..Len(pipe') /\ pipe'[Len(pipe) + 1] = a
          /\ Len(pipe) + 1 < Len(pipe) + 2
      BY <1>3, <1>4 DEF Sent
    <3>3. Before(pipe', db, Len(pipe) + 2, MimeKey, m)
      BY <3>2, <1>2 DEF Before
    <3> QED
      BY <3>1, <3>3, <1>1
  <2> QED
    BY <1>1, <1>3, <2>1, MimeSend
<1> QED
  BY <1>5, <1>6, <1>7, <1>8, <1>9 DEF IInv
-----------------------------------------------------------------------------
(***************************************************************************)
(* Redis.                                                                  *)
(***************************************************************************)
LEMMA SettledExecute ==
    ASSUME NEW q, NEW r, Rest(r, q), NEW D, NEW E, NEW L, NEW p, Settled(q, D, L, p),
           p \in E <=> IF Touches(q[1], p) THEN q[1].op = "add" ELSE p \in D
    PROVE  Settled(r, E, L, p)
<1>1. ASSUME \A i \in 1..Len(r) : ~Touches(r[i], p)
      PROVE  p \in E <=> p \in L
  <2>1. \A j \in 1..Len(q) : j > 1 => ~Touches(q[j], p)
    <3> TAKE j \in 1..Len(q)
    <3> HAVE j > 1
    <3>1. j \in 2..Len(q)
      BY DEF Rest
    <3> QED
      BY <3>1, <1>1 DEF Rest
  <2>2. 1 \in 1..Len(q)
    BY DEF Rest
  <2>3. CASE Touches(q[1], p)
    BY <2>1, <2>2, <2>3 DEF Settled
  <2>4. CASE ~Touches(q[1], p)
    <3>1. \A j \in 1..Len(q) : ~Touches(q[j], p)
      <4> TAKE j \in 1..Len(q)
      <4>1. j = 1 \/ j > 1
        BY DEF Rest
      <4> QED
        BY <4>1, <2>1, <2>4
    <3> QED
      BY <3>1, <2>4 DEF Settled
  <2> QED
    BY <2>3, <2>4
<1>2. ASSUME NEW i \in 1..Len(r), Touches(r[i], p),
             \A j \in 1..Len(r) : j > i => ~Touches(r[j], p)
      PROVE  r[i].op = "add" <=> p \in L
  <2>1. i + 1 \in 1..Len(q) /\ r[i] = q[i + 1]
    BY DEF Rest
  <2>2. ASSUME NEW j \in 1..Len(q), j > i + 1 PROVE ~Touches(q[j], p)
    <3>1. j \in 2..Len(q) /\ j - 1 > i
      BY <2>2 DEF Rest
    <3>2. j - 1 \in 1..Len(r) /\ r[j - 1] = q[j]
      BY <3>1 DEF Rest
    <3> QED
      BY <3>1, <3>2, <1>2
  <2> QED
    BY <1>2, <2>1, <2>2 DEF Settled
<1> QED
  BY <1>1, <1>2 DEF Settled

LEMMA BeforeExecute ==
    ASSUME NEW q, NEW r, Rest(r, q), NEW D, NEW E, NEW i \in Nat, NEW key, NEW x,
           Before(q, D, i + 1, key, x), <<key, x>> \in D => <<key, x>> \in E,
           q[1].op = "add" /\ Pair(q[1]) = <<key, x>> => <<key, x>> \in E
    PROVE  Before(r, E, i, key, x)
<1>1. CASE <<key, x>> \in D
  BY <1>1 DEF Before
<1>2. ASSUME NEW j \in 1..Len(q), j < i + 1, q[j].op = "add", Pair(q[j]) = <<key, x>>
      PROVE  Before(r, E, i, key, x)
  <2>1. CASE j = 1
    BY <1>2, <2>1 DEF Before
  <2>2. CASE j # 1
    <3>1. j \in 2..Len(q) /\ j - 1 < i
      BY <1>2, <2>2 DEF Rest
    <3>2. j - 1 \in 1..Len(r) /\ r[j - 1] = q[j]
      BY <3>1 DEF Rest
    <3> QED
      BY <1>2, <3>1, <3>2 DEF Before
  <2> QED
    BY <2>1, <2>2
<1> QED
  BY <1>1, <1>2 DEF Before

\* The INCR that is done, or lost, is no longer on its way.
LEMMA IncrsTake ==
    ASSUME NEW q, NEW r, IsSeq(q), Rest(r, q), NEW m
    PROVE  Cardinality(Incrs(q, m)) = Cardinality(Incrs(r, m))
               + (IF q[1].op = "incr" /\ q[1].key = m THEN 1 ELSE 0)
<1> DEFINE S == Incrs(r, m)
           T == Incrs(q, m) \ {1}
           f == [i \in S |-> i + 1]
<1>1. Len(q) \in Nat \ {0} /\ Len(r) = Len(q) - 1
  BY DEF Rest
<1>2. \A i \in S : i \in Nat /\ f[i] = i + 1 /\ f[i] \in T
  <2> TAKE i \in S
  <2>1. i \in 1..Len(r) /\ r[i].op = "incr" /\ r[i].key = m
    BY DEF Incrs
  <2>2. r[i] = q[i + 1] /\ i + 1 \in 1..Len(q) /\ i + 1 # 1 /\ i \in Nat
    BY <2>1 DEF Rest
  <2> QED
    BY <2>1, <2>2 DEF Incrs
<1>3. \A j \in T : j - 1 \in S /\ f[j - 1] = j
  <2> TAKE j \in T
  <2>1. j \in 2..Len(q) /\ q[j].op = "incr" /\ q[j].key = m
    BY <1>1 DEF Incrs
  <2>2. j - 1 \in 1..Len(r) /\ r[j - 1] = q[j] /\ (j - 1) + 1 = j
    BY <2>1 DEF Rest
  <2> QED
    BY <2>1, <2>2 DEF Incrs
<1>4. f \in Bijection(S, T)
  <2>1. f \in [S -> T]
    BY <1>2
  <2>2. \A i, j \in S : f[i] = f[j] => i = j
    BY <1>2
  <2>3. \A j \in T : \E i \in S : f[i] = j
    BY <1>3
  <2> HIDE DEF f, S, T
  <2> QED
    BY <2>1, <2>2, <2>3 DEF Bijection, Injection, IsInjective, Surjection
<1>5. IsFiniteSet(S) /\ Cardinality(T) = Cardinality(S)
  <2>1. IsFiniteSet(S)
    BY IncrsFinite DEF Rest
  <2> HIDE DEF f, S, T
  <2> QED
    BY <2>1, <1>4, FS_Bijection DEF ExistsBijection
<1>6. 1 \in Incrs(q, m) <=> q[1].op = "incr" /\ q[1].key = m
  BY <1>1 DEF Incrs
<1>7. Cardinality(T) = IF 1 \in Incrs(q, m) THEN Cardinality(Incrs(q, m)) - 1
                                            ELSE Cardinality(Incrs(q, m))
  BY IncrsFinite, FS_RemoveElement
<1> QED
  BY <1>5, <1>6, <1>7, IncrsFinite

LEMMA ExecuteStep == ASSUME IInv, Execute PROVE IInv'
<1> DEFINE c == pipe[1]
<1>1. /\ IsSeq(pipe) /\ Rest(pipe', pipe) /\ Head(pipe) = c
      /\ UNCHANGED <<calls, listed, typed, counted, tagged, failed, crashed>>
  BY Taking DEF Execute, IInv, TypeInv
<1>2. /\ c.op = "add" => db' = db \union {Pair(c)}
      /\ c.op = "rem" => db' = db \ {Pair(c)}
      /\ c.op = "incr" => db' = db
      /\ counter' = IF c.op = "incr" THEN [counter EXCEPT ![c.key] = @ + 1] ELSE counter
  BY <1>1 DEF Execute, Pair
<1>3. Formed(c) /\ 1 \in 1..Len(pipe)
  BY <1>1 DEF IInv, TypeInv, Rest
<1> HIDE DEF c
<1>4. \A p : p \in db' <=> IF Touches(c, p) THEN c.op = "add" ELSE p \in db
  BY <1>2, <1>3 DEF Touches, Formed
<1>5. \A key, x : Kept(key) /\ <<key, x>> \in db => <<key, x>> \in db'
  BY <1>3, <1>4 DEF Touches, Formed, Pair
<1>6. \A key, x : c.op = "add" /\ Pair(c) = <<key, x>> => <<key, x>> \in db'
  BY <1>4 DEF Touches
<1>7. TypeInv'
  <2>1. \A i \in 1..Len(pipe') : Formed(pipe'[i])
    BY <1>1 DEF IInv, TypeInv, Rest
  <2>2. \A p \in db' : p = <<p[1], p[2]>>
    <3> TAKE p \in db'
    <3>1. p \in db \/ p = Pair(c)
      BY <1>2, <1>3 DEF Formed
    <3> QED
      BY <3>1 DEF IInv, TypeInv, Pair
  <2>3. counter' \in [Mime -> Nat]
    BY <1>2, <1>3 DEF IInv, TypeInv, Formed
  <2> QED
    BY <1>1, <2>1, <2>2, <2>3 DEF IInv, TypeInv, Rest
<1>8. ListInv'
  <2> SUFFICES ASSUME ~failed, ~crashed, NEW p \in Watched, p \notin typed
               PROVE  Settled(pipe', db', listed, p)
    BY <1>1 DEF ListInv
  <2>1. Settled(pipe, db, listed, p)
    BY DEF IInv, ListInv
  <2> QED
    BY <1>1, <1>4, <2>1, SettledExecute DEF c
<1>9. \A i \in 1..Len(pipe') : pipe'[i] = pipe[i + 1] /\ i + 1 \in 1..Len(pipe) /\ i \in Nat
  BY <1>1 DEF Rest
<1>10. ASSUME NEW i \in Nat, NEW key, Kept(key), NEW x, Before(pipe, db, i + 1, key, x)
       PROVE  Before(pipe', db', i, key, x)
  BY <1>1, <1>5, <1>6, <1>10, BeforeExecute DEF c
<1>11. \A n, x : Kept(TagKey(n, x))
  BY DEF Kept
<1>12. TagInv'
  <2>1. \A p \in db' : WasTagged(tagged, p)
    <3> TAKE p \in db'
    <3>1. p \in db \/ (c.op = "add" /\ p = Pair(c))
      BY <1>2, <1>3 DEF Formed
    <3> QED
      BY <3>1, <1>3 DEF IInv, TagInv, c
  <2>2. \A i \in 1..Len(pipe') : pipe'[i].op = "add" => WasTagged(tagged, Pair(pipe'[i]))
    BY <1>9 DEF IInv, TagInv
  <2>3. ASSUME ~failed, NEW n \in TypeName, NEW v \in Value, NEW p \in db',
               p[1] = TagKey(n, v)
        PROVE  Entered(<<>>, db', 0, n, v)
    <3>1. \A key, x : Before(<<>>, db, 0, key, x) => <<key, x>> \in db
      BY DEF Before
    <3>2. \A key, x : Before(pipe, db, 1, key, x) => <<key, x>> \in db
      BY DEF Before
    <3>3. \E t \in Tag : <<TagKey(n, "name"), t>> \in db /\ <<TagKey(n, t), v>> \in db
      <4>1. CASE p \in db
        BY <2>3, <3>1, <4>1 DEF IInv, TagInv, Entered
      <4>2. CASE c.op = "add" /\ p = Pair(c)
        <5>1. c.key = TagKey(n, v)
          BY <2>3, <4>2 DEF Pair
        <5>2. Entered(pipe, db, 1, n, v)
          BY <2>3, <4>2, <5>1, <1>3 DEF IInv, TagInv, c
        <5> QED
          BY <5>2, <3>2 DEF Entered
      <4> QED
        BY <4>1, <4>2, <1>2, <1>3 DEF Formed
    <3> QED
      BY <3>3, <1>5, <1>11 DEF Entered, Before
  <2>4. ASSUME ~failed, NEW n \in TypeName, NEW v \in Value, NEW i \in 1..Len(pipe'),
               pipe'[i].op = "add", pipe'[i].key = TagKey(n, v)
        PROVE  Entered(pipe', db', i, n, v)
    <3>1. Entered(pipe, db, i + 1, n, v)
      BY <1>9, <2>4 DEF IInv, TagInv
    <3>2. PICK t \in Tag : /\ Before(pipe, db, i + 1, TagKey(n, "name"), t)
                           /\ Before(pipe, db, i + 1, TagKey(n, t), v)
      BY <3>1 DEF Entered
    <3>3. /\ Before(pipe', db', i, TagKey(n, "name"), t)
          /\ Before(pipe', db', i, TagKey(n, t), v)
      BY <3>2, <1>9, <1>10, <1>11
    <3> QED
      BY <3>3 DEF Entered
  <2> QED
    BY <1>1, <2>1, <2>2, <2>3, <2>4 DEF TagInv
<1>13. CountInv'
  <2> SUFFICES ASSUME NEW m \in Mime
               PROVE  /\ counter'[m] + Cardinality(Incrs(pipe', m)) <= counted[m]
                      /\ ~failed /\ ~crashed =>
                             counter'[m] + Cardinality(Incrs(pipe', m)) = counted[m]
    BY <1>1 DEF CountInv
  <2> DEFINE one == IF c.op = "incr" /\ c.key = m THEN 1 ELSE 0
  <2>1. counter[m] \in Nat /\ counted[m] \in Nat /\ counter'[m] = counter[m] + one
    BY <1>2, <1>3 DEF IInv, TypeInv, Formed
  <2>2. Cardinality(Incrs(pipe, m)) = Cardinality(Incrs(pipe', m)) + one
    BY <1>1, IncrsTake DEF c
  <2>3. Cardinality(Incrs(pipe', m)) \in Nat /\ one \in Nat
    BY <1>1, IncrsFinite DEF Rest
  <2>4. /\ counter[m] + Cardinality(Incrs(pipe, m)) <= counted[m]
        /\ ~failed /\ ~crashed => counter[m] + Cardinality(Incrs(pipe, m)) = counted[m]
    BY DEF IInv, CountInv
  <2> HIDE DEF one
  <2> QED
    BY <2>1, <2>2, <2>3, <2>4
<1>14. MimeInv'
  <2> SUFFICES ASSUME ~failed, NEW m \in Mime
               PROVE  /\ counter'[m] > 0 => <<MimeKey, m>> \in db'
                      /\ \A i \in Incrs(pipe', m) : Before(pipe', db', i, MimeKey, m)
    BY <1>1 DEF MimeInv
  <2>0. Kept(MimeKey)
    BY DEF Kept
  <2>1. ASSUME counter'[m] > 0 PROVE <<MimeKey, m>> \in db
    <3>1. CASE counter[m] > 0
      BY <3>1 DEF IInv, MimeInv
    <3>2. CASE c.op = "incr" /\ c.key = m
      <4>1. 1 \in Incrs(pipe, m)
        BY <1>3, <3>2 DEF Incrs, c
      <4>2. Before(pipe, db, 1, MimeKey, m)
        BY <4>1 DEF IInv, MimeInv
      <4> QED
        BY <4>2 DEF Before
    <3> QED
      BY <2>1, <3>1, <3>2, <1>2, <1>3 DEF IInv, TypeInv, Formed
  <2>2. ASSUME NEW i \in Incrs(pipe', m) PROVE Before(pipe', db', i, MimeKey, m)
    <3>1. i \in 1..Len(pipe') /\ i + 1 \in Incrs(pipe, m)
      BY <1>9 DEF Incrs
    <3>2. Before(pipe, db, i + 1, MimeKey, m)
      BY <3>1 DEF IInv, MimeInv
    <3> QED
      BY <3>1, <3>2, <1>9, <1>10, <2>0
  <2> QED
    BY <1>5, <2>0, <2>1, <2>2
<1> QED
  BY <1>7, <1>8, <1>12, <1>13, <1>14 DEF IInv

LEMMA FailStep == ASSUME IInv, Fail PROVE IInv'
<1>1. /\ IsSeq(pipe) /\ Rest(pipe', pipe) /\ failed' = TRUE
      /\ UNCHANGED <<db, counter, calls, listed, typed, counted, tagged, crashed>>
  BY Taking DEF Fail, IInv, TypeInv
<1>2. TypeInv'
  <2>1. \A i \in 1..Len(pipe') : Formed(pipe'[i])
    BY <1>1 DEF IInv, TypeInv, Rest
  <2> QED
    BY <1>1, <2>1 DEF IInv, TypeInv, Rest
<1>3. TagInv'
  <2>1. \A i \in 1..Len(pipe') : pipe'[i].op = "add" => WasTagged(tagged, Pair(pipe'[i]))
    BY <1>1 DEF IInv, TagInv, Rest
  <2> QED
    BY <1>1, <2>1 DEF IInv, TagInv
<1>4. CountInv'
  <2> SUFFICES ASSUME NEW m \in Mime
               PROVE  counter[m] + Cardinality(Incrs(pipe', m)) <= counted[m]
    BY <1>1 DEF CountInv
  <2>1. /\ Cardinality(Incrs(pipe', m)) <= Cardinality(Incrs(pipe, m))
        /\ Cardinality(Incrs(pipe', m)) \in Nat /\ Cardinality(Incrs(pipe, m)) \in Nat
    <3>1. /\ Cardinality(Incrs(pipe', m)) \in Nat /\ Cardinality(Incrs(pipe, m)) \in Nat
      BY <1>1, IncrsFinite DEF Rest
    <3>2. Cardinality(Incrs(pipe, m)) \in
              {Cardinality(Incrs(pipe', m)) + 1, Cardinality(Incrs(pipe', m)) + 0}
      BY <1>1, IncrsTake
    <3> QED
      BY <3>1, <3>2
  <2>2. counter[m] \in Nat /\ counted[m] \in Nat
    BY DEF IInv, TypeInv
  <2>3. counter[m] + Cardinality(Incrs(pipe, m)) <= counted[m]
    BY DEF IInv, CountInv
  <2> QED
    BY <2>1, <2>2, <2>3
<1> QED
  BY <1>1, <1>2, <1>3, <1>4 DEF IInv, ListInv, MimeInv

\* Nothing is on the connection: what holds of db and the counters is left.
LEMMA NothingSent == IsSeq(<<>>) /\ 1..Len(<<>>) = {} /\ \A m : Cardinality(Incrs(<<>>, m)) = 0
<1>1. <<>> \in Seq({}) /\ 1..Len(<<>>) = {}
  BY EmptySeq
<1>2. IsSeq(<<>>)
  BY <1>1, Zenon DEF IsSeq
<1>3. \A m : Incrs(<<>>, m) = {}
  BY <1>1 DEF Incrs
<1> QED
  BY <1>1, <1>2, <1>3, FS_EmptySet

LEMMA CrashStep == ASSUME IInv, Crash PROVE IInv'
<1>1. /\ pipe' = <<>> /\ crashed' = TRUE
      /\ UNCHANGED <<db, counter, calls, listed, typed, counted, tagged, failed>>
  BY DEF Crash
<1>2. TypeInv'
  BY <1>1, NothingSent DEF IInv, TypeInv
<1>3. TagInv'
  BY <1>1, NothingSent DEF IInv, TagInv
<1>4. CountInv'
  <2> SUFFICES ASSUME NEW m \in Mime
               PROVE  counter[m] + Cardinality(Incrs(<<>>, m)) <= counted[m]
    BY <1>1 DEF CountInv
  <2>1. counter[m] \in Nat /\ counted[m] \in Nat /\ Cardinality(Incrs(pipe, m)) \in Nat
    BY IncrsFinite DEF IInv, TypeInv
  <2>2. counter[m] + Cardinality(Incrs(pipe, m)) <= counted[m]
    BY DEF IInv, CountInv
  <2>3. Cardinality(Incrs(<<>>, m)) = 0
    BY NothingSent
  <2> QED
    BY <2>1, <2>2, <2>3
<1>5. MimeInv'
  <2>1. \A m : Incrs(pipe', m) = {}
    BY <1>1, NothingSent DEF Incrs
  <2> QED
    BY <1>1, <2>1 DEF IInv, MimeInv
<1> QED
  BY <1>1, <1>2, <1>3, <1>4, <1>5 DEF IInv, ListInv
-----------------------------------------------------------------------------
(***************************************************************************)
(* The specification.                                                      *)
(***************************************************************************)
LEMMA InvInit == Init => IInv
<1> HAVE Init
<1>1. /\ db = {} /\ pipe = <<>> /\ listed = {} /\ typed = {} /\ tagged = {}
      /\ counter = [m \in Mime |-> 0] /\ counted = [m \in Mime |-> 0]
      /\ failed = FALSE /\ crashed = FALSE
  BY DEF Init
<1>2. TypeInv
  BY <1>1, NothingSent DEF TypeInv
<1>3. ListInv
  BY <1>1, NothingSent DEF ListInv, Settled
<1>4. TagInv
  BY <1>1, NothingSent DEF TagInv
<1>5. CountInv
  BY <1>1, NothingSent DEF CountInv
<1>6. MimeInv
  BY <1>1, NothingSent DEF MimeInv, Incrs
<1> QED
  BY <1>2, <1>3, <1>4, <1>5, <1>6 DEF IInv

LEMMA InvStep == IInv /\ [Next]_vars => IInv'
<1> SUFFICES ASSUME IInv, [Next]_vars PROVE IInv'
  OBVIOUS
<1>1. ASSUME NEW x \in Container, NEW k \in Item,
             \/ add_types(x, k) \/ rem_types(x, k)
             \/ \E n \in TypeName : add_files(x, n, k) \/ rem_files(x, n, k)
      PROVE  IInv'
  BY <1>1, ExactStep, RemTypesStep
<1>2. ASSUME NEW n \in TypeName, NEW k \in Item,
             \/ add_nodes(n, k) \/ rem_nodes(n, k)
             \/ \E t \in Tag, v \in Value : add_tag(n, t, v, k)
      PROVE  IInv'
  BY <1>2, ExactStep, AddTagStep
<1>3. ASSUME NEW m \in Mime, incr_mime(m) PROVE IInv'
  BY <1>3, IncrMimeStep
<1>4. CASE Execute \/ Fail \/ Crash
  BY <1>4, ExecuteStep, FailStep, CrashStep
<1>5. CASE UNCHANGED vars
  BY <1>5 DEF vars, IInv, TypeInv, ListInv, TagInv, CountInv, MimeInv
<1> QED
  BY <1>1, <1>2, <1>3, <1>4, <1>5 DEF Next

LEMMA Invariance == Spec => []IInv
BY InvInit, InvStep, PTL DEF Spec

\* Once redis has executed every command, however the calls of add_nodes(),
\* rem_nodes(), add_files(), rem_files(), add_types() and rem_types() were mixed, a node
\* is in the list of its type, and a file in the list of its folder, exactly
\* when the last call about it says so.
THEOREM AsAsked == Spec => []ListsAsAsked
<1>1. ASSUME IInv PROVE ListsAsAsked
  <2> SUFFICES ASSUME Quiet PROVE ListsAsAsked
    BY DEF ListsAsAsked
  <2>1. ASSUME NEW p \in Watched, p \notin typed PROVE p \in db <=> p \in listed
    <3>1. Settled(<<>>, db, listed, p)
      BY <1>1, <2>1 DEF Quiet, IInv, ListInv
    <3> QED
      BY <3>1, NothingSent DEF Settled
  <2>2. ASSUME NEW n \in TypeName, NEW k \in Item, <<make_key_list(n), k>> \notin typed
        PROVE  <<make_key_list(n), k>> \in db <=> <<make_key_list(n), k>> \in listed
    <3>1. <<make_key_list(n), k>> \in Watched
      BY Keys DEF Watched
    <3> QED
      BY <2>1, <2>2, <3>1
  <2>3. ASSUME NEW n \in TypeName, NEW k \in Item, NEW c \in Container
        PROVE  <<<<"fs", c, "types", n>>, k>> \in db
                   <=> <<<<"fs", c, "types", n>>, k>> \in listed
    <3> DEFINE p == <<FilesKey(c, n), k>>
    <3>1. p \in Watched
      BY DEF Watched
    <3>2. p \notin typed
      <4>1. p[1] = FilesKey(c, n)
        OBVIOUS
      <4> HIDE DEF p
      <4> QED
        BY <4>1, <1>1, KeysDiffer DEF IInv, TypeInv
    <3>3. p \in db <=> p \in listed
      BY <2>1, <3>1, <3>2
    <3> QED
      BY <3>3 DEF FilesKey
  <2> QED
    BY <2>2, <2>3 DEF ListsAsAsked
<1> QED
  BY <1>1, Invariance, PTL

\* Wherever add_tag() is cut off, by the end of the indexer, a node found under
\* a value can be reached from the names of the tags, and it was tagged so.
THEOREM Reachable == Spec => []TagsReachable
<1>1. ASSUME IInv PROVE TagsReachable
  <2>0. \A key, x : x \in Members(key) <=> <<key, x>> \in db
    <3> TAKE key, x
    <3>1. ASSUME x \in Members(key) PROVE <<key, x>> \in db
      <4>1. PICK p \in db : p[1] = key /\ x = p[2]
        BY <3>1 DEF Members
      <4> QED
        BY <4>1, <1>1 DEF IInv, TypeInv
    <3>2. ASSUME <<key, x>> \in db PROVE x \in Members(key)
      BY <3>2 DEF Members
    <3> QED
      BY <3>1, <3>2
  <2> SUFFICES ASSUME NEW n \in TypeName, NEW v \in Value
               PROVE  /\ \A k \in Members(TagKey(n, v)) :
                             \E t \in Tag : <<n, t, v, k>> \in tagged
                      /\ ~failed /\ Members(TagKey(n, v)) # {} =>
                             \E t \in Members(TagKey(n, "name")) :
                                 v \in Members(TagKey(n, t))
    BY DEF TagsReachable, TagKey
  <2>1. ASSUME NEW k \in Members(TagKey(n, v))
        PROVE  \E t \in Tag : <<n, t, v, k>> \in tagged
    <3> DEFINE p == <<TagKey(n, v), k>>
    <3>1. p \in db /\ p[1] = TagKey(n, v) /\ p[2] = k
      BY <2>0
    <3> HIDE DEF p
    <3>2. WasTagged(tagged, p)
      BY <3>1, <1>1 DEF IInv, TagInv
    <3> QED
      BY <3>1, <3>2 DEF WasTagged
  <2>2. ASSUME ~failed, NEW k \in Members(TagKey(n, v))
        PROVE  \E t \in Members(TagKey(n, "name")) : v \in Members(TagKey(n, t))
    <3> DEFINE p == <<TagKey(n, v), k>>
    <3>1. p \in db /\ p[1] = TagKey(n, v)
      BY <2>0
    <3> HIDE DEF p
    <3>2. Entered(<<>>, db, 0, n, v)
      BY <3>1, <2>2, <1>1 DEF IInv, TagInv
    <3>3. PICK t \in Tag : <<TagKey(n, "name"), t>> \in db /\ <<TagKey(n, t), v>> \in db
      BY <3>2, NothingSent DEF Entered, Before
    <3> QED
      BY <3>3, <2>0
  <2> QED
    BY <2>1, <2>2
<1> QED
  BY <1>1, Invariance, PTL

\* A mime type is never counted more often than incr_mime() was called for it,
\* exactly as often when every command was executed, and one that is counted is
\* in the set of mime types, wherever the indexer has ended.
THEOREM Counted == Spec => []MimeCounted
<1>1. ASSUME IInv PROVE MimeCounted
  <2> SUFFICES ASSUME NEW m \in Mime
               PROVE  /\ counter[m] <= counted[m]
                      /\ Quiet => counter[m] = counted[m]
                      /\ ~failed /\ counter[m] > 0 => m \in Members(<<"fs", "mime">>)
    BY DEF MimeCounted
  <2>1. /\ counter[m] \in Nat /\ counted[m] \in Nat
        /\ Cardinality(Incrs(pipe, m)) \in Nat
        /\ counter[m] + Cardinality(Incrs(pipe, m)) <= counted[m]
    BY <1>1, IncrsFinite DEF IInv, TypeInv, CountInv
  <2>2. ASSUME Quiet PROVE counter[m] = counted[m]
    <3>1. /\ counter[m] + Cardinality(Incrs(pipe, m)) = counted[m]
          /\ Cardinality(Incrs(pipe, m)) = 0
      BY <1>1, <2>2, NothingSent DEF Quiet, IInv, CountInv
    <3> QED
      BY <2>1, <3>1
  <2>3. ASSUME ~failed, counter[m] > 0 PROVE m \in Members(<<"fs", "mime">>)
    <3>1. <<MimeKey, m>> \in db
      BY <1>1, <2>3 DEF IInv, MimeInv
    <3> QED
      BY <3>1 DEF Members, MimeKey
  <2> QED
    BY <2>1, <2>2, <2>3
<1> QED
  BY <1>1, Invariance, PTL
=============================================================================
