------------------------------ MODULE Datastore ------------------------------
(***************************************************************************)
(* The write side of struct data: the indexer keeps the lists, the tag     *)
(* index and the mime counters in redis through it.  Every function sends  *)
(* its commands without waiting for a reply; redis executes the commands   *)
(* of a connection in order, one that fails goes unnoticed, and the        *)
(* indexer may end with commands unsent.                                   *)
(*                                                                         *)
(* A redis key is the sequence of the tokens make_key() joins, the sets    *)
(* kept under keys are one set of pairs <<key, member>>.  Scores, which    *)
(* only order a list, are left out.                                        *)
(***************************************************************************)
EXTENDS Naturals, Sequences, SequencesExt, FiniteSets

CONSTANTS Container, Item,   \* keys of containers and of the nodes in them
          TypeName,          \* node types in use
          Tag, Value, Mime,
          Hash,              \* boost::hash of a key, as a string
          MaxCalls           \* bound: calls of the indexer

VARIABLES
    db,       \* sets in redis: pairs <<key, member>>
    counter,  \* the counters fs:mime:TYPE
    pipe,     \* commands on the connection
    calls,    \* calls made
    listed,   \* the pairs that the calls made so far ask to be listed
    typed,    \* the pairs that rem_types() was called for
    counted,  \* the calls of incr_mime()
    tagged,   \* the calls of add_tag()
    failed,   \* a command has failed
    crashed   \* commands were lost with the indexer

vars == <<db, counter, pipe, calls, listed, typed, counted, tagged, failed, crashed>>
-----------------------------------------------------------------------------
\* NodeType: the enumerators in order, and the table of their names.
Enum == <<"folder", "audio", "movie", "serie", "image", "ebook", "file", "album",
          "cover", "episode", "artist">>
NAMES == <<"folder", "audio", "movie", "serie", "image", "ebook", "file", "album",
           "cover", "episode", "artist">>
str(type) == NAMES[type]
\* An unknown name is a file.
parse(n) == CHOOSE i \in DOMAIN Enum : Enum[i] = IF n \in Range(Enum) THEN n ELSE "file"

\* The entries of the root menu; hash() returns these and "root" as they are.
is_mod(k) == k \in {"album", "artist", "image", "movie", "serie", "ebook", "file"}
hash(k) == IF k = "root" \/ is_mod(k) THEN k ELSE Hash[k]

\* Types are enumerators, and no node has another one's hash for its key.  The
\* tag index has one name space for tags and their values: that a tag is no
\* value, and none is called "name", is up to the indexer.
ASSUME DatastoreConstants ==
    /\ TypeName \subseteq Range(Enum)
    /\ \A k \in Item : hash(k) = k \/ hash(k) \notin Item
    /\ Tag \cap Value = {} /\ "name" \notin Tag \union Value
    /\ MaxCalls \in Nat

\* Only the last token may contain the separator, so the tokens are the key.
make_key(prefix, tokens) == <<prefix>> \o tokens
make_key_list(k) == make_key("fs", <<k, "list">>)
make_key_types(parent, type) == make_key("fs", <<parent, "types", str(type)>>)
make_key_tag(type, t) == make_key("fs", <<str(type), "tag", t>>)

Add(key, member) == [op |-> "add", key |-> key, member |-> member]
Rem(key, member) == [op |-> "rem", key |-> key, member |-> member]

Init ==
    /\ db = {}
    /\ counter = [m \in Mime |-> 0]
    /\ pipe = <<>>
    /\ calls = 0
    /\ listed = {} /\ typed = {} /\ tagged = {}
    /\ counted = [m \in Mime |-> 0]
    /\ failed = FALSE /\ crashed = FALSE
-----------------------------------------------------------------------------
Send(commands) ==
    /\ calls < MaxCalls
    /\ calls' = calls + 1
    /\ pipe' = pipe \o commands
    /\ UNCHANGED <<db, counter, failed, crashed>>

\* node parent's list of children.
add_types(parent, k) ==
    /\ Send(<<Add(make_key_list(parent), k)>>)
    /\ listed' = listed \union {<<make_key_list(parent), k>>}
    /\ UNCHANGED <<typed, counted, tagged>>
rem_types(parent, k) ==
    /\ Send(<<Rem(make_key_list(parent), hash(k))>>)
    /\ listed' = listed \ {<<make_key_list(parent), k>>}
    /\ typed' = typed \union {<<make_key_list(parent), k>>}
    /\ UNCHANGED <<counted, tagged>>

\* The list of all nodes of a type, which is the list of the menu entry of
\* that name.
add_nodes(n, k) ==
    /\ Send(<<Add(make_key_list(str(parse(n))), k)>>)
    /\ listed' = listed \union {<<make_key_list(n), k>>}
    /\ UNCHANGED <<typed, counted, tagged>>
\* Mutant: the hash of the key is removed.
rem_nodes_Hashed(n, k) ==
    /\ Send(<<Rem(make_key_list(str(parse(n))), hash(k))>>)
    /\ listed' = listed \ {<<make_key_list(n), k>>}
    /\ UNCHANGED <<typed, counted, tagged>>
rem_nodes(n, k) ==
    /\ Send(<<Rem(make_key_list(str(parse(n))), k)>>)
    /\ listed' = listed \ {<<make_key_list(n), k>>}
    /\ UNCHANGED <<typed, counted, tagged>>

\* The files of one type in a node.
add_files(parent, n, k) ==
    /\ Send(<<Add(make_key_types(parent, parse(n)), k)>>)
    /\ listed' = listed \union {<<<<"fs", parent, "types", n>>, k>>}
    /\ UNCHANGED <<typed, counted, tagged>>
rem_files(parent, n, k) ==
    /\ Send(<<Rem(make_key_types(parent, parse(n)), k)>>)
    /\ listed' = listed \ {<<<<"fs", parent, "types", n>>, k>>}
    /\ UNCHANGED <<typed, counted, tagged>>

\* Mutant: the node is entered first.
TagCommands_NodeFirst(type, t, v, node) ==
    <<Add(make_key_tag(type, v), node), Add(make_key_tag(type, "name"), t),
      Add(make_key_tag(type, t), v)>>
TagCommands(type, t, v, node) ==
    <<Add(make_key_tag(type, "name"), t), Add(make_key_tag(type, t), v),
      Add(make_key_tag(type, v), node)>>
add_tag(n, t, v, node) ==
    /\ Send(TagCommands(parse(n), t, v, node))
    /\ tagged' = tagged \union {<<n, t, v, node>>}
    /\ UNCHANGED <<listed, typed, counted>>

\* Mutant: the counter first.
MimeCommands_CountFirst(m) ==
    <<[op |-> "incr", key |-> m, member |-> m], Add(<<"fs", "mime">>, m)>>
MimeCommands(m) ==
    <<Add(<<"fs", "mime">>, m), [op |-> "incr", key |-> m, member |-> m]>>
incr_mime(m) ==
    /\ Send(MimeCommands(m))
    /\ counted' = [counted EXCEPT ![m] = @ + 1]
    /\ UNCHANGED <<listed, typed, tagged>>
-----------------------------------------------------------------------------
\* Redis executes the next command, or it fails.
Execute ==
    /\ pipe # <<>>
    /\ LET c == Head(pipe)
       IN  /\ db' = CASE c.op = "add" -> db \union {<<c.key, c.member>>}
                      [] c.op = "rem" -> db \ {<<c.key, c.member>>}
                      [] OTHER -> db
           /\ counter' = IF c.op = "incr" THEN [counter EXCEPT ![c.key] = @ + 1]
                                          ELSE counter
    /\ pipe' = Tail(pipe)
    /\ UNCHANGED <<calls, listed, typed, counted, tagged, failed, crashed>>

Fail ==
    /\ pipe # <<>>
    /\ pipe' = Tail(pipe)
    /\ failed' = TRUE
    /\ UNCHANGED <<db, counter, calls, listed, typed, counted, tagged, crashed>>

\* The indexer ends, and is started again.
Crash ==
    /\ pipe # <<>>
    /\ pipe' = <<>>
    /\ crashed' = TRUE
    /\ UNCHANGED <<db, counter, calls, listed, typed, counted, tagged, failed>>

Next ==
    \/ \E p \in Container, k \in Item :
           \/ add_types(p, k) \/ rem_types(p, k)
           \/ \E n \in TypeName : add_files(p, n, k) \/ rem_files(p, n, k)
    \/ \E n \in TypeName, k \in Item :
           \/ add_nodes(n, k) \/ rem_nodes(n, k)
           \/ \E t \in Tag, v \in Value : add_tag(n, t, v, k)
    \/ \E m \in Mime : incr_mime(m)
    \/ Execute \/ Fail \/ Crash

Spec == Init /\ [][Next]_vars
-----------------------------------------------------------------------------
Members(key) == {p[2] : p \in {q \in db : q[1] = key}}

\* All commands sent have been executed.
Quiet == pipe = <<>> /\ ~failed /\ ~crashed

\* Once redis has executed all commands, the lists of nodes and files hold
\* what was last asked for: a node of a type is in the menu entry of its type
\* until it is removed, whatever was done to other lists.
ListsAsAsked ==
    Quiet => \A n \in TypeName, k \in Item :
                 /\ LET p == <<make_key_list(n), k>>
                    IN  p \notin typed => (p \in db <=> p \in listed)
                 /\ \A c \in Container :
                        LET p == <<<<"fs", c, "types", n>>, k>>
                        IN  p \in db <=> p \in listed

\* However the commands of add_tag() are cut off by the end of the indexer, a
\* node found under a value can be reached from the top of the tag index, and
\* nothing is found there that was not tagged so.
TagsReachable ==
    \A n \in TypeName, v \in Value :
        LET key(x) == <<"fs", n, "tag", x>>
        IN  /\ \A k \in Members(key(v)) : \E t \in Tag : <<n, t, v, k>> \in tagged
            /\ ~failed /\ Members(key(v)) # {} =>
                   \E t \in Members(key("name")) : v \in Members(key(t))

\* A mime type is counted at most once for each call, all calls are counted
\* when every command was executed, and what is counted is in the set of
\* mime types even after the indexer has ended between the two commands.
MimeCounted ==
    \A m \in Mime :
        /\ counter[m] <= counted[m]
        /\ Quiet => counter[m] = counted[m]
        /\ ~failed /\ counter[m] > 0 => m \in Members(<<"fs", "mime">>)

\* What rem_types() says it does, "remove node from parents type list".
RemovedFromParent == Quiet => \A p \in typed : p \in db => p \in listed
=============================================================================
