# Verification of the squawk UPnP media server

TLA+ models of the server in this repository, TLC runs over small instances of
them, and TLAPS proofs for all instances. Paths are relative to the root that
holds the repository in `src/`: the entry point is `src/main.cpp`, the library
is under `src/src/`.

## 1. The system

| part | state | operations | interacts with |
|---|---|---|---|
| start-up, `main.cpp`, `config.h` | `Container`: config, redis connection, servers | load, override, validate, store the config; build namespaces; bind routes; announce; SIGINT | datastore, Server, SSDP server |
| SSDP server, `ssdpserver.*` | `namespaces`, `announce_thread_run`, `_announce_time`, announcer thread | construct, `announce`, `suppress`, `search`, `handle_receive`, `annouceThread`, destruct | connection, network |
| SSDP server connection, `ssdpserverconnection.*` | UDP socket, `sender_endpoint`, asio thread | construct, two `send`s, `handle_receive_from`, destruct | calls back `handle_receive` |
| SSDP client connection, `ssdpclientconnection.*` | socket, thread | `send`, `handle_receive_from` | calls back `handle_response` |
| control server, `server.*` | config read back, redis connection, subscriber | `cds` (browse, subscribe), `cms`, `description` | datastore, Didl, control points |
| DIDL, `didl.*` | XML document, count | `write` | datastore (counts, covers) |
| datastore, `datastore.h` | redis (outside the process, shared with the indexer) | nodes, lists, pages, config | everything |
| device description, `server.cpp`, `main.cpp`, `device.h` | constants, the config's name and uuid; of a control point: `Device` | `description`, the routes, `parse` | control points |
| headers, XML helpers, icon data | constants | formatting | HTTP library (outside) |

What is hard in it:

* three threads per SSDP server (owner, announcer, asio runner) with no lock:
  the announcer multicasts while the owner withdraws, the runner reads members
  the destructor takes apart, responses use a shared `sender_endpoint`;
* the network loses, delays, duplicates and reorders; the process may be
  interrupted without a byebye; correctness then rests on max-age and on a polled
  timer, which reads a clock that may be set and casts to unsigned;
* redis is shared by instances and with the indexer, and no handler uses a
  transaction: config is stored and read back, pages, nodes and totals are read
  one after the other; some errors of commands read as empty answers;
* most writes are sent without waiting for a reply, several for one call: any
  of them may fail, and the indexer may end between two;
* boundary arithmetic of redis ranges, in ints taken from ui4 arguments;
* a control point keeps a `Device` over many documents and restarts of the
  server, of which each may repeat elements or leave some out.

`PROJECT.json` lists these hazards with their lines and the properties that
watch them. Met while modelling, and watched by nothing: the member http_parser
keeps its state between datagrams (`ssdpserverconnection.cpp:71`, the parser is a
library's); a stored `listen_address` is never looked up again (`config.h:55`) and
all fresh instances share one uuid (`config.h:67`); UNSUBSCRIBE removes nothing
and the ConnectionManager's subscriptions are not stored (`server.cpp:100`, `:108`;
nothing reads the stored ones); the initial event may overtake the response to
its SUBSCRIBE (`server.cpp:94`); a Callback of one bracket throws (`server.cpp:144`,
`BadCallback`); BrowseMetadata answers NumberReturned 1 for a node that is not
there (`server.cpp:193`); the versions of a `Device` are uninitialised
(`device.h:345`).

Correct means, part by part: the SSDP server announces everything it serves,
withdraws everything when it stops, answers each search to its sender and stops
in the end; a control point knows a running device and forgets a dead one in
bounded time; the device keeps one name and a complete config through restarts;
a control point that pages through a container gets all of it; the lists and
indexes in redis are what the calls asked for; a parsed device shows what its
server says, at URLs that are served.

## 2. The modules

### SsdpServer (with Advertisement)

One action per step of a thread that another thread can observe. Owner:
`Construct` (the connection's constructor, which starts the runner),
`StartAnnouncer` (the rest of the constructor), `announce_suppress` and
`announce` (one multicast each), `Destroy`, `JoinAnnouncer`, `DestroySuppress`,
then the members in reverse order of declaration: `DestroyNamespaces`,
`StopIo`, `JoinRunner`. Announcer: `CheckTimer`, `Reannounce` (one multicast),
`Wake`. Runner: `handle_receive_from`, `handle_receive`, `Reply` (one response),
`Replied`, `Rearm`, `RunReturns`, `ReceiveError`. `pos` and `apos` are the
positions in the two nested loops (rounds, namespaces in map order).
`SendThrows` is the uncaught exception of a multicast, `ReplyFaults` the memory
fault of answering while `connection` is null or `namespaces` is destroyed
(after the destruction, going on as if the memory were intact is allowed too:
undefined behaviour is a choice), `handle_receive` aborts in its assertion on a
method it does not know. `announce_thread_run` is a plain `bool`; the loop calls
`sleep_for` on every pass, behind which the compiler has to read it again, so
the race is modelled as an atomic read.

`Arrive` is the kernel (external). A datagram carries only what
`handle_receive` inspects; `own` stands for a USN that holds the uuid.

`Advertisement` is the abstract specification: the multicast stream of one
server life in the phases fresh, serving, leaving and left, without threads.
`ImplementsAdvertisement` maps `wire` to the stream and the owner's place to
the phase.

### SsdpSearch

`search()` from the call to the return: the caller, the `std::async` task with
its `SSDPClientConnection` (`Open`, `SendQuery`, `Close` after five seconds,
`StopIo`, `Join`) and the connection's asio thread. `OpenThrows` is the
destructor joining a thread that was never made, `CloseRaces` one outcome of
closing the socket while the runner starts a receive on it (the other outcome is
`Close`). Concurrent searches share nothing, so one at a time stands for all.

### SsdpPresence

The same announcements with time: `elapsed` is the time since `_announce_time`
was taken, `nap` the rest of the announcer's sleep; `CheckTimer` is one pass of
the thread. The timer does not know `elapsed`: it compares `reading`, the
difference of two readings of the high resolution clock cast to unsigned
(modulo `UInt`), and that clock is the system clock, which `SetClock` (external)
sets to any time, up to `MaxSet` times between two announcements. `sleep_for`
does not follow it. Set back beyond the last announcement the difference wraps
and the timer is due at the next pass; set back by less it starts a round over at
most, whence `Period`; without the cast to unsigned the first case would be
unbounded (mutant `Due_Signed`). `MaxSet = 0` is a steady clock. The NETWORK_COUNT copies of a message are one message that
may be delivered any number of times within `Delay` and that is lost when all
copies are, at most `MaxLost` times in a row; searches are answered at any time,
while the destructor runs too.
The control point's cache (`ttl`) and the network are external. `silence`,
`heard` and `downFor` are history variables of the properties.
`Interval`, `Sleep` and `MaxAge` are 60, 5 and 1800 seconds in the code, so the
assumption `Bound < MaxAge` allows some 26 lost announcements in a row with a
steady clock, and some 12 if it is set once before each.

### Boot

Each instance walks through `main()`: `config_exists` (or its failure), `Load`,
`Configure` (options, namespaces, `validate`), `Store` (or `StoreFails`, the
ignored result), `MakeServer` (which reads the config back on a second
connection), `Announce`; `Die` at any point, and `Launch` again. The values of
the config's fields are abstracted to where they come from (`"cli"`, `"old"` from
the database, `"default"`, an address), `Text` is the set of these; only emptiness
and equality matter.
`stored`, `reboot`, `saved` and `misread` are history variables. `misread`
records the failed EXISTS, after which the next `Store` may replace the uuid; the
properties about the uuid exclude it.

### Browse

`Request` with the arguments `parse()` has collected, or `RequestThrows` when
`stoi` cannot hold one; then `ReadPage`, `write` per child, and `Respond` with the
total in the `soap_envelope`: one action per redis command of the handler, each of which may also fail and then
reads as empty. The indexer writes between them through the functions of
`struct data`. `index + count - 1` wraps at `IntMax`. Keys are numbered in sort order,
and `Place` is the position of one in a sorted list, the number of keys before it.
`class` tells the root menu, where `rem_types` removes, from the other
containers, where it removes nothing (see Datastore). A node is `"ok"`, `"none"` (no
class: skipped) or `"partial"` (a missing field throws). Assumed of the
indexer, which is another program: it saves a node before it lists it, and adds
to an album's files only what is saved and also listed (`add_nodes` sends
whatever it is given); and it never gives a member a new score, so that a second
ZADD of one leaves the order as it is. The control point, external too,
asks on from NumberReturned further until it has TotalMatches or gets an empty
page; `expected` is what it is owed, all children when each can be written, and
nothing after a failed command or after a removal that shifts pages. A child that
is removed from the list but still in the sorted copy is not promised.

### Eventing

The web server's handlers (`Request`, `NoCallback`, `BadCallback`, `Respond`)
publish subscriptions on the redis channel; the subscriber thread (`Take`,
`Slept`, `Notify`, `NotifyFails`) handles them one at a time. The channel drops
messages while the subscriber is not connected, `Persist` executes or fails the
ZADD that was sent without waiting. The model has one instance of the server on
its database; a second one would receive the same messages and send the same
events. An exception out of the HTTP client would end the process and is not
modelled, since the client is outside the repository.

### Datastore

The writes of `struct data`. A function only appends its commands to `pipe`
(`Send`); `Execute` is redis taking the next one, `Fail` a command that fails
unseen, `Crash` the end of the indexer with the commands it has not got rid of.
Redis is a set of pairs of key and member; a key is the sequence of the tokens
`make_key` joins. Node types go through the enumerators and the table of names
as in the code, `hash` keeps the keys of the root menu and maps the others away.
`add_files` and `rem_files` are the overloads of `add_nodes` and `rem_nodes` with
a parent. `listed`, `typed`, `counted` and `tagged` record what the callers asked
for. One connection is assumed per indexer, on which redis keeps the order.

### DeviceDescription

Both ends of `/root.xml`: `description` on the server, `parse` into a `Device` at
a control point, and `handler`, the routes of `main()`, for the URLs in between.
A document is the sequence of its elements, each a name and a text, in document
order; a URL is the sequence of its parts. `FOR` visits the elements in order, so
the last one for a member decides (`urlBase` is set by two of them), through the
`value` it is parsed to; members without an element stay as they were; `Lists`
appends. `MaxList` bounds the icons and services of one document. `Parse` consumes
the text, since rapidxml writes into it; `ParseAgain` is the error that follows.
`Restart` is external.

`Purpose` pairs each URL of a `Device` with what the description has it for: a
service's URLs with that service, an icon's with an image of its width, the
presentation URL with a page. `handler` gives an image's width, 16 for any number
the route does not know. `UrlsRouted` says that all of them are served as
described but for the two in `Unserved`: the 128 pixel icon, which gets the 16
pixel image (`main.cpp:163`; the route has 120), and `presentationURL`
(`server.cpp:330`), to which nothing is bound.

## 3. The runs

| run | instance | shows |
|---|---|---|
| `ssdp_server` | 2 namespaces, 2 rounds, 2 endpoints, socket buffer 1 | type invariant; `ReplyToSearcher`, `AliveInService`, `ByeIsFinal`, `FaultsAtEdgesOnly`; refinement of Advertisement; `ShutdownCompletes`, `SearchAnswered` under fairness |
| `ssdp_server_stop` | 1 namespace, 1 round | violation: a search answered behind the last byebye |
| `ssdp_search` | 6 answers | `UsedInCallOnly`, `SearchEnds` |
| `ssdp_presence` | interval 3, sleep 1, max-age 23, slack 1, delay 2, 1 loss in a row, 1 setting of the clock per announcement, 12 unsigned values | `NoLapse`, `HeardInTime`, `StaleBounded` |
| `boot` | 2 instances (symmetric), with and without an option, 3 initial documents, 2 addresses | `StoredComplete`, `UdnMatchesUsn`, `RebootHeals`, `UdnSurvives` |
| `boot_nt` | 1 instance | violation: NT of a first boot without uuid |
| `browse` | root, album or other container, 3 children, counts 0, 1, 2, 5 and 6, largest int 5, 3 writes of the indexer | `PageFits`, `NothingMissed`; `PagingEnds` under fairness |
| `browse_all` | 3 children, RequestedCount 0 | violation: the last child is left out |
| `eventing` | 2 control points, both services, 2 requests each | `EventsAccounted`, `CdsRemembered`; `Dispatched` under fairness |
| `device` | 2 names, this server and another one with 3 documents, 2 parses | `LatestValues`, `UrlsRouted`, `NameCurrent` |
| `datastore` | root and a menu entry, a hashed key and a menu key, 2 types, 2 tags, 1 value, 1 mime type, 3 calls | `ListsAsAsked`, `TagsReachable`, `MimeCounted` |
| `datastore_remove` | the same, 2 calls | violation: a removed child stays listed |

Bounds. Two namespaces tell the first, the last and an inner position of the
loops apart, two rounds the first and the last (NETWORK_COUNT is 3 in the code,
and the proofs cover every number); two endpoints let one
sender redirect another's answer, and a buffer of one suffices since the runner
takes one datagram at a time and the buffer refills while it works. In
`ssdp_presence` max-age is the least the assumption allows; in whole ticks the
longest silence that occurs is 4 short of the bound, one for each round, since a
pass that is not due reads at most `Interval - 1`. 12 unsigned values hold every
difference of a round and enough negative ones for a signed reading to break the
bound. Three children and pages of up to two give a full, a
partial and an empty page, three writes let the indexer save, list and sort a
child during one browse; counts of 5 and 6 with a largest int of 5 are the one
whose range overflows and the one stoi refuses. An overflow costs a control
point only children that were added after it began: a count that large has all
others on the first page, as long as a container has no more keys than half the
ints (2^30; the proof needs this, and with 4 keys and a largest int of 4 a count
of 3 does skip the last child). Two instances are enough for one to overwrite the
other's document between its store and its read-back. In `device` the documents of
the other server lack different elements, so that every member is once kept and
once replaced, have both elements of the base in either order, a repeated
friendlyName and icons without and with two widths. Three
calls of the indexer are an add, a remove and a call for another list, or two
tags with one value, cut off after any command.

Deadlock is not checked where the program may stop: a server that is gone or a
process that ended, a control point that has finished, an indexer without work.

Fairness. `ssdp_server`: weak fairness of each thread's steps, as the
operating system schedules every started thread; none of `Construct`, `Destroy`,
arrivals, errors or interrupts is obliged to happen. Joins are steps that are
enabled only when the other thread has ended. `ssdp_search`: the same for the
task and the runner, and for a caller whose wait is over. `eventing`: the
subscriber thread is scheduled and every exchange with a control point ends with
an answer or an error, which is assumed of the HTTP client. `browse`: the HTTP handler runs on
and the control point asks on.

The four violations are recorded under `findings`, each with the comment the
code disagrees with. Two more disagreements can be read off the models without a
run: `search()` is called asynchronous (`ssdpserver.h:32`), while `Return` waits
for the task, because the future is discarded; and a failed EXISTS
(`datastore.h:451`) lets `ConfigExistsFails` lead to a new uuid.

## 4. The proofs

Every invariant and action property that a passing run checks is a theorem too,
for all values of the constants that satisfy the assumptions of its module; so
is the refinement. Each proof module has one inductive invariant `IInv`, one
lemma for each kind of step, and the theorems at its end.

| proofs | theorems | assumptions on the constants |
|---|---|---|
| `SsdpServerProofs` | `TypeCorrect`, `AnswersGoToTheSearcher`, `StandsAnnounced`, `Withdrawn`, `NoFaultInService`, `Refinement` | `SsdpConstants`: positive counts, some endpoint |
| `SsdpPresenceProofs` | `TypeCorrect`, `Discovery`, `KeptAlive`, `Forgotten` | `PresenceConstants`: positive interval and sleep, a round fits an unsigned int, `Bound < MaxAge` |
| `SsdpSearchProofs` | `NoUseAfterReturn` | `SearchConstants`: a number of answers |
| `BootProofs` | `NothingMissing`, `OneName`, `Healed`, `NameSurvives` | `BootConstants`: options are texts, never empty and never the uuid; documents have known fields |
| `EventingProofs` | `TypeCorrect`, `OneEventEach`, `Stored` | `EventingConstants`: a number of requests |
| `BrowseProofs` | `TypeCorrect`, `NeverTooMany`, `AllFound` | `BrowseConstants`: finitely many keys, no more than half the ints |
| `DatastoreProofs` | `AsAsked`, `Reachable`, `Counted` | `DatastoreConstants`: types are enumerators, no node has another one's hash for its key, tags and values differ |
| `DeviceDescriptionProofs` | `TypeCorrect`, `LastDocumentWins`, `Routed`, `NameShown` | `DescriptionConstants`: documents are sequences and have at most `MaxList` icons and services |

The last assumption of `DatastoreConstants` is one on the indexer: tags and
values share the keys `fs:TYPE:tag:X`, so a value that is also a tag, or `name`,
would be found where tags are. That no key is another key's hash is what
64 bits of `boost::hash` make likely.

* SsdpServer. `AliveInService` and `ByeIsFinal` are not inductive: while a loop
  runs, what it has sent so far matters. `LoopProgress` says that in the alive
  loop of `announce()` and in the destructor's byebye loop every namespace
  covered so far has the loop's status (the announcer only repeats alive, so it
  cannot disturb the first, and `AnnouncerLife` says that it has ended before
  the second begins); `MemberLife` ties `namespaces` and the runner to the
  owner. `Refinement` uses the invariant for the steps that change the phase.
* SsdpPresence. `TimerBound` bounds `elapsed` plus the rest of the sleep by one round
  more than the clock was set: either the coming pass is within `set` rounds,
  whatever the clock reads, or what has passed beyond them is in the reading, so
  that the timer is due within one more;
  `SilenceBound` explains the silence of a control point by the lost
  announcements, the timer and the age of what is under way, `EntryAge` relates
  the lifetime of the entry to the silence and `StaleEntry` to the time the
  server is down. The multiplication in `Bound` is confined to the lemmas
  `Bounds`, `LossSteps` and `NextPass`.
* SsdpSearch. `UsedInCallOnly` is inductive together with the type invariant:
  the join is the only way out of the task, and it waits for the runner.
* Boot. The properties speak of running instances and of the document;
  `MainInv` and `UuidInv` carry them through `main()`: what an instance is about
  to store is complete, and the uuid it has, or will have after `validate`, is
  the one the document stands for, since all instances fill an empty uuid with
  the same one. `RebootInv` says that a stored config leaves `validate` nothing
  to fill in after the namespaces were made.
* Eventing. `EventsAccounted` is inductive once the messages of a control point
  that wait in the channel are counted: `QueuedAppend` and `QueuedTail` are the
  cardinality of their places when one is published or taken. `RememberInv`
  says that the ZADD is sent before the subscriber thread goes on to the event.
* Browse. `Later` is the heart of it: what a control point is owed and has not
  got has its place behind all it has asked for, and additions only move it
  back (`PlaceGrows`). While a page is being written, "got" includes the rest of
  the page. `PageOf` shows for every index and count that the range redis
  returns is a run of the list from the index on, overflow or not, and when it
  can be empty; a range can only overflow after a first page that had
  everything. `OwedInv` and `IndexerInv` say why no child that is owed is passed
  over: the indexer lists only what it has saved.
* Datastore. What is in redis depends on what is still in `pipe`. `Settled`
  says that the last command on its way for a pair decides on it as the last
  call did; `Before` and `Entered`, that the entries above a value in the tag
  index are in redis or ahead of it in `pipe`, which is why neither the end of
  the indexer nor anything but a failed command can leave it unreachable;
  `CountInv` adds the INCRs on their way to the counter.
* DeviceDescription. `LatestValues` is inductive by itself (`LatestStep`,
  `JoinedStep`). `OursInv` says that everything in a `Device` came from a
  description of this server, so that `Routed` has to look at its URLs only.
  `Greatest` shows that a non-empty set of places has a last one, which `FOR`
  takes.

Only model-checked: liveness (`ShutdownCompletes`, `SearchAnswered`, `SearchEnds`,
`PagingEnds`, `Dispatched`), since the prover handles neither fairness nor
ENABLED.

## 5. Not modelled

* what only reads and answers: BrowseMetadata, capabilities, update id,
  GetProtocolInfo, `/config`;
* `eval()` of the datastore, which passes on a script and has no caller here;
* `touch()` and `timeout()` of `Device` (`device.h:328`-`:342`), and `parseRequest`,
  `parseResponse` and `parse_keep_alive` of the SSDP server (`ssdpserver.cpp:122`,
  `ssdpserver.h:58`): nothing in the repository calls them or connects the one
  with the other;
* HTTP, asio, redox, hiredis, redis itself, rapidxml: outside the repository,
  present as environment;
* response headers, XML and DIDL text, the icons' image data: constants and
  formatting without state;
* two SSDP servers with the one hard-coded uuid on a network, each of which
  takes the other's messages for its own: the repository has no code that acts
  on a message it does not drop.

## 6. Plan

1. Proofs: what the liveness properties rest on that is safety: that a join
   waits only for a thread that can end (SsdpServer, SsdpSearch), and that a page
   that is not the last one moves the control point on (Browse).
2. Two instances of the event subscriber on one database, which would both
   send the initial event.
