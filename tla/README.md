# The Python client of TessariDB, modelled

`src/` is a client library: a program imports `tessaridb`, connects to a node over
TCP or HTTP, and runs scripts, feeds, queues, topics, caches, vaults. The node, which
stores everything, is not in the repository. This directory holds TLA+ models of the
parts of the client that keep state or race with something, TLC configurations that
check them on small instances, and TLAPS proofs of what matters most for every
instance. Paths below are relative to `src/src/tessaridb/` unless they name `README.md`,
which is the repository's own.

Contents: [inventory](#inventory) · [modules](#modules) · [correspondence](#correspondence) ·
[runs](#runs) · [fairness](#fairness) · [what is proved](#what-is-proved) ·
[disagreements found](#disagreements-found) · [what is assumed of the node](#what-is-assumed-of-the-node) ·
[not modelled](#not-modelled) · [plan](#plan) · [running](#running)

## Inventory

| Component | Source | State it keeps | Operations | What is hard | What makes it correct |
|---|---|---|---|---|---|
| Wire connection | `connection.py`, `_frames.py` | the socket, the credentials still owed, the node and its minor | `connect`, `execute`, `vault_frame`, `subscribe`, `close` | credentials spent while a request is built; a call interrupted between its request and its answer; a connection that ends inside a frame | credentials are presented once; an answer goes to the request that asked for it |
| Change feed | `connection.py` (`subscribe`, `Subscription`) | `resume_from`, `resume_cursor`, `finished` | iterate, `close`, subscribe again | drops at any byte, a rolled-back node, commits of several changes under one sequence, runs of changes a condition skips, split tables with one log per part | in order, never twice, nothing lost but what a sequence cannot name; the resume point does not fall behind |
| Redirects | `_follow.py` | hops, epoch floor, the trail of sockets | `followed` | redirect cycles, stale leaders, the wrong node behind an address, tenancy that has to be selected again, failures half way | bounded hops, epochs forward, same tenancy and credentials, no socket left open, an all-or-nothing move |
| HTTP session | `http.py` | `_token`, `_sessionless`, a lock | every call, `end_session`, the retry after a 401 | threads sharing a token that lapses; the lock is not held over a request; lost answers | no batch lands twice; callers do not see tokens end; the password is not spent again and again |
| Queue worker | `queue.py` | `_stopped`, the batch | `claim`, `done`, `release`, `run_auto`, `run_manual`, `stop` | a stop at any moment, holds that lapse in a handler, workers sharing a name, crashes, lost answers | at least once; a stop hands back; a release takes nothing from others; everything is settled |
| Topic consumer | `consumer.py` | `_stopped`, the batch | `ack`, `nack`, `run_auto`, `run_manual`, `stop` | deadlines that pass in a handler, late settlements by position, crashes | nothing forgotten unhandled, bounded duplication, everything acknowledged |
| Lease lock | `cache.py` (`Cache.lock`, `Lease`) | the lease's holder | `lock`, `extend`, `release` | leases that lapse without anybody told, lost answers, dead holders, late releases | one unlapsed lease; `True` means unbroken; the lock comes free |
| Cache, counter | `cache.py` | none | `get`, the four sets, `get_or_set`, `delete`, `incr`, `expire`, `persist`, `ttl`, `keys` | `get_or_set` is up to three statements with a loader between them, against expiry, other callers and lost answers | it answers what was there to answer; callers that raced have one value in hand; a call counts once |
| Containers | `_containers.py`, `_container_statements.py` | none | lists, hashes, sets, rankings in a space | any number of values in one statement; an absent key and another kind come in place of a container | every value stands where it was meant to; a reader reads its kind or nothing |
| Vault | `vault.py`, `_vault_frame.py` | none of its own | seal, unseal, declare, change, secrets | the minor gate; a frame that spends the connection's credentials; a status with a field missing or of a newer word | pairing of answers and credentials, with the connection; no status is read as what it does not say |
| Frames | `_frames.py` | the stream | `greet`, `send`, `read` | short reads, the ceiling, truncation | a torn frame is never a clean end |
| Answers | `_answer.py`, `outcome.py` | a read position | read the outcomes of a reply | blocks an older or newer node writes; lengths that lie | what was not said is not promised; an outcome harms no other |
| Codec | `_encode.py`, `_decode.py`, `_bytes.py`, `_tags.py`, `value.py` | a read position | encode, decode | sign inversion, escapes, varied widths | decode inverts encode; order is kept where it is promised |
| JSON reader | `_json.py`, `script.py`, `kind.py`, `_geojson.py` | none | read one value, read the outcomes of a script | negative durations, decimals; absent keys that mean three different things | agrees with the wire, value by value and outcome by outcome |
| Query builder | `query.py`, `statement.py` | the builder | `fields`, `lines`, `where`, `order_by`, `start`, `limit`, `staleness`, `answered_by`, `set`, render | references numbered while the text is rendered; conditions nested by parentheses alone; names checked where they are given or only when rendered | the text reads as what was built, each reference as the value it stood for |
| Events, paths | `_events.py`, `_files.py` | none | `batch`, `literal`, `series_path`, `file_path`, `bucket_path` | a text that holds quotes and backslashes, a file that may be named anything | the node reads the events and the names that were given, or nothing is sent |
| Rest | `health.py`, `tls.py`, `errors.py`, `__init__.py` | none | readers, declarations | – | – |

How they interact: queue, consumer and cache hold a `Connection` (or any object with
`execute`) and send one statement a call, each run atomically by the node.
`Connection.execute` sends one request frame and reads one reply; a reply that redirects
goes to `followed`, which dials other connections and may return one that replaces the
socket. `Subscription` takes the whole connection over until it ends. The HTTP client is
independent of the wire. Threads meet in two places only: the token of an `HTTPClient`, and
`stop()` of a worker or consumer. Processes meet in the store: in a queue's holds, a group's
deadlines and a lock's key.

## Modules

| Module | Models | With |
|---|---|---|
| `Delivery` | the promise of a change feed, abstract: published, delivered, which units may be cut | – |
| `Feed` | the feed, the node that serves it and the caller's loop | refines `Delivery` |
| `Follow` | `execute`, the credentials, `followed` and the nodes it meets | – |
| `HTTPSession` | token, mark, sign-in, retry, append, shared by threads | – |
| `QueueWorker` | workers of one queue with holds, lapses, dead letters, deaths | – |
| `Consumer` | members of one group with deadlines and deaths | – |
| `Lease` | callers of one lock, their statements under way, time | – |
| `Cache` | callers of one key: every call of a cache, `get_or_set` with its loader, expiry, lost answers | – |
| `Query` | the four builders, call by call, and what they render | extends `Codec` |
| `Wire` | one connection and its socket: greeting, requests, the vault's frames, replies in pieces, interrupts | – |
| `Bytes` | the primitives of values and the ids of records, as operators and functions: written, read, ordered | – |
| `Codec` | the bytes of a value, as functions of the values in it: written, read | extends `Bytes` |
| `Answer` | the outcomes of an answer, as operators, from nodes of every age | extends `Codec` |
| `JSONReader` | the JSON of a value read at its declared kind, as operators | extends `Codec` |
| `Script` | the outcomes of an answer said in JSON, as operators | extends `Answer`, `JSONReader` |
| `Handles` | the statements of caches, containers and vaults, and the readers of their answers, as operators | extends `Codec` |
| `VaultFrame` | the frame of a vault's acts and the status they answer with, as operators | extends `Codec` |
| `Values` | the values there are, put into each other one step at a time, and what must hold of each | extends `Answer`, `VaultFrame` |
| `Routes` | events spelled as source, and the paths of series, buckets and files, as operators | extends `JSONReader` |
| `MC*` | the instances TLC checks; `MCValues` gives `Values` its atoms, tries the modules of operators on each value, and makes calls for `Query` | the module named |
| `FollowProofs`, `HTTPSessionProofs`, `QueueWorkerProofs`, `LeaseProofs`, `WireProofs`, `ConsumerProofs`, `CacheProofs`, `FeedProofs` | the theorems and their proofs; `WireProofs` also has those of `Bytes`, `Codec`, `Answer`, `VaultFrame` and `Values`, the bytes a connection carries | the module named |

Each module has its parameters as CONSTANTS with a named assumption, one action per
operation or per step between which something else can happen, and its properties at the
end. Definitions named `Action_Word`, under a comment "Mutant", are `Action` with the
plausible bug `Word`; no specification uses them. `PROJECT.json` lists for each property the
mutant that breaks it, and for each definition the lines it translates.

## Correspondence

How big a step is: an action covers the code from one point where another actor can
interfere to the next. In a single-threaded client these are the points where it waits for the
node; between threads they are the reads and writes of shared state.

**Feed.** `resume_from`, `resume_cursor` are the subscription's; `link` says how its
connection stands (up, ended between frames, ended inside one, closed and why). `wire` is the
socket's buffer, bounded as a socket is. `NodeReads`, `NodeReports`, `Commit`, `Drop`,
`Rollback`, `Upgrade`, `Decline` are the node's. `ReadChange`, `ReadProgress`, `ReadRefusal`,
`ReadUnknown`, `ReadEnd` are the branches of `Subscription.__next__`; `Handle` and
`HandlerFails` the caller's loop body; `Subscribe` is `Connection.subscribe` from the resume
point on a new connection. A commit is a unit: all its changes carry one sequence. On a split
table every part has its own sequences and the node hands out cursors.

**Follow.** `conn` is the caller's connection with its session at the node (tenancy,
credentials presented), `there` the one being tried. `pc` walks through `execute` and
`followed`: asked, selecting (the tenancy is asked for on the caller's connection), hop (dial),
context, using (`USE` there), selected, sent. `trail` records each sending of the script to a
redirected node. Every error branch of `_follow.py` is a value of `result`. A script may carry a `USE` of
its own: `choice` is the tenancy it selects, `Ran` what running it does to the session it runs in. A node that
refuses a script may have run it as far as its `USE`, a node that redirects it has run none of it.

**HTTPSession.** `token`, `sessionless` are the client's; each acquisition of its lock is one
step and no request happens inside one. A thread goes authorize, (sign in, signed in), send,
answered, and once more after a 401. The node issues, honours and ends tokens; a connection
may fail before the request runs or after.

**QueueWorker.** `record`, `holder`, `attempts` are the queue's; `pc` walks the loop of `_run`:
next, claiming, waiting (nothing was claimed), batch, handler, settling, settled, handing back,
returned. `decided` is the settlement `run_auto` or `run_manual` chose. A worker's *name* is what
the store sees; `Namings` has both a shared name and names of their own.

**Consumer.** As the queue, but a settlement is by position and names no member; the group's
deadline hands a message out again. `Having(m)` are the members with a message in hand.

**Lease.** A call has three steps: the statement leaves (`Lock`, `Extend`, `Release`), the store
runs it (`Runs...`), perhaps after its sender died, and the answer arrives (`Answered`) or is lost
(`Fails`). `Tick` is a millisecond of the store. `granted` counts down what the store granted each
caller, which is what a caller with a perfect clock could rely on.

**Cache.** A caller is at one statement of its call: `once` for the calls of one statement; `get`, `store`, `again` for
`get_or_set`, whose loader runs between the first two. `Runs...` are the store's, one for each statement and its
condition; `Fails` is a connection that fails, the statement run or not, or a loader that raises; `Tick` is
expiry. `stood`, `removed` and `added` are history: what the key held while a call ran, whose value was
removed or replaced since, and which increments are in it.

**Wire.** `wire` is what the peer has sent and nobody has read, as items: a byte, or a whole body
under its length (what a body holds is not looked at again). `took` is what the read under way
has so far; `pc` says which read that is: magic, version, first (the frame's kind), length, body. `Part`
is one `recv` that did not give enough; `Whole` guards the steps that have what they
wanted: `ReadMagic`, `ReadVersion`, `ReadFirst`, `ReadLength`, `ReadBody`. `ReadEnd`, `ReadFails` are the stream's end and its
reset. `Ask` and `Act` are `_ask` and `_vault`; `Interrupted` is a caller that gives up inside a read and
goes on using the connection, which the code permits. The peer answers, refuses, redirects, or sends anything at all; it
may stop anywhere.

**Bytes, Codec, Answer, JSONReader.** A writer is the set of what it can write, empty when the code raises; a
reader likewise, so that "raises" is a value the properties can speak of. The widths of integers are
constants: two bytes stand for an `i64`, three for an `i128`, one for a `u32`, and the edges of each are among
the inputs. A double is its bits. In JSON a text is its characters; the calendar and the
digits of a float that is no whole number are the library's, and what the node writes is external, read off the reader's comments and tests.
JSON says less of a double than its bits, and so does the model: the node writes no zero with a sign (`Normalised`), a whole
number as an integer (`Wholes`), every NaN as one word and a coordinate that is not finite as null. The reader makes 0.0 of 0, the library's
NaN of the word and of the null. `LeftOf` is what is left of a value then.
The code reads and writes a value inside a value by calling itself, as deep as the interpreter's stack allows. Here a reader of whole
values is made from a reader of those inside, `NESTING` times over, starting with one that raises: `Read(raw)` is `read[NESTING]`
applied to `raw`. A collection of geometries has a stack of its own. In the code a level costs the
writer and the reader a different number of frames and the limit is the process's; the model gives both the same one, so what is
said of values is said of those both sides have the stack for.

**Values.** A behaviour starts with an atom and puts the value so far into an array, a set, an object or a range, alone or
beside itself. The sets `Plain`, `ValuesOf`, `ShapesOf`, `Ids` are the types of `value.py`, as the arguments its classes take: an integer is any
integer, a uuid any bytes, so that what does not fit its width is among the values, and is not written.

**Script, Handles, VaultFrame.** `Script` reads the JSON of an outcome, a record of the keys it has, to the same form
as `Answer` reads the bytes; the difference of the surfaces (JSON has resolved the names, and says less of a double) is `InJSON`. In `Handles` a
statement is the parameters its text refers to in order, beside the values given by name: `Always` refer to the same,
`Limited` to what is given, `Counting` and `Pairing` to one or two for each value. `VaultFrame` has the frame as the client writes it
and as a node would read it, and `ReadStatus` with its required and its dropped fields; seconds that no `datetime` or `timedelta` holds
(`Instants`, `Periods`) raise.

**Routes.** An event's text is tokens, of which a string is its characters between quotes, since what an escape
does is the point; a path is its bytes. The readers beside the writers are the node's.

**Query.** A builder is what the code's dataclass holds; each call is an action that raises, and leaves the builder as it was, or
adds to it. `Render` threads the text and its references through the clauses as the code's renderer does. The property reads
the text back with a parser of its own, written from what a caller means: the last `limit` given, the conditions as
trees, the values under their references.

## Runs

| Run | Instance | Question | Result |
|---|---|---|---|
| `feed` | 2 parts, condition, 2 commits of up to 2 changes, 3 drops, rollbacks and upgrades | order, no duplicates, loss only inside a commit, nothing starves, refinement of `Delivery` | holds, 97 thousand states |
| `feed_unit_drop` | one part, a commit of 2 changes, one drop | is nothing lost? | violated |
| `follow` | 3 nodes, a plain and an odd tenancy, epochs 0..1, 2 executes, scripts that select a tenancy, parameters that cannot be sent | hops, epochs, tenancy, credentials, sockets, the move, termination | holds, 983 thousand |
| `follow_unsendable` | as above, epochs 0..1 | are spent credentials presented? | violated |
| `http` | 2 threads, 3 tokens, 2 lapses, 2 calls each, lost answers, an open store that closes | appends, retries, and without overlap: lapses unseen, the password, tokens given back | holds, 912 thousand |
| `http_lapse` | 2 threads, one lapse | do callers never see a token end? | violated |
| `queue` | 2 workers with one name or two, 2 records, batch 2, 2 attempts, a stop, a lapse, a death | at least once, hand-back, alone while nothing lapses, releases, everything settled, a stop returns | holds, 249 thousand |
| `consumer` | 3 members, 2 messages, batch 2, a stop, a lapse each, a failure, a death | nothing forgotten, bounded hands, everything acknowledged | holds, 296 thousand |
| `lease` | 3 callers (one named), ttl up to 2, 2 calls each, deaths and lost answers | exclusion, `True` means unbroken, the lock comes free | holds, 2.0 million |
| `wire` | a greeting and 3 calls, minors 1 and 6, bodies up to the ceiling and over it, one interrupt | every answer to its call, a peer named for what it sent, credentials in one frame | holds, 2.9 million |
| `values` | values at the edges of their widths, put into arrays, sets, objects and ranges twice over; two calls on each builder | bytes read back and nothing shorter or longer reads, ids ordered, a lying outcome harms only itself, JSON reads as the bytes do for values and outcomes, or, of doubles it cannot say, as what is left of them; handles carry, a vault's status says no more than it says, events and paths reach the node as given, queries read as built | holds, 37 thousand |
| `cache` | 2 callers, ttl 1, 2 calls each of any kind, lost answers | `get_or_set` answers what stood, racers agree, a call counts once | holds, 1.6 million |

Why the bounds are enough. *Feed*: two changes in a commit are the least a drop can fall
between; two commits and two parts give every relation of sequences and cursors; three drops let
the feed be interrupted, resumed and interrupted again, with one left for a rollback. *Follow*: the
bound of three hops is the code's own; three nodes give cycles and a third party, two epochs are enough for a step back
(`EpochOrder` proves it for any number), and the second execute starts from wherever the first moved to. *HTTP*: the races are
between a thread that holds a refused token and one that replaces it; a third thread adds only
repetitions, a third token lets the second one lapse too. *Queue*: two workers, two records in a
batch: one in the handler, one behind it when the stop, the lapse or the crash comes. *Consumer*:
three members are needed for a late settlement of the first to free the message for a third
while the second works. *Lease*: a third caller's late release is what could break the exclusion of
the other two; two calls are a lock and what is done with it. *Cache*: two callers
are a race, two calls of each put any other call between the statements of a `get_or_set` and give `compare_and_set` a value to
expect; one tick is the key there or gone. *Wire*: three calls are one whose answer is left, one that could be given it, and one after; the ceiling is three bytes because what matters is a body at it and over it. *Values*: a value inside a value inside a value has every reader call every other; answers and JSON, which add one layer of their own, are tried one layer less deep; two calls on a builder are every pair that could disturb each other. Every counter named `Max...` bounds
events, not the size of the state a step can look at; deadlock is not checked because with the bounds used up the system stops.

## Fairness

- Feed: the node that has read up to something sends it while the connection is up, the caller reads, handles and
  subscribes again when a feed is over. Commits, drops, failures are not fair: nothing
  forces them, and the bound on drops is the assumption that a connection sometimes lives long
  enough. `Upgrade` is fair because an older node declines a condition for ever.
- Follow: weak fairness of the calling thread's steps, the answer of the node or the end of its
  connection among them. A node that keeps a connection open and never answers is excluded: nothing
  in the wire client bounds that wait.
- HTTPSession, Wire, Cache and the values have no liveness property and no fairness.
- Queue, Consumer: weak fairness of each thread's loop, which polls (`queue.py:207`,
  `consumer.py:208`); strong fairness of a claim (a read) that gets something, since a claim may come back empty
  though there are records (`queue.py:207`) and the loop comes back to it; weak fairness of the lapse of a hold nobody will settle.
- Lease: only time. `ComesFree` needs no help from any caller.

## What is proved

| Theorem | Says | Of |
|---|---|---|
| `TypeCorrect`, `HopBound`, `EpochOrder`, `SentFaithfully`, `SocketsClosed`, `MoveIsWhole` | all safety properties of `Follow` that hold | any nodes, tenancies, epochs, executes |
| `AppendsOnce`, `RetriesOnce` | a batch lands at most once and exactly when the call says so; at most two requests | any threads, tokens, lapses, calls |
| `LapseUnseenWhenAlone`, `PasswordOnceWhenAlone`, `NothingLeftWhenAlone` | while calls come one at a time: no lapse is seen, a password is paid once and once for each token ended, no token is left at the node | any threads, tokens, lapses, calls |
| `AtLeastOnce`, `LateStartOnce`, `HandsBack`, `HandlersAlone`, `ReleasesItsOwn` | a gone record was handled; one late start; a stopped worker hands back; while no hold lapses nobody shares a record; a release takes none from another's hands | any workers, namings, records, batch, attempts |
| `LeasesExclusive`, `NeverOvertaken` | unlapsed leases are never two; `True` was never overtaken unless a caller is named `free` | any callers, names, ttls, calls |
| `WireProofs!TypeCorrect`, `CredentialsOnce`, `AnswersPaired`, `NamedAsSent` | types; the credentials go out in one frame at most; an answer is the frame sent for its call; a peer is named for what it sent, whatever pieces came in | any bodies, minors, ceiling, calls, interrupts |
| `ConsumerType`, `NothingForgotten`, `CrowdsBounded` | types; what is acknowledged was handled; a message is in no more hands than deadlines allow | any members, messages, batch, deadlines, deaths |
| `GetOrSetStands`, `RacersLeaveAgreed`, `IncrementsOnce` | all safety properties of `Cache` | any callers, ttls, calls |
| `DeliveredOnceInOrder`, `DeliveredMatches`, `LosesAtMostInsideUnit` | what a feed hands over is in order, never twice, and matches; what it passes over was lost inside a commit it had begun | any parts, commits, sockets, drops, rollbacks |
| `KeepsPromise` | the feed implements `Delivery!Safety`: each of its steps is one the abstract subscription allows, or a stutter | the same |
| `KeysInOrder`, `KeysReadBack`, `KeysApart`, `EveryIdInOrder` | keys are in the order of their ids; an id reads back from its key; no key begins another | ids of any numbers, texts and bytes, any widths |
| `NumbersReadBack`, `TextsReadBack` | what is written of a number or a text reads back as it was, and the bytes after it are left | any numbers, texts, widths |
| `ValuesReadBack`, `EveryValueReadsBack` | a value reads back from its bytes as itself; cut anywhere, or with a byte too many, as no value | values of every kind, any sizes, as deep as the stack |
| `NeighboursUnharmed`, `EveryOutcomeApart` | the outcomes beside one that lies about its shape are read as they are | outcomes of any bytes at all; answers of three |
| `FramesReadBack`, `StatusesSay`, `EveryVaultSpeaks` | a vault's frame reads as it was made and is refused exactly when it must be; a status says what its fields do | any credentials, places, phrases, acts; any fields |

They assume only the ASSUME of each module: sets where sets are meant, bounds that are numbers,
`Home` a node, tenancies that are told apart, `"nobody"` not a worker, `"none"` not a record, names of the callers of a lock disjoint, widths positive and a second's
nanoseconds within a `u32`, a stack that is not empty, a vault's acts told apart by their bytes, atoms that leave room in the stack for what is put around them, and the first seconds among those a `datetime` and a `timedelta` hold.

The inductive invariants. *Follow*: `IInv == Wire /\ Course /\ AtLast /\ Counts`. `Wire` ties the two
connections to where the code is: which is open, that credentials are owed exactly until they were
presented, how many sockets that makes; without it neither `NoLeakedSocket` nor the `presented`
part of `SentAsAtHome` is inductive. `Course` ties hops to the length of the trail and the floor to its last
epoch; `AtLast` says the trail ends with the redirect being followed, which the move relies on.
*HTTPSession*: `CallInv(t)` speaks of one thread only (`CallSoFar`: how far requests and landings are
at each point; `Once`; `Twice`), so a step of another thread keeps it by lemma `OthersKeep`: this is why the lock needs no
invariant of its own for these two properties. Without overlap the argument is about the one call running (`QuietInv`):
`Held`, a token the node honours is the client's or in that call's hands; `Part`, what the call knows of the token it
uses; `Money`, a password was paid for each token that ended and for the one that lives; `Newer`, which makes a refusal
that is raised one of a token issued during the call. `CalmStep` reduces a step to the thread that takes it.
*QueueWorker*: `Finished` (what is being deleted was handled),
`Late` (how late starts relate to where the worker is), `Hands` (what is unseen is in the batch unless the store holds
it for nobody), `Own` (the record being worked on is no longer in the rest of its batch), `Mine` (while no hold lapses, what a worker has in hand is held for it), each given `Shape`. *Lease*: `Backed`, an unlapsed lease is the key's and lasts as long
as the key; and `Overtaken`, the key does not return to a caller that was overtaken, for which tokens
must be fresh and no caller be named as what a release leaves. *Wire*: credentials still owed were not
presented, and a frame that presents them pays them; the types of the streams make the steps that read comparable. For the pairing the
replies still to come are part of the invariant: `Written`, a reply is as long as its header says or announces more than the client takes; `Made`,
the peer answers only calls that were made; `Place`, how many bytes are in at each step of a read; `Waits`, the frame being read is
the one of the call, unless it was interrupted; `Rests`, an idle connection that is open has nothing unread. For the naming of peers
`Judges` says how the bytes taken and the bytes in flight of a greeting stand to the whole of it at each step; `Marked`, that only the last
byte in flight can be where a peer cuts; `Ends`, which bytes a read was cut after and how that is heard.
*Consumer*: `AckIsHandled` and `HeldOnce` carry a message from the handler to its settlement; `Crowd` counts the members with a
message in hand against the deadlines that passed. *Cache*: `Witnessed`, what the store answered to a
`get_or_set` stood while it ran; `Holding`, who has a value in hand has the key's as long as nothing was removed;
`Fresh`, no increment is in the key before it ran; `Counted`, the key counts those that are. *Feed*: `Logged` and
`InOrder`, what is on its way is in order and after what was handed over; `Resumes`, the resume point is after what
was handed over; `Covered`, everything that matches before a position on its way was handed over, is coming before it, or is one a
plain feed may lose: without it nothing says that a resume skips nothing. The same invariant carries `KeepsPromise`: a commit is `Publish`, a change handed over is
`Deliver`, and every other step, drops and resumptions among them, stutters; `Covered` gives the guard of `Deliver` that nothing owed is passed over.

*Bytes* has no states: its theorems are about functions defined by recursion over numbers, and the library's induction theorems are
out of the provers' reach. So induction is proved here as a fact about sets, `Induct`, out of two theorems of the library that have no operator for a
parameter: the order of finite sets by inclusion is well founded, hence a set of numbers has a least one (`Least`). `Recursion` then gives what a
recursive function satisfies at each step. From these: `FlippedDigits` and `SmallerDiffers`, two numbers differ first at the digit where their
quotients do, which the sign bit flipped puts in order; `EscapeStands` and `VarBytesInOrder`, where each byte of an escaped text stands, and that
two texts differ first where their escapes do; `NoEndInside`, that no zero of an escaped text is taken for its end;
`DigitsAddUp`, that the digits of a number add up to it.

*Codec* is proved in the same way, by induction on how deep a value nests. Of a writer and its reader two things go through every
construct. `Said(bytes, reader, x)`: whatever follows these bytes, the reader reads x from them and leaves what follows; this gives that a
value reads back, and that a byte too many is left over. `Grows(reads, more, reads again)`: what a reader read from some bytes it reads
again when more bytes follow, and leaves them; this gives that no value is read from a beginning of its bytes, for then the same value would be read
from the whole of them with something left, which `Said` excludes. Neither is inductive by itself on sequences: `WritesInTurn` and `ReadsInRounds` turn what
is written or read one after the other into functions on numbers, so that `Induct` applies, and the order in which an object's fields are written
matters only through `FieldsOnce`: pairs that name each field once make the same function. On the states of `Values` the
inductive invariant is `Placed`: the value is one of `ValuesTo(depth + 2)`, with which `Depth <= NESTING - 2` says that the stack suffices.
*Answer*: `NeighboursUnharmed` needs nothing of the outcome in the middle, since an outcome is read from the bytes its length gives
it and from no others; `EveryOutcomeApart` adds that what a node writes is bytes, `RecordsBytes` and the like. *VaultFrame*: the
frame is its flags, texts and act one after the other, each `Said`; a status is read field by field.

The inductive invariants of `HTTPSession` (`CallTypes`), `QueueWorker` and `Lease` (`Shape`) contain the types of their
variables, so no run checks those types again.

Theorems of properties no run checks: `TypeCorrect`, `ConsumerType`, `HopBound`, `RetriesOnce`, `LateStartOnce`; TLC checked
the formulas once, and the run budget goes to what is not proved.

Only model-checked: all liveness properties (the provers do not reach fairness), so of `DeliversAll` the fairness of the abstract
subscription, its steps being `KeepsPromise`; and of the values `SurfacesAgree`, `OutcomesAgree`, `HandlesCarry` and `ReadsAsBuilt`: JSON, paths and
queries are read with recursive operators, which a proof cannot reach. A text that is not ASCII is outside of all of these, as UTF-8 is
the library's.

## Disagreements found

Each is a run whose property quotes the repository and is violated; `PROJECT.json` has the
quotations.

- A drop between two changes of one commit loses the rest of it: `resume_from` is the sequence plus one (`feed_unit_drop`). On a split table, by cursor, it does not.
- Credentials are marked spent while the request is built; when it cannot be encoded or is too long, no request ever carries them (`follow_unsendable`).
- Two threads refused with one lapsed token: the second to arrive raises the 401 (`http_lapse`).

Met while modelling, without a run of their own: `resume_from` moves before the change is handed over
(`connection.py:381`), so it counts a change whose handler failed; a holder named `free` can extend what another's release left, which
`NeverOvertaken` excludes by its hypothesis; two threads without a token both sign in
(`http.py:239`); a stop that arrives while a claim is under way is followed by one more handler
(`queue.py:144-145` against `queue.py:208`), which `OneLateStart` bounds; a settled redirect answered through a
transient one does not move the connection (`_follow.py:57`); a `USE` in a script that was answered through a transient
redirect is not in force for the next statement, though `README.md:87` and `connection.py:4` promise it, which `MovesWhole` states as it
is; a client that met an open store stays without a session after the store is closed, and pays with the password on
every request (`http.py:237-238`), which is why `PasswordSpentOnceAlone` is about clients that met a user; the query builder says that a bad name
raises where it is given and that there are exactly two reasons to refuse (`query.py:25-28`), but `set` checks names only when
rendering, counts raise `ValueError`, and a span or an answerer that is none is refused with the same error; an access path the
client does not know reads as a scan in bytes (`_answer.py:105`) and is refused in JSON (`script.py:187-188`). `0.0` and `-0.0` are different values (`value.py:106`) and stay so in bytes,
while JSON reads both as `0.0`, as `_json.py:194-198`, `README.md:469-471` and `test_json_corpus.py:169-183` say; `_geojson.py:1` calls geometry
the shape that is not lossy, and the same holds of its coordinates, of which one that is not finite besides reads as NaN. `SurfacesAgree` and
`OutcomesAgree` state what is left. A vault's status whose seconds no `datetime` or `timedelta` holds raises
`ValueError` or `OverflowError` where every other status that cannot be read raises `Malformed` (`_vault_frame.py:107`, `:121`). `_events.py:5-6` promises that what has no spelling is refused and never approximated: a
decimal of a negative scale, which the wire refuses, is spelled as another number (`_events.py:106`; 12345 with scale -2 goes out as
`dec 12.345`), so `SurfacesAgree` is about values the wire can carry; and a year before 1000 is spelled without its zeros where
the platform's `strftime` does so (`_events.py:115`). A segment of underscores alone is refused though the message says `[A-Za-z0-9_]+`, and a
bucket with a trailing slash is refused where a comment says it is normalised (`_files.py:41-46`).

## What is assumed of the node

The node is external; what it does is read off what the client says and handles of it. A commit's
changes carry one sequence and come together; progress is reported at commit boundaries only; a
node may hang up at any byte. A queue's claim holds records under the worker's name and counts an
attempt; `RELEASE FOR CONSUMER` touches only records of that name; `DELETE` takes a record whoever
holds it. A group's settlement names no member; the delay of a `nack` or `release` is part of the time a
record waits. A right password is verified; a client without a user has no session. A cache
statement whose call failed never runs later.

## Not modelled

Health, the entries of a listing, TLS and errors are declarations, readers of one JSON object and calls into the standard library; they
keep no state. The words of statements are left out where only their parameters matter (`Handles`). What the
store does inside a list, a hash, a set or a ranking is the store's. The readers of a vault's secrets (`list`, `reveal`, `recipients`)
pick fields out of one answer. `Follow` leaves out connections that refuse `execute` because a feed took them over. `HTTPSession` has one kind of
call for all routes, and `append`. `Wire` reads the body of a reply as one of the outcomes its
reader can have; what is in it is `Answer`'s.

## Plan

What was planned is built. What would come next: `JSONReader` written as `Codec` is, so that the agreement of JSON with the bytes can be
proved as well; a third caller in `Cache`.

## Running

    tlc -workers 2 -config Feed.cfg MCFeed
    tlapm FollowProofs.tla

and likewise for the others; `PROJECT.json` says which configuration goes with which module.
Every run ends within two minutes on two workers, every proof within four, but for `WireProofs`, which takes ten on four cores.
