-------------------------------- MODULE Feed --------------------------------
(***************************************************************************)
(* The change feed of a wire connection: Connection.subscribe, the        *)
(* Subscription it returns and the caller that iterates it, hangs on when *)
(* the node drops the connection and subscribes again from the resume     *)
(* point (src/src/tessaridb/connection.py).                               *)
(*                                                                         *)
(* A commit logs a unit of changes under one sequence.  A change is       *)
(* identified by its index in the order a feed over the table reads them; *)
(* on a split table each part counts its own sequences and the node gives *)
(* an opaque cursor, which here is that index.  A feed narrowed by a      *)
(* condition skips the changes that do not match and reports how far it   *)
(* read in a Progress frame.                                              *)
(*                                                                         *)
(* The node is outside the repository: its log, its frames and its hangups *)
(* are modelled from what connection.py says and handles of them.         *)
(***************************************************************************)
EXTENDS Integers, Sequences, FiniteSets

CONSTANTS
  Parts,        \* the logs behind a split table
  Narrowed,     \* whether the feed names a condition
  MaxCommits,   \* bound: commits
  MaxUnit,      \* bound: changes in one commit
  MaxWire,      \* frames the socket holds before the node's write blocks
  MaxDrops,     \* bound: connections the node ends, and rollbacks of the node
  MaxFails      \* bound: changes whose handling fails

ASSUME FeedAssumption ==
  /\ Parts # {}
  /\ Narrowed \in BOOLEAN
  /\ {MaxCommits, MaxUnit, MaxWire} \subseteq Nat \ {0}
  /\ {MaxDrops, MaxFails} \subseteq Nat

VARIABLES
  split,          \* whether the table is split, and the node hands out cursors
  log,            \* node: the changes logged, in the order a feed reads them
  committed,      \* node: the last sequence of each part
  minor,          \* node: the minor version it announces
  reading,        \* node: the index this feed reads next
  told,           \* node: the last index this connection was told of
  wire,           \* frames sent and not yet read
  link,           \* this connection, from the reader's side
  resume_from,    \* Subscription.resume_from
  resume_cursor,  \* Subscription.resume_cursor
  given,          \* the changes the iterator yielded, in the order it did
  handling,       \* whether the caller is handling the last of them
  fails,          \* how often handling one failed
  drops           \* how much of MaxDrops is used

node == <<split, log, committed, minor>>
sub == <<resume_from, resume_cursor>>
caller == <<given, handling, fails>>
vars == <<split, log, committed, minor, reading, told, wire, link, resume_from,
          resume_cursor, given, handling, fails, drops>>

CONDITION_MINOR == 4
NoCursor == 0    \* Change.cursor is None

\* "hungup" is an end of stream between frames, "torn" one inside a frame;
\* the others are a closed connection and how the iteration on it ended.
Live == {"up", "hungup", "torn"}
Over == {"finished", "failed", "refused", "unknown"}

Matches == IF Narrowed THEN BOOLEAN ELSE {TRUE}
ChangeIn == [part : Parts, seq : Nat, match : BOOLEAN]

Frame(kind, i) == [kind |-> kind, at |-> i, seq |-> log[i].seq,
                   cursor |-> IF split THEN i ELSE NoCursor]
Declined(kind) == [kind |-> kind, at |-> 0, seq |-> 0, cursor |-> NoCursor]

\* A node of minor 4 reads the condition; an older one would send everything.
Sends(i) == log[i].match \/ minor < CONDITION_MINOR
\* The last change of its commit.
EndsCommit(i) ==
  i < Len(log) => <<log[i + 1].part, log[i + 1].seq>> # <<log[i].part, log[i].seq>>

\* Where the node starts a feed: after the cursor when it is given one, else
\* at the first change whose sequence is `from`, inclusive.
StartOf(from, cursor) ==
  IF cursor # NoCursor
  THEN cursor + 1
  ELSE 1 + Cardinality({i \in DOMAIN log : log[i].seq < from})

\* A plain table has one log.
Logs == IF split THEN Parts ELSE {CHOOSE p \in Parts : TRUE}
Unit(i) == <<log[i].part, log[i].seq>>

Init ==
  /\ split \in BOOLEAN
  /\ log = <<>>
  /\ committed = [p \in Parts |-> 0]
  /\ minor = CONDITION_MINOR
  /\ reading = 1 /\ told = 0
  /\ wire = <<>> /\ link = "up"
  /\ resume_from = 0 /\ resume_cursor = NoCursor
  /\ given = <<>> /\ handling = FALSE /\ fails = 0
  /\ drops = 0

-----------------------------------------------------------------------------
(* The node *)

Commit(p) ==
  /\ p \in Logs /\ Cardinality({Unit(i) : i \in DOMAIN log}) < MaxCommits
  /\ \E n \in 1 .. MaxUnit : \E unit \in [1 .. n -> Matches] :
       log' = log \o [k \in 1 .. n |-> [part |-> p, seq |-> committed[p] + 1,
                                         match |-> unit[k]]]
  /\ committed' = [committed EXCEPT ![p] = @ + 1]
  /\ UNCHANGED <<split, minor, reading, told, wire, link, sub, caller, drops>>

NodeReads ==
  /\ link = "up" /\ reading <= Len(log) /\ Len(wire) < MaxWire
  /\ reading' = reading + 1
  /\ IF Sends(reading)
     THEN wire' = Append(wire, Frame("change", reading)) /\ told' = reading
     ELSE UNCHANGED <<wire, told>>
  /\ UNCHANGED <<node, link, sub, caller, drops>>

\* Sent once the node has read a whole commit: the position it states is one
\* that nothing of that commit is still to come from.
NodeReports ==
  /\ link = "up" /\ Len(wire) < MaxWire
  /\ told < reading - 1 /\ EndsCommit(reading - 1)
  /\ wire' = Append(wire, Frame("progress", reading - 1))
  /\ told' = reading - 1
  /\ UNCHANGED <<node, reading, link, sub, caller, drops>>

\* The node, or the network, ends the connection: between two frames, or
\* losing some of what was sent and cutting a frame.
Drop ==
  /\ link = "up" /\ drops < MaxDrops
  /\ \/ link' = "hungup" /\ UNCHANGED wire
     \/ link' = "torn" /\ \E k \in 0 .. Len(wire) : wire' = SubSeq(wire, 1, k)
  /\ drops' = drops + 1
  /\ UNCHANGED <<node, reading, told, sub, caller>>

\* The node reads the subscription and will not serve it.
Decline(kind) ==
  /\ link = "up" /\ wire = <<>> /\ told = StartOf(resume_from, resume_cursor) - 1
  /\ reading = told + 1
  /\ drops < MaxDrops
  /\ wire' = <<Declined(kind)>>
  /\ link' = "hungup"
  /\ drops' = drops + 1
  /\ UNCHANGED <<node, reading, told, sub, caller>>

Rollback ==
  /\ link \in Over /\ minor = CONDITION_MINOR /\ drops < MaxDrops
  /\ minor' = CONDITION_MINOR - 1
  /\ drops' = drops + 1
  /\ UNCHANGED <<split, log, committed, reading, told, wire, link, sub, caller>>

Upgrade ==
  /\ link \in Over /\ minor < CONDITION_MINOR
  /\ minor' = CONDITION_MINOR
  /\ UNCHANGED <<split, log, committed, reading, told, wire, link, sub, caller, drops>>

-----------------------------------------------------------------------------
(* The subscription: one step of its iterator, asked for the next change *)

Arrived(kind) == /\ link \in Live /\ ~handling
                 /\ wire # <<>> /\ Head(wire).kind = kind
                 /\ wire' = Tail(wire)

\* Mutants: the resume point is the position handled, is one further than the
\* next, or forgets the cursor.
Advance_Handled(f) ==
  /\ resume_from' = f.seq
  /\ resume_cursor' = IF f.cursor # NoCursor THEN f.cursor ELSE resume_cursor
Advance_TooFar(f) ==
  /\ resume_from' = f.seq + 2
  /\ resume_cursor' = IF f.cursor # NoCursor THEN f.cursor ELSE resume_cursor
Advance_NoCursor(f) == resume_from' = f.seq + 1 /\ UNCHANGED resume_cursor

\* The position after f, and f's cursor when it has one.
Advance(f) ==
  /\ resume_from' = f.seq + 1
  /\ resume_cursor' = IF f.cursor # NoCursor THEN f.cursor ELSE resume_cursor

ReadChange ==
  /\ Arrived("change")
  /\ Advance(Head(wire))
  /\ given' = Append(given, Head(wire).at) /\ handling' = TRUE
  /\ UNCHANGED <<node, reading, told, link, fails, drops>>

\* Mutant: a Progress is handed over and the resume point stays.
ReadProgress_Stays ==
  /\ Arrived("progress")
  /\ UNCHANGED <<node, reading, told, link, sub, caller, drops>>

\* Handed to the caller too, who has nothing to do for it.
ReadProgress ==
  /\ Arrived("progress")
  /\ Advance(Head(wire))
  /\ UNCHANGED <<node, reading, told, link, caller, drops>>

ReadRefusal ==
  /\ Arrived("refusal")
  /\ link' = "refused"
  /\ UNCHANGED <<node, reading, told, sub, caller, drops>>

\* A redirect, or any other kind of frame.
ReadUnknown ==
  /\ Arrived("elsewhere")
  /\ link' = "unknown"
  /\ UNCHANGED <<node, reading, told, sub, caller, drops>>

ReadEnd ==
  /\ link \in {"hungup", "torn"} /\ ~handling /\ wire = <<>>
  /\ link' = IF link = "hungup" THEN "finished" ELSE "failed"
  /\ UNCHANGED <<node, reading, told, wire, sub, caller, drops>>

-----------------------------------------------------------------------------
(* The caller *)

Handle ==
  /\ handling
  /\ handling' = FALSE
  /\ UNCHANGED <<node, reading, told, wire, link, sub, given, fails, drops>>

\* The loop's body raises: the caller leaves the loop and closes the feed.
HandlerFails ==
  /\ handling /\ fails < MaxFails
  /\ handling' = FALSE
  /\ wire' = <<>> /\ link' = "failed"
  /\ fails' = fails + 1
  /\ UNCHANGED <<node, reading, told, sub, given, drops>>

\* Mutant: the condition is sent whatever the node's minor.
Subscribe_AnyMinor ==
  /\ link \in Over
  /\ reading' = StartOf(resume_from, resume_cursor)
  /\ told' = StartOf(resume_from, resume_cursor) - 1
  /\ wire' = <<>> /\ link' = "up"
  /\ UNCHANGED <<node, sub, caller, drops>>

\* A new connection, subscribed from where the old subscription says.  A
\* condition is not sent to a node that would ignore it (NodeTooOld).
Subscribe ==
  /\ link \in Over
  /\ Narrowed => minor >= CONDITION_MINOR
  /\ reading' = StartOf(resume_from, resume_cursor)
  /\ told' = StartOf(resume_from, resume_cursor) - 1
  /\ wire' = <<>> /\ link' = "up"
  /\ UNCHANGED <<node, sub, caller, drops>>

Read == ReadChange \/ ReadProgress \/ ReadRefusal \/ ReadUnknown \/ ReadEnd

Next ==
  \/ \E p \in Parts : Commit(p)
  \/ NodeReads \/ NodeReports \/ Drop \/ Rollback \/ Upgrade
  \/ \E kind \in {"refusal", "elsewhere"} : Decline(kind)
  \/ ReadChange \/ ReadProgress \/ ReadRefusal \/ ReadUnknown \/ ReadEnd
  \/ Handle \/ HandlerFails \/ Subscribe

Spec == Init /\ [][Next]_vars

\* The node keeps serving a feed that is up and is upgraded in the end; the
\* caller's loop keeps asking, handling and, once a feed is over, resubscribing.
FairSpec ==
  /\ Spec
  /\ WF_vars(NodeReads) /\ WF_vars(NodeReports) /\ WF_vars(Upgrade)
  /\ WF_vars(Read) /\ WF_vars(Handle) /\ WF_vars(Subscribe)

-----------------------------------------------------------------------------
(* Properties *)

Given == {given[k] : k \in DOMAIN given}

\* Whether resuming now would start after change i.
Behind(i) == IF split THEN i <= resume_cursor ELSE log[i].seq < resume_from

TypeOK ==
  /\ split \in BOOLEAN
  /\ log \in Seq(ChangeIn)
  /\ committed \in [Parts -> 0 .. MaxCommits]
  /\ minor \in {CONDITION_MINOR - 1, CONDITION_MINOR}
  /\ reading \in 1 .. Len(log) + 1 /\ told \in 0 .. reading - 1
  /\ wire \in Seq([kind : {"change", "progress", "refusal", "elsewhere"},
                   at : 0 .. Len(log), seq : Nat, cursor : 0 .. Len(log)])
  /\ link \in Live \cup Over
  /\ resume_from \in Nat /\ resume_cursor \in 0 .. Len(log)
  /\ given \in Seq(1 .. Len(log)) /\ handling \in BOOLEAN
  /\ fails \in 0 .. MaxFails
  /\ drops \in 0 .. MaxDrops

\* The caller is handed changes in the order they were logged, none twice,
\* however the connection was dropped and resumed (connection.py:208-212:
\* "resuming at a position already handled delivers it twice").
OnceInOrder == \A j, k \in DOMAIN given : j < k => given[j] < given[k]

\* A feed narrowed by a condition never hands over a change the condition does
\* not hold for, whatever version of the node each resume meets (connection.py:
\* 221-224).
OnlyMatching == \A k \in DOMAIN given : log[given[k]].match

\* What the resume point has passed unseen, and no later subscription reads, is
\* at most the rest of a commit whose beginning was handed over, and on a split
\* table, resumed by cursor, nothing (connection.py:93-96, 380-383).
LossOnlyInsideUnit ==
  \A i \in DOMAIN log :
    log[i].match /\ Behind(i) /\ i \notin Given =>
      ~split /\ \E j \in Given : j < i /\ Unit(j) = Unit(i)

\* No change is passed over: when the caller is handed one, every matching
\* change logged before it was handed over earlier (connection.py:334-336
\* "Nothing is lost: the log is the buffer", README.md:199-202).
NothingSkipped ==
  \A k \in DOMAIN given : \A i \in 1 .. given[k] : log[i].match => i \in Given

\* Everything logged falls behind the resume point in the end, matching or
\* skipped: a run of changes the condition skips does not leave the resume
\* point back in the log, where a prune could overtake it (connection.py:
\* 100-105), and no change waits for ever.
ResumeCatchesUp ==
  \A i \in 1 .. MaxCommits * MaxUnit :
    (i \in DOMAIN log) ~> (i \in DOMAIN log /\ Behind(i))

\* The log as Delivery sees it.
Published == [i \in 1 .. Len(log) |-> [unit |-> Unit(i), wanted |-> log[i].match]]

\* The feed implements what Delivery promises (README.md:199-204 "the log is
\* the buffer"), whole on a split table and commit by commit on a plain one.
Promise == INSTANCE Delivery
             WITH published <- Published, delivered <- given, whole <- split
DeliversAll == Promise!Spec
=============================================================================
