------------------------------ MODULE Consumer ------------------------------
(***************************************************************************)
(* Members of a consumer group reading a topic                             *)
(* (src/src/tessaridb/consumer.py): each runs Consumer.run_auto or         *)
(* run_manual in a thread, reads a batch, calls its handler for each       *)
(* message and settles it by its position, and is told to stop from        *)
(* another thread at any moment.  A member may die and be started again.   *)
(*                                                                         *)
(* The group is the store's, outside the repository: it hands a message to *)
(* one member, again after its deadline, and settles a position for        *)
(* whichever member asks, since a settlement names no member.              *)
(***************************************************************************)
EXTENDS Integers, FiniteSets

CONSTANTS
  Members,     \* the threads reading under the group's name
  Messages,    \* the positions in the topic
  Batch,       \* the messages one read asks for
  Manual,      \* the members that run run_manual
  Stoppable,   \* the members that may be told to stop
  MaxLapses,   \* bound: deadlines of one message that pass while it is in hand
  MaxFails,    \* bound: handlers that end without an acknowledgement
  MaxDeaths    \* bound: members that die

ASSUME ConsumerAssumption ==
  /\ Messages \subseteq Nat \ {0}
  /\ Manual \subseteq Members /\ Stoppable \subseteq Members
  /\ Batch \in Nat \ {0}
  /\ {MaxLapses, MaxFails, MaxDeaths} \subseteq Nat

VARIABLES
  place,     \* the group: where each message is
  lapses,    \* how often a deadline of it passed while a member had it
  pc,
  stopped,   \* Consumer._stopped is set
  rest,      \* the messages of the batch not yet handed to the handler
  message,   \* the one in the handler, or being settled
  fails,
  deaths,
  handled    \* history: the messages some handler acknowledged

group == <<place, lapses>>
vars == <<place, lapses, pc, stopped, rest, message, fails, deaths, handled>>

NoMessage == 0
Acked == "acked"

Init ==
  /\ place = [m \in Messages |-> "waiting"]
  /\ lapses = [m \in Messages |-> 0]
  /\ pc = [c \in Members |-> "next"]
  /\ stopped = [c \in Members |-> FALSE]
  /\ rest = [c \in Members |-> {}]
  /\ message = [c \in Members |-> NoMessage]
  /\ fails = 0 /\ deaths = 0
  /\ handled = {}

Goes(c, where) == pc' = [pc EXCEPT ![c] = where]

\* The members that have m in hand, in the handler or still to come to it.
Having(m) == {c \in Members : m \in rest[c] \/ message[c] = m}

-----------------------------------------------------------------------------
(* The group *)

\* A deadline passes: the message is handed out again though a member has it,
\* or because none has.
Deadline(m) ==
  /\ place[m] = "in flight"
  /\ Having(m) # {} => lapses[m] < MaxLapses
  /\ place' = [place EXCEPT ![m] = "waiting"]
  /\ lapses' = IF Having(m) = {} THEN lapses ELSE [lapses EXCEPT ![m] = @ + 1]
  /\ UNCHANGED <<pc, stopped, rest, message, fails, deaths, handled>>

Batches == {batch \in SUBSET {m \in Messages : place[m] = "waiting"} :
              Cardinality(batch) \in 1 .. Batch}
HandedOut(batch) ==
  /\ place' = [m \in Messages |-> IF m \in batch THEN "in flight" ELSE place[m]]
  /\ UNCHANGED lapses

\* ACK and NACK settle what is in flight and pass over what is not.  A message
\* handed back waits, for as long as its delay says.
Settles(m, how) ==
  /\ place' = IF how = "leave" \/ place[m] # "in flight" THEN place
              ELSE [place EXCEPT ![m] = IF how = "ack" THEN Acked ELSE "waiting"]
  /\ UNCHANGED lapses

-----------------------------------------------------------------------------
(* The member's loop *)

Stop(c) ==
  /\ c \in Stoppable /\ ~stopped[c]
  /\ stopped' = [stopped EXCEPT ![c] = TRUE]
  /\ UNCHANGED <<group, pc, rest, message, fails, deaths, handled>>

NextBatch(c) ==
  /\ pc[c] = "next"
  /\ Goes(c, IF stopped[c] THEN "returned" ELSE "reading")
  /\ UNCHANGED <<group, stopped, rest, message, fails, deaths, handled>>

Read(c) ==
  /\ pc[c] = "reading"
  /\ \E batch \in Batches : HandedOut(batch) /\ rest' = [rest EXCEPT ![c] = batch]
  /\ Goes(c, "batch")
  /\ UNCHANGED <<stopped, message, fails, deaths, handled>>

\* Mutant: a read that answers nothing ends the loop.
ReadNothing_Returns(c) ==
  /\ pc[c] = "reading"
  /\ Goes(c, "returned")
  /\ UNCHANGED <<group, stopped, rest, message, fails, deaths, handled>>

\* Nothing to hand out: the member waits and looks again.
ReadNothing(c) ==
  /\ pc[c] = "reading"
  /\ Goes(c, "next")
  /\ UNCHANGED <<group, stopped, rest, message, fails, deaths, handled>>

\* The first message of what is left of the batch.
StartHandler(c) ==
  /\ pc[c] = "batch"
  /\ \E m \in rest[c] :
       /\ \A other \in rest[c] : m <= other
       /\ message' = [message EXCEPT ![c] = m]
       /\ rest' = [rest EXCEPT ![c] = @ \ {m}]
  /\ Goes(c, "handler")
  /\ UNCHANGED <<group, stopped, fails, deaths, handled>>

\* Mutant: a message is acknowledged whatever its handler did.
HandlerEnds_Acks(c, how) ==
  /\ pc[c] = "handler"
  /\ how = "leave" => c \in Manual
  /\ IF how = "ack" THEN handled' = handled \cup {message[c]} /\ UNCHANGED fails
                    ELSE fails < MaxFails /\ fails' = fails + 1 /\ UNCHANGED handled
  /\ Goes(c, "ack")
  /\ UNCHANGED <<group, stopped, rest, message, deaths>>

\* The handler is over: run_auto settles by whether it raised, run_manual by
\* what it returned.
HandlerEnds(c, how) ==
  /\ pc[c] = "handler"
  /\ how = "leave" => c \in Manual
  /\ IF how = "ack" THEN handled' = handled \cup {message[c]} /\ UNCHANGED fails
                    ELSE fails < MaxFails /\ fails' = fails + 1 /\ UNCHANGED handled
  /\ Goes(c, how)
  /\ UNCHANGED <<group, stopped, rest, message, deaths>>

\* Mutant: a message handed back is tried again by this member too.
Settle_Keeps(c) ==
  /\ pc[c] \in {"ack", "nack", "leave"}
  /\ Settles(message[c], pc[c])
  /\ message' = [message EXCEPT ![c] = NoMessage]
  /\ rest' = IF pc[c] = "nack" THEN [rest EXCEPT ![c] = @ \cup {message[c]}] ELSE rest
  /\ Goes(c, "settled")
  /\ UNCHANGED <<stopped, fails, deaths, handled>>

Settle(c) ==
  /\ pc[c] \in {"ack", "nack", "leave"}
  /\ Settles(message[c], pc[c])
  /\ message' = [message EXCEPT ![c] = NoMessage]
  /\ Goes(c, "settled")
  /\ UNCHANGED <<stopped, rest, fails, deaths, handled>>

\* A stop leaves the rest of the batch in flight until its deadline.
AfterMessage(c) ==
  /\ pc[c] = "settled"
  /\ Goes(c, IF stopped[c] THEN "returned" ELSE IF rest[c] # {} THEN "batch" ELSE "next")
  /\ rest' = IF stopped[c] THEN [rest EXCEPT ![c] = {}] ELSE rest
  /\ UNCHANGED <<group, stopped, message, fails, deaths, handled>>

-----------------------------------------------------------------------------
(* Deaths: a crash, a statement refused or lost, a handler of run_manual that
   raises.  What was in flight stays so until its deadline. *)

Dead(c) ==
  /\ deaths < MaxDeaths /\ deaths' = deaths + 1
  /\ Goes(c, "dead")
  /\ rest' = [rest EXCEPT ![c] = {}]
  /\ message' = [message EXCEPT ![c] = NoMessage]
  /\ UNCHANGED <<stopped, fails, handled>>

Die(c) == pc[c] \notin {"returned", "dead"} /\ Dead(c) /\ UNCHANGED group

\* The read or the settlement was carried out and its answer lost.
DieReading(c) ==
  /\ pc[c] = "reading"
  /\ \E batch \in Batches : HandedOut(batch)
  /\ Dead(c)

DieSettling(c) ==
  /\ pc[c] \in {"ack", "nack"}
  /\ Settles(message[c], pc[c])
  /\ Dead(c)

Restart(c) ==
  /\ pc[c] = "dead"
  /\ stopped' = [stopped EXCEPT ![c] = FALSE]
  /\ Goes(c, "next")
  /\ UNCHANGED <<group, rest, message, fails, deaths, handled>>

Loop(c) ==
  \/ NextBatch(c) \/ Read(c) \/ ReadNothing(c) \/ StartHandler(c)
  \/ \E how \in {"ack", "nack", "leave"} : HandlerEnds(c, how)
  \/ Settle(c) \/ AfterMessage(c) \/ Restart(c)

Next ==
  \/ \E m \in Messages : Deadline(m)
  \/ \E c \in Members : Stop(c) \/ Loop(c) \/ Die(c) \/ DieReading(c) \/ DieSettling(c)

Spec == Init /\ [][Next]_vars

\* Each thread runs, the store answers, a read of a group that has messages
\* waiting is handed some in the end, and deadlines pass.
FairSpec ==
  /\ Spec
  /\ \A c \in Members : WF_vars(Loop(c)) /\ SF_vars(Read(c))
  /\ \A m \in Messages : WF_vars(Deadline(m))

-----------------------------------------------------------------------------
(* Properties *)

TypeOK ==
  /\ place \in [Messages -> {"waiting", "in flight", Acked}]
  /\ lapses \in [Messages -> 0 .. MaxLapses]
  /\ pc \in [Members -> {"next", "reading", "batch", "handler", "ack", "nack",
                         "leave", "settled", "returned", "dead"}]
  /\ stopped \in [Members -> BOOLEAN]
  /\ rest \in [Members -> SUBSET Messages]
  /\ message \in [Members -> Messages \cup {NoMessage}]
  /\ \A c \in Members :
       /\ pc[c] = "batch" => rest[c] # {}
       /\ (message[c] # NoMessage) <=> (pc[c] \in {"handler", "ack", "nack", "leave"})
       /\ pc[c] \in {"next", "reading", "returned", "dead"} => rest[c] = {}
  /\ fails \in 0 .. MaxFails /\ deaths \in 0 .. MaxDeaths
  /\ handled \subseteq Messages

\* The group forgets nothing that no handler acknowledged, whichever members
\* stop or die and whatever deadlines pass (consumer.py:4-8).
AckedMeansHandled == \A m \in Messages : place[m] = Acked => m \in handled

\* A message is in as many hands as one more than the deadlines it outstayed,
\* never more: a late settlement by a member that was overtaken may free it for
\* another while the one that has it works on, and that is all it can do
\* (consumer.py:176-184).
CrowdBounded == \A m \in Messages : Cardinality(Having(m)) <= 1 + lapses[m]

\* Every message is acknowledged in the end, the rest of a stopped or dead
\* member's batch too, as long as one member is not stopped.
EveryMessageAcked == \A m \in Messages : <>(place[m] = Acked)
=============================================================================
