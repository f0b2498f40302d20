---------------------------- MODULE QueueWorker ----------------------------
(***************************************************************************)
(* Workers taking records from a queue (src/src/tessaridb/queue.py): each  *)
(* runs Queue.run_auto or run_manual in a thread, claims a batch, calls    *)
(* its handler for each record, settles it with one statement, and is told *)
(* to stop from another thread at any moment.  A worker may die, by a      *)
(* crash or by an exception that leaves the loop, and be started again.    *)
(*                                                                         *)
(* The queue is the store's, outside the repository: a claim holds records *)
(* under the worker's name and counts an attempt, a hold lapses, a record  *)
(* whose attempts are spent goes to the dead letter, DELETE takes a record *)
(* whoever holds it, and RELEASE FOR CONSUMER only one held by that name.  *)
(***************************************************************************)
EXTENDS Integers, FiniteSets

CONSTANTS
  Workers,     \* the worker threads
  Namings,     \* the ways to name them: functions on Workers
  Jobs,        \* the records in the queue
  Batch,       \* the records one claim asks for
  Attempts,    \* how often the queue hands a record out
  Manual,      \* those of them that run run_manual
  Stoppable,   \* the workers that may be told to stop
  MaxLapses,   \* bound: holds that lapse
  MaxDeaths    \* bound: workers that die

ASSUME QueueAssumption ==
  /\ Stoppable \subseteq Workers /\ Manual \subseteq Workers
  /\ "nobody" \notin Workers /\ "none" \notin Jobs
  /\ {Batch, Attempts} \subseteq Nat \ {0}
  /\ {MaxLapses, MaxDeaths} \subseteq Nat

VARIABLES
  \* the store
  record,     \* what became of each record
  holder,     \* the worker it is held for: the store knows its name
  attempts,   \* how often it was handed out
  lapses,
  \* each worker
  name,       \* the name it was made with
  pc,
  stopped,    \* Queue._stopped is set
  rest,       \* the records of the batch not yet handed to the handler
  job,        \* the record in the handler, or being settled
  decided,    \* how it is to be settled
  deaths,
  \* history
  unseen,     \* the records it claimed and its handler was never given
  handled,    \* the records some handler finished
  late        \* how many handlers the worker started after its stop

store == <<record, holder, attempts, lapses>>
vars == <<store, name, pc, stopped, rest, job, decided, deaths, unseen, handled, late>>

NoJob == "none"
Settled == {"gone", "dead"}

Init ==
  /\ record = [j \in Jobs |-> "ready"]
  /\ holder = [j \in Jobs |-> "nobody"]
  /\ attempts = [j \in Jobs |-> 0]
  /\ lapses = 0 /\ deaths = 0
  /\ name \in Namings
  /\ pc = [w \in Workers |-> "next"]
  /\ stopped = [w \in Workers |-> FALSE]
  /\ rest = [w \in Workers |-> {}]
  /\ job = [w \in Workers |-> NoJob]
  /\ decided = [w \in Workers |-> "leave"]
  /\ unseen = [w \in Workers |-> {}]
  /\ late = [w \in Workers |-> 0]
  /\ handled = {}

Goes(w, where) == pc' = [pc EXCEPT ![w] = where]

-----------------------------------------------------------------------------
(* The store *)

\* A record handed back is ready again, unless its attempts are spent.
Back(j) == IF attempts[j] < Attempts THEN "ready" ELSE "dead"
HandedBack(j) ==
  /\ record' = [record EXCEPT ![j] = Back(j)]
  /\ holder' = [holder EXCEPT ![j] = "nobody"]

\* What RELEASE ... FOR CONSUMER matches: the record is held under w's name.
Holds(w, j) == record[j] = "held" /\ name[holder[j]] = name[w]

Lapse(j) ==
  /\ record[j] = "held" /\ lapses < MaxLapses
  /\ HandedBack(j)
  /\ lapses' = lapses + 1
  /\ UNCHANGED <<name, attempts, pc, stopped, rest, job, decided,
                 deaths, unseen, handled, late>>

\* The same once its worker is gone or has moved on from it: a hold nobody
\* settles does lapse.
Expire(j) ==
  /\ record[j] = "held"
  /\ \A w \in Workers : holder[j] = w => j \notin rest[w] /\ j # job[w]
  /\ HandedBack(j)
  /\ UNCHANGED <<name, attempts, lapses, pc, stopped, rest, job,
                 decided, deaths, unseen, handled, late>>

\* What a settlement does to the record.
Settles(w, j, how) ==
  /\ \/ /\ how = "finish"
        /\ record' = [record EXCEPT ![j] = "gone"]
        /\ holder' = [holder EXCEPT ![j] = "nobody"]
     \/ how = "release" /\ Holds(w, j) /\ HandedBack(j)
     \/ how = "release" /\ ~Holds(w, j) /\ UNCHANGED <<record, holder>>
     \/ how = "leave" /\ UNCHANGED <<record, holder>>
  /\ UNCHANGED <<attempts, lapses>>

-----------------------------------------------------------------------------
(* The worker's loop *)

Stop(w) ==
  /\ w \in Stoppable /\ ~stopped[w]
  /\ stopped' = [stopped EXCEPT ![w] = TRUE]
  /\ UNCHANGED <<name, store, pc, rest, job, decided, deaths, unseen, handled, late>>

\* Mutant: the loop does not look at the stop before a claim.
NextBatch_NoCheck(w) ==
  /\ pc[w] = "next"
  /\ Goes(w, "claiming")
  /\ UNCHANGED <<name, store, stopped, rest, job, decided, deaths, unseen, handled, late>>

\* The only look at the stop before a claim is sent.
NextBatch(w) ==
  /\ pc[w] = "next"
  /\ Goes(w, IF stopped[w] THEN "returned" ELSE "claiming")
  /\ UNCHANGED <<name, store, stopped, rest, job, decided, deaths, unseen, handled, late>>

Taken(w, batch) ==
  /\ record' = [j \in Jobs |-> IF j \in batch THEN "held" ELSE record[j]]
  /\ holder' = [j \in Jobs |-> IF j \in batch THEN w ELSE holder[j]]
  /\ attempts' = [j \in Jobs |-> IF j \in batch THEN attempts[j] + 1 ELSE attempts[j]]
  /\ UNCHANGED lapses

Batches == {batch \in SUBSET {j \in Jobs : record[j] = "ready"} :
              Cardinality(batch) \in 1 .. Batch}

Claim(w) ==
  /\ pc[w] = "claiming"
  /\ \E batch \in Batches :
       /\ Taken(w, batch)
       /\ rest' = [rest EXCEPT ![w] = batch]
       /\ unseen' = [unseen EXCEPT ![w] = @ \cup batch]
  /\ Goes(w, "batch")
  /\ UNCHANGED <<name, stopped, job, decided, deaths, handled, late>>

\* Mutant: a claim that takes nothing ends the loop.
ClaimNothing_Returns(w) ==
  /\ pc[w] = "claiming"
  /\ Goes(w, "returned")
  /\ UNCHANGED <<name, store, stopped, rest, job, decided, deaths, unseen, handled, late>>

\* Nothing to take, or two claims raced: the worker waits and looks again.
ClaimNothing(w) ==
  /\ pc[w] = "claiming"
  /\ Goes(w, "waiting")
  /\ UNCHANGED <<name, store, stopped, rest, job, decided, deaths, unseen, handled, late>>

Wait(w) ==
  /\ pc[w] = "waiting"
  /\ Goes(w, "next")
  /\ UNCHANGED <<name, store, stopped, rest, job, decided, deaths, unseen, handled, late>>

StartHandler(w) ==
  /\ pc[w] = "batch"
  /\ \E j \in rest[w] :
       /\ job' = [job EXCEPT ![w] = j]
       /\ rest' = [rest EXCEPT ![w] = @ \ {j}]
       /\ unseen' = [unseen EXCEPT ![w] = @ \ {j}]
  /\ late' = [late EXCEPT ![w] = IF stopped[w] THEN @ + 1 ELSE @]
  /\ Goes(w, "handler")
  /\ UNCHANGED <<name, store, stopped, decided, deaths, handled>>

\* Mutant: a record is marked done whatever its handler did.
HandlerEnds_Done(w, how) ==
  /\ pc[w] = "handler"
  /\ how \in IF w \in Manual THEN {"finish", "release", "leave"} ELSE {"finish", "release"}
  /\ decided' = [decided EXCEPT ![w] = "finish"]
  /\ handled' = IF how = "finish" THEN handled \cup {job[w]} ELSE handled
  /\ Goes(w, "settling")
  /\ UNCHANGED <<name, store, stopped, rest, job, deaths, unseen, late>>

\* The handler is over: run_auto settles by whether it raised, run_manual by
\* what it returned.
HandlerEnds(w, how) ==
  /\ pc[w] = "handler"
  /\ how \in IF w \in Manual THEN {"finish", "release", "leave"} ELSE {"finish", "release"}
  /\ decided' = [decided EXCEPT ![w] = how]
  /\ handled' = IF how = "finish" THEN handled \cup {job[w]} ELSE handled
  /\ Goes(w, "settling")
  /\ UNCHANGED <<name, store, stopped, rest, job, deaths, unseen, late>>

Settle(w) ==
  /\ pc[w] = "settling"
  /\ Settles(w, job[w], decided[w])
  /\ job' = [job EXCEPT ![w] = NoJob]
  /\ decided' = [decided EXCEPT ![w] = "leave"]
  /\ Goes(w, "settled")
  /\ UNCHANGED <<name, stopped, rest, deaths, unseen, handled, late>>

\* Mutant: a stop returns at once with the rest in hand.
AfterRecord_Returns(w) ==
  /\ pc[w] = "settled"
  /\ Goes(w, IF stopped[w] THEN "returned"
             ELSE IF rest[w] # {} THEN "batch" ELSE "next")
  /\ UNCHANGED <<name, store, stopped, rest, job, decided, deaths, unseen, handled, late>>

\* After each record: hand back the rest if told to stop, else go on.
AfterRecord(w) ==
  /\ pc[w] = "settled"
  /\ Goes(w, IF stopped[w] THEN "handing back"
             ELSE IF rest[w] # {} THEN "batch" ELSE "next")
  /\ UNCHANGED <<name, store, stopped, rest, job, decided, deaths, unseen, handled, late>>

\* Mutants: what is handed back is worked on all the same; one RELEASE ALL for
\* the name.
HandBack_Keeps(w) ==
  /\ pc[w] = "handing back"
  /\ \E j \in rest[w] : Settles(w, j, "release")
  /\ Goes(w, "batch")
  /\ UNCHANGED <<name, stopped, rest, job, decided, deaths, unseen, handled, late>>
HandBack_All(w) ==
  /\ pc[w] = "handing back" /\ rest[w] # {}
  /\ record' = [j \in Jobs |-> IF Holds(w, j) THEN Back(j) ELSE record[j]]
  /\ rest' = [rest EXCEPT ![w] = {}]
  /\ holder' = [j \in Jobs |-> IF Holds(w, j) THEN "nobody" ELSE holder[j]]
  /\ UNCHANGED <<name, attempts, lapses, pc, stopped, job, decided,
                 deaths, unseen, handled, late>>

\* One statement for each record, never one for the name.
HandBack(w) ==
  /\ pc[w] = "handing back"
  /\ \E j \in rest[w] : /\ Settles(w, j, "release")
                        /\ rest' = [rest EXCEPT ![w] = @ \ {j}]
  /\ UNCHANGED <<name, pc, stopped, job, decided, deaths, unseen, handled, late>>

Return(w) ==
  /\ pc[w] = "handing back" /\ rest[w] = {}
  /\ Goes(w, "returned")
  /\ UNCHANGED <<name, store, stopped, rest, job, decided, deaths, unseen, handled, late>>

-----------------------------------------------------------------------------
(* Deaths: a crash, a refused or lost statement, a handler of run_manual that
   raises.  What was held stays held until it lapses. *)

Dead(w) ==
  /\ deaths < MaxDeaths /\ deaths' = deaths + 1
  /\ Goes(w, "dead")
  /\ rest' = [rest EXCEPT ![w] = {}]
  /\ job' = [job EXCEPT ![w] = NoJob]
  /\ decided' = [decided EXCEPT ![w] = "leave"]
  /\ unseen' = [unseen EXCEPT ![w] = {}]
  /\ UNCHANGED <<name, stopped, handled, late>>

Die(w) ==
  /\ pc[w] \notin {"returned", "dead"}
  /\ Dead(w)
  /\ UNCHANGED store

\* The claim or the settlement was carried out and its answer lost.
DieClaiming(w) ==
  /\ pc[w] = "claiming"
  /\ \E batch \in Batches : Taken(w, batch)
  /\ Dead(w)

DieSettling(w) ==
  /\ pc[w] = "settling"
  /\ Settles(w, job[w], decided[w])
  /\ Dead(w)

Restart(w) ==
  /\ pc[w] = "dead"
  /\ stopped' = [stopped EXCEPT ![w] = FALSE]
  /\ late' = [late EXCEPT ![w] = 0]
  /\ Goes(w, "next")
  /\ UNCHANGED <<name, store, rest, job, decided, deaths, unseen, handled>>

Loop(w) ==
  \/ NextBatch(w) \/ Claim(w) \/ ClaimNothing(w) \/ Wait(w) \/ StartHandler(w)
  \/ \E how \in {"finish", "release", "leave"} : HandlerEnds(w, how)
  \/ Settle(w) \/ AfterRecord(w) \/ HandBack(w) \/ Return(w) \/ Restart(w)

Next ==
  \/ \E j \in Jobs : Lapse(j) \/ Expire(j)
  \/ \E w \in Workers :
       Stop(w) \/ Loop(w) \/ Die(w) \/ DieClaiming(w) \/ DieSettling(w)

Spec == Init /\ [][Next]_vars

\* Each thread runs, the store answers, a claim of a queue that has records
\* takes some in the end, and a hold nobody will settle lapses.
FairSpec ==
  /\ Spec
  /\ \A w \in Workers : WF_vars(Loop(w)) /\ SF_vars(Claim(w))
  /\ \A j \in Jobs : WF_vars(Expire(j))

-----------------------------------------------------------------------------
(* Properties *)

\* A worker that was told to stop and returned holds nothing its handler never
\* saw: what the stop caught unseen in the batch was handed back, and can be
\* claimed without waiting for a hold to lapse (queue.py:143-146).
StopHandsBack ==
  \A w \in Workers : pc[w] = "returned" =>
    \A j \in Jobs : record[j] = "held" /\ holder[j] = w => j \notin unseen[w]

\* No record leaves the queue unless some handler finished it: work is at least
\* once, whoever dies and whatever lapses (queue.py:6-9).
GoneMeansHandled == \A j \in Jobs : record[j] = "gone" => j \in handled

\* While no hold lapses, no two workers have the same record in their handlers.
HandledAlone ==
  lapses = 0 =>
    \A v, w \in Workers : v # w /\ pc[v] = "handler" /\ pc[w] = "handler"
                            => job[v] # job[w]

\* A worker's release never takes a record out of another worker's hands:
\* workers that share a name hand back their own, and one with a name to itself
\* leaves alone what it lost when a hold lapsed (queue.py:111-116, 193-196).
ReleasesOwn ==
  [][\A j \in Jobs, w \in Workers :
       (/\ record[j] = "held" /\ record'[j] \in {"ready", "dead"} /\ lapses' = lapses
        /\ holder[j] = w
        /\ (lapses = 0 \/ \A v \in Workers \ {w} : name[v] # name[w]))
       => (j \notin rest'[w] /\ j # job'[w])]_vars

\* After a stop at most one handler starts: the claim or the batch the stop
\* raced with, never a second record (queue.py:176-178).
OneLateStart == \A w \in Workers : late[w] <= 1

\* Every record is finished or dead-lettered in the end, whichever worker stops
\* or dies with it, as long as one worker is not stopped.
EveryRecordSettled == \A j \in Jobs : <>(record[j] \in Settled)

\* A worker told to stop comes back: it does not stay in the loop.
StopReturns == \A w \in Workers : stopped[w] ~> (pc[w] = "returned" \/ ~stopped[w])
=============================================================================
