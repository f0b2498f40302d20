-------------------------- MODULE QueueWorkerProofs --------------------------
(***************************************************************************)
(* What workers of a queue keep to whichever of them stops, dies or is     *)
(* started again, proved for every set of workers, names and records.      *)
(***************************************************************************)
EXTENDS QueueWorker, TLAPS

Places == {"next", "claiming", "waiting", "batch", "handler", "settling",
           "settled", "handing back", "returned", "dead"}
\* The worker has no batch in hand.
Empty == {"next", "claiming", "waiting", "returned", "dead"}

Shape ==
  /\ record \in [Jobs -> {"ready", "held", "gone", "dead"}]
  /\ holder \in [Jobs -> Workers \cup {"nobody"}]
  /\ pc \in [Workers -> Places]
  /\ stopped \in [Workers -> BOOLEAN]
  /\ rest \in [Workers -> SUBSET Jobs]
  /\ job \in [Workers -> Jobs \cup {NoJob}]
  /\ decided \in [Workers -> {"finish", "release", "leave"}]
  /\ unseen \in [Workers -> SUBSET Jobs]
  /\ late \in [Workers -> Nat]

\* What is about to be deleted was handled too.
Finished ==
  /\ GoneMeansHandled
  /\ \A w \in Workers :
       pc[w] = "settling" /\ decided[w] = "finish" => job[w] \in handled

\* A handler started late was started under a stop, and takes the worker out
\* of the states from which another could start.
Late ==
  \A w \in Workers :
    /\ late[w] <= 1 /\ (late[w] = 1 => stopped[w])
    /\ pc[w] \in {"next", "claiming", "waiting", "batch"} => late[w] = 0

\* Whatever is held for a worker and its handler was not given is in the rest
\* of its batch.
Hands ==
  \A w \in Workers :
    /\ pc[w] \in Empty => rest[w] = {}
    /\ \A j \in unseen[w] : record[j] = "held" /\ holder[j] = w => j \in rest[w]

\* Who is at work on a record has it in no rest, and nobody else is at work.
Working == {"handler", "settling"}
Own == \A w \in Workers : IF pc[w] \in Working THEN job[w] \in Jobs \ rest[w] ELSE job[w] = NoJob

\* While nothing lapses, what a worker has in hand is held for it.
InHand(w, j) == j \in rest[w] \/ (pc[w] \in Working /\ j = job[w])
Mine ==
  /\ lapses \in Nat
  /\ lapses = 0 => \A w \in Workers, j \in Jobs :
                     InHand(w, j) => record[j] = "held" /\ holder[j] = w

\* The inductive invariant.
IInv == Shape /\ Finished /\ Late /\ Hands /\ Own /\ Mine

\* A settlement leaves every record as it was, or gives it back, or takes a
\* record whose settlement says so.
LEMMA SettledRecord ==
  ASSUME Shape, NEW w \in Workers, NEW j \in Jobs,
         NEW how \in {"finish", "release", "leave"}, Settles(w, j, how)
  PROVE  /\ record' \in [Jobs -> {"ready", "held", "gone", "dead"}]
         /\ holder' \in [Jobs -> Workers \cup {"nobody"}]
         /\ \A i \in Jobs : i # j => record'[i] = record[i]
         /\ \A i \in Jobs : record'[i] = "held" => record[i] = "held" /\ holder'[i] = holder[i]
         /\ record'[j] = "gone" => record[j] = "gone" \/ how = "finish"
         /\ how = "release" /\ Holds(w, j) => record'[j] # "held"
  BY DEF Settles, HandedBack, Back, Shape

\* Every step keeps the types.
THEOREM NextShape == Shape /\ [Next]_vars => Shape'
  <1> SUFFICES ASSUME Shape, [Next]_vars PROVE Shape'
    OBVIOUS
  <1> USE DEF Goes, store
  <1>1. CASE UNCHANGED vars
    BY <1>1 DEF vars, Shape, Places
  <1>2. ASSUME NEW j \in Jobs, Lapse(j) PROVE Shape'
    BY <1>2 DEF Lapse, HandedBack, Back, Shape, Places
  <1>3. ASSUME NEW j \in Jobs, Expire(j) PROVE Shape'
    BY <1>3 DEF Expire, HandedBack, Back, Shape, Places
  <1>4. ASSUME NEW w \in Workers, Stop(w) PROVE Shape'
    BY <1>4 DEF Stop, Shape, Places
  <1>5. ASSUME NEW w \in Workers, NextBatch(w) PROVE Shape'
    BY <1>5 DEF NextBatch, Shape, Places
  <1>6. ASSUME NEW w \in Workers, Claim(w) PROVE Shape'
    <2>1. PICK batch \in Batches : Taken(w, batch)
                             /\ rest' = [rest EXCEPT ![w] = batch]
                             /\ unseen' = [unseen EXCEPT ![w] = @ \cup batch]
      BY <1>6 DEF Claim
    <2>2. batch \subseteq Jobs
      BY DEF Batches
    <2>3. record' \in [Jobs -> {"ready", "held", "gone", "dead"}]
      BY <2>1 DEF Taken, Shape
    <2>4. holder' \in [Jobs -> Workers \cup {"nobody"}]
      BY <2>1 DEF Taken, Shape
    <2>5. QED
      BY <1>6, <2>1, <2>2, <2>3, <2>4 DEF Claim, Shape, Places
  <1>7. ASSUME NEW w \in Workers, ClaimNothing(w) PROVE Shape'
    BY <1>7 DEF ClaimNothing, Shape, Places
  <1>8. ASSUME NEW w \in Workers, Wait(w) PROVE Shape'
    BY <1>8 DEF Wait, Shape, Places
  <1>9. ASSUME NEW w \in Workers, StartHandler(w) PROVE Shape'
    <2>1. late[w] + 1 \in Nat
      BY DEF Shape
    <2>2. late' \in [Workers -> Nat]
      BY <1>9, <2>1 DEF StartHandler, Shape
    <2>3. /\ job' \in [Workers -> Jobs \cup {NoJob}]
          /\ rest' \in [Workers -> SUBSET Jobs]
          /\ unseen' \in [Workers -> SUBSET Jobs]
      BY <1>9 DEF StartHandler, Shape
    <2>4. QED
      BY <1>9, <2>2, <2>3 DEF StartHandler, Shape, Places
  <1>10. ASSUME NEW w \in Workers, NEW how \in {"finish", "release", "leave"},
               HandlerEnds(w, how)
        PROVE  Shape'
    BY <1>10 DEF HandlerEnds, Shape, Places
  <1>11. ASSUME NEW w \in Workers, Settle(w) PROVE Shape'
    BY <1>11 DEF Settle, Settles, HandedBack, Back, Holds, Shape, Places
  <1>12. ASSUME NEW w \in Workers, AfterRecord(w) PROVE Shape'
    BY <1>12 DEF AfterRecord, Shape, Places
  <1>13. ASSUME NEW w \in Workers, HandBack(w) PROVE Shape'
    <2>1. PICK j \in rest[w] : /\ Settles(w, j, "release")
                               /\ rest' = [rest EXCEPT ![w] = @ \ {j}]
      BY <1>13 DEF HandBack
    <2>2. j \in Jobs
      BY DEF Shape
    <2>3. /\ record' \in [Jobs -> {"ready", "held", "gone", "dead"}]
          /\ holder' \in [Jobs -> Workers \cup {"nobody"}]
      BY <2>1, <2>2, SettledRecord
    <2>4. rest' \in [Workers -> SUBSET Jobs]
      BY <2>1 DEF Shape
    <2>5. QED
      BY <1>13, <2>3, <2>4 DEF HandBack, Shape
  <1>14. ASSUME NEW w \in Workers, Return(w) PROVE Shape'
    BY <1>14 DEF Return, Shape, Places
  <1>15. ASSUME NEW w \in Workers, Restart(w) PROVE Shape'
    BY <1>15 DEF Restart, Shape, Places
  <1>16. ASSUME NEW w \in Workers, Die(w) PROVE Shape'
    BY <1>16 DEF Die, Dead, Shape, Places
  <1>17. ASSUME NEW w \in Workers, DieClaiming(w) PROVE Shape'
    <2>1. PICK batch \in Batches : Taken(w, batch)
      BY <1>17 DEF DieClaiming
    <2>2. batch \subseteq Jobs
      BY DEF Batches
    <2>3. record' \in [Jobs -> {"ready", "held", "gone", "dead"}]
      BY <2>1 DEF Taken, Shape
    <2>4. holder' \in [Jobs -> Workers \cup {"nobody"}]
      BY <2>1 DEF Taken, Shape
    <2>5. QED
      BY <1>17, <2>1, <2>2, <2>3, <2>4 DEF DieClaiming, Dead, Shape, Places
  <1>18. ASSUME NEW w \in Workers, DieSettling(w) PROVE Shape'
    BY <1>18 DEF DieSettling, Dead, Settles, HandedBack, Back, Holds, Shape, Places
  <1>19. QED
    BY <1>1, <1>2, <1>3, <1>4, <1>5, <1>6, <1>7, <1>8, <1>9,
       <1>10, <1>11, <1>12, <1>13, <1>14, <1>15, <1>16, <1>17, <1>18 DEF Next, Loop

\* No step deletes a record that no handler finished.
THEOREM NextFinished == Shape /\ Finished /\ [Next]_vars => Finished'
  <1> SUFFICES ASSUME Shape, Finished, [Next]_vars PROVE Finished'
    OBVIOUS
  <1> USE DEF Goes, store
  <1>1. CASE UNCHANGED vars
    BY <1>1 DEF vars, Shape, Finished, GoneMeansHandled
  <1>2. ASSUME NEW j \in Jobs, Lapse(j) PROVE Finished'
    BY <1>2 DEF Lapse, HandedBack, Back, Shape, Finished, GoneMeansHandled
  <1>3. ASSUME NEW j \in Jobs, Expire(j) PROVE Finished'
    BY <1>3 DEF Expire, HandedBack, Back, Shape, Finished, GoneMeansHandled
  <1>4. ASSUME NEW w \in Workers, Stop(w) PROVE Finished'
    BY <1>4 DEF Stop, Shape, Finished, GoneMeansHandled
  <1>5. ASSUME NEW w \in Workers, NextBatch(w) PROVE Finished'
    BY <1>5 DEF NextBatch, Shape, Finished, GoneMeansHandled
  <1>6. ASSUME NEW w \in Workers, Claim(w) PROVE Finished'
    BY <1>6 DEF Claim, Taken, Batches, Shape, Finished, GoneMeansHandled
  <1>7. ASSUME NEW w \in Workers, ClaimNothing(w) PROVE Finished'
    BY <1>7 DEF ClaimNothing, Shape, Finished, GoneMeansHandled
  <1>8. ASSUME NEW w \in Workers, Wait(w) PROVE Finished'
    BY <1>8 DEF Wait, Shape, Finished, GoneMeansHandled
  <1>9. ASSUME NEW w \in Workers, StartHandler(w) PROVE Finished'
    BY <1>9 DEF StartHandler, Shape, Finished, GoneMeansHandled
  <1>10. ASSUME NEW w \in Workers, NEW how \in {"finish", "release", "leave"},
               HandlerEnds(w, how)
        PROVE  Finished'
    BY <1>10 DEF HandlerEnds, Shape, Finished, GoneMeansHandled
  <1>11. ASSUME NEW w \in Workers, Settle(w) PROVE Finished'
    BY <1>11 DEF Settle, Settles, HandedBack, Back, Holds, Shape, Finished, GoneMeansHandled
  <1>12. ASSUME NEW w \in Workers, AfterRecord(w) PROVE Finished'
    BY <1>12 DEF AfterRecord, Shape, Finished, GoneMeansHandled
  <1>13. ASSUME NEW w \in Workers, HandBack(w) PROVE Finished'
    <2>1. PICK j \in rest[w] : Settles(w, j, "release")
      BY <1>13 DEF HandBack
    <2>2. UNCHANGED <<pc, decided, job, handled>>
      BY <1>13 DEF HandBack
    <2>3. UNCHANGED record \/ record' = [record EXCEPT ![j] = Back(j)]
      BY <2>1 DEF Settles, HandedBack
    <2>4. \A k \in Jobs : record'[k] = "gone" => record[k] = "gone"
      BY <2>3 DEF Back, Shape
    <2>5. QED
      BY <2>2, <2>4 DEF Finished, GoneMeansHandled
  <1>14. ASSUME NEW w \in Workers, Return(w) PROVE Finished'
    BY <1>14 DEF Return, Shape, Finished, GoneMeansHandled
  <1>15. ASSUME NEW w \in Workers, Restart(w) PROVE Finished'
    BY <1>15 DEF Restart, Shape, Finished, GoneMeansHandled
  <1>16. ASSUME NEW w \in Workers, Die(w) PROVE Finished'
    BY <1>16 DEF Die, Dead, Shape, Finished, GoneMeansHandled
  <1>17. ASSUME NEW w \in Workers, DieClaiming(w) PROVE Finished'
    BY <1>17 DEF DieClaiming, Taken, Batches, Dead, Shape, Finished, GoneMeansHandled
  <1>18. ASSUME NEW w \in Workers, DieSettling(w) PROVE Finished'
    BY <1>18 DEF DieSettling, Dead, Settles, HandedBack, Back, Holds, Shape, Finished, GoneMeansHandled
  <1>19. QED
    BY <1>1, <1>2, <1>3, <1>4, <1>5, <1>6, <1>7, <1>8, <1>9,
       <1>10, <1>11, <1>12, <1>13, <1>14, <1>15, <1>16, <1>17, <1>18 DEF Next, Loop

\* No step starts a second handler after a stop.
THEOREM NextLate == Shape /\ Late /\ [Next]_vars => Late'
  <1> SUFFICES ASSUME Shape, Late, [Next]_vars PROVE Late'
    OBVIOUS
  <1> USE DEF Goes, store
  <1>1. CASE UNCHANGED vars
    BY <1>1 DEF vars, Shape, Late
  <1>2. ASSUME NEW j \in Jobs, Lapse(j) PROVE Late'
    BY <1>2 DEF Lapse, HandedBack, Back, Shape, Late
  <1>3. ASSUME NEW j \in Jobs, Expire(j) PROVE Late'
    BY <1>3 DEF Expire, HandedBack, Back, Shape, Late
  <1>4. ASSUME NEW w \in Workers, Stop(w) PROVE Late'
    BY <1>4 DEF Stop, Shape, Late
  <1>5. ASSUME NEW w \in Workers, NextBatch(w) PROVE Late'
    BY <1>5 DEF NextBatch, Shape, Late
  <1>6. ASSUME NEW w \in Workers, Claim(w) PROVE Late'
    BY <1>6 DEF Claim, Taken, Batches, Shape, Late
  <1>7. ASSUME NEW w \in Workers, ClaimNothing(w) PROVE Late'
    BY <1>7 DEF ClaimNothing, Shape, Late
  <1>8. ASSUME NEW w \in Workers, Wait(w) PROVE Late'
    BY <1>8 DEF Wait, Shape, Late
  <1>9. ASSUME NEW w \in Workers, StartHandler(w) PROVE Late'
    BY <1>9 DEF StartHandler, Shape, Late
  <1>10. ASSUME NEW w \in Workers, NEW how \in {"finish", "release", "leave"},
               HandlerEnds(w, how)
        PROVE  Late'
    BY <1>10 DEF HandlerEnds, Shape, Late
  <1>11. ASSUME NEW w \in Workers, Settle(w) PROVE Late'
    BY <1>11 DEF Settle, Settles, HandedBack, Back, Holds, Shape, Late
  <1>12. ASSUME NEW w \in Workers, AfterRecord(w) PROVE Late'
    <2>1. ASSUME NEW v \in Workers, pc'[v] \in {"next", "claiming", "waiting", "batch"}
          PROVE  late'[v] = 0
      <3>1. CASE v # w
        BY <1>12, <2>1, <3>1 DEF AfterRecord, Shape, Late
      <3>2. CASE v = w
        <4>1. ~stopped[w]
          BY <1>12, <2>1, <3>2 DEF AfterRecord, Shape
        <4>2. late[w] \in Nat /\ late[w] <= 1 /\ late[w] # 1
          BY <4>1 DEF Shape, Late
        <4>3. late[w] = 0
          BY <4>2
        <4>4. QED
          BY <1>12, <3>2, <4>3 DEF AfterRecord
      <3>3. QED
        BY <3>1, <3>2
    <2>2. late' = late /\ stopped' = stopped
      BY <1>12 DEF AfterRecord
    <2>3. QED
      BY <2>1, <2>2 DEF Late
  <1>13. ASSUME NEW w \in Workers, HandBack(w) PROVE Late'
    BY <1>13 DEF HandBack, Settles, HandedBack, Back, Holds, Shape, Late
  <1>14. ASSUME NEW w \in Workers, Return(w) PROVE Late'
    BY <1>14 DEF Return, Shape, Late
  <1>15. ASSUME NEW w \in Workers, Restart(w) PROVE Late'
    BY <1>15 DEF Restart, Shape, Late
  <1>16. ASSUME NEW w \in Workers, Die(w) PROVE Late'
    BY <1>16 DEF Die, Dead, Shape, Late
  <1>17. ASSUME NEW w \in Workers, DieClaiming(w) PROVE Late'
    BY <1>17 DEF DieClaiming, Taken, Batches, Dead, Shape, Late
  <1>18. ASSUME NEW w \in Workers, DieSettling(w) PROVE Late'
    BY <1>18 DEF DieSettling, Dead, Settles, HandedBack, Back, Holds, Shape, Late
  <1>19. QED
    BY <1>1, <1>2, <1>3, <1>4, <1>5, <1>6, <1>7, <1>8, <1>9,
       <1>10, <1>11, <1>12, <1>13, <1>14, <1>15, <1>16, <1>17, <1>18 DEF Next, Loop

\* No step leaves a living worker holding a record it will not come to.
THEOREM NextHands == Shape /\ Hands /\ [Next]_vars => Hands'
  <1> SUFFICES ASSUME Shape, Hands, [Next]_vars PROVE Hands'
    OBVIOUS
  <1> USE DEF Goes, store
  <1>1. CASE UNCHANGED vars
    BY <1>1 DEF vars, Shape, Hands, Empty
  <1>2. ASSUME NEW j \in Jobs, Lapse(j) PROVE Hands'
    BY <1>2 DEF Lapse, HandedBack, Back, Shape, Hands, Empty
  <1>3. ASSUME NEW j \in Jobs, Expire(j) PROVE Hands'
    BY <1>3 DEF Expire, HandedBack, Back, Shape, Hands, Empty
  <1>4. ASSUME NEW w \in Workers, Stop(w) PROVE Hands'
    BY <1>4 DEF Stop, Shape, Hands, Empty
  <1>5. ASSUME NEW w \in Workers, NextBatch(w) PROVE Hands'
    BY <1>5 DEF NextBatch, Shape, Hands, Empty
  <1>6. ASSUME NEW w \in Workers, Claim(w) PROVE Hands'
    BY <1>6 DEF Claim, Taken, Batches, Shape, Hands, Empty
  <1>7. ASSUME NEW w \in Workers, ClaimNothing(w) PROVE Hands'
    BY <1>7 DEF ClaimNothing, Shape, Hands, Empty
  <1>8. ASSUME NEW w \in Workers, Wait(w) PROVE Hands'
    BY <1>8 DEF Wait, Shape, Hands, Empty
  <1>9. ASSUME NEW w \in Workers, StartHandler(w) PROVE Hands'
    BY <1>9 DEF StartHandler, Shape, Hands, Empty
  <1>10. ASSUME NEW w \in Workers, NEW how \in {"finish", "release", "leave"},
               HandlerEnds(w, how)
        PROVE  Hands'
    BY <1>10 DEF HandlerEnds, Shape, Hands, Empty
  <1>11. ASSUME NEW w \in Workers, Settle(w) PROVE Hands'
    BY <1>11 DEF Settle, Settles, HandedBack, Back, Holds, Shape, Hands, Empty
  <1>12. ASSUME NEW w \in Workers, AfterRecord(w) PROVE Hands'
    BY <1>12 DEF AfterRecord, Shape, Hands, Empty
  <1>13. ASSUME NEW w \in Workers, HandBack(w) PROVE Hands'
    <2>1. PICK j \in rest[w] : /\ Settles(w, j, "release")
                               /\ rest' = [rest EXCEPT ![w] = @ \ {j}]
      BY <1>13 DEF HandBack
    <2>2. j \in Jobs
      BY DEF Shape
    <2>3. UNCHANGED <<pc, unseen, name>>
      BY <1>13 DEF HandBack
    <2>4. \A v \in Workers : pc'[v] \in Empty => rest'[v] = {}
      BY <1>13, <2>1, <2>3 DEF HandBack, Shape, Hands, Empty
    <2>5. ASSUME NEW v \in Workers, NEW i \in unseen[v],
                 record'[i] = "held", holder'[i] = v
          PROVE  i \in rest'[v]
      <3>1. i \in Jobs
        BY DEF Shape
      <3>2. record[i] = "held" /\ holder[i] = v
        BY <2>1, <2>2, <2>5, <3>1, SettledRecord
      <3>3. i \in rest[v]
        BY <3>2 DEF Hands
      <3>4. CASE i = j /\ v = w
        BY <2>1, <2>2, <2>5, <3>2, <3>4, SettledRecord DEF Holds
      <3>5. CASE i # j \/ v # w
        BY <2>1, <3>3, <3>5 DEF Shape
      <3>6. QED
        BY <3>4, <3>5
    <2>6. QED
      BY <2>3, <2>4, <2>5 DEF Hands
  <1>14. ASSUME NEW w \in Workers, Return(w) PROVE Hands'
    BY <1>14 DEF Return, Shape, Hands, Empty
  <1>15. ASSUME NEW w \in Workers, Restart(w) PROVE Hands'
    BY <1>15 DEF Restart, Shape, Hands, Empty
  <1>16. ASSUME NEW w \in Workers, Die(w) PROVE Hands'
    BY <1>16 DEF Die, Dead, Shape, Hands, Empty
  <1>17. ASSUME NEW w \in Workers, DieClaiming(w) PROVE Hands'
    BY <1>17 DEF DieClaiming, Taken, Batches, Dead, Shape, Hands, Empty
  <1>18. ASSUME NEW w \in Workers, DieSettling(w) PROVE Hands'
    BY <1>18 DEF DieSettling, Dead, Settles, HandedBack, Back, Holds, Shape, Hands, Empty
  <1>19. QED
    BY <1>1, <1>2, <1>3, <1>4, <1>5, <1>6, <1>7, <1>8, <1>9,
       <1>10, <1>11, <1>12, <1>13, <1>14, <1>15, <1>16, <1>17, <1>18 DEF Next, Loop

\* A worker's record is out of the rest of its batch.
LEMMA NextOwn == Shape /\ Hands /\ Own /\ [Next]_vars => Own'
  <1> SUFFICES ASSUME Shape, Hands, Own, [Next]_vars PROVE Own'
    OBVIOUS
  <1> USE DEF Goes, store
  <1>1. CASE UNCHANGED vars
    BY <1>1 DEF vars, Own
  <1>2. CASE UNCHANGED <<pc, job, rest>>
    BY <1>2 DEF Own
  <1>3. ASSUME NEW j \in Jobs, Lapse(j) \/ Expire(j) PROVE UNCHANGED <<pc, job, rest>>
    BY <1>3 DEF Lapse, Expire
  <1>4. ASSUME NEW w \in Workers, Stop(w) PROVE UNCHANGED <<pc, job, rest>>
    BY <1>4 DEF Stop
  <1>5. ASSUME NEW w \in Workers,
               NextBatch(w) \/ ClaimNothing(w) \/ Wait(w) \/ AfterRecord(w) \/ Return(w) \/ Restart(w)
        PROVE  Own'
    BY <1>5 DEF NextBatch, ClaimNothing, Wait, AfterRecord, Return, Restart, Shape, Own, Working
  <1>6. ASSUME NEW w \in Workers, Claim(w) PROVE Own'
    BY <1>6 DEF Claim, Shape, Own, Working
  <1>7. ASSUME NEW w \in Workers, StartHandler(w) PROVE Own'
    BY <1>7 DEF StartHandler, Shape, Own, Working
  <1>8. ASSUME NEW w \in Workers, NEW how \in {"finish", "release", "leave"}, HandlerEnds(w, how)
        PROVE  Own'
    BY <1>8 DEF HandlerEnds, Shape, Own, Working
  <1>9. ASSUME NEW w \in Workers, Settle(w) PROVE Own'
    BY <1>9 DEF Settle, Shape, Own, Working
  <1>10. ASSUME NEW w \in Workers, HandBack(w) PROVE Own'
    BY <1>10 DEF HandBack, Shape, Own, Working
  <1>11. ASSUME NEW w \in Workers, Die(w) \/ DieClaiming(w) \/ DieSettling(w) PROVE Own'
    BY <1>11 DEF Die, DieClaiming, DieSettling, Dead, Shape, Own, Working
  <1>12. QED
    BY <1>1, <1>2, <1>3, <1>4, <1>5, <1>6, <1>7, <1>8, <1>9, <1>10, <1>11 DEF Next, Loop

\* A settlement touches the worker's own record, while nothing lapsed.
LEMMA SettledMine ==
  ASSUME Shape, Own, Mine, NEW w \in Workers, NEW j \in Jobs, InHand(w, j),
         NEW how \in {"finish", "release", "leave"}, Settles(w, j, how),
         ~InHand(w, j)',
         \A v \in Workers, i \in Jobs : InHand(v, i)' => InHand(v, i)
  PROVE  Mine'
  <1>1. lapses' = lapses
    BY DEF Settles
  <1>2. \A i \in Jobs : i # j => record'[i] = record[i] /\ holder'[i] = holder[i]
    BY DEF Settles, HandedBack, Shape
  <1>3. ASSUME lapses = 0, NEW v \in Workers, NEW i \in Jobs, InHand(v, i)'
        PROVE  record'[i] = "held" /\ holder'[i] = v
    <2>1. InHand(v, i)
      BY <1>3
    <2>2. record[i] = "held" /\ holder[i] = v /\ holder[j] = w
      BY <1>3, <2>1 DEF Mine
    <2>3. i # j
      <3>1. i = j => v = w
        BY <2>2
      <3>2. QED
        BY <1>3, <3>1
    <2>4. QED
      BY <1>2, <2>2, <2>3
  <1>4. QED
    BY <1>1, <1>3 DEF Mine

LEMMA NextMine == Shape /\ Hands /\ Own /\ Mine /\ [Next]_vars => Mine'
  <1> SUFFICES ASSUME Shape, Hands, Own, Mine, [Next]_vars PROVE Mine'
    OBVIOUS
  <1> USE DEF Goes, store
  <1>0. lapses \in Nat
    BY DEF Mine
  <1>a. ASSUME UNCHANGED <<record, holder, lapses>>,
               \A v \in Workers, i \in Jobs : InHand(v, i)' => InHand(v, i)
        PROVE  Mine'
    BY <1>a DEF Mine
  <1>1. CASE UNCHANGED vars
    BY <1>1, <1>a DEF vars, InHand
  <1>2. ASSUME NEW j \in Jobs, Lapse(j) PROVE Mine'
    BY <1>0, <1>2 DEF Lapse, Mine
  <1>3. ASSUME NEW j \in Jobs, Expire(j) PROVE Mine'
    <2>1. ASSUME lapses = 0, NEW v \in Workers, NEW i \in Jobs, InHand(v, i)
          PROVE  record'[i] = "held" /\ holder'[i] = v
      <3>1. record[i] = "held" /\ holder[i] = v
        BY <2>1 DEF Mine
      <3>2. i # j
        BY <1>3, <2>1, <3>1 DEF Expire, InHand
      <3>3. QED
        BY <1>3, <3>1, <3>2 DEF Expire, HandedBack, Shape
    <2>2. \A v \in Workers, i \in Jobs : InHand(v, i)' => InHand(v, i)
      BY <1>3 DEF Expire, InHand
    <2>3. lapses' = lapses
      BY <1>3 DEF Expire
    <2>4. QED
      BY <1>0, <2>1, <2>2, <2>3 DEF Mine
  <1>4. ASSUME NEW w \in Workers, Stop(w) PROVE Mine'
    BY <1>4, <1>a DEF Stop, InHand
  <1>5. ASSUME NEW w \in Workers,
               NextBatch(w) \/ ClaimNothing(w) \/ Wait(w) \/ AfterRecord(w) \/ Return(w) \/ Restart(w)
        PROVE  Mine'
    <2>1. \A v \in Workers, i \in Jobs : InHand(v, i)' => InHand(v, i)
      BY <1>5 DEF NextBatch, ClaimNothing, Wait, AfterRecord, Return, Restart, Shape, InHand, Working
    <2>2. QED
      BY <1>5, <1>a, <2>1 DEF NextBatch, ClaimNothing, Wait, AfterRecord, Return, Restart
  <1>6. ASSUME NEW w \in Workers, NEW batch \in Batches, Taken(w, batch), Claim(w) \/ DieClaiming(w),
               rest'[w] \subseteq batch, pc'[w] \notin Working,
               \A v \in Workers \ {w} : rest'[v] = rest[v] /\ pc'[v] = pc[v] /\ job'[v] = job[v]
        PROVE  Mine'
    <2>1. ASSUME lapses = 0, NEW v \in Workers, NEW i \in Jobs, InHand(v, i)'
          PROVE  record'[i] = "held" /\ holder'[i] = v
      <3>1. CASE v = w
        BY <1>6, <2>1, <3>1 DEF Taken, InHand
      <3>2. CASE v # w
        <4>1. record[i] = "held" /\ holder[i] = v
          BY <1>6, <2>1, <3>2 DEF Mine, InHand
        <4>2. i \notin batch
          BY <4>1 DEF Batches
        <4>3. QED
          BY <1>6, <4>1, <4>2 DEF Taken
      <3>3. QED
        BY <3>1, <3>2
    <2>2. lapses' = lapses
      BY <1>6 DEF Taken
    <2>3. QED
      BY <1>0, <2>1, <2>2 DEF Mine
  <1>7. ASSUME NEW w \in Workers, Claim(w) PROVE Mine'
    <2>1. PICK batch \in Batches : Taken(w, batch) /\ rest' = [rest EXCEPT ![w] = batch]
      BY <1>7 DEF Claim
    <2>2. /\ rest'[w] = batch /\ pc'[w] \notin Working
          /\ \A v \in Workers \ {w} : rest'[v] = rest[v] /\ pc'[v] = pc[v] /\ job'[v] = job[v]
      BY <1>7, <2>1 DEF Claim, Shape, Working
    <2>3. QED
      BY <1>6, <1>7, <2>1, <2>2
  <1>8. ASSUME NEW w \in Workers, DieClaiming(w) PROVE Mine'
    <2>1. PICK batch \in Batches : Taken(w, batch)
      BY <1>8 DEF DieClaiming
    <2>2. /\ rest'[w] = {} /\ pc'[w] \notin Working
          /\ \A v \in Workers \ {w} : rest'[v] = rest[v] /\ pc'[v] = pc[v] /\ job'[v] = job[v]
      BY <1>8 DEF DieClaiming, Dead, Shape, Working
    <2>3. QED
      BY <1>6, <1>8, <2>1, <2>2
  <1>9. ASSUME NEW w \in Workers, StartHandler(w) PROVE Mine'
    <2>1. \A v \in Workers, i \in Jobs : InHand(v, i)' => InHand(v, i)
      BY <1>9 DEF StartHandler, Shape, InHand, Working
    <2>2. QED
      BY <1>9, <1>a, <2>1 DEF StartHandler
  <1>10. ASSUME NEW w \in Workers, NEW how \in {"finish", "release", "leave"}, HandlerEnds(w, how)
        PROVE  Mine'
    <2>1. \A v \in Workers, i \in Jobs : InHand(v, i)' => InHand(v, i)
      BY <1>10 DEF HandlerEnds, Shape, InHand, Working
    <2>2. QED
      BY <1>10, <1>a, <2>1 DEF HandlerEnds
  <1>11. ASSUME NEW w \in Workers, Settle(w) \/ DieSettling(w) PROVE Mine'
    <2>1. PICK j : j = job[w]
      OBVIOUS
    <2>2. /\ Settles(w, j, decided[w]) /\ pc[w] = "settling" /\ decided[w] \in {"finish", "release", "leave"}
      BY <1>11, <2>1 DEF Settle, DieSettling, Shape
    <2>3. j \in Jobs /\ InHand(w, j) /\ j \notin rest[w]
      BY <2>1, <2>2 DEF Own, InHand, Working
    <2>4. /\ rest'[w] \subseteq rest[w] /\ pc'[w] \notin Working
          /\ \A v \in Workers \ {w} : rest'[v] = rest[v] /\ pc'[v] = pc[v] /\ job'[v] = job[v]
      BY <1>11 DEF Settle, DieSettling, Dead, Shape, Working
    <2>5. ~InHand(w, j)' /\ \A v \in Workers, i \in Jobs : InHand(v, i)' => InHand(v, i)
      BY <2>3, <2>4 DEF InHand
    <2>6. QED
      BY <2>2, <2>3, <2>5, SettledMine
  <1>12. ASSUME NEW w \in Workers, HandBack(w) PROVE Mine'
    <2>1. PICK j \in rest[w] : Settles(w, j, "release") /\ rest' = [rest EXCEPT ![w] = @ \ {j}]
      BY <1>12 DEF HandBack
    <2>2. j \in Jobs /\ InHand(w, j) /\ pc[w] \notin Working /\ pc' = pc /\ job' = job
      BY <1>12, <2>1 DEF HandBack, Shape, InHand, Working
    <2>3. ~InHand(w, j)' /\ \A v \in Workers, i \in Jobs : InHand(v, i)' => InHand(v, i)
      BY <2>1, <2>2 DEF InHand, Shape
    <2>4. QED
      BY <2>1, <2>2, <2>3, SettledMine
  <1>13. ASSUME NEW w \in Workers, Die(w) PROVE Mine'
    <2>1. \A v \in Workers, i \in Jobs : InHand(v, i)' => InHand(v, i)
      BY <1>13 DEF Die, Dead, Shape, InHand, Working
    <2>2. QED
      BY <1>13, <1>a, <2>1 DEF Die
  <1>14. QED
    BY <1>1, <1>2, <1>3, <1>4, <1>5, <1>7, <1>8, <1>9, <1>10, <1>11, <1>12, <1>13 DEF Next, Loop

\* The whole invariant holds in every state.
THEOREM Invariant == Spec => []IInv
  <1>1. Init => IInv
    <2>1. Init => Shape
      BY QueueAssumption DEF Init, Shape, Places
    <2>2. Init => Finished /\ Late
      BY DEF Init, Finished, GoneMeansHandled, Late
    <2>3. Init => Hands
      BY QueueAssumption DEF Init, Hands
    <2>4. Init => Own /\ Mine
      BY DEF Init, Own, Mine, InHand, Working
    <2>5. QED
      BY <2>1, <2>2, <2>3, <2>4 DEF IInv
  <1>2. IInv /\ [Next]_vars => IInv'
    BY NextShape, NextFinished, NextLate, NextHands, NextOwn, NextMine DEF IInv
  <1>3. QED
    BY <1>1, <1>2, PTL DEF Spec

\* No record leaves the queue that no handler finished, whoever dies or lapses.
THEOREM AtLeastOnce == Spec => []GoneMeansHandled
  <1>1. IInv => GoneMeansHandled
    BY DEF IInv, Finished
  <1>2. QED
    BY <1>1, Invariant, PTL

\* A stop is overtaken by one handler at most.
THEOREM LateStartOnce == Spec => []OneLateStart
  <1>1. IInv => OneLateStart
    BY DEF IInv, Late, OneLateStart
  <1>2. QED
    BY <1>1, Invariant, PTL

\* A worker that came back from a stop holds nothing its handler did not see.
THEOREM HandsBack == Spec => []StopHandsBack
  <1>1. IInv => StopHandsBack
    <2> SUFFICES ASSUME IInv, NEW w \in Workers, NEW j \in Jobs,
                        pc[w] = "returned", record[j] = "held", holder[j] = w
                 PROVE  j \notin unseen[w]
      BY DEF StopHandsBack
    <2>1. rest[w] = {}
      BY DEF IInv, Hands, Empty
    <2>2. j \in unseen[w] => j \in rest[w]
      BY DEF IInv, Hands
    <2>3. QED
      BY <2>1, <2>2
  <1>2. QED
    BY <1>1, Invariant, PTL

\* While no hold lapses, no two workers handle one record (queue.py:143-181, 205-211).
THEOREM HandlersAlone == Spec => []HandledAlone
  <1>1. IInv => HandledAlone
    <2> SUFFICES ASSUME IInv, lapses = 0, NEW v \in Workers, NEW w \in Workers, v # w,
                        pc[v] = "handler", pc[w] = "handler", job[v] = job[w]
                 PROVE  FALSE
      BY DEF HandledAlone
    <2>1. job[v] \in Jobs /\ InHand(v, job[v]) /\ InHand(w, job[v])
      BY DEF IInv, Own, Working, InHand
    <2>2. holder[job[v]] = v /\ holder[job[v]] = w
      BY <2>1 DEF IInv, Mine
    <2>3. QED
      BY <2>2
  <1>2. QED
    BY <1>1, Invariant, PTL

\* A release gives back what is in nobody's hands but the releaser's, and the releaser
\* does not have it any more (queue.py:111-116, 193-196).
THEOREM ReleasesItsOwn == Spec => ReleasesOwn
  <1> DEFINE A == \A j \in Jobs, w \in Workers :
                (/\ record[j] = "held" /\ record'[j] \in {"ready", "dead"} /\ lapses' = lapses
                 /\ holder[j] = w
                 /\ (lapses = 0 \/ \A v \in Workers \ {w} : name[v] # name[w]))
                => (j \notin rest'[w] /\ j # job'[w])
  <1>1. IInv /\ [Next]_vars => A
    <2> SUFFICES ASSUME IInv, [Next]_vars, NEW j \in Jobs, NEW w \in Workers,
                        record[j] = "held", record'[j] \in {"ready", "dead"}, lapses' = lapses,
                        holder[j] = w,
                        lapses = 0 \/ \A v \in Workers \ {w} : name[v] # name[w]
                 PROVE  j \notin rest'[w] /\ j # job'[w]
      OBVIOUS
    <2> USE DEF Goes, store
    <2>0. Shape /\ Own /\ Mine /\ lapses \in Nat /\ j # NoJob
      BY QueueAssumption DEF IInv, Mine, NoJob
    <2>a. ASSUME NEW v \in Workers, NEW i \in Jobs, NEW how \in {"finish", "release", "leave"},
                 Settles(v, i, how), InHand(v, i)
          PROVE  i = j /\ v = w
      <3>1. i = j /\ how = "release" /\ Holds(v, i)
        BY <2>0, <2>a DEF Settles, HandedBack, Shape
      <3>2. lapses = 0 => holder[i] = v
        BY <2>0, <2>a DEF Mine
      <3>3. QED
        BY <3>1, <3>2 DEF Holds
    <2>1. ASSUME NEW i \in Jobs, Lapse(i) PROVE FALSE
      BY <2>0, <2>1 DEF Lapse
    <2>2. ASSUME NEW i \in Jobs, Expire(i) PROVE j \notin rest'[w] /\ j # job'[w]
      BY <2>0, <2>2 DEF Expire, HandedBack, Shape
    <2>3. ASSUME NEW v \in Workers, Settle(v) \/ DieSettling(v) PROVE j \notin rest'[w] /\ j # job'[w]
      <3>1. /\ Settles(v, job[v], decided[v]) /\ pc[v] = "settling"
            /\ decided[v] \in {"finish", "release", "leave"}
        BY <2>0, <2>3 DEF Settle, DieSettling, Shape
      <3>2. job[v] \in Jobs /\ job[v] \notin rest[v] /\ InHand(v, job[v])
        BY <2>0, <3>1 DEF Own, InHand, Working
      <3>3. v = w /\ job[v] = j
        BY <2>a, <3>1, <3>2
      <3>4. job'[w] = NoJob /\ rest'[w] \subseteq rest[w]
        BY <2>0, <2>3, <3>3 DEF Settle, DieSettling, Dead, Shape
      <3>5. QED
        BY <2>0, <3>2, <3>3, <3>4
    <2>4. ASSUME NEW v \in Workers, HandBack(v) PROVE j \notin rest'[w] /\ j # job'[w]
      <3>1. PICK i \in rest[v] : Settles(v, i, "release") /\ rest' = [rest EXCEPT ![v] = @ \ {i}]
        BY <2>4 DEF HandBack
      <3>2. i \in Jobs /\ InHand(v, i)
        BY <2>0, <3>1 DEF Shape, InHand
      <3>3. i = j /\ v = w
        BY <2>a, <3>1, <3>2
      <3>4. job'[w] = NoJob
        BY <2>0, <2>4, <3>3 DEF HandBack, Own, Working
      <3>5. QED
        BY <2>0, <3>1, <3>3, <3>4 DEF Shape
    <2>5. ASSUME NEW v \in Workers, Claim(v) \/ DieClaiming(v) PROVE FALSE
      BY <2>0, <2>5 DEF Claim, DieClaiming, Taken, Batches
    <2>6. ASSUME record' = record PROVE FALSE
      BY <2>6
    <2>7. QED
      BY <2>1, <2>2, <2>3, <2>4, <2>5, <2>6
         DEF Next, Loop, vars, Stop, NextBatch, ClaimNothing, Wait, StartHandler, HandlerEnds,
             AfterRecord, Return, Restart, Die
  <1>2. QED
    BY <1>1, Invariant, PTL DEF Spec, ReleasesOwn
=============================================================================
