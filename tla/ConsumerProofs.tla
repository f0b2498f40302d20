--------------------------- MODULE ConsumerProofs ---------------------------
(***************************************************************************)
(* What a consumer group promises whatever its members do, proved for any  *)
(* members, messages, deadlines and deaths.                                *)
(***************************************************************************)
EXTENDS Consumer, FiniteSetTheorems, TLAPS

\* What is about to be acknowledged was acknowledged by its handler.
AckIsHandled == \A c \in Members : pc[c] = "ack" => message[c] \in handled

\* The message in the handler is no longer in the rest of the batch.
HeldOnce == \A c \in Members : message[c] \notin rest[c]

\* A message that waits is in no more hands than deadlines let it wait for, and
\* one in flight in one hand more.
Crowd ==
  \A m \in Messages :
    /\ IsFiniteSet(Having(m))
    /\ Cardinality(Having(m)) <= 1 + lapses[m]
    /\ place[m] = "waiting" => Cardinality(Having(m)) <= lapses[m]

IInv == TypeOK /\ AckedMeansHandled /\ AckIsHandled /\ HeldOnce /\ Crowd

-----------------------------------------------------------------------------
(* Types *)

LEMMA InitType == Init => TypeOK
  BY ConsumerAssumption DEF Init, TypeOK, NoMessage

\* A batch is handed out: there is a message in it.
LEMMA BatchesType == \A batch \in Batches : batch \in SUBSET Messages /\ batch # {}
  <1> SUFFICES ASSUME NEW batch \in Batches PROVE batch \in SUBSET Messages /\ batch # {}
    OBVIOUS
  <1>1. batch \in SUBSET Messages /\ Cardinality(batch) \in 1 .. Batch
    BY DEF Batches
  <1>2. Cardinality(batch) # 0
    BY <1>1, ConsumerAssumption
  <1>3. QED
    BY <1>1, <1>2, FS_EmptySet

\* Every step keeps the types.
LEMMA NextType == TypeOK /\ [Next]_vars => TypeOK'
  <1> SUFFICES ASSUME TypeOK, [Next]_vars PROVE TypeOK'
    OBVIOUS
  <1> USE DEF group, NoMessage, Acked
  <1>0. MaxLapses \in Nat /\ MaxFails \in Nat /\ MaxDeaths \in Nat /\ 0 \notin Messages
    BY ConsumerAssumption
  <1> USE <1>0
  <1>1. CASE UNCHANGED vars
    BY <1>1 DEF vars, TypeOK
  <1>2. ASSUME NEW m \in Messages, Deadline(m) PROVE TypeOK'
    <2>1. lapses \in [Messages -> 0 .. MaxLapses]
      BY DEF TypeOK
    <2>2. CASE Having(m) = {}
      BY <1>2, <2>1, <2>2 DEF Deadline, TypeOK
    <2>3. CASE Having(m) # {}
      <3>1. /\ lapses[m] \in 0 .. MaxLapses /\ lapses[m] < MaxLapses
            /\ lapses' = [lapses EXCEPT ![m] = lapses[m] + 1]
        BY <1>2, <2>1, <2>3 DEF Deadline
      <3>2. lapses' \in [Messages -> 0 .. MaxLapses]
        <4>1. lapses[m] + 1 \in 0 .. MaxLapses
          BY <3>1
        <4>2. QED
          BY <2>1, <3>1, <4>1
      <3>3. QED
        BY <1>2, <3>2 DEF Deadline, TypeOK
    <2>4. QED
      BY <2>2, <2>3
  <1>3. ASSUME NEW c \in Members, Stop(c) PROVE TypeOK'
    BY <1>3 DEF Stop, TypeOK
  <1>4. ASSUME NEW c \in Members, NextBatch(c) PROVE TypeOK'
    BY <1>4 DEF NextBatch, Goes, TypeOK
  <1>5. ASSUME NEW c \in Members, Read(c) PROVE TypeOK'
    <2>1. PICK batch \in Batches : HandedOut(batch) /\ rest' = [rest EXCEPT ![c] = batch]
      BY <1>5 DEF Read
    <2>2. batch \in SUBSET Messages /\ batch # {}
      BY BatchesType
    <2>3. QED
      BY <1>5, <2>1, <2>2 DEF Read, HandedOut, Goes, TypeOK
  <1>6. ASSUME NEW c \in Members, ReadNothing(c) PROVE TypeOK'
    BY <1>6 DEF ReadNothing, Goes, TypeOK
  <1>7. ASSUME NEW c \in Members, StartHandler(c) PROVE TypeOK'
    <2>1. PICK m \in rest[c] : /\ message' = [message EXCEPT ![c] = m]
                              /\ rest' = [rest EXCEPT ![c] = @ \ {m}]
      BY <1>7 DEF StartHandler
    <2>2. m \in Messages /\ m # NoMessage
      BY <2>1, ConsumerAssumption DEF TypeOK, NoMessage
    <2>3. rest' \in [Members -> SUBSET Messages]
      BY <2>1 DEF TypeOK
    <2>4. QED
      BY <1>7, <2>1, <2>2, <2>3 DEF StartHandler, Goes, TypeOK
  <1>8. ASSUME NEW c \in Members, NEW how \in {"ack", "nack", "leave"}, HandlerEnds(c, how)
        PROVE  TypeOK'
    <2>1. message[c] \in Messages
      BY <1>8 DEF HandlerEnds, TypeOK
    <2>2. handled' \subseteq Messages
      BY <1>8, <2>1 DEF HandlerEnds, TypeOK
    <2>3. fails \in 0 .. MaxFails /\ (fails' = fails \/ (fails < MaxFails /\ fails' = fails + 1))
      BY <1>8 DEF HandlerEnds, TypeOK
    <2>4. fails' \in 0 .. MaxFails
      BY <2>3
    <2>5. QED
      BY <1>8, <2>2, <2>4 DEF HandlerEnds, Goes, TypeOK
  <1>9. ASSUME NEW c \in Members, Settle(c) PROVE TypeOK'
    <2>1. place' \in [Messages -> {"waiting", "in flight", Acked}]
      BY <1>9 DEF Settle, Settles, TypeOK
    <2>2. QED
      BY <1>9, <2>1 DEF Settle, Settles, Goes, TypeOK
  <1>10. ASSUME NEW c \in Members, AfterMessage(c) PROVE TypeOK'
    BY <1>10 DEF AfterMessage, Goes, TypeOK
  <1>11. ASSUME NEW c \in Members, Dead(c), place' \in [Messages -> {"waiting", "in flight", Acked}],
                UNCHANGED lapses
         PROVE  TypeOK'
    <2>1. deaths \in 0 .. MaxDeaths /\ deaths < MaxDeaths /\ deaths' = deaths + 1
      BY <1>11 DEF Dead, TypeOK
    <2>2. deaths' \in 0 .. MaxDeaths
      BY <2>1
    <2>3. QED
      BY <1>11, <2>2 DEF Dead, Goes, TypeOK
  <1>12. ASSUME NEW c \in Members, Die(c) PROVE TypeOK'
    BY <1>11, <1>12 DEF Die, TypeOK
  <1>13. ASSUME NEW c \in Members, DieReading(c) PROVE TypeOK'
    <2>1. PICK batch \in Batches : HandedOut(batch)
      BY <1>13 DEF DieReading
    <2>2. place' \in [Messages -> {"waiting", "in flight", Acked}] /\ UNCHANGED lapses
      BY <2>1 DEF HandedOut, TypeOK
    <2>3. QED
      BY <1>11, <1>13, <2>2 DEF DieReading
  <1>14. ASSUME NEW c \in Members, DieSettling(c) PROVE TypeOK'
    <2>1. place' \in [Messages -> {"waiting", "in flight", Acked}] /\ UNCHANGED lapses
      BY <1>14 DEF DieSettling, Settles, TypeOK
    <2>2. QED
      BY <1>11, <1>14, <2>1 DEF DieSettling
  <1>15. ASSUME NEW c \in Members, Restart(c) PROVE TypeOK'
    BY <1>15 DEF Restart, Goes, TypeOK
  <1>16. QED
    BY <1>1, <1>2, <1>3, <1>4, <1>5, <1>6, <1>7, <1>8, <1>9, <1>10, <1>12, <1>13, <1>14, <1>15
       DEF Next, Loop

-----------------------------------------------------------------------------
(* Nothing is forgotten unhandled *)

LEMMA NextHandled ==
  TypeOK /\ AckedMeansHandled /\ AckIsHandled /\ [Next]_vars => AckedMeansHandled' /\ AckIsHandled'
  <1> SUFFICES ASSUME TypeOK, AckedMeansHandled, AckIsHandled, [Next]_vars
               PROVE  AckedMeansHandled' /\ AckIsHandled'
    OBVIOUS
  <1> USE DEF group, TypeOK, AckedMeansHandled, AckIsHandled, Acked
  <1>1. CASE UNCHANGED vars
    BY <1>1 DEF vars
  <1>2. ASSUME NEW m \in Messages, Deadline(m) PROVE AckedMeansHandled' /\ AckIsHandled'
    BY <1>2 DEF Deadline
  <1>3. ASSUME NEW c \in Members, Stop(c) PROVE AckedMeansHandled' /\ AckIsHandled'
    BY <1>3 DEF Stop
  <1>4. ASSUME NEW c \in Members, NextBatch(c) \/ ReadNothing(c) \/ AfterMessage(c) \/ Restart(c)
        PROVE  AckedMeansHandled' /\ AckIsHandled'
    BY <1>4 DEF NextBatch, ReadNothing, AfterMessage, Restart, Goes
  <1>5. ASSUME NEW c \in Members, Read(c) PROVE AckedMeansHandled' /\ AckIsHandled'
    BY <1>5 DEF Read, HandedOut, Goes
  <1>6. ASSUME NEW c \in Members, StartHandler(c) PROVE AckedMeansHandled' /\ AckIsHandled'
    BY <1>6 DEF StartHandler, Goes
  <1>7. ASSUME NEW c \in Members, NEW how \in {"ack", "nack", "leave"}, HandlerEnds(c, how)
        PROVE  AckedMeansHandled' /\ AckIsHandled'
    BY <1>7 DEF HandlerEnds, Goes
  <1>8. ASSUME NEW c \in Members, Settles(message[c], pc[c]), pc[c] \in {"ack", "nack", "leave"},
               UNCHANGED handled
        PROVE  AckedMeansHandled'
    <2>1. ASSUME NEW m \in Messages, place'[m] = Acked PROVE m \in handled
      <3>1. place[m] = Acked \/ (m = message[c] /\ pc[c] = "ack")
        BY <1>8, <2>1 DEF Settles
      <3>2. QED
        BY <3>1
    <2>2. QED
      BY <1>8, <2>1
  <1>9. ASSUME NEW c \in Members, Settle(c) PROVE AckedMeansHandled' /\ AckIsHandled'
    BY <1>8, <1>9 DEF Settle, Goes
  <1>10. ASSUME NEW c \in Members, Die(c) PROVE AckedMeansHandled' /\ AckIsHandled'
    BY <1>10 DEF Die, Dead, Goes
  <1>11. ASSUME NEW c \in Members, DieReading(c) PROVE AckedMeansHandled' /\ AckIsHandled'
    BY <1>11 DEF DieReading, Dead, HandedOut, Goes
  <1>12. ASSUME NEW c \in Members, DieSettling(c) PROVE AckedMeansHandled' /\ AckIsHandled'
    BY <1>8, <1>12 DEF DieSettling, Dead, Goes
  <1>13. QED
    BY <1>1, <1>2, <1>3, <1>4, <1>5, <1>6, <1>7, <1>9, <1>10, <1>11, <1>12 DEF Next, Loop

-----------------------------------------------------------------------------
(* Hands *)

LEMMA NextHeldOnce == TypeOK /\ HeldOnce /\ [Next]_vars => HeldOnce'
  <1> SUFFICES ASSUME TypeOK, HeldOnce, [Next]_vars PROVE HeldOnce'
    OBVIOUS
  <1> USE DEF group, TypeOK, HeldOnce
  <1>1. CASE UNCHANGED <<rest, message>>
    BY <1>1
  <1>2. ASSUME NEW c \in Members, Read(c) PROVE HeldOnce'
    <2>1. PICK batch \in Batches : rest' = [rest EXCEPT ![c] = batch]
      BY <1>2 DEF Read
    <2>2. message[c] = NoMessage /\ NoMessage \notin batch
      BY <1>2, BatchesType, ConsumerAssumption DEF Read, NoMessage
    <2>3. QED
      BY <1>2, <2>1, <2>2 DEF Read
  <1>3. ASSUME NEW c \in Members, StartHandler(c) PROVE HeldOnce'
    <2>1. PICK m \in rest[c] : /\ message' = [message EXCEPT ![c] = m]
                              /\ rest' = [rest EXCEPT ![c] = @ \ {m}]
      BY <1>3 DEF StartHandler
    <2>2. QED
      BY <2>1
  <1>4. ASSUME NEW c \in Members, Settle(c) PROVE HeldOnce'
    BY <1>4, ConsumerAssumption DEF Settle, NoMessage
  <1>5. ASSUME NEW c \in Members, AfterMessage(c) PROVE HeldOnce'
    BY <1>5 DEF AfterMessage
  <1>6. ASSUME NEW c \in Members, Dead(c) PROVE HeldOnce'
    BY <1>6 DEF Dead
  <1>7. QED
    BY <1>1, <1>2, <1>3, <1>4, <1>5, <1>6
       DEF Next, Loop, vars, Deadline, Stop, NextBatch, ReadNothing, HandlerEnds, Restart,
           Die, DieReading, DieSettling

\* Fewer hands are no crowd.
LEMMA FewerHands ==
  ASSUME NEW S, NEW T \in SUBSET S, NEW n \in Nat, IsFiniteSet(S), Cardinality(S) <= n
  PROVE  IsFiniteSet(T) /\ Cardinality(T) <= n
  <1>1. IsFiniteSet(T) /\ Cardinality(T) <= Cardinality(S)
    BY FS_Subset
  <1>2. Cardinality(T) \in Nat /\ Cardinality(S) \in Nat
    BY <1>1, FS_CardinalityType
  <1>3. QED
    BY <1>1, <1>2
\* What is known of the hands a message is in.
LEMMA CrowdNumbers ==
  ASSUME TypeOK, Crowd, NEW m \in Messages
  PROVE  /\ IsFiniteSet(Having(m)) /\ Cardinality(Having(m)) \in Nat /\ lapses[m] \in Nat
         /\ Cardinality(Having(m)) <= 1 + lapses[m]
         /\ place[m] = "waiting" => Cardinality(Having(m)) <= lapses[m]
  <1>1. IsFiniteSet(Having(m)) /\ Cardinality(Having(m)) <= 1 + lapses[m]
        /\ (place[m] = "waiting" => Cardinality(Having(m)) <= lapses[m])
    BY DEF Crowd
  <1>2. Cardinality(Having(m)) \in Nat
    BY <1>1, FS_CardinalityType
  <1>3. lapses \in [Messages -> 0 .. MaxLapses] /\ MaxLapses \in Nat
    BY ConsumerAssumption DEF TypeOK
  <1>4. lapses[m] \in Nat
    BY <1>3
  <1>5. QED
    BY <1>1, <1>2, <1>4

\* The group hands out what waits to a member that has nothing: one hand more.
LEMMA CrowdReads ==
  ASSUME TypeOK, Crowd, NEW c \in Members, Read(c)
  PROVE  Crowd'
  <1>1. PICK batch \in Batches : HandedOut(batch) /\ rest' = [rest EXCEPT ![c] = batch]
    BY DEF Read
  <1>2. \A m \in batch : place[m] = "waiting"
    BY DEF Batches
  <1>3. SUFFICES ASSUME NEW m \in Messages
                 PROVE  /\ IsFiniteSet(Having(m)')
                        /\ Cardinality(Having(m)') <= 1 + lapses'[m]
                        /\ place'[m] = "waiting" => Cardinality(Having(m)') <= lapses'[m]
    BY DEF Crowd
  <1>4. /\ IsFiniteSet(Having(m)) /\ Cardinality(Having(m)) \in Nat /\ lapses[m] \in Nat
        /\ Cardinality(Having(m)) <= 1 + lapses[m]
        /\ place[m] = "waiting" => Cardinality(Having(m)) <= lapses[m]
    BY CrowdNumbers
  <1>5. lapses' = lapses /\ place'[m] = IF m \in batch THEN "in flight" ELSE place[m]
    BY <1>1 DEF HandedOut
  <1>6. CASE m \in batch
    <2>1. Having(m)' \subseteq Having(m) \cup {c}
      BY <1>1 DEF Read, Having, TypeOK
    <2>2. /\ IsFiniteSet(Having(m) \cup {c})
          /\ Cardinality(Having(m) \cup {c}) <= Cardinality(Having(m)) + 1
      <3>1. IsFiniteSet(Having(m)) /\ Cardinality(Having(m)) \in Nat
        BY <1>4
      <3>2. /\ IsFiniteSet(Having(m) \cup {c})
            /\ Cardinality(Having(m) \cup {c}) = IF c \in Having(m) THEN Cardinality(Having(m))
                                                 ELSE Cardinality(Having(m)) + 1
        BY <3>1, FS_AddElement
      <3>3. QED
        BY <3>1, <3>2
    <2>3. Cardinality(Having(m) \cup {c}) \in Nat
      BY <2>2, FS_CardinalityType
    <2>4. Cardinality(Having(m) \cup {c}) <= 1 + lapses[m]
      BY <1>2, <1>4, <1>6, <2>2, <2>3
    <2>5. 1 + lapses[m] \in Nat
      BY <1>4
    <2>6. IsFiniteSet(Having(m)') /\ Cardinality(Having(m)') <= 1 + lapses[m]
      BY <2>1, <2>2, <2>4, <2>5, FewerHands
    <2>7. QED
      BY <1>5, <1>6, <2>6
  <1>7. CASE m \notin batch
    <2>1. Having(m)' \subseteq Having(m)
      BY <1>1, <1>7 DEF Read, Having, TypeOK
    <2>2. QED
      BY <1>4, <1>5, <1>7, <2>1, FewerHands
  <1>8. QED
    BY <1>6, <1>7

\* Where nothing comes to wait that did not, fewer hands keep the bound.
LEMMA CrowdShrinks ==
  ASSUME TypeOK, Crowd, lapses' = lapses,
         \A m \in Messages : Having(m)' \subseteq Having(m),
         \A m \in Messages : place'[m] = "waiting" =>
           place[m] = "waiting" \/ \E c \in Having(m) : c \notin Having(m)'
  PROVE  Crowd'
  <1>1. SUFFICES ASSUME NEW m \in Messages
                 PROVE  /\ IsFiniteSet(Having(m)')
                        /\ Cardinality(Having(m)') <= 1 + lapses'[m]
                        /\ place'[m] = "waiting" => Cardinality(Having(m)') <= lapses'[m]
    BY DEF Crowd
  <1>2. /\ IsFiniteSet(Having(m)) /\ Cardinality(Having(m)) \in Nat /\ lapses[m] \in Nat
        /\ Cardinality(Having(m)) <= 1 + lapses[m]
        /\ place[m] = "waiting" => Cardinality(Having(m)) <= lapses[m]
    BY CrowdNumbers
  <1>3. IsFiniteSet(Having(m)') /\ Cardinality(Having(m)') <= 1 + lapses'[m]
    BY <1>2, FewerHands
  <1>4. ASSUME place'[m] = "waiting" PROVE Cardinality(Having(m)') <= lapses'[m]
    <2>1. CASE place[m] = "waiting"
      BY <1>2, <2>1, FewerHands
    <2>2. CASE \E c \in Having(m) : c \notin Having(m)'
      <3>1. PICK c \in Having(m) : c \notin Having(m)'
        BY <2>2
      <3>2. Having(m)' \subseteq Having(m) \ {c}
        BY <3>1
      <3>3. IsFiniteSet(Having(m) \ {c}) /\ Cardinality(Having(m) \ {c}) = Cardinality(Having(m)) - 1
        BY <1>2, <3>1, FS_RemoveElement
      <3>4. Cardinality(Having(m) \ {c}) <= lapses[m]
        BY <1>2, <3>3
      <3>5. QED
        BY <1>2, <3>2, <3>3, <3>4, FewerHands
    <2>3. QED
      BY <1>4, <2>1, <2>2
  <1>5. QED
    BY <1>3, <1>4

\* A deadline lets a message wait, and counts one more when it is in hand.
LEMMA CrowdDeadline ==
  ASSUME TypeOK, Crowd, NEW d \in Messages, Deadline(d)
  PROVE  Crowd'
  <1>1. SUFFICES ASSUME NEW m \in Messages
                 PROVE  /\ IsFiniteSet(Having(m))
                        /\ Cardinality(Having(m)) <= 1 + lapses'[m]
                        /\ place'[m] = "waiting" => Cardinality(Having(m)) <= lapses'[m]
    <2>1. \A m \in Messages : Having(m)' = Having(m)
      BY DEF Deadline, Having
    <2>2. QED
      BY <2>1 DEF Crowd
  <1>2. /\ IsFiniteSet(Having(m)) /\ Cardinality(Having(m)) \in Nat /\ lapses[m] \in Nat
        /\ Cardinality(Having(m)) <= 1 + lapses[m]
        /\ place[m] = "waiting" => Cardinality(Having(m)) <= lapses[m]
    BY CrowdNumbers
  <1>0. lapses \in [Messages -> 0 .. MaxLapses]
    BY DEF TypeOK
  <1>3. CASE m = d /\ Having(m) # {}
    <2>1. lapses'[m] = lapses[m] + 1
      BY <1>0, <1>3 DEF Deadline
    <2>2. QED
      BY <1>2, <2>1
  <1>4. CASE Having(m) = {}
    <2>1. lapses'[m] = lapses[m]
      BY <1>0, <1>4 DEF Deadline
    <2>2. Cardinality(Having(m)) = 0
      BY <1>4, FS_EmptySet
    <2>3. QED
      BY <1>2, <2>1, <2>2
  <1>5. CASE m # d
    <2>1. lapses'[m] = lapses[m] /\ place'[m] = place[m]
      BY <1>2, <1>5 DEF Deadline, TypeOK
    <2>2. QED
      BY <1>2, <2>1
  <1>6. QED
    BY <1>3, <1>4, <1>5

LEMMA NextCrowd == TypeOK /\ HeldOnce /\ Crowd /\ [Next]_vars => Crowd'
  <1> SUFFICES ASSUME TypeOK, HeldOnce, Crowd, [Next]_vars PROVE Crowd'
    OBVIOUS
  <1> USE DEF group
  <1>1. CASE UNCHANGED <<place, lapses, rest, message>>
    BY <1>1, CrowdShrinks DEF Having
  <1>2. ASSUME NEW m \in Messages, Deadline(m) PROVE Crowd'
    BY <1>2, CrowdDeadline
  <1>3. ASSUME NEW c \in Members, Read(c) PROVE Crowd'
    BY <1>3, CrowdReads
  <1>4. ASSUME NEW c \in Members, StartHandler(c) PROVE Crowd'
    <2>1. PICK m \in rest[c] : /\ message' = [message EXCEPT ![c] = m]
                              /\ rest' = [rest EXCEPT ![c] = @ \ {m}]
      BY <1>4 DEF StartHandler
    <2>2. \A k \in Messages : Having(k)' \subseteq Having(k)
      BY <2>1 DEF Having, TypeOK
    <2>3. QED
      BY <1>4, <2>2, CrowdShrinks DEF StartHandler
  <1>5. ASSUME NEW c \in Members, AfterMessage(c) PROVE Crowd'
    <2>1. \A k \in Messages : Having(k)' \subseteq Having(k)
      BY <1>5 DEF AfterMessage, Having, TypeOK
    <2>2. QED
      BY <1>5, <2>1, CrowdShrinks DEF AfterMessage
  <1>6. ASSUME NEW c \in Members, Settles(message[c], pc[c]), pc[c] \in {"ack", "nack", "leave"},
               message' = [message EXCEPT ![c] = NoMessage],
               rest' = rest \/ rest' = [rest EXCEPT ![c] = {}]
        PROVE  Crowd'
    <2>1. \A k \in Messages : Having(k)' \subseteq Having(k)
      BY <1>6, ConsumerAssumption DEF Having, TypeOK, NoMessage
    <2>2. PICK m \in Messages : m = message[c]
      BY <1>6 DEF TypeOK
    <2>3. c \in Having(m)
      BY <2>2 DEF Having
    <2>4. c \notin Having(m)'
      <3>1. m \notin rest'[c]
        BY <1>6, <2>2 DEF HeldOnce, TypeOK
      <3>2. message'[c] # m
        BY <1>6, ConsumerAssumption DEF TypeOK, NoMessage
      <3>3. QED
        BY <3>1, <3>2 DEF Having
    <2>5. lapses' = lapses /\ \A k \in Messages : place'[k] = "waiting" => place[k] = "waiting" \/ k = m
      BY <1>6, <2>2 DEF Settles, TypeOK, Acked
    <2>6. QED
      BY <2>1, <2>3, <2>4, <2>5, CrowdShrinks
  <1>7. ASSUME NEW c \in Members, Settle(c) PROVE Crowd'
    BY <1>6, <1>7 DEF Settle
  <1>8. ASSUME NEW c \in Members, DieSettling(c) PROVE Crowd'
    BY <1>6, <1>8 DEF DieSettling, Dead
  <1>9. ASSUME NEW c \in Members, Dead(c) PROVE \A k \in Messages : Having(k)' \subseteq Having(k)
    BY <1>9, ConsumerAssumption DEF Dead, Having, TypeOK, NoMessage
  <1>10. ASSUME NEW c \in Members, Die(c) PROVE Crowd'
    BY <1>9, <1>10, CrowdShrinks DEF Die
  <1>11. ASSUME NEW c \in Members, DieReading(c) PROVE Crowd'
    <2>1. PICK batch \in Batches : HandedOut(batch)
      BY <1>11 DEF DieReading
    <2>2. lapses' = lapses /\ \A k \in Messages : place'[k] = "waiting" => place[k] = "waiting"
      BY <2>1 DEF HandedOut
    <2>3. QED
      BY <1>9, <1>11, <2>2, CrowdShrinks DEF DieReading
  <1>12. QED
    BY <1>1, <1>2, <1>3, <1>4, <1>5, <1>7, <1>8, <1>10, <1>11
       DEF Next, Loop, vars, Stop, NextBatch, ReadNothing, HandlerEnds, Restart

-----------------------------------------------------------------------------
(* The theorems *)

LEMMA InitInv == Init => IInv
  <1> SUFFICES ASSUME Init PROVE IInv
    OBVIOUS
  <1>1. TypeOK
    BY InitType
  <1>2. AckedMeansHandled /\ AckIsHandled /\ HeldOnce
    BY DEF Init, AckedMeansHandled, AckIsHandled, HeldOnce, Acked
  <1>3. \A m \in Messages : Having(m) = {} /\ lapses[m] = 0
    BY ConsumerAssumption DEF Init, Having, NoMessage
  <1>4. Crowd
    BY <1>3, FS_EmptySet DEF Crowd
  <1>5. QED
    BY <1>1, <1>2, <1>4 DEF IInv

LEMMA Invariance == Spec => []IInv
  <1>1. IInv /\ [Next]_vars => IInv'
    BY NextType, NextHandled, NextHeldOnce, NextCrowd DEF IInv
  <1>2. QED
    BY <1>1, InitInv, PTL DEF Spec

\* Every variable of Consumer keeps its type (consumer.py:137-213).
THEOREM ConsumerType == Spec => []TypeOK
  <1>1. IInv => TypeOK
    BY DEF IInv
  <1>2. QED
    BY <1>1, Invariance, PTL

\* Whichever members stop or die, whatever deadlines pass and answers are lost, the
\* group forgets nothing that no handler acknowledged (consumer.py:157-198).
THEOREM NothingForgotten == Spec => []AckedMeansHandled
  <1>1. IInv => AckedMeansHandled
    BY DEF IInv
  <1>2. QED
    BY <1>1, Invariance, PTL

\* A message is in one hand more than the deadlines it outstayed at most, though
\* settlements name no member (consumer.py:107-125, 157-198).
THEOREM CrowdsBounded == Spec => []CrowdBounded
  <1>1. IInv => CrowdBounded
    BY DEF IInv, Crowd, CrowdBounded
  <1>2. QED
    BY <1>1, Invariance, PTL
=============================================================================
