---------------------------- MODULE CacheProofs ----------------------------
(***************************************************************************)
(* What get_or_set and a counter promise callers that race each other,     *)
(* expiry and lost answers, proved for any callers, ttls and numbers of    *)
(* calls.                                                                  *)
(***************************************************************************)
EXTENDS Cache, FiniteSetTheorems, TLAPS

\* What a key holds, the store answers and a call gives.
Words == {"made", "count", "none", "unanswered", "yes", "no"} \X (Callers \cup {""}) \X Nat

Shape ==
  /\ key \in Words
  /\ pc \in [Callers -> {"idle", "once", "get", "store", "again"}]
  /\ call \in [Callers -> [op : Ops, ttl : Nat, was : Words]]
  /\ answer \in [Callers -> Words]
  /\ result \in [Callers -> Words]
  /\ calls \in [Callers -> Nat]
  /\ stood \in [Callers -> SUBSET Words]
  /\ removed \subseteq Callers /\ added \subseteq Callers \X Nat

\* A call gives nothing before it returns, and is answered nothing afterwards; only
\* get_or_set has more than one statement.
Busy(c) ==
  /\ IF pc[c] = "idle" THEN answer[c] = Unanswered ELSE result[c] = NoKey
  /\ pc[c] = "once" => call[c].op # "get or set"

\* Who is in a call has seen what the key holds, and what the store answered it.
Witnessed(c) ==
  /\ pc[c] # "idle" => key \in stood[c]
  /\ pc[c] \in {"get", "again"} /\ answer[c] # Unanswered => answer[c] \in stood[c]
  /\ pc[c] = "store" /\ answer[c] = Yes => Made(c) \in stood[c]

\* What the store answered still holds for who lost nothing since its call began.
Holding(c) ==
  c \notin removed =>
    /\ pc[c] = "get" /\ answer[c] \notin {Unanswered, NoKey} => key = answer[c]
    /\ pc[c] = "store" /\ answer[c] = Yes => key = Made(c)
    /\ pc[c] = "store" /\ answer[c] = No => key # NoKey
    /\ pc[c] = "again" => key # NoKey
    /\ pc[c] = "again" /\ answer[c] # Unanswered => key = answer[c]

\* An increment that is out is not in the key, nor one that was not made.
Fresh(c) ==
  /\ \A pair \in added : pair[1] = c => pair[2] <= calls[c]
  /\ Out(c, "incr") => <<c, calls[c]>> \notin added

Counted == IsFiniteSet(added) /\ (key[1] = "count" => key = Count(Cardinality(added)))

IInv ==
  /\ Shape /\ Counted
  /\ \A c \in Callers : Busy(c) /\ Witnessed(c) /\ Holding(c) /\ Fresh(c)
  /\ AnswersStand /\ RacersAgree
-----------------------------------------------------------------------------
(* Types *)

LEMMA WordsType ==
  /\ {NoKey, Unanswered, Yes, No} \subseteq Words
  /\ \A n \in Nat : Count(n) \in Words
  /\ calls \in [Callers -> Nat] => \A c \in Callers : Made(c) \in Words
  <1>1. {NoKey, Unanswered, Yes, No} \subseteq Words
    <2>1. NoKey \in Words
      BY DEF Words, NoKey
    <2>2. Unanswered \in Words
      BY DEF Words, Unanswered
    <2>3. Yes \in Words
      BY DEF Words, Yes
    <2>4. No \in Words
      BY DEF Words, No
    <2>5. QED
      BY <2>1, <2>2, <2>3, <2>4
  <1>2. \A n \in Nat : Count(n) \in Words
    BY DEF Words, Count
  <1>3. ASSUME calls \in [Callers -> Nat], NEW c \in Callers PROVE Made(c) \in Words
    <2>1. calls[c] \in Nat
      BY <1>3
    <2>2. QED
      BY <2>1 DEF Words, Made
  <1>4. QED
    BY <1>1, <1>2, <1>3

LEMMA TtlsType == \A op \in Ops : Ttls(op) \subseteq Nat
  <1>1. 0 .. MaxTtl \subseteq Nat /\ 1 .. MaxTtl \subseteq Nat /\ {0} \subseteq Nat
    BY CacheAssumption
  <1>2. ASSUME NEW op \in Ops PROVE Ttls(op) \in {0 .. MaxTtl, 1 .. MaxTtl, {0}}
    BY DEF Ttls
  <1>3. QED
    BY <1>1, <1>2

LEMMA InitInv == Init => IInv
  <1> SUFFICES ASSUME Init PROVE IInv
    OBVIOUS
  <1>1. "get" \in Ops
    BY DEF Ops
  <1>2. Shape
    BY <1>1, WordsType DEF Init, Shape
  <1>3. Counted
    BY FS_EmptySet DEF Init, Counted, NoKey
  <1>4. \A c \in Callers : Busy(c) /\ Witnessed(c) /\ Holding(c) /\ Fresh(c)
    BY DEF Init, Busy, Witnessed, Holding, Fresh, Out
  <1>5. AnswersStand /\ RacersAgree
    BY DEF Init, AnswersStand, RacersAgree, Given
  <1>6. QED
    BY <1>2, <1>3, <1>4, <1>5 DEF IInv

\* A caller that returns gives a word.
LEMMA ReturnsShape ==
  ASSUME Shape, NEW c \in Callers, NEW value \in Words, Returns(c, value)
  PROVE  Shape'
  BY WordsType DEF Shape, Returns, Goes, space

\* Who sees the key change has seen a word more.
LEMMA SeenShape ==
  ASSUME Shape, Seen, key' \in Words
  PROVE  stood' \in [Callers -> SUBSET Words] /\ removed' \subseteq Callers
  BY DEF Shape, Seen

LEMMA AnswersShape ==
  ASSUME Shape, NEW c \in Callers, NEW value \in Words, Answers(c, value),
         key' \in Words, stood' \in [Callers -> SUBSET Words], removed' \subseteq Callers,
         added' \subseteq Callers \X Nat
  PROVE  Shape'
  BY DEF Shape, Answers

\* Every step keeps the types.
LEMMA NextShape == IInv /\ [Next]_vars => Shape'
  <1> SUFFICES ASSUME IInv, [Next]_vars PROVE Shape'
    OBVIOUS
  <1>0. Shape /\ Counted
    BY DEF IInv
  <1>1. CASE UNCHANGED vars
    BY <1>0, <1>1 DEF vars, Shape
  <1>2. CASE Tick
    <2>1. key' \in Words
      BY <1>0, <1>2, WordsType DEF Tick, Shape
    <2>2. QED
      BY <1>0, <1>2, <2>1, SeenShape DEF Tick, Shape
  <1>3. ASSUME NEW c \in Callers, Call(c) PROVE Shape'
    <2>1. PICK op \in Ops : \E ttl \in Ttls(op) :
                 /\ call' = [call EXCEPT ![c] = [op |-> op, ttl |-> ttl, was |-> result[c]]]
                 /\ pc' = [pc EXCEPT ![c] = IF op = "get or set" THEN "get" ELSE "once"]
      BY <1>3 DEF Call
    <2>2. PICK ttl \in Nat : call' = [call EXCEPT ![c] = [op |-> op, ttl |-> ttl, was |-> result[c]]]
      BY <2>1, TtlsType
    <2>3. call' \in [Callers -> [op : Ops, ttl : Nat, was : Words]]
      BY <1>0, <2>2 DEF Shape
    <2>4. pc' \in [Callers -> {"idle", "once", "get", "store", "again"}]
      BY <1>0, <2>1 DEF Shape
    <2>5. calls' \in [Callers -> Nat] /\ stood' \in [Callers -> SUBSET Words]
      <3>1. calls[c] + 1 \in Nat /\ {key} \subseteq Words
        <4>1. calls[c] \in Nat /\ key \in Words
          BY <1>0 DEF Shape
        <4>2. QED
          BY <4>1
      <3>2. QED
        BY <1>0, <1>3, <3>1 DEF Call, Shape
    <2>6. QED
      BY <1>0, <1>3, <2>3, <2>4, <2>5, WordsType DEF Call, Shape, space
  <1>4. ASSUME NEW c \in Callers, Answered(c) \/ Hits(c) \/ Stored(c) \/ ReadsAgain(c) \/ Fails(c)
        PROVE  Shape'
    <2>1. answer[c] \in Words /\ Made(c) \in Words /\ NoKey \in Words
      BY <1>0, WordsType DEF Shape
    <2>2. \E value \in Words : Returns(c, value)
      BY <1>4, <2>1 DEF Answered, Hits, Stored, ReadsAgain, Fails
    <2>3. QED
      BY <1>0, <2>2, ReturnsShape
  <1>5. ASSUME NEW c \in Callers, Loads(c) \/ StoresLate(c) PROVE Shape'
    <2>1. CASE Loads(c)
      BY <1>0, <2>1, WordsType DEF Loads, Goes, Shape, space
    <2>2. CASE StoresLate(c)
      BY <1>0, <2>2, WordsType DEF StoresLate, Goes, Shape, space
    <2>3. QED
      BY <1>5, <2>1, <2>2
  <1>6. ASSUME NEW c \in Callers, RunsGet(c) PROVE Shape'
    BY <1>0, <1>6, AnswersShape DEF RunsGet, Shape, space, history
  <1>7. ASSUME NEW c \in Callers, RunsSet(c) PROVE Shape'
    <2>1. Made(c) \in Words /\ Yes \in Words
      BY <1>0, WordsType DEF Shape
    <2>2. Answers(c, Yes) /\ key' = Made(c) /\ added' = {} /\ Seen
      BY <1>7 DEF RunsSet, Writes
    <2>3. QED
      BY <1>0, <2>1, <2>2, SeenShape, AnswersShape
  <1>8. ASSUME NEW c \in Callers, RunsSetNot(c) PROVE Shape'
    BY <1>0, <1>8, AnswersShape, WordsType DEF RunsSetNot, Shape, space, history
  <1>9. ASSUME NEW c \in Callers, RunsDelete(c) PROVE Shape'
    <2>1. \E value \in Words : Answers(c, value)
      BY <1>9, WordsType DEF RunsDelete
    <2>2. key' \in Words /\ Seen /\ added' \subseteq Callers \X Nat
      BY <1>0, <1>9, WordsType DEF RunsDelete, Shape
    <2>3. QED
      BY <1>0, <2>1, <2>2, SeenShape, AnswersShape
  <1>10. ASSUME NEW c \in Callers, RunsIncr(c) PROVE Shape'
    <2>1. key[3] + 1 \in Nat
      <3>1. key[3] \in Nat
        BY <1>0 DEF Shape, Words
      <3>2. QED
        BY <3>1
    <2>2. key' \in Words /\ Seen /\ Answers(c, key')
      BY <1>10, <2>1, WordsType DEF RunsIncr
    <2>3. added' \subseteq Callers \X Nat
      BY <1>0, <1>10 DEF RunsIncr, Shape
    <2>4. QED
      BY <1>0, <2>2, <2>3, SeenShape, AnswersShape
  <1>11. ASSUME NEW c \in Callers, RunsIncrNot(c) PROVE Shape'
    BY <1>0, <1>11, WordsType, ReturnsShape DEF RunsIncrNot
  <1>12. ASSUME NEW c \in Callers, RunsExpire(c) PROVE Shape'
    <2>1. \E value \in Words : Answers(c, value)
      BY <1>12, WordsType DEF RunsExpire
    <2>2. QED
      BY <1>0, <1>12, <2>1, AnswersShape DEF RunsExpire, Shape
  <1>13. QED
    BY <1>1, <1>2, <1>3, <1>4, <1>5, <1>6, <1>7, <1>8, <1>9, <1>10, <1>11, <1>12 DEF Next
-----------------------------------------------------------------------------
(* What a call gives *)

\* AnswersStand and RacersAgree, of one caller.
Stands(c) == Given(c) => result[c] \in stood[c] \/ (result[c] = Made(c) /\ NoKey \in stood[c])
Agrees(c) == Given(c) /\ c \notin removed => key = result[c]

Good(c) == Busy(c) /\ Witnessed(c) /\ Holding(c) /\ Stands(c) /\ Agrees(c)

LEMMA Apart ==
  /\ Yes # No /\ NoKey \notin {Yes, No, Unanswered} /\ Unanswered \notin {Yes, No}
  /\ \A c \in Callers : Made(c) # NoKey /\ Made(c)[1] = "made"
  /\ \A n : Count(n) # NoKey /\ Count(n) # Unanswered /\ Count(n)[1] = "count" /\ Count(n)[3] = n
  /\ NoKey[1] # "count" /\ NoKey[3] = 0
  BY DEF Yes, No, NoKey, Unanswered, Made, Count

\* One that returns what it may.
LEMMA ReturnsGood ==
  ASSUME Shape, \A d \in Callers : Good(d), NEW c \in Callers, NEW value \in Words, Returns(c, value),
         call[c].op = "get or set" /\ value # NoKey =>
           /\ value \in stood[c] \/ (value = Made(c) /\ NoKey \in stood[c])
           /\ c \notin removed => key = value
  PROVE  \A d \in Callers : Good(d)'
  <1> SUFFICES ASSUME NEW d \in Callers PROVE Good(d)'
    OBVIOUS
  <1>1. CASE d = c
    BY <1>1 DEF Shape, Returns, Goes, space, Good, Busy, Witnessed, Holding, Stands, Agrees, Given, Made
  <1>2. CASE d # c
    <2>1. Good(d)
      OBVIOUS
    <2>2. QED
      BY <1>2, <2>1 DEF Shape, Returns, Goes, space, Good, Busy, Witnessed, Holding, Stands, Agrees, Given, Made
  <1>3. QED
    BY <1>1, <1>2

\* One that begins a call has seen what the key holds.
LEMMA CallGood ==
  ASSUME Shape, \A d \in Callers : Good(d), NEW c \in Callers, Call(c)
  PROVE  \A d \in Callers : Good(d)'
  <1> SUFFICES ASSUME NEW d \in Callers PROVE Good(d)'
    OBVIOUS
  <1>0. PICK op \in Ops : \E ttl \in Ttls(op) :
                 /\ call' = [call EXCEPT ![c] = [op |-> op, ttl |-> ttl, was |-> result[c]]]
                 /\ pc' = [pc EXCEPT ![c] = IF op = "get or set" THEN "get" ELSE "once"]
    BY DEF Call
  <1>1. CASE d = c
    <2>0. answer[c] = Unanswered
      BY DEF Call, Good, Busy
    <2>1. /\ pc'[c] = (IF op = "get or set" THEN "get" ELSE "once") /\ call'[c].op = op
          /\ answer'[c] = Unanswered /\ result'[c] = NoKey /\ key \in stood'[c] /\ key' = key
      <3>1. call'[c].op = op
        <4>1. PICK ttl : call' = [call EXCEPT ![c] = [op |-> op, ttl |-> ttl, was |-> result[c]]]
          BY <1>0
        <4>2. QED
          BY <4>1 DEF Shape
      <3>2. pc'[c] = IF op = "get or set" THEN "get" ELSE "once"
        BY <1>0 DEF Shape
      <3>3. answer'[c] = Unanswered /\ key' = key
        BY <2>0 DEF Call, space
      <3>4. result'[c] = NoKey /\ key \in stood'[c]
        BY DEF Call, Shape
      <3>5. QED
        BY <3>1, <3>2, <3>3, <3>4
    <2>2. QED
      BY <1>1, <2>1 DEF Good, Busy, Witnessed, Holding, Stands, Agrees, Given
  <1>2. CASE d # c
    <2>1. Good(d)
      OBVIOUS
    <2>2. /\ pc'[d] = pc[d] /\ answer'[d] = answer[d] /\ result'[d] = result[d] /\ stood'[d] = stood[d]
          /\ calls'[d] = calls[d] /\ call'[d] = call[d] /\ (d \in removed' <=> d \in removed) /\ key' = key
      BY <1>0, <1>2 DEF Call, Shape, space
    <2>3. QED
      BY <2>1, <2>2 DEF Good, Busy, Witnessed, Holding, Stands, Agrees, Given, Made
  <1>3. QED
    BY <1>1, <1>2

\* Going on within a call.
LEMMA LoadsGood ==
  ASSUME Shape, \A d \in Callers : Good(d), NEW c \in Callers, Loads(c) \/ StoresLate(c)
  PROVE  \A d \in Callers : Good(d)'
  <1> SUFFICES ASSUME NEW d \in Callers PROVE Good(d)'
    OBVIOUS
  <1>1. CASE d = c
    <2>1. pc[c] # "idle" /\ answer'[c] = Unanswered /\ result'[c] = result[c] /\ key' = key
          /\ removed' = removed
      BY DEF Loads, StoresLate, Goes, Shape, space
    <2>2. pc'[c] \in {"store", "again"} /\ (pc'[c] = "again" => pc[c] = "store" /\ answer[c] = No)
          /\ key \in stood'[c]
      BY DEF Loads, StoresLate, Goes, Shape, Good, Witnessed
    <2>3. Good(c) /\ result[c] = NoKey
      BY <2>1 DEF Good, Busy
    <2>4. QED
      BY <1>1, <2>1, <2>2, <2>3, Apart DEF Good, Busy, Witnessed, Holding, Stands, Agrees, Given
  <1>2. CASE d # c
    <2>1. Good(d)
      OBVIOUS
    <2>2. /\ pc'[d] = pc[d] /\ answer'[d] = answer[d] /\ result'[d] = result[d] /\ stood'[d] = stood[d]
          /\ calls'[d] = calls[d] /\ call'[d] = call[d] /\ removed' = removed /\ key' = key
      BY <1>2 DEF Loads, StoresLate, Goes, Shape, space
    <2>3. QED
      BY <2>1, <2>2 DEF Good, Busy, Witnessed, Holding, Stands, Agrees, Given, Made
  <1>3. QED
    BY <1>1, <1>2

\* A caller the store does not answer, while the key may change.
LEMMA SeenGood ==
  ASSUME Shape, NEW d \in Callers, Good(d), Seen, answer'[d] = answer[d],
         UNCHANGED <<pc, call, result, calls>>
  PROVE  Good(d)'
  <1>1. Busy(d)'
    BY DEF Good, Busy
  <1>2. Witnessed(d)'
    BY DEF Shape, Good, Witnessed, Seen, Made
  <1>3. d \notin removed' => d \notin removed /\ key \in {NoKey, key'}
    BY DEF Seen
  <1>4. Holding(d)'
    BY <1>3, Apart DEF Good, Holding, Made
  <1>5. Stands(d)'
    <2>1. CASE pc[d] = "idle"
      BY <2>1 DEF Shape, Good, Stands, Given, Seen, Made
    <2>2. CASE pc[d] # "idle"
      BY <2>2 DEF Good, Busy, Stands, Given
    <2>3. QED
      BY <2>1, <2>2
  <1>6. Agrees(d)'
    BY <1>3 DEF Good, Agrees, Given
  <1>7. QED
    BY <1>1, <1>2, <1>4, <1>5, <1>6 DEF Good

\* The caller the store answers, when what it did is the only news.
LEMMA AnsweredGood ==
  ASSUME Shape, NEW c \in Callers, Good(c), pc[c] # "idle", NEW value, Answers(c, value),
         key' \in stood'[c],
         pc[c] \in {"get", "again"} => value = key' /\ key' = key /\ removed' = removed,
         pc[c] = "store" /\ value = Yes => key' = Made(c),
         pc[c] = "store" /\ value = No => key' # NoKey
  PROVE  Good(c)'
  <1>1. /\ answer'[c] = value /\ pc' = pc /\ call' = call /\ result' = result /\ calls' = calls
        /\ result[c] = NoKey
    BY DEF Answers, Shape, Good, Busy
  <1>2. Busy(c)' /\ Stands(c)' /\ Agrees(c)'
    BY <1>1 DEF Good, Busy, Stands, Agrees, Given
  <1>3. Witnessed(c)'
    BY <1>1 DEF Witnessed, Made
  <1>4. Holding(c)'
    BY <1>1 DEF Good, Holding, Made
  <1>5. QED
    BY <1>2, <1>3, <1>4 DEF Good

\* The others lose sight of nothing, and the caller is answered.
LEMMA StatementGood ==
  ASSUME Shape, \A d \in Callers : Good(d), NEW c \in Callers, pc[c] # "idle", NEW value,
         Answers(c, value),
         Seen \/ UNCHANGED <<key, stood, removed>>,
         pc[c] \in {"get", "again"} => value = key' /\ key' = key /\ removed' = removed,
         pc[c] = "store" /\ value = Yes => key' = Made(c),
         pc[c] = "store" /\ value = No => key' # NoKey
  PROVE  \A d \in Callers : Good(d)'
  <1>1. UNCHANGED <<pc, call, result, calls>>
    BY DEF Answers
  <1>2. key' \in stood'[c]
    BY DEF Seen, Shape, Good, Witnessed
  <1>3. Good(c)'
    BY <1>2, AnsweredGood
  <1>4. ASSUME NEW d \in Callers, d # c PROVE Good(d)'
    <2>1. answer'[d] = answer[d]
      BY <1>4 DEF Answers, Shape
    <2>2. CASE Seen
      BY <1>1, <2>1, <2>2, SeenGood
    <2>3. CASE UNCHANGED <<key, stood, removed>>
      BY <1>1, <2>1, <2>3 DEF Good, Busy, Witnessed, Holding, Stands, Agrees, Given, Made
    <2>4. QED
      BY <2>2, <2>3
  <1>5. QED
    BY <1>3, <1>4

LEMMA InvGood == IInv => Shape /\ Counted /\ \A c \in Callers : Good(c) /\ Fresh(c)
  BY DEF IInv, AnswersStand, RacersAgree, Good, Stands, Agrees

LEMMA NextGood == IInv /\ [Next]_vars => \A d \in Callers : Good(d)'
  <1> SUFFICES ASSUME IInv, [Next]_vars PROVE \A d \in Callers : Good(d)'
    OBVIOUS
  <1>0. Shape /\ \A d \in Callers : Good(d)
    BY InvGood
  <1>a. ASSUME NEW c \in Callers
        PROVE  /\ key \in Words /\ answer[c] \in Words /\ Made(c) \in Words /\ NoKey \in Words
               /\ Good(c)
    BY <1>0, WordsType DEF Shape
  <1>1. CASE UNCHANGED vars
    BY <1>0, <1>1 DEF vars, Good, Busy, Witnessed, Holding, Stands, Agrees, Given, Made
  <1>2. CASE Tick
    BY <1>0, <1>2, SeenGood DEF Tick
  <1>3. ASSUME NEW c \in Callers, Call(c) PROVE \A d \in Callers : Good(d)'
    BY <1>0, <1>3, CallGood
  <1>4. ASSUME NEW c \in Callers, Answered(c) \/ Fails(c) \/ RunsIncrNot(c)
        PROVE  \A d \in Callers : Good(d)'
    <2>1. \E value \in Words :
            Returns(c, value) /\ (call[c].op = "get or set" => value = NoKey)
      BY <1>4, <1>a DEF Answered, Fails, RunsIncrNot, Good, Busy
    <2>2. QED
      BY <1>0, <2>1, ReturnsGood
  <1>5. ASSUME NEW c \in Callers, Hits(c) PROVE \A d \in Callers : Good(d)'
    <2>1. answer[c] \in stood[c] /\ (c \notin removed => key = answer[c]) /\ Returns(c, answer[c])
      BY <1>5, <1>a DEF Hits, Good, Witnessed, Holding
    <2>2. QED
      BY <1>0, <1>a, <2>1, ReturnsGood
  <1>6. ASSUME NEW c \in Callers, Stored(c) PROVE \A d \in Callers : Good(d)'
    <2>1. Made(c) \in stood[c] /\ (c \notin removed => key = Made(c)) /\ Returns(c, Made(c))
      BY <1>6, <1>a DEF Stored, Good, Witnessed, Holding
    <2>2. QED
      BY <1>0, <1>a, <2>1, ReturnsGood
  <1>7. ASSUME NEW c \in Callers, ReadsAgain(c) PROVE \A d \in Callers : Good(d)'
    <2>1. answer[c] \in stood[c]
          /\ (c \notin removed => answer[c] # NoKey /\ key = answer[c])
      BY <1>7, <1>a DEF ReadsAgain, Good, Witnessed, Holding
    <2>2. CASE answer[c] = NoKey
      BY <1>0, <1>7, <1>a, <2>1, <2>2, ReturnsGood DEF ReadsAgain
    <2>3. CASE answer[c] # NoKey
      BY <1>0, <1>7, <1>a, <2>1, <2>3, ReturnsGood DEF ReadsAgain
    <2>4. QED
      BY <2>2, <2>3
  <1>8. ASSUME NEW c \in Callers, Loads(c) \/ StoresLate(c) PROVE \A d \in Callers : Good(d)'
    BY <1>0, <1>8, LoadsGood
  <1>9. ASSUME NEW c \in Callers, RunsGet(c) PROVE \A d \in Callers : Good(d)'
    <2>1. pc[c] # "idle" /\ pc[c] # "store"
      BY <1>9 DEF RunsGet, Out
    <2>2. Answers(c, key) /\ UNCHANGED <<key, stood, removed>>
      BY <1>9 DEF RunsGet, space, history
    <2>3. QED
      BY <1>0, <2>1, <2>2, StatementGood
  <1>10. ASSUME NEW c \in Callers, RunsSet(c) PROVE \A d \in Callers : Good(d)'
    <2>1. pc[c] \in {"once", "store"}
      BY <1>10 DEF RunsSet, Out, Sets
    <2>2. Answers(c, Yes) /\ key' = Made(c) /\ Seen
      BY <1>10 DEF RunsSet, Writes
    <2>3. QED
      BY <1>0, <2>1, <2>2, Apart, StatementGood
  <1>11. ASSUME NEW c \in Callers, RunsSetNot(c) PROVE \A d \in Callers : Good(d)'
    <2>1. pc[c] \in {"once", "store"} /\ (pc[c] = "store" => key # NoKey)
      BY <1>11 DEF RunsSetNot, Out, Sets, Holds
    <2>2. Answers(c, No) /\ UNCHANGED <<key, stood, removed>>
      BY <1>11 DEF RunsSetNot, space, history
    <2>3. QED
      BY <1>0, <2>1, <2>2, Apart, StatementGood
  <1>12. ASSUME NEW c \in Callers, RunsDelete(c) PROVE \A d \in Callers : Good(d)'
    <2>1. pc[c] = "once" /\ Seen /\ \E value \in Words : Answers(c, value)
      BY <1>12, WordsType DEF RunsDelete, Out
    <2>2. QED
      BY <1>0, <2>1, StatementGood
  <1>13. ASSUME NEW c \in Callers, RunsIncr(c) PROVE \A d \in Callers : Good(d)'
    <2>1. pc[c] = "once" /\ Seen /\ Answers(c, key')
      BY <1>13 DEF RunsIncr, Out
    <2>2. QED
      BY <1>0, <2>1, StatementGood
  <1>14. ASSUME NEW c \in Callers, RunsExpire(c) PROVE \A d \in Callers : Good(d)'
    <2>1. pc[c] = "once" /\ UNCHANGED <<key, stood, removed>> /\ \E value \in Words : Answers(c, value)
      BY <1>14, WordsType DEF RunsExpire, Out
    <2>2. QED
      BY <1>0, <2>1, StatementGood
  <1>15. QED
    BY <1>1, <1>2, <1>3, <1>4, <1>5, <1>6, <1>7, <1>8, <1>9, <1>10, <1>11, <1>12, <1>13, <1>14 DEF Next
-----------------------------------------------------------------------------
(* What a counter counts *)

\* The increments that are in the key, when it is a count.
LEMMA NextCounted == IInv /\ [Next]_vars => Counted'
  <1> SUFFICES ASSUME IInv, [Next]_vars PROVE Counted'
    OBVIOUS
  <1>0. Shape /\ Counted /\ \A c \in Callers : Fresh(c)
    BY InvGood
  <1>1. CASE UNCHANGED <<key, added>>
    BY <1>0, <1>1 DEF Counted
  <1>2. CASE Tick
    BY <1>0, <1>2, Apart DEF Tick, Counted
  <1>3. ASSUME NEW c \in Callers, RunsSet(c) PROVE Counted'
    <2>1. key' = Made(c) /\ added' = {}
      BY <1>3 DEF RunsSet, Writes
    <2>2. QED
      BY <2>1, Apart, FS_EmptySet DEF Counted
  <1>4. ASSUME NEW c \in Callers, RunsDelete(c) PROVE Counted'
    BY <1>0, <1>4, Apart DEF RunsDelete, Counted
  <1>5. ASSUME NEW c \in Callers, RunsIncr(c) PROVE Counted'
    <2> DEFINE before == IF key = NoKey THEN {} ELSE added
    <2>1. IsFiniteSet(before) /\ Cardinality(before) \in Nat /\ key[3] = Cardinality(before)
      <3>1. CASE key = NoKey
        BY <3>1, Apart, FS_EmptySet
      <3>2. CASE key # NoKey
        BY <1>0, <1>5, <3>2, Apart, FS_CardinalityType DEF RunsIncr, Counted
      <3>3. QED
        BY <3>1, <3>2
    <2>2. <<c, calls[c]>> \notin before
      BY <1>0, <1>5 DEF RunsIncr, Fresh
    <2>3. added' = before \cup {<<c, calls[c]>>} /\ key' = Count(key[3] + 1)
      BY <1>5 DEF RunsIncr
    <2>4. IsFiniteSet(added') /\ Cardinality(added') = Cardinality(before) + 1
      BY <2>1, <2>2, <2>3, FS_AddElement
    <2>5. QED
      BY <2>1, <2>3, <2>4 DEF Counted
  <1>6. ASSUME NEW c \in Callers,
               \/ Call(c) \/ Answered(c) \/ Hits(c) \/ Loads(c) \/ Stored(c) \/ StoresLate(c)
               \/ ReadsAgain(c) \/ Fails(c)
               \/ RunsGet(c) \/ RunsSetNot(c) \/ RunsIncrNot(c) \/ RunsExpire(c)
        PROVE  UNCHANGED <<key, added>>
    BY <1>6 DEF Call, Answered, Hits, Loads, Stored, StoresLate, ReadsAgain, Fails, RunsGet,
                RunsSetNot, RunsIncrNot, RunsExpire, Returns, Goes, space, history
  <1>7. QED
    BY <1>1, <1>2, <1>3, <1>4, <1>5, <1>6 DEF Next, vars

\* A caller of which no increment is put in the key, and whose statement is as it was.
LEMMA FreshStays ==
  ASSUME Shape, NEW d \in Callers, Fresh(d),
         \A pair \in added' : pair \in added \/ pair[1] # d,
         calls'[d] = calls[d], Out(d, "incr")' => Out(d, "incr")
  PROVE  Fresh(d)'
  BY DEF Fresh, Shape

LEMMA NextFresh == IInv /\ [Next]_vars => \A d \in Callers : Fresh(d)'
  <1> SUFFICES ASSUME IInv, [Next]_vars, NEW d \in Callers PROVE Fresh(d)'
    OBVIOUS
  <1>0. Shape /\ Fresh(d) /\ calls[d] \in Nat
    BY InvGood DEF Shape
  <1>1. CASE UNCHANGED <<added, calls, pc, call, answer>>
    BY <1>0, <1>1 DEF Fresh, Out
  <1>2. CASE Tick
    BY <1>0, <1>2 DEF Tick, Fresh, Out
  <1>3. ASSUME NEW c \in Callers, Call(c) PROVE Fresh(d)'
    <2>1. PICK op \in Ops : \E ttl \in Ttls(op) :
                 /\ call' = [call EXCEPT ![c] = [op |-> op, ttl |-> ttl, was |-> result[c]]]
                 /\ pc' = [pc EXCEPT ![c] = IF op = "get or set" THEN "get" ELSE "once"]
      BY <1>3 DEF Call
    <2>2. CASE c = d
      <3>1. calls'[d] = calls[d] + 1 /\ added' = added
        BY <1>0, <1>3, <2>2 DEF Call, Shape
      <3>2. \A pair \in added : pair[1] = d => pair[2] \in Nat /\ pair[2] <= calls[d]
        BY <1>0 DEF Fresh, Shape
      <3>3. \A pair \in added : pair[1] = d => pair[2] < calls[d] + 1
        BY <1>0, <3>2
      <3>4. <<d, calls[d] + 1>> \notin added
        BY <1>0, <3>3
      <3>5. QED
        BY <1>0, <3>1, <3>2, <3>3, <3>4 DEF Fresh
    <2>3. CASE c # d
      BY <1>0, <1>3, <2>1, <2>3 DEF Call, Shape, Fresh, Out
    <2>4. QED
      BY <2>2, <2>3
  <1>4. ASSUME NEW c \in Callers,
               \/ Answered(c) \/ Hits(c) \/ Loads(c) \/ Stored(c) \/ StoresLate(c)
               \/ ReadsAgain(c) \/ Fails(c) \/ RunsIncrNot(c)
        PROVE  Fresh(d)'
    <2>1. \E to \in {"idle", "store", "again"} : Goes(c, to)
      BY <1>4 DEF Answered, Hits, Loads, Stored, StoresLate, ReadsAgain, Fails, RunsIncrNot, Returns
    <2>2. /\ added' = added /\ calls' = calls /\ call' = call
          /\ Out(d, "incr")' => Out(d, "incr")
      BY <1>0, <2>1 DEF Goes, Shape, Out
    <2>3. QED
      BY <1>0, <2>2, FreshStays
  <1>5. ASSUME NEW c \in Callers, RunsGet(c) \/ RunsSet(c) \/ RunsSetNot(c) \/ RunsDelete(c) \/ RunsExpire(c)
        PROVE  Fresh(d)'
    <2>2. calls' = calls /\ (Out(d, "incr")' => Out(d, "incr"))
      <3>1. CASE RunsGet(c)
        BY <1>0, <3>1 DEF RunsGet, Answers, Out, Shape
      <3>2. CASE ~RunsGet(c)
        <4>1. \E value \in {Yes, No} : Answers(c, value)
          BY <1>5, <3>2 DEF RunsSet, RunsSetNot, RunsDelete, RunsExpire
        <4>2. QED
          BY <1>0, <4>1, Apart DEF Answers, Out, Shape
      <3>3. QED
        BY <3>1, <3>2
    <2>3. added' \subseteq added
      BY <1>5 DEF RunsGet, RunsSet, RunsSetNot, RunsDelete, RunsExpire, Writes, history
    <2>4. QED
      BY <1>0, <2>2, <2>3, FreshStays
  <1>6. ASSUME NEW c \in Callers, RunsIncr(c) PROVE Fresh(d)'
    <2>1. Answers(c, key') /\ key' # Unanswered /\ Out(c, "incr")
      BY <1>6, Apart DEF RunsIncr
    <2>2. added' \subseteq added \cup {<<c, calls[c]>>}
      BY <1>6 DEF RunsIncr
    <2>3. CASE c = d
      <3>1. ~Out(d, "incr")' /\ calls' = calls
        BY <1>0, <2>1, <2>3 DEF Answers, Out, Shape
      <3>2. QED
        BY <1>0, <2>2, <2>3, <3>1 DEF Fresh, Shape
    <2>4. CASE c # d
      <3>1. calls' = calls /\ (Out(d, "incr")' => Out(d, "incr"))
        BY <1>0, <2>1, <2>4 DEF Answers, Out, Shape
      <3>2. QED
        BY <1>0, <2>2, <2>4, <3>1, FreshStays
    <2>5. QED
      BY <2>3, <2>4
  <1>7. QED
    BY <1>1, <1>2, <1>3, <1>4, <1>5, <1>6 DEF Next, vars
-----------------------------------------------------------------------------
(* The theorems *)

LEMMA Invariance == Spec => []IInv
  <1>1. IInv /\ [Next]_vars => IInv'
    <2> SUFFICES ASSUME IInv, [Next]_vars PROVE IInv'
      OBVIOUS
    <2>1. Shape' /\ Counted' /\ \A c \in Callers : Good(c)' /\ Fresh(c)'
      BY NextShape, NextGood, NextCounted, NextFresh
    <2>2. QED
      BY <2>1 DEF IInv, AnswersStand, RacersAgree, Good, Stands, Agrees
  <1>2. QED
    BY InitInv, <1>1, PTL DEF Spec

\* However callers race, values expire and answers are lost, what a get_or_set answers
\* was under the key while it ran, or is its own after a moment there was none
\* (cache.py:314-322).
THEOREM GetOrSetStands == Spec => []AnswersStand
  <1>1. IInv => AnswersStand
    BY DEF IInv
  <1>2. QED
    BY Invariance, <1>1, PTL

\* However many race for a key, they have the one value that is stored in hand, as long
\* as nothing removed or replaced one (cache.py:312-313).
THEOREM RacersLeaveAgreed == Spec => []RacersAgree
  <1>1. IInv => RacersAgree
    BY DEF IInv
  <1>2. QED
    BY Invariance, <1>1, PTL

\* However many callers count, and whichever answers are lost, a counter is the number
\* of calls of incr since it began, each once (cache.py:266-272).
THEOREM IncrementsOnce == Spec => []CountsOnce
  <1>1. IInv => CountsOnce
    <2> SUFFICES ASSUME IInv PROVE CountsOnce
      OBVIOUS
    <2>1. Counted
      BY DEF IInv
    <2>2. QED
      BY <2>1, Apart DEF Counted, CountsOnce
  <1>2. QED
    BY Invariance, <1>1, PTL
=============================================================================
