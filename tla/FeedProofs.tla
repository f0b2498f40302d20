----------------------------- MODULE FeedProofs -----------------------------
(***************************************************************************)
(* What a change feed hands over across drops, cut frames, refusals and    *)
(* rolled-back nodes, proved for any parts, commits, units, sockets and    *)
(* numbers of drops.                                                       *)
(***************************************************************************)
EXTENDS Feed, FiniteSetTheorems, SequenceTheorems, TLAPS

FrameIn == [kind : {"change", "progress", "refusal", "elsewhere"}, at : Nat, seq : Nat, cursor : Nat]

Shape ==
  /\ split \in BOOLEAN
  /\ log \in Seq(ChangeIn) /\ committed \in [Parts -> Nat] /\ minor \in Nat
  /\ reading \in 1 .. Len(log) + 1 /\ told \in 0 .. reading - 1
  /\ wire \in Seq(FrameIn) /\ link \in Live \cup Over
  /\ resume_from \in Nat /\ resume_cursor \in 0 .. Len(log)
  /\ given \in Seq(1 .. Len(log))

\* The log of a plain table is in the order of its sequences.
Logged ==
  /\ \A i \in DOMAIN log : log[i].part \in Logs /\ (Narrowed \/ log[i].match)
  /\ \A i \in DOMAIN log : log[i].seq <= committed[log[i].part]
  /\ ~split => \A i, j \in DOMAIN log : i <= j => log[i].seq <= log[j].seq

\* A frame that states a position of the log.
States(f) == f.kind \in {"change", "progress"}

Framed(f) ==
  /\ f.at \in 1 .. told
  /\ f.seq = log[f.at].seq /\ f.cursor = (IF split THEN f.at ELSE NoCursor)
  /\ f.kind = "change" => log[f.at].match
  /\ f.kind = "progress" /\ ~split => \A i \in DOMAIN log : f.at < i => f.seq < log[i].seq

\* What is on its way is in order, and after what was handed over.
InOrder ==
  /\ \A k \in DOMAIN wire : States(wire[k]) => Framed(wire[k])
  /\ \A j, k \in DOMAIN wire : j < k /\ States(wire[j]) /\ States(wire[k]) => wire[j].at < wire[k].at
  /\ \A k \in DOMAIN wire : States(wire[k]) => \A d \in DOMAIN given : given[d] < wire[k].at

\* The resume point is after what was handed over, and not after all that is logged.
Resumes ==
  /\ \A d \in DOMAIN given : given[d] <= told /\ Behind(given[d]) /\ log[given[d]].match
  /\ IF split THEN resume_cursor = NoCursor => resume_from = 0 ELSE resume_cursor = NoCursor
  /\ ~split => \A p \in Logs : resume_from <= committed[p] + 1
  /\ link = "up" /\ Narrowed => minor >= CONDITION_MINOR

\* A change was handed over, or is one a plain feed may lose.
Spoken(i) == i \in Given \/ (~split /\ \E j \in Given : j < i /\ Unit(j) = Unit(i))
Coming(i, q) == \E k \in 1 .. q : wire[k].kind = "change" /\ wire[k].at = i

\* Everything before a position on its way was handed over or is on its way.
Covered ==
  /\ \A q \in DOMAIN wire : States(wire[q]) =>
       \A i \in 1 .. wire[q].at : log[i].match => Spoken(i) \/ Coming(i, q)
  /\ link = "up" =>
       \A i \in 1 .. reading - 1 : log[i].match => Spoken(i) \/ Coming(i, Len(wire))

IInv == Shape /\ Logged /\ InOrder /\ Resumes /\ Covered /\ OnceInOrder /\ LossOnlyInsideUnit
-----------------------------------------------------------------------------
(* The log and its positions *)

LEMMA Typing ==
  ASSUME Shape
  PROVE  /\ Len(log) \in Nat /\ DOMAIN log = 1 .. Len(log)
         /\ \A i \in DOMAIN log : log[i].part \in Parts /\ log[i].seq \in Nat
         /\ Len(wire) \in Nat /\ DOMAIN wire = 1 .. Len(wire)
         /\ \A k \in DOMAIN wire : wire[k] \in FrameIn /\ wire[k].at \in Nat /\ wire[k].seq \in Nat
         /\ Len(given) \in Nat /\ DOMAIN given = 1 .. Len(given)
         /\ \A d \in DOMAIN given : given[d] \in DOMAIN log
         /\ told \in Nat /\ reading \in Nat /\ told < reading /\ reading <= Len(log) + 1
         /\ resume_cursor \in Nat
  <1>1. Len(log) \in Nat /\ DOMAIN log = 1 .. Len(log) /\ \A i \in 1 .. Len(log) : log[i] \in ChangeIn
    BY LenProperties, ElementOfSeq DEF Shape
  <1>2. Len(wire) \in Nat /\ DOMAIN wire = 1 .. Len(wire) /\ \A k \in 1 .. Len(wire) : wire[k] \in FrameIn
    BY LenProperties, ElementOfSeq DEF Shape
  <1>3. /\ Len(given) \in Nat /\ DOMAIN given = 1 .. Len(given)
        /\ \A d \in 1 .. Len(given) : given[d] \in 1 .. Len(log)
    BY LenProperties, ElementOfSeq DEF Shape
  <1>4. told \in Nat /\ reading \in Nat /\ told < reading /\ reading <= Len(log) + 1 /\ resume_cursor \in Nat
    BY <1>1 DEF Shape
  <1>5. \A i \in DOMAIN log : log[i].part \in Parts /\ log[i].seq \in Nat
    BY <1>1 DEF ChangeIn
  <1>6. \A k \in DOMAIN wire : wire[k] \in FrameIn /\ wire[k].at \in Nat /\ wire[k].seq \in Nat
    BY <1>2 DEF FrameIn
  <1>7. QED
    BY <1>1, <1>2, <1>3, <1>4, <1>5, <1>6

LEMMA OneLog == ~split => \A p, q \in Logs : p = q
  BY DEF Logs

LEMMA UpTo == \A n \in Nat : IsFiniteSet(1 .. n) /\ Cardinality(1 .. n) = n
  <1> SUFFICES ASSUME NEW n \in Nat PROVE IsFiniteSet(1 .. n) /\ Cardinality(1 .. n) = n
    OBVIOUS
  <1>1. 1 \in Int /\ n \in Int
    OBVIOUS
  <1>2. IsFiniteSet(1 .. n) /\ Cardinality(1 .. n) = IF 1 > n THEN 0 ELSE n - 1 + 1
    BY <1>1, FS_Interval
  <1>3. QED
    BY <1>2

\* A feed resumed starts after what is behind the resume point, and at nothing else.
LEMMA StartSplits ==
  ASSUME Shape, Logged, Resumes
  PROVE  /\ StartOf(resume_from, resume_cursor) \in 1 .. Len(log) + 1
         /\ \A i \in DOMAIN log : Behind(i) <=> i < StartOf(resume_from, resume_cursor)
  <1>1. CASE split
    <2>1. CASE resume_cursor # NoCursor
      BY <1>1, <2>1, Typing DEF StartOf, Behind, NoCursor, Shape
    <2>2. CASE resume_cursor = NoCursor
      <3>1. {i \in DOMAIN log : log[i].seq < resume_from} = {}
        BY <1>1, <2>2, Typing DEF Resumes
      <3>2. StartOf(resume_from, resume_cursor) = 1
        BY <2>2, <3>1, FS_EmptySet DEF StartOf
      <3>3. QED
        BY <1>1, <2>2, <3>2, Typing DEF Behind, NoCursor
    <2>3. QED
      BY <2>1, <2>2
  <1>2. CASE ~split
    <2> DEFINE passed == {i \in DOMAIN log : log[i].seq < resume_from}
    <2>1. passed \subseteq 1 .. Len(log) /\ Len(log) \in Nat
      BY Typing
    <2>2. IsFiniteSet(passed) /\ Cardinality(passed) \in Nat /\ Cardinality(passed) <= Len(log)
      <3>1. IsFiniteSet(1 .. Len(log)) /\ Cardinality(1 .. Len(log)) = Len(log)
        BY <2>1, UpTo
      <3>2. QED
        BY <2>1, <3>1, FS_Subset, FS_CardinalityType
    <2>3. ASSUME NEW i \in DOMAIN log, i \in passed PROVE i <= Cardinality(passed)
      <3>1. 1 .. i \subseteq passed
        BY <1>2, <2>3, Typing DEF Logged, Shape
      <3>2. i \in Nat /\ IsFiniteSet(1 .. i) /\ Cardinality(1 .. i) = i
        BY <2>1, Typing, UpTo
      <3>3. QED
        BY <2>2, <3>1, <3>2, FS_Subset
    <2>4. ASSUME NEW i \in DOMAIN log, i \notin passed PROVE Cardinality(passed) < i
      <3>1. i \in Nat /\ i >= 1
        BY Typing
      <3>2. passed \subseteq 1 .. i - 1
        <4>1. ASSUME NEW j \in passed, j >= i PROVE FALSE
          BY <1>2, <2>4, <4>1, Typing DEF Logged, Shape
        <4>2. QED
          BY <2>1, <3>1, <4>1
      <3>3. IsFiniteSet(1 .. i - 1) /\ Cardinality(1 .. i - 1) = i - 1
        BY <3>1, UpTo
      <3>4. QED
        BY <2>2, <3>1, <3>2, <3>3, FS_Subset
    <2>5. StartOf(resume_from, resume_cursor) = 1 + Cardinality(passed)
      BY <1>2 DEF StartOf, Resumes
    <2>6. \A i \in DOMAIN log : Behind(i) <=> i \in passed
      BY <1>2 DEF Behind
    <2>7. StartOf(resume_from, resume_cursor) \in 1 .. Len(log) + 1
      BY <2>1, <2>2, <2>5
    <2>8. ASSUME NEW i \in DOMAIN log PROVE i \in passed <=> i < 1 + Cardinality(passed)
      <3>1. i \in Nat
        BY Typing
      <3>2. CASE i \in passed
        <4>1. i <= Cardinality(passed)
          BY <2>3, <3>2
        <4>2. QED
          BY <2>2, <3>1, <3>2, <4>1
      <3>3. CASE i \notin passed
        <4>1. Cardinality(passed) < i
          BY <2>4, <3>3
        <4>2. QED
          BY <2>2, <3>1, <3>3, <4>1
      <3>4. QED
        BY <3>2, <3>3
    <2>9. QED
      BY <2>5, <2>6, <2>7, <2>8
  <1>3. QED
    BY <1>1, <1>2 DEF Shape
-----------------------------------------------------------------------------
(* The node *)

LEMMA InitInv == Init => IInv
  <1> SUFFICES ASSUME Init PROVE IInv
    OBVIOUS
  <1>1. Shape
    BY DEF Init, Shape, Live, CONDITION_MINOR, NoCursor
  <1>2. Logged /\ InOrder /\ Covered /\ OnceInOrder /\ LossOnlyInsideUnit
    BY DEF Init, Logged, InOrder, Covered, OnceInOrder, LossOnlyInsideUnit
  <1>3. Resumes
    <2>1. \A p \in Logs : committed[p] = 0
      BY FeedAssumption DEF Init, Logs
    <2>2. ~split => \A p \in Logs : resume_from <= committed[p] + 1
      BY <2>1 DEF Init
    <2>3. QED
      BY <2>2 DEF Init, Resumes, NoCursor, CONDITION_MINOR
  <1>4. QED
    BY <1>1, <1>2, <1>3 DEF IInv

\* What a commit does to the log.
LEMMA CommitGrows ==
  ASSUME Shape, NEW p \in Parts, Commit(p)
  PROVE  /\ p \in Logs /\ log' \in Seq(ChangeIn) /\ Len(log') \in Nat /\ Len(log') >= Len(log)
         /\ \A i \in 1 .. Len(log) : log'[i] = log[i]
         /\ \A i \in Len(log) + 1 .. Len(log') :
              /\ log'[i].part = p /\ log'[i].seq = committed[p] + 1
              /\ Narrowed \/ log'[i].match
         /\ committed' = [committed EXCEPT ![p] = @ + 1]
         /\ UNCHANGED <<split, minor, reading, told, wire, link, sub, given>>
  <1>1. PICK n \in 1 .. MaxUnit : \E unit \in [1 .. n -> Matches] :
               log' = log \o [k \in 1 .. n |-> [part |-> p, seq |-> committed[p] + 1, match |-> unit[k]]]
    BY DEF Commit
  <1>2. PICK unit \in [1 .. n -> Matches] :
               log' = log \o [k \in 1 .. n |-> [part |-> p, seq |-> committed[p] + 1, match |-> unit[k]]]
    BY <1>1
  <1> DEFINE rest == [k \in 1 .. n |-> [part |-> p, seq |-> committed[p] + 1, match |-> unit[k]]]
  <1>3. n \in Nat /\ committed[p] + 1 \in Nat
    <2>1. committed[p] \in Nat
      BY DEF Shape
    <2>2. MaxUnit \in Nat
      BY FeedAssumption
    <2>3. QED
      BY <2>1, <2>2
  <1>4. \A k \in 1 .. n : rest[k] \in ChangeIn /\ (Narrowed \/ rest[k].match)
    BY <1>3 DEF ChangeIn, Matches
  <1>5. rest \in Seq(ChangeIn) /\ Len(rest) = n
    BY <1>3, <1>4
  <1>6. log' \in Seq(ChangeIn) /\ Len(log') = Len(log) + n /\ Len(log) \in Nat
    <2>1. log \in Seq(ChangeIn)
      BY DEF Shape
    <2>2. QED
      BY <1>2, <1>5, <2>1, ConcatProperties, LenProperties
  <1>7. \A i \in 1 .. Len(log) : log'[i] = log[i]
    BY <1>2, <1>5, <1>6 DEF Shape
  <1>8. \A i \in Len(log) + 1 .. Len(log') : i - Len(log) \in 1 .. n /\ log'[i] = rest[i - Len(log)]
    BY <1>2, <1>3, <1>5, <1>6 DEF Shape
  <1>9. \A i \in Len(log) + 1 .. Len(log') :
           /\ log'[i].part = p /\ log'[i].seq = committed[p] + 1
           /\ Narrowed \/ log'[i].match
    <2> SUFFICES ASSUME NEW i \in Len(log) + 1 .. Len(log')
                 PROVE  log'[i].part = p /\ log'[i].seq = committed[p] + 1 /\ (Narrowed \/ log'[i].match)
      OBVIOUS
    <2>1. PICK k \in 1 .. n : log'[i] = rest[k]
      BY <1>8
    <2>2. rest[k].part = p /\ rest[k].seq = committed[p] + 1
      OBVIOUS
    <2>3. QED
      BY <1>4, <2>1, <2>2
  <1>10. /\ p \in Logs /\ committed' = [committed EXCEPT ![p] = @ + 1]
         /\ UNCHANGED <<split, minor, reading, told, wire, link, sub, given>>
    BY DEF Commit, caller
  <1>11. Len(log') \in Nat /\ Len(log') >= Len(log)
    BY <1>3, <1>6
  <1>12. QED
    BY <1>6, <1>7, <1>9, <1>10, <1>11

LEMMA CommitLonger ==
  ASSUME Shape, NEW p \in Parts, Commit(p)
  PROVE  Len(log') > Len(log)
  <1>1. PICK n \in 1 .. MaxUnit : \E unit \in [1 .. n -> Matches] :
               log' = log \o [k \in 1 .. n |-> [part |-> p, seq |-> committed[p] + 1, match |-> unit[k]]]
    BY DEF Commit
  <1>2. PICK unit \in [1 .. n -> Matches] :
               log' = log \o [k \in 1 .. n |-> [part |-> p, seq |-> committed[p] + 1, match |-> unit[k]]]
    BY <1>1
  <1>3. n \in Nat /\ n > 0 /\ committed[p] + 1 \in Nat
    BY FeedAssumption DEF Shape
  <1>4. \A k \in 1 .. n : [part |-> p, seq |-> committed[p] + 1, match |-> unit[k]] \in ChangeIn
    BY <1>3 DEF ChangeIn, Matches
  <1> DEFINE rest == [k \in 1 .. n |-> [part |-> p, seq |-> committed[p] + 1, match |-> unit[k]]]
  <1>5. rest \in Seq(ChangeIn) /\ Len(rest) = n
    BY <1>3, <1>4
  <1>6. Len(log \o rest) = Len(log) + Len(rest) /\ Len(log) \in Nat
    BY <1>5, ConcatProperties, LenProperties DEF Shape
  <1>7. QED
    BY <1>2, <1>3, <1>5, <1>6

\* What was handed over stays so, and stays in its commit.
LEMMA SpokenStays ==
  ASSUME Shape, split' = split, \A i \in 1 .. Len(log) : log'[i] = log[i], Given \subseteq Given',
         NEW i \in DOMAIN log, Spoken(i)
  PROVE  Spoken(i)'
  <1>1. Unit(i)' = Unit(i) /\ \A j \in Given : Unit(j)' = Unit(j)
    BY Typing DEF Unit, Given
  <1>2. QED
    BY <1>1 DEF Spoken

LEMMA CommitInv ==
  ASSUME IInv, NEW p \in Parts, Commit(p)
  PROVE  IInv'
  <1>0. Shape /\ Logged /\ InOrder /\ Resumes /\ Covered /\ OnceInOrder /\ LossOnlyInsideUnit
    BY DEF IInv
  <1>a. /\ p \in Logs /\ log' \in Seq(ChangeIn) /\ Len(log') \in Nat /\ Len(log') >= Len(log)
        /\ \A i \in 1 .. Len(log) : log'[i] = log[i]
        /\ \A i \in Len(log) + 1 .. Len(log') :
              /\ log'[i].part = p /\ log'[i].seq = committed[p] + 1
              /\ Narrowed \/ log'[i].match
        /\ committed' = [committed EXCEPT ![p] = @ + 1]
        /\ UNCHANGED <<split, minor, reading, told, wire, link, sub, given>>
    BY <1>0, CommitGrows
  <1>b. /\ split' = split /\ minor' = minor /\ reading' = reading /\ told' = told /\ wire' = wire
        /\ link' = link /\ given' = given /\ resume_from' = resume_from
        /\ resume_cursor' = resume_cursor /\ Logs' = Logs
    BY <1>a DEF sub, Logs
  <1>c. DOMAIN log' = 1 .. Len(log')
    BY <1>a, LenProperties
  <1>d. committed' \in [Parts -> Nat] /\ committed'[p] = committed[p] + 1
        /\ \A q \in Parts : committed[q] \in Nat /\ committed[q] <= committed'[q]
    BY <1>0, <1>a DEF Shape
  <1>e. \A i \in DOMAIN log' : i \in DOMAIN log \/ i \in Len(log) + 1 .. Len(log')
    BY <1>0, <1>a, <1>c, Typing
  <1>f. ~split => \A i \in DOMAIN log : log[i].seq <= committed[p]
    BY <1>0, <1>a, OneLog, Typing DEF Logged
  <1>1. Shape'
    <2>1. given' \in Seq(1 .. Len(log'))
      <3>1. 1 .. Len(log) \subseteq 1 .. Len(log')
        BY <1>0, <1>a, Typing
      <3>2. QED
        BY <1>0, <1>b, <3>1, SeqMonotonic DEF Shape
    <2>2. reading' \in 1 .. Len(log') + 1 /\ resume_cursor' \in 0 .. Len(log')
      BY <1>0, <1>a, <1>b, Typing DEF Shape
    <2>3. QED
      BY <1>0, <1>a, <1>b, <1>d, <2>1, <2>2 DEF Shape
  <1>2. Logged'
    <2>1. \A i \in DOMAIN log' : log'[i].part \in Logs /\ (Narrowed \/ log'[i].match)
      BY <1>0, <1>a, <1>e, Typing DEF Logged
    <2>2. \A i \in DOMAIN log' : log'[i].seq <= committed'[log'[i].part]
      <3> SUFFICES ASSUME NEW i \in DOMAIN log' PROVE log'[i].seq <= committed'[log'[i].part]
        OBVIOUS
      <3>1. CASE i \in DOMAIN log
        <4>1. log'[i] = log[i] /\ log[i].seq <= committed[log[i].part]
          BY <1>0, <1>a, <3>1, Typing DEF Logged
        <4>2. log[i].part \in Parts /\ log[i].seq \in Nat
          BY <1>0, <3>1, Typing
        <4>3. committed[log[i].part] <= committed'[log[i].part] /\ committed[log[i].part] \in Nat
              /\ committed'[log[i].part] \in Nat
          BY <1>d, <4>2
        <4>4. QED
          BY <4>1, <4>2, <4>3
      <3>2. CASE i \in Len(log) + 1 .. Len(log')
        BY <1>a, <1>d, <3>2
      <3>3. QED
        BY <1>e, <3>1, <3>2
    <2>3. ASSUME ~split, NEW i \in DOMAIN log', NEW j \in DOMAIN log', i <= j
          PROVE  log'[i].seq <= log'[j].seq
      <3>1. CASE j \in DOMAIN log
        <4>1. i \in DOMAIN log
          BY <1>0, <1>c, <2>3, <3>1, Typing
        <4>2. QED
          BY <1>0, <1>a, <2>3, <3>1, <4>1, Typing DEF Logged
      <3>2. CASE j \in Len(log) + 1 .. Len(log') /\ i \in DOMAIN log
        <4>1. log'[i] = log[i] /\ log'[j].seq = committed[p] + 1
          BY <1>0, <1>a, <3>2, Typing
        <4>2. log[i].seq <= committed[p] /\ log[i].seq \in Nat /\ committed[p] \in Nat
          BY <1>0, <1>d, <1>f, <2>3, <3>2, Typing
        <4>3. QED
          BY <4>1, <4>2
      <3>3. CASE j \in Len(log) + 1 .. Len(log') /\ i \in Len(log) + 1 .. Len(log')
        BY <1>a, <1>d, <3>3
      <3>4. QED
        BY <1>e, <3>1, <3>2, <3>3
    <2>4. QED
      BY <1>b, <2>1, <2>2, <2>3 DEF Logged
  <1>3. InOrder'
    <2>1. ASSUME NEW k \in DOMAIN wire, States(wire[k]) PROVE Framed(wire[k])'
      <3>1. Framed(wire[k]) /\ wire[k].at \in DOMAIN log
        BY <1>0, <2>1, Typing DEF InOrder, Framed
      <3>2. log'[wire[k].at] = log[wire[k].at]
        BY <1>0, <1>a, <3>1, Typing
      <3>3. ASSUME ~split, wire[k].kind = "progress", NEW i \in DOMAIN log', wire[k].at < i
            PROVE  wire[k].seq < log'[i].seq
        <4>1. CASE i \in DOMAIN log
          BY <1>0, <1>a, <3>1, <3>3, <4>1, Typing DEF Framed
        <4>2. CASE i \in Len(log) + 1 .. Len(log')
          <5>1. wire[k].seq = log[wire[k].at].seq
            BY <3>1 DEF Framed
          <5>2. log[wire[k].at].seq <= committed[p] /\ log[wire[k].at].seq \in Nat /\ committed[p] \in Nat
            BY <1>0, <1>d, <1>f, <3>1, <3>3, Typing
          <5>3. log'[i].seq = committed[p] + 1
            BY <1>a, <4>2
          <5>4. QED
            BY <5>1, <5>2, <5>3
        <4>3. QED
          BY <1>e, <4>1, <4>2
      <3>4. QED
        BY <1>b, <3>1, <3>2, <3>3 DEF Framed
    <2>2. QED
      BY <1>0, <1>b, <2>1 DEF InOrder, States
  <1>4. Resumes'
    <2>1. ASSUME NEW d \in DOMAIN given
          PROVE  given[d] <= told /\ Behind(given[d])' /\ log'[given[d]].match
      <3>1. log'[given[d]] = log[given[d]]
        BY <1>0, <1>a, <2>1, Typing
      <3>2. QED
        BY <1>0, <1>b, <2>1, <3>1 DEF Resumes, Behind
    <2>2. ASSUME ~split, NEW q \in Logs PROVE resume_from <= committed'[q] + 1
      <3>1. q = p /\ resume_from <= committed[p] + 1 /\ resume_from \in Nat
        BY <1>0, <1>a, <2>2, OneLog DEF Resumes, Shape
      <3>2. QED
        BY <1>d, <3>1
    <2>3. QED
      BY <1>0, <1>b, <2>1, <2>2 DEF Resumes
  <1>5. \A i \in DOMAIN log : log'[i] = log[i] /\ (Spoken(i) => Spoken(i)')
    BY <1>0, <1>a, <1>b, SpokenStays, Typing DEF Given
  <1>6. Covered'
    <2>1. \A q \in DOMAIN wire : \A i : Coming(i, q) => Coming(i, q)'
      BY <1>b DEF Coming
    <2>2. \A i : Coming(i, Len(wire)) => Coming(i, Len(wire))'
      BY <1>b DEF Coming
    <2>3. \A q \in DOMAIN wire : States(wire[q]) => 1 .. wire[q].at \subseteq DOMAIN log
      BY <1>0, Typing DEF InOrder, Framed
    <2>4. 1 .. reading - 1 \subseteq DOMAIN log
      BY <1>0, Typing
    <2>5. ASSUME NEW q \in DOMAIN wire, States(wire[q]), NEW i \in 1 .. wire[q].at, log'[i].match
          PROVE  Spoken(i)' \/ Coming(i, q)'
      BY <1>0, <1>5, <2>1, <2>3, <2>5 DEF Covered
    <2>6. ASSUME link = "up", NEW i \in 1 .. reading - 1, log'[i].match
          PROVE  Spoken(i)' \/ Coming(i, Len(wire))'
      BY <1>0, <1>5, <2>2, <2>4, <2>6 DEF Covered
    <2>7. QED
      BY <1>b, <2>5, <2>6 DEF Covered, States
  <1>7. OnceInOrder'
    BY <1>0, <1>b DEF OnceInOrder
  <1>8. LossOnlyInsideUnit'
    <2> SUFFICES ASSUME NEW i \in DOMAIN log', log'[i].match, Behind(i)' PROVE Spoken(i)'
      BY DEF LossOnlyInsideUnit, Spoken
    <2>1. CASE i \in DOMAIN log
      <3>1. Behind(i) /\ log[i].match
        BY <1>5, <1>b, <2>1 DEF Behind
      <3>2. Spoken(i)
        BY <1>0, <2>1, <3>1 DEF LossOnlyInsideUnit, Spoken
      <3>3. QED
        BY <1>5, <2>1, <3>2
    <2>2. CASE i \in Len(log) + 1 .. Len(log')
      <3>1. ~split => log'[i].seq = committed[p] + 1 /\ resume_from <= committed[p] + 1
        BY <1>0, <1>a, <2>2 DEF Resumes
      <3>2. i > resume_cursor /\ resume_from \in Nat /\ committed[p] \in Nat
        BY <1>0, <1>a, <1>d, <2>2, Typing DEF Shape
      <3>3. ~Behind(i)'
        BY <1>0, <1>b, <2>2, <3>1, <3>2 DEF Behind, Shape
      <3>4. QED
        BY <3>3
    <2>3. QED
      BY <1>e, <2>1, <2>2
  <1>9. QED
    BY <1>1, <1>2, <1>3, <1>4, <1>6, <1>7, <1>8 DEF IInv

\* Steps that move nothing: the connection may end, and what was on its way is lost
\* from some frame on.
LEMMA KeepsInv ==
  ASSUME IInv, UNCHANGED <<split, log, committed, reading, told, sub, given>>,
         wire' \in Seq(FrameIn), link' \in Live \cup Over, minor' \in Nat,
         \A k \in 1 .. Len(wire') : States(wire'[k]) =>
           k <= Len(wire) /\ \A j \in 1 .. k : wire'[j] = wire[j],
         link' = "up" => link = "up" /\ wire' = wire /\ minor' = minor
  PROVE  IInv'
  <1>0. Shape /\ Logged /\ InOrder /\ Resumes /\ Covered /\ OnceInOrder /\ LossOnlyInsideUnit
    BY DEF IInv
  <1>a. /\ split' = split /\ log' = log /\ committed' = committed /\ reading' = reading
        /\ told' = told /\ resume_from' = resume_from /\ resume_cursor' = resume_cursor
        /\ given' = given /\ Logs' = Logs
    BY DEF sub, Logs
  <1>b. Len(wire') \in Nat /\ DOMAIN wire' = 1 .. Len(wire')
    BY LenProperties
  <1>c. \A k \in DOMAIN wire' : States(wire'[k]) =>
           k \in DOMAIN wire /\ wire'[k] = wire[k] /\ \A j \in 1 .. k : wire'[j] = wire[j]
    BY <1>0, <1>b, Typing
  <1>1. Shape' /\ Logged'
    BY <1>0, <1>a DEF Shape, Logged
  <1>2. InOrder'
    <2>2. \A k \in DOMAIN wire' : States(wire[k])' => Framed(wire[k])'
      BY <1>0, <1>a, <1>c DEF InOrder, States, Framed
    <2>3. \A j, k \in DOMAIN wire' :
            j < k /\ States(wire'[j]) /\ States(wire'[k]) => wire'[j].at < wire'[k].at
      BY <1>0, <1>c DEF InOrder
    <2>4. \A k \in DOMAIN wire' : States(wire'[k]) => \A d \in DOMAIN given : given[d] < wire'[k].at
      BY <1>0, <1>c DEF InOrder
    <2>5. QED
      BY <1>a, <2>2, <2>3, <2>4 DEF InOrder, States
  <1>3. Resumes'
    BY <1>0, <1>a DEF Resumes, Behind
  <1>4. \A i : Spoken(i) => Spoken(i)'
    BY <1>a DEF Spoken, Given, Unit
  <1>5. Covered'
    <2>1. ASSUME NEW q \in DOMAIN wire', States(wire'[q]), NEW i, Coming(i, q) PROVE Coming(i, q)'
      BY <1>c, <2>1 DEF Coming
    <2>2. ASSUME NEW q \in DOMAIN wire', States(wire'[q]), NEW i \in 1 .. wire'[q].at, log[i].match
          PROVE  Spoken(i)' \/ Coming(i, q)'
      BY <1>0, <1>c, <1>4, <2>1, <2>2 DEF Covered
    <2>4. ASSUME link' = "up", NEW i \in 1 .. reading - 1, log[i].match
          PROVE  Spoken(i)' \/ Coming(i, Len(wire))'
      <3>1. Spoken(i) \/ Coming(i, Len(wire))
        BY <1>0, <1>a, <2>4 DEF Covered
      <3>2. wire' = wire
        BY <2>4
      <3>3. Coming(i, Len(wire)) => Coming(i, Len(wire))'
        BY <3>2 DEF Coming
      <3>4. QED
        BY <1>4, <3>1, <3>3
    <2>5. QED
      BY <1>a, <2>2, <2>4 DEF Covered, States
  <1>6. OnceInOrder' /\ LossOnlyInsideUnit'
    <2>1. OnceInOrder'
      BY <1>0, <1>a DEF OnceInOrder
    <2>2. \A i \in DOMAIN log' : log'[i].match /\ Behind(i)' => Spoken(i)'
      <3>1. \A i \in DOMAIN log : log[i].match /\ Behind(i) => Spoken(i)
        BY <1>0 DEF LossOnlyInsideUnit, Spoken
      <3>2. QED
        BY <1>a, <1>4, <3>1 DEF Behind
    <2>3. QED
      BY <2>1, <2>2 DEF LossOnlyInsideUnit, Spoken
  <1>7. QED
    BY <1>1, <1>2, <1>3, <1>5, <1>6 DEF IInv

\* The connection ends, the node changes its version or declines, or the caller's
\* handler returns or fails.
LEMMA EndsInv ==
  ASSUME IInv,
         \/ Drop \/ Rollback \/ Upgrade \/ ReadEnd \/ Handle \/ HandlerFails
         \/ \E kind \in {"refusal", "elsewhere"} : Decline(kind)
  PROVE  IInv'
  <1>0. Shape
    BY DEF IInv
  <1>1. CASE Rollback \/ Upgrade \/ ReadEnd \/ Handle
    BY <1>0, <1>1, KeepsInv, Typing
       DEF Rollback, Upgrade, ReadEnd, Handle, node, sub, caller, Shape, Live, Over, CONDITION_MINOR
  <1>2. CASE HandlerFails
    BY <1>0, <1>2, KeepsInv DEF HandlerFails, node, sub, Shape, Live, Over
  <1>3. CASE Drop
    <2>1. CASE wire' = wire
      BY <1>0, <1>3, <2>1, KeepsInv, Typing DEF Drop, node, sub, caller, Shape, Live, Over
    <2>2. ASSUME NEW k \in 0 .. Len(wire), wire' = SubSeq(wire, 1, k), link' = "torn" PROVE IInv'
      <3>1. k \in Nat /\ k <= Len(wire)
        BY <1>0, Typing
      <3>2. /\ wire' \in Seq(FrameIn) /\ Len(wire') = k
            /\ \A i \in 1 .. k : wire'[i] = wire[i]
        <4>1. \A i \in 1 .. k : wire[i] \in FrameIn
          BY <1>0, <3>1, Typing
        <4>2. QED
          BY <2>2, <3>1, <4>1, SubSeqProperties
      <3>3. QED
        BY <1>0, <1>3, <2>2, <3>1, <3>2, KeepsInv DEF Drop, node, sub, caller, Shape, Live, Over
    <2>3. QED
      BY <1>3, <2>1, <2>2 DEF Drop
  <1>4. ASSUME NEW kind \in {"refusal", "elsewhere"}, Decline(kind) PROVE IInv'
    <2>1. Declined(kind) \in FrameIn /\ ~States(Declined(kind))
      BY <1>4 DEF Declined, FrameIn, States, NoCursor
    <2>2. wire' \in Seq(FrameIn) /\ Len(wire') = 1 /\ wire'[1] = Declined(kind)
      BY <1>4, <2>1 DEF Decline
    <2>3. QED
      BY <1>0, <1>4, <2>1, <2>2, KeepsInv DEF Decline, node, sub, caller, Shape, Live, Over
  <1>5. QED
    BY <1>1, <1>2, <1>3, <1>4

\* A frame that states a position is sent.
LEMMA SendsInv ==
  ASSUME IInv, NEW f \in FrameIn, States(f), wire' = Append(wire, f), link = "up",
         UNCHANGED <<split, log, committed, minor, link, sub, given>>,
         reading' \in 1 .. Len(log) + 1, reading <= reading', told' = f.at, told < f.at,
         f.at <= reading' - 1, Framed(f)',
         \A i \in 1 .. reading' - 1 : log[i].match =>
           i < reading \/ (i = f.at /\ f.kind = "change"),
         \A i \in reading .. f.at : f.kind = "change" /\ i = f.at
  PROVE  IInv'
  <1>0. Shape /\ Logged /\ InOrder /\ Resumes /\ Covered /\ OnceInOrder /\ LossOnlyInsideUnit
    BY DEF IInv
  <1>a. /\ split' = split /\ log' = log /\ committed' = committed /\ minor' = minor /\ link' = link
        /\ resume_from' = resume_from /\ resume_cursor' = resume_cursor /\ given' = given /\ Logs' = Logs
    BY DEF sub, Logs
  <1>b. /\ wire' \in Seq(FrameIn) /\ Len(wire') = Len(wire) + 1 /\ Len(wire) \in Nat
        /\ DOMAIN wire' = 1 .. Len(wire') /\ wire'[Len(wire')] = f
        /\ \A k \in 1 .. Len(wire) : wire'[k] = wire[k]
    BY <1>0, Typing, AppendProperties, LenProperties DEF Shape
  <1>c. \A k \in DOMAIN wire' : k \in DOMAIN wire \/ k = Len(wire')
    BY <1>0, <1>b, Typing
  <1>d. f.at \in Nat /\ told \in Nat /\ reading \in Nat /\ reading' \in Nat
    BY <1>0, Typing DEF FrameIn
  <1>1. Shape'
    <2>1. told' \in 0 .. reading' - 1
      BY <1>d
    <2>2. QED
      BY <1>0, <1>a, <1>b, <2>1 DEF Shape
  <1>2. Logged' /\ OnceInOrder'
    BY <1>0, <1>a DEF Logged, OnceInOrder
  <1>3. \A k \in DOMAIN wire : States(wire[k]) => wire[k].at \in 1 .. told
    BY <1>0 DEF InOrder, Framed
  <1>4. InOrder'
    <2>2. ASSUME NEW k \in DOMAIN wire', States(wire'[k]) PROVE Framed(wire[k])'
      <3>1. CASE k \in DOMAIN wire
        <4>1. wire'[k] = wire[k] /\ Framed(wire[k])
          BY <1>0, <1>b, <2>2, <3>1, Typing DEF InOrder
        <4>2. wire[k].at \in 1 .. told'
          BY <1>d, <4>1 DEF Framed
        <4>3. QED
          BY <1>a, <4>1, <4>2 DEF Framed
      <3>2. CASE k = Len(wire')
        BY <1>b, <3>2 DEF Framed
      <3>3. QED
        BY <1>c, <3>1, <3>2
    <2>3. ASSUME NEW j \in DOMAIN wire', NEW k \in DOMAIN wire', j < k, States(wire'[j]), States(wire'[k])
          PROVE  wire'[j].at < wire'[k].at
      <3>1. j \in DOMAIN wire /\ wire'[j] = wire[j]
        BY <1>0, <1>b, <2>3, Typing
      <3>2. CASE k \in DOMAIN wire
        BY <1>0, <1>b, <2>3, <3>1, <3>2, Typing DEF InOrder
      <3>3. CASE k = Len(wire')
        <4>1. wire[j].at \in 1 .. told
          BY <1>3, <2>3, <3>1
        <4>2. QED
          BY <1>b, <1>d, <3>1, <3>3, <4>1
      <3>4. QED
        BY <1>c, <3>2, <3>3
    <2>4. ASSUME NEW k \in DOMAIN wire', States(wire'[k]), NEW d \in DOMAIN given
          PROVE  given[d] < wire'[k].at
      <3>1. CASE k \in DOMAIN wire
        BY <1>0, <1>b, <2>4, <3>1, Typing DEF InOrder
      <3>2. CASE k = Len(wire')
        <4>1. given[d] <= told /\ given[d] \in Nat
          BY <1>0, <2>4, Typing DEF Resumes
        <4>2. QED
          BY <1>b, <1>d, <3>2, <4>1
      <3>3. QED
        BY <1>c, <3>1, <3>2
    <2>5. QED
      BY <1>a, <2>2, <2>3, <2>4 DEF InOrder, States
  <1>5. Resumes'
    <2>1. \A d \in DOMAIN given : given[d] <= told'
      BY <1>0, <1>d, Typing DEF Resumes
    <2>2. QED
      BY <1>0, <1>a, <2>1 DEF Resumes, Behind
  <1>6. \A i : Spoken(i) => Spoken(i)'
    BY <1>a DEF Spoken, Given, Unit
  <1>7. Covered'
    <2>1. ASSUME NEW i, NEW q \in 0 .. Len(wire), Coming(i, q)
          PROVE  Coming(i, q)' /\ Coming(i, Len(wire))'
      <3>1. PICK k \in 1 .. q : wire[k].kind = "change" /\ wire[k].at = i
        BY <2>1 DEF Coming
      <3>2. k \in 1 .. Len(wire) /\ k \in 1 .. Len(wire') /\ wire'[k] = wire[k]
        BY <1>b, <3>1
      <3>3. QED
        BY <3>1, <3>2 DEF Coming
    <2>2. ASSUME NEW i \in 1 .. reading - 1, log[i].match PROVE Spoken(i)' \/ Coming(i, Len(wire))'
      <3>1. Spoken(i) \/ Coming(i, Len(wire))
        BY <1>0, <2>2 DEF Covered
      <3>2. Len(wire) \in 0 .. Len(wire)
        BY <1>b
      <3>3. QED
        BY <1>6, <2>1, <3>1, <3>2
    <2>3. f.kind = "change" => Coming(f.at, Len(wire))'
      <3>1. Len(wire') \in 1 .. Len(wire')
        BY <1>b
      <3>2. QED
        BY <1>b, <3>1 DEF Coming
    <2>4. ASSUME NEW q \in DOMAIN wire', States(wire'[q]), NEW i \in 1 .. wire'[q].at, log[i].match
          PROVE  Spoken(i)' \/ Coming(i, q)'
      <3>1. CASE q \in DOMAIN wire
        <4>1. wire'[q] = wire[q] /\ q \in 0 .. Len(wire)
          BY <1>0, <1>b, <3>1, Typing
        <4>2. Spoken(i) \/ Coming(i, q)
          BY <1>0, <2>4, <3>1, <4>1 DEF Covered
        <4>3. QED
          BY <1>6, <2>1, <4>1, <4>2
      <3>2. CASE q = Len(wire')
        <4>1. i \in 1 .. f.at
          BY <1>b, <2>4, <3>2
        <4>2. CASE i < reading
          <5>1. i \in 1 .. reading - 1
            BY <1>d, <4>1, <4>2
          <5>2. QED
            BY <2>2, <2>4, <3>2, <5>1
        <4>3. CASE ~(i < reading)
          <5>1. i \in reading .. f.at
            BY <1>d, <4>1, <4>3
          <5>2. QED
            BY <2>3, <3>2, <5>1
        <4>4. QED
          BY <4>2, <4>3
      <3>3. QED
        BY <1>c, <3>1, <3>2
    <2>5. ASSUME NEW i \in 1 .. reading' - 1, log[i].match PROVE Spoken(i)' \/ Coming(i, Len(wire))'
      <3>1. CASE i < reading
        <4>1. i \in 1 .. reading - 1
          BY <1>d, <3>1
        <4>2. QED
          BY <2>2, <2>5, <4>1
      <3>2. CASE ~(i < reading)
        BY <2>3, <2>5, <3>2
      <3>3. QED
        BY <3>1, <3>2
    <2>6. QED
      BY <1>a, <2>4, <2>5 DEF Covered, States
  <1>8. LossOnlyInsideUnit'
    <2>1. \A i \in DOMAIN log : log[i].match /\ Behind(i) => Spoken(i)
      BY <1>0 DEF LossOnlyInsideUnit, Spoken
    <2>2. \A i \in DOMAIN log' : log'[i].match /\ Behind(i)' => Spoken(i)'
      BY <1>a, <1>6, <2>1 DEF Behind
    <2>3. QED
      BY <2>2 DEF LossOnlyInsideUnit, Spoken
  <1>9. QED
    BY <1>1, <1>2, <1>4, <1>5, <1>7, <1>8 DEF IInv

\* The node reads on: what it sends states a position, what it skips does not match.
LEMMA NodeReadsInv ==
  ASSUME IInv, NodeReads
  PROVE  IInv'
  <1>0. Shape /\ Logged /\ InOrder /\ Resumes /\ Covered /\ OnceInOrder /\ LossOnlyInsideUnit
    BY DEF IInv
  <1>a. /\ link = "up" /\ reading \in DOMAIN log /\ reading' = reading + 1
        /\ split' = split /\ log' = log /\ committed' = committed /\ minor' = minor /\ link' = link
        /\ resume_from' = resume_from /\ resume_cursor' = resume_cursor /\ given' = given
    BY <1>0, Typing DEF NodeReads, node, sub, caller, Shape
  <1>b. told \in Nat /\ reading \in Nat /\ told < reading /\ log[reading].seq \in Nat /\ Len(log) \in Nat
        /\ reading <= Len(log)
    BY <1>0, <1>a, Typing
  <1>1. CASE Sends(reading)
    <2>0. PICK f : f = Frame("change", reading)
      OBVIOUS
    <2>1. /\ f.kind = "change" /\ f.at = reading /\ f.seq = log[reading].seq
          /\ f.cursor = (IF split THEN reading ELSE NoCursor)
      BY <2>0 DEF Frame
    <2>2. f \in FrameIn
      BY <1>b, <2>0 DEF Frame, FrameIn, NoCursor
    <2>3. wire' = Append(wire, f) /\ told' = reading
      BY <1>1, <2>0 DEF NodeReads
    <2>4. log[reading].match
      <3>1. minor \in Nat
        BY <1>0 DEF Shape
      <3>2. Narrowed => minor >= CONDITION_MINOR
        BY <1>0, <1>a DEF Resumes
      <3>3. ~Narrowed => log[reading].match
        BY <1>0, <1>a DEF Logged
      <3>4. QED
        BY <1>1, <3>1, <3>2, <3>3 DEF Sends, CONDITION_MINOR
    <2>5. Framed(f)'
      <3>1. reading \in 1 .. told'
        BY <1>b, <2>3, <1>a
      <3>2. QED
        BY <1>a, <2>1, <2>4, <3>1 DEF Framed
    <2>6. States(f) /\ f.at \in Nat
      BY <1>b, <2>1 DEF States
    <2>7. /\ \A i \in 1 .. reading' - 1 : i < reading \/ (i = f.at /\ f.kind = "change")
          /\ \A i \in reading .. f.at : f.kind = "change" /\ i = f.at
          /\ reading' \in 1 .. Len(log) + 1 /\ reading <= reading' /\ told < f.at /\ f.at <= reading' - 1
      BY <1>a, <1>b, <2>1
    <2>8. QED
      BY <1>a, <2>1, <2>2, <2>3, <2>5, <2>6, <2>7, SendsInv DEF sub
  <1>2. CASE ~Sends(reading)
    <2>1. wire' = wire /\ told' = told /\ ~log[reading].match
      BY <1>2 DEF NodeReads, Sends
    <2>2. Shape' /\ Logged' /\ InOrder' /\ Resumes' /\ OnceInOrder' /\ LossOnlyInsideUnit'
      <3>1. Shape'
        <4>1. reading' \in 1 .. Len(log) + 1 /\ told \in 0 .. reading' - 1
          BY <1>a, <1>b
        <4>2. QED
          BY <1>0, <1>a, <2>1, <4>1 DEF Shape
      <3>2. Logged' /\ Resumes' /\ OnceInOrder'
        BY <1>0, <1>a, <2>1 DEF Logged, Logs, Resumes, Behind, OnceInOrder
      <3>3. InOrder'
        BY <1>0, <1>a, <2>1 DEF InOrder, Framed, States
      <3>4. LossOnlyInsideUnit'
        BY <1>0, <1>a DEF LossOnlyInsideUnit, Behind, Given, Unit
      <3>5. QED
        BY <3>1, <3>2, <3>3, <3>4
    <2>3. Covered'
      <3>1. \A i : Spoken(i) => Spoken(i)'
        BY <1>a DEF Spoken, Given, Unit
      <3>2. \A q \in DOMAIN wire : States(wire[q]) =>
              \A i \in 1 .. wire[q].at : log[i].match => Spoken(i)' \/ Coming(i, q)'
        <4>1. \A q \in DOMAIN wire : \A i : Coming(i, q) => Coming(i, q)'
          BY <2>1 DEF Coming
        <4>2. QED
          BY <1>0, <3>1, <4>1 DEF Covered
      <3>3. ASSUME NEW i \in 1 .. reading' - 1, log[i].match PROVE Spoken(i)' \/ Coming(i, Len(wire))'
        <4>1. i # reading
          BY <2>1, <3>3
        <4>2. i \in 1 .. reading - 1
          BY <1>a, <1>b, <4>1
        <4>3. Spoken(i) \/ Coming(i, Len(wire))
          BY <1>0, <1>a, <3>3, <4>2 DEF Covered
        <4>4. Coming(i, Len(wire)) => Coming(i, Len(wire))'
          BY <2>1 DEF Coming
        <4>5. QED
          BY <3>1, <4>3, <4>4
      <3>4. QED
        BY <1>a, <2>1, <3>2, <3>3 DEF Covered, States
    <2>4. QED
      BY <2>2, <2>3 DEF IInv
  <1>3. QED
    BY <1>1, <1>2

\* A report states the end of a commit.
LEMMA NodeReportsInv ==
  ASSUME IInv, NodeReports
  PROVE  IInv'
  <1>0. Shape /\ Logged /\ Resumes
    BY DEF IInv
  <1>l. PICK last : last = reading - 1
    OBVIOUS
  <1>f. PICK f : f = Frame("progress", last)
    OBVIOUS
  <1>a. /\ link = "up" /\ told < last /\ wire' = Append(wire, f) /\ told' = last
        /\ split' = split /\ log' = log /\ committed' = committed /\ minor' = minor /\ link' = link
        /\ resume_from' = resume_from /\ resume_cursor' = resume_cursor /\ given' = given
        /\ reading' = reading /\ EndsCommit(last)
    BY <1>l, <1>f DEF NodeReports, node, sub, caller
  <1>b. told \in Nat /\ reading \in Nat /\ last \in DOMAIN log /\ last \in Nat /\ last < reading
        /\ log[last].seq \in Nat /\ reading = last + 1
    BY <1>0, <1>a, <1>l, Typing
  <1>1. /\ f.kind = "progress" /\ f.at = last /\ f.seq = log[last].seq
        /\ f.cursor = (IF split THEN last ELSE NoCursor)
    BY <1>f DEF Frame
  <1>2. f \in FrameIn
    BY <1>b, <1>f DEF Frame, FrameIn, NoCursor
  <1>3. ASSUME ~split, NEW i \in DOMAIN log, last < i PROVE log[last].seq < log[i].seq
    <2>1. i \in Nat /\ i <= Len(log) /\ Len(log) \in Nat
      BY <1>0, Typing
    <2>2. last + 1 \in DOMAIN log /\ last + 1 <= i /\ last < Len(log)
      BY <1>0, <1>b, <1>3, <2>1, Typing
    <2>3. log[last].part \in Logs /\ log[last + 1].part \in Logs
      BY <1>0, <1>b, <2>2 DEF Logged
    <2>4. log[last + 1].seq # log[last].seq
      BY <1>3, <1>a, <2>2, <2>3, OneLog DEF EndsCommit
    <2>5. log[last].seq <= log[last + 1].seq /\ log[last + 1].seq <= log[i].seq
      BY <1>0, <1>3, <1>b, <2>2 DEF Logged
    <2>6. log[last + 1].seq \in Nat /\ log[i].seq \in Nat
      BY <1>0, <1>3, <2>2, Typing
    <2>7. QED
      BY <1>b, <2>4, <2>5, <2>6
  <1>4. Framed(f)'
    <2>1. last \in 1 .. told'
      BY <1>a, <1>b
    <2>2. QED
      BY <1>a, <1>1, <1>3, <2>1 DEF Framed
  <1>5. States(f)
    BY <1>1 DEF States
  <1>6. /\ \A i \in 1 .. reading' - 1 : i < reading
        /\ \A i \in reading .. f.at : f.kind = "change" /\ i = f.at
        /\ reading' \in 1 .. Len(log) + 1 /\ reading <= reading' /\ told < f.at /\ f.at <= reading' - 1
    BY <1>0, <1>a, <1>b, <1>1, Typing
  <1>7. QED
    BY <1>a, <1>1, <1>2, <1>4, <1>5, <1>6, SendsInv DEF sub
-----------------------------------------------------------------------------
(* The subscription and its caller *)

\* The first frame is taken off the wire.
LEMMA TakesInv ==
  ASSUME IInv, wire # <<>>, wire' = Tail(wire),
         UNCHANGED <<split, log, committed, minor, reading, told>>,
         link' \in Live \cup Over, link' = "up" => link = "up",
         resume_from' \in Nat, resume_cursor' \in 0 .. Len(log), given' \in Seq(1 .. Len(log)),
         Given \subseteq Given', wire[1].kind = "change" => wire[1].at \in Given',
         \A d \in DOMAIN given', k \in 2 .. Len(wire) : States(wire[k]) => given'[d] < wire[k].at,
         Resumes', OnceInOrder', LossOnlyInsideUnit'
  PROVE  IInv'
  <1>0. Shape /\ Logged /\ InOrder /\ Covered
    BY DEF IInv
  <1>a. /\ split' = split /\ log' = log /\ committed' = committed /\ minor' = minor
        /\ reading' = reading /\ told' = told /\ Logs' = Logs
    BY DEF Logs
  <1>b. /\ wire' \in Seq(FrameIn) /\ Len(wire') = Len(wire) - 1 /\ Len(wire) \in Nat /\ Len(wire) >= 1
        /\ DOMAIN wire' = 1 .. Len(wire) - 1
        /\ \A k \in DOMAIN wire' : wire'[k] = wire[k + 1]
    BY <1>0, Typing, HeadTailProperties, LenProperties, EmptySeq DEF Shape
  <1>c. \A k \in DOMAIN wire' : k + 1 \in DOMAIN wire /\ k + 1 \in 2 .. Len(wire)
    BY <1>0, <1>b, Typing
  <1>1. Shape' /\ Logged'
    BY <1>0, <1>a, <1>b DEF Shape, Logged
  <1>2. InOrder'
    <2>1. ASSUME NEW k \in DOMAIN wire', States(wire'[k]) PROVE Framed(wire[k])'
      <3>1. Framed(wire[k + 1]) /\ wire'[k] = wire[k + 1]
        BY <1>0, <1>b, <1>c, <2>1 DEF InOrder
      <3>2. QED
        BY <1>a, <3>1 DEF Framed
    <2>2. ASSUME NEW j \in DOMAIN wire', NEW k \in DOMAIN wire', j < k, States(wire'[j]), States(wire'[k])
          PROVE  wire'[j].at < wire'[k].at
      <3>1. j + 1 \in DOMAIN wire /\ k + 1 \in DOMAIN wire /\ j + 1 < k + 1
        BY <1>b, <1>c, <2>2
      <3>2. QED
        BY <1>0, <1>b, <2>2, <3>1 DEF InOrder
    <2>3. \A k \in DOMAIN wire' : States(wire'[k]) => \A d \in DOMAIN given' : given'[d] < wire'[k].at
      BY <1>b, <1>c
    <2>4. QED
      BY <2>1, <2>2, <2>3 DEF InOrder, States
  <1>3. \A i \in DOMAIN log : Spoken(i) => Spoken(i)'
    BY <1>0, <1>a, SpokenStays
  <1>4. ASSUME NEW i, NEW q \in 1 .. Len(wire), Coming(i, q)
        PROVE  i \in Given' \/ \E k \in 1 .. q - 1 : wire'[k].kind = "change" /\ wire'[k].at = i
    <2>1. PICK k \in 1 .. q : wire[k].kind = "change" /\ wire[k].at = i
      BY <1>4 DEF Coming
    <2>2. CASE k = 1
      BY <2>1, <2>2
    <2>3. CASE k # 1
      <3>1. k - 1 \in 1 .. q - 1 /\ k - 1 \in DOMAIN wire' /\ k - 1 + 1 = k
        BY <1>b, <2>3
      <3>2. wire'[k - 1] = wire[k]
        BY <1>b, <3>1
      <3>3. QED
        BY <2>1, <3>1, <3>2
    <2>4. QED
      BY <2>2, <2>3
  <1>5. Covered'
    <2>1. ASSUME NEW q \in DOMAIN wire', States(wire'[q]), NEW i \in 1 .. wire'[q].at, log[i].match
          PROVE  Spoken(i)' \/ Coming(i, q)'
      <3>1. q + 1 \in DOMAIN wire /\ q + 1 \in 1 .. Len(wire) /\ wire'[q] = wire[q + 1] /\ q + 1 - 1 = q
        BY <1>0, <1>b, <1>c, Typing
      <3>2. Spoken(i) \/ Coming(i, q + 1)
        BY <1>0, <2>1, <3>1 DEF Covered
      <3>3. i \in DOMAIN log
        <4>1. wire[q + 1].at \in 1 .. told
          BY <1>0, <2>1, <3>1 DEF InOrder, Framed
        <4>2. QED
          BY <1>0, <2>1, <3>1, <4>1, Typing
      <3>4. CASE Spoken(i)
        BY <1>3, <3>3, <3>4
      <3>5. CASE Coming(i, q + 1)
        <4>0. PICK r \in 1 .. Len(wire) : r = q + 1 /\ r - 1 = q
          BY <3>1
        <4>1. i \in Given' \/ \E k \in 1 .. r - 1 : wire'[k].kind = "change" /\ wire'[k].at = i
          BY <1>4, <3>5, <4>0
        <4>2. QED
          BY <4>0, <4>1 DEF Spoken, Coming
      <3>6. QED
        BY <3>2, <3>4, <3>5
    <2>2. ASSUME link' = "up", NEW i \in 1 .. reading - 1, log[i].match
          PROVE  Spoken(i)' \/ Coming(i, Len(wire))'
      <3>1. Spoken(i) \/ Coming(i, Len(wire))
        BY <1>0, <2>2 DEF Covered
      <3>2. i \in DOMAIN log /\ Len(wire) \in 1 .. Len(wire)
        BY <1>0, <1>b, <2>2, Typing
      <3>3. CASE Spoken(i)
        BY <1>3, <3>2, <3>3
      <3>4. CASE Coming(i, Len(wire))
        <4>1. i \in Given' \/ \E k \in 1 .. Len(wire) - 1 : wire'[k].kind = "change" /\ wire'[k].at = i
          BY <1>4, <3>2, <3>4
        <4>2. QED
          BY <1>b, <4>1 DEF Spoken, Coming
      <3>5. QED
        BY <3>1, <3>3, <3>4
    <2>3. QED
      BY <1>a, <2>1, <2>2 DEF Covered, States
  <1>6. QED
    BY <1>1, <1>2, <1>5 DEF IInv

\* The resume point moves to a frame: everything before it is behind, and after it, on a
\* plain table and after a change, the rest of its commit.
LEMMA AdvancedTo ==
  ASSUME Shape, Logged, NEW f \in FrameIn, States(f), Framed(f), Advance(f),
         split' = split, log' = log
  PROVE  /\ \A i \in DOMAIN log : i <= f.at => Behind(i)'
         /\ \A i \in DOMAIN log : Behind(i)' =>
              i <= f.at \/ (~split /\ f.kind = "change" /\ Unit(i) = Unit(f.at))
         /\ resume_from' \in Nat /\ resume_cursor' \in 0 .. Len(log)
         /\ IF split THEN resume_cursor' # NoCursor ELSE resume_cursor' = resume_cursor
         /\ ~split => \A p \in Logs : resume_from' <= committed[p] + 1
  <1>1. /\ f.at \in DOMAIN log /\ f.at \in Nat /\ f.at >= 1 /\ f.seq = log[f.at].seq /\ f.seq \in Nat
        /\ resume_from' = f.seq + 1 /\ f.at <= Len(log)
    BY Typing DEF Framed, Advance, FrameIn
  <1>2. CASE split
    <2>1. resume_cursor' = f.at
      BY <1>1, <1>2 DEF Framed, Advance, NoCursor
    <2>2. \A i \in DOMAIN log : Behind(i)' <=> i <= f.at
      BY <1>2, <2>1 DEF Behind
    <2>3. QED
      BY <1>1, <1>2, <2>1, <2>2, Typing DEF NoCursor
  <1>3. CASE ~split
    <2>1. resume_cursor' = resume_cursor
      BY <1>3 DEF Framed, Advance
    <2>2. \A i \in DOMAIN log : Behind(i)' <=> log[i].seq < f.seq + 1
      BY <1>1, <1>3 DEF Behind
    <2>3. \A i \in DOMAIN log : i <= f.at => log[i].seq <= f.seq
      BY <1>1, <1>3 DEF Logged
    <2>4. ASSUME NEW i \in DOMAIN log, log[i].seq < f.seq + 1, ~(i <= f.at)
          PROVE  f.kind = "change" /\ Unit(i) = Unit(f.at)
      <3>1. f.at <= i /\ f.at < i /\ log[i].seq \in Nat
        BY <1>1, <2>4, Typing
      <3>2. f.seq <= log[i].seq
        BY <1>1, <1>3, <3>1, <2>4 DEF Logged
      <3>3. log[i].seq = log[f.at].seq
        BY <1>1, <2>4, <3>1, <3>2
      <3>4. log[i].part = log[f.at].part
        BY <1>1, <1>3, <2>4, OneLog DEF Logged
      <3>5. f.kind # "progress"
        BY <1>1, <1>3, <2>4, <3>1, <3>3 DEF Framed
      <3>6. QED
        BY <3>3, <3>4, <3>5 DEF States, Unit
    <2>5. ASSUME NEW p \in Logs PROVE f.seq + 1 <= committed[p] + 1
      <3>1. log[f.at].seq <= committed[log[f.at].part] /\ log[f.at].part = p
        BY <1>1, <1>3, OneLog DEF Logged
      <3>2. committed[p] \in Nat
        BY <1>1, <3>1, Typing DEF Shape
      <3>3. QED
        BY <1>1, <3>1, <3>2
    <2>6. \A i \in DOMAIN log : log[i].seq \in Nat
      BY Typing
    <2>7. resume_cursor' \in 0 .. Len(log)
      BY <2>1 DEF Shape
    <2>8. QED
      BY <1>1, <1>3, <2>1, <2>2, <2>3, <2>4, <2>5, <2>6, <2>7
  <1>4. QED
    BY <1>2, <1>3

\* A change is handed over, or a Progress read.
LEMMA ReadsInv ==
  ASSUME IInv, ReadChange \/ ReadProgress
  PROVE  IInv'
  <1>0. Shape /\ Logged /\ InOrder /\ Resumes /\ Covered /\ OnceInOrder /\ LossOnlyInsideUnit
    BY DEF IInv
  <1>1. PICK f : f = Head(wire)
    OBVIOUS
  <1>2. /\ wire # <<>> /\ wire' = Tail(wire) /\ States(f) /\ Advance(f) /\ link' = link
        /\ split' = split /\ log' = log /\ committed' = committed /\ minor' = minor
        /\ reading' = reading /\ told' = told
    BY <1>1 DEF ReadChange, ReadProgress, Arrived, States, node
  <1>3. f \in FrameIn /\ f = wire[1] /\ 1 \in DOMAIN wire /\ Len(wire) \in Nat
    BY <1>0, <1>1, <1>2, Typing, EmptySeq DEF Shape
  <1>4. Framed(f)
    BY <1>0, <1>2, <1>3 DEF InOrder
  <1>5. /\ \A i \in DOMAIN log : i <= f.at => Behind(i)'
        /\ \A i \in DOMAIN log : Behind(i)' =>
              i <= f.at \/ (~split /\ f.kind = "change" /\ Unit(i) = Unit(f.at))
        /\ resume_from' \in Nat /\ resume_cursor' \in 0 .. Len(log)
        /\ IF split THEN resume_cursor' # NoCursor ELSE resume_cursor' = resume_cursor
        /\ ~split => \A p \in Logs : resume_from' <= committed[p] + 1
    BY <1>0, <1>2, <1>3, <1>4, AdvancedTo
  <1>6. IF f.kind = "change" THEN given' = Append(given, f.at) ELSE given' = given
    BY <1>1 DEF ReadChange, ReadProgress, Arrived, caller
  <1>7. /\ given' \in Seq(1 .. Len(log)) /\ DOMAIN given' = 1 .. Len(given')
        /\ f.at \in 1 .. Len(log) /\ f.at <= told
        /\ \A d \in DOMAIN given : d \in DOMAIN given' /\ given'[d] = given[d] /\ given[d] < f.at
        /\ f.kind = "change" => Len(given') = Len(given) + 1 /\ given'[Len(given')] = f.at
        /\ f.kind # "change" => given' = given
    <2>1. f.at \in 1 .. Len(log) /\ f.at <= told
      BY <1>0, <1>4, Typing DEF Framed
    <2>2. \A d \in DOMAIN given : given[d] < f.at
      BY <1>0, <1>2, <1>3 DEF InOrder
    <2>3. CASE f.kind = "change"
      <3>1. /\ given' \in Seq(1 .. Len(log)) /\ Len(given') = Len(given) + 1
            /\ given'[Len(given) + 1] = f.at /\ \A d \in 1 .. Len(given) : given'[d] = given[d]
        <4>1. given \in Seq(1 .. Len(log)) /\ given' = Append(given, f.at)
          BY <1>0, <1>6, <2>3 DEF Shape
        <4>2. QED
          BY <2>1, <4>1, AppendProperties
      <3>2. DOMAIN given' = 1 .. Len(given') /\ DOMAIN given = 1 .. Len(given) /\ Len(given) \in Nat
        BY <1>0, <3>1, Typing, LenProperties
      <3>3. QED
        BY <2>1, <2>2, <2>3, <3>1, <3>2
    <2>4. CASE f.kind # "change"
      BY <1>0, <1>6, <2>1, <2>2, <2>4, Typing DEF Shape
    <2>5. QED
      BY <2>3, <2>4
  <1>n. /\ f.at \in Nat /\ told \in Nat /\ Len(given) \in Nat /\ Len(log) \in Nat
        /\ DOMAIN given = 1 .. Len(given) /\ DOMAIN log = 1 .. Len(log)
        /\ \A d \in DOMAIN given : given[d] \in DOMAIN log /\ given[d] \in Nat
    <2>1. Len(log) \in Nat /\ DOMAIN log = 1 .. Len(log) /\ told \in Nat
      BY <1>0, Typing
    <2>2. /\ Len(given) \in Nat /\ DOMAIN given = 1 .. Len(given)
          /\ \A d \in DOMAIN given : given[d] \in DOMAIN log
      BY <1>0, Typing
    <2>3. f.at \in 1 .. Len(log)
      BY <1>7
    <2>4. QED
      BY <2>1, <2>2, <2>3
  <1>8. \A d \in DOMAIN given' : d \in DOMAIN given \/ (f.kind = "change" /\ d = Len(given'))
    <2> SUFFICES ASSUME NEW d \in DOMAIN given' PROVE d \in DOMAIN given \/ (f.kind = "change" /\ d = Len(given'))
      OBVIOUS
    <2>1. CASE f.kind = "change"
      <3>1. d \in 1 .. Len(given) + 1 /\ Len(given') = Len(given) + 1
        BY <1>7, <2>1
      <3>2. QED
        BY <1>n, <2>1, <3>1
    <2>2. CASE f.kind # "change"
      BY <1>7, <2>2
    <2>3. QED
      BY <2>1, <2>2
  <1>9. Given \subseteq Given' /\ (f.kind = "change" => f.at \in Given')
    <2>1. Given \subseteq Given'
      BY <1>7 DEF Given
    <2>2. ASSUME f.kind = "change" PROVE f.at \in Given'
      <3>1. Len(given') \in DOMAIN given'
        BY <1>0, <1>7, <2>2, Typing
      <3>2. QED
        BY <1>7, <2>2, <3>1 DEF Given
    <2>3. QED
      BY <2>1, <2>2
  <1>10. \A d \in DOMAIN given', k \in 2 .. Len(wire) : States(wire[k]) => given'[d] < wire[k].at
    <2> SUFFICES ASSUME NEW d \in DOMAIN given', NEW k \in 2 .. Len(wire), States(wire[k])
                 PROVE  given'[d] < wire[k].at
      OBVIOUS
    <2>1. k \in DOMAIN wire /\ 1 < k
      BY <1>0, <1>3, Typing
    <2>2. CASE d \in DOMAIN given
      BY <1>0, <1>7, <2>1, <2>2 DEF InOrder
    <2>3. CASE f.kind = "change" /\ d = Len(given')
      <3>1. wire[1].at < wire[k].at
        BY <1>0, <1>2, <1>3, <2>1 DEF InOrder
      <3>2. QED
        BY <1>3, <1>7, <2>3, <3>1
    <2>4. QED
      BY <1>8, <2>2, <2>3
  <1>11. Resumes'
    <2>1. ASSUME NEW d \in DOMAIN given' PROVE given'[d] \in DOMAIN log /\ given'[d] <= f.at /\ log[given'[d]].match
      <3>1. CASE d \in DOMAIN given
        <4>1. given[d] \in DOMAIN log /\ given[d] \in Nat /\ f.at \in Nat
          BY <1>n, <3>1
        <4>2. given[d] < f.at /\ given'[d] = given[d]
          BY <1>7, <3>1
        <4>3. log[given[d]].match
          BY <1>0, <3>1 DEF Resumes
        <4>4. QED
          BY <4>1, <4>2, <4>3
      <3>2. CASE f.kind = "change" /\ d = Len(given')
        BY <1>0, <1>4, <1>7, <3>2, Typing DEF Framed
      <3>3. QED
        BY <1>8, <3>1, <3>2
    <2>2. ASSUME NEW d \in DOMAIN given' PROVE given'[d] <= told /\ Behind(given[d])' /\ log[given'[d]].match
      <3>1. given'[d] \in Nat /\ told \in Nat /\ f.at \in Nat
        BY <1>n, <2>1, <2>2
      <3>2. \A i : i = given'[d] => Behind(i)'
        BY <1>5, <2>1, <2>2
      <3>3. Behind(given[d])'
        BY <3>2 DEF Behind
      <3>4. given'[d] <= told
        <4>1. given'[d] <= f.at /\ f.at <= told
          BY <1>7, <2>1, <2>2
        <4>2. QED
          BY <3>1, <4>1
      <3>5. QED
        BY <2>1, <2>2, <3>3, <3>4
    <2>3. IF split THEN resume_cursor' # NoCursor ELSE resume_cursor' = NoCursor
      BY <1>0, <1>5 DEF Resumes
    <2>4. ~split' => \A p \in Logs' : resume_from' <= committed'[p] + 1
      BY <1>2, <1>5 DEF Logs
    <2>5. link' = "up" /\ Narrowed => minor' >= CONDITION_MINOR
      BY <1>0, <1>2 DEF Resumes
    <2>6. QED
      BY <1>2, <2>2, <2>3, <2>4, <2>5 DEF Resumes
  <1>12. OnceInOrder'
    <2> SUFFICES ASSUME NEW j \in DOMAIN given', NEW k \in DOMAIN given', j < k PROVE given'[j] < given'[k]
      BY DEF OnceInOrder
    <2>1. j \in DOMAIN given
      <3>1. CASE k \in DOMAIN given
        <4>1. j \in 1 .. Len(given') /\ k \in 1 .. Len(given)
          BY <1>7, <1>n, <3>1
        <4>2. QED
          BY <1>n, <4>1
      <3>2. CASE f.kind = "change" /\ k = Len(given')
        <4>1. j \in 1 .. Len(given') /\ Len(given') = Len(given) + 1
          BY <1>7, <3>2
        <4>2. QED
          BY <1>n, <3>2, <4>1
      <3>3. QED
        BY <1>8, <3>1, <3>2
    <2>2. CASE k \in DOMAIN given
      BY <1>0, <1>7, <2>1, <2>2 DEF OnceInOrder
    <2>3. CASE f.kind = "change" /\ k = Len(given')
      BY <1>7, <2>1, <2>3
    <2>4. QED
      BY <1>8, <2>2, <2>3
  <1>13. LossOnlyInsideUnit'
    <2> SUFFICES ASSUME NEW i \in DOMAIN log, log[i].match, Behind(i)' PROVE Spoken(i)'
      BY <1>2 DEF LossOnlyInsideUnit, Spoken
    <2>1. CASE i <= f.at
      <3>1. i \in 1 .. f.at
        BY <1>n, <2>1
      <3>2. Spoken(i) \/ Coming(i, 1)
        BY <1>0, <1>2, <1>3, <3>1 DEF Covered
      <3>3. CASE Spoken(i)
        BY <1>0, <1>2, <1>9, <3>3, SpokenStays
      <3>4. CASE Coming(i, 1)
        BY <1>3, <1>9, <3>4 DEF Coming, Spoken
      <3>5. QED
        BY <3>2, <3>3, <3>4
    <2>2. CASE ~(i <= f.at)
      <3>1. ~split /\ f.kind = "change" /\ Unit(i) = Unit(f.at)
        BY <1>5, <2>2
      <3>2. f.at < i
        BY <1>n, <2>2
      <3>3. QED
        BY <1>2, <1>9, <3>1, <3>2 DEF Spoken, Unit
    <2>3. QED
      BY <2>1, <2>2
  <1>14. QED
    BY <1>0, <1>2, <1>3, <1>5, <1>7, <1>9, <1>10, <1>11, <1>12, <1>13, TakesInv DEF Shape

\* A frame that ends the feed.
LEMMA EndFrameInv ==
  ASSUME IInv, ReadRefusal \/ ReadUnknown
  PROVE  IInv'
  <1>0. Shape /\ InOrder /\ Resumes /\ OnceInOrder /\ LossOnlyInsideUnit
    BY DEF IInv
  <1>1. /\ wire # <<>> /\ wire' = Tail(wire) /\ Head(wire).kind # "change" /\ link' \in Over
        /\ split' = split /\ log' = log /\ committed' = committed /\ minor' = minor
        /\ reading' = reading /\ told' = told /\ given' = given
        /\ resume_from' = resume_from /\ resume_cursor' = resume_cursor
    BY DEF ReadRefusal, ReadUnknown, Arrived, node, sub, caller, Over
  <1>2. wire[1].kind # "change" /\ \A k \in 2 .. Len(wire) : k \in DOMAIN wire
    BY <1>0, <1>1, Typing DEF Shape
  <1>3. link' # "up"
    BY <1>1 DEF Over
  <1>4. Resumes' /\ OnceInOrder' /\ LossOnlyInsideUnit' /\ Given' = Given
    BY <1>0, <1>1, <1>3 DEF Resumes, Behind, Logs, OnceInOrder, LossOnlyInsideUnit, Given, Unit
  <1>5. \A d \in DOMAIN given', k \in 2 .. Len(wire) : States(wire[k]) => given'[d] < wire[k].at
    BY <1>0, <1>1, <1>2 DEF InOrder
  <1>6. QED
    BY <1>0, <1>1, <1>2, <1>3, <1>4, <1>5, TakesInv DEF Shape

\* A feed subscribed again: what is before its start is behind the resume point.
LEMMA SubscribeInv ==
  ASSUME IInv, Subscribe
  PROVE  IInv'
  <1>0. Shape /\ Logged /\ Resumes /\ OnceInOrder /\ LossOnlyInsideUnit
    BY DEF IInv
  <1>1. PICK s : s = StartOf(resume_from, resume_cursor)
    OBVIOUS
  <1>2. s \in 1 .. Len(log) + 1 /\ \A i \in DOMAIN log : Behind(i) <=> i < s
    BY <1>0, <1>1, StartSplits
  <1>3. /\ reading' = s /\ told' = s - 1 /\ wire' = <<>> /\ link' = "up"
        /\ Narrowed => minor >= CONDITION_MINOR
        /\ split' = split /\ log' = log /\ committed' = committed /\ minor' = minor /\ given' = given
        /\ resume_from' = resume_from /\ resume_cursor' = resume_cursor
    BY <1>1 DEF Subscribe, node, sub, caller
  <1>4. Len(log) \in Nat /\ s \in Nat /\ DOMAIN log = 1 .. Len(log)
    BY <1>0, <1>2, Typing
  <1>5. Shape'
    <2>1. s - 1 \in 0 .. s - 1 /\ wire' \in Seq(FrameIn)
      BY <1>2, <1>3, <1>4
    <2>2. QED
      BY <1>0, <1>2, <1>3, <2>1 DEF Shape, Live
  <1>6. Logged' /\ OnceInOrder' /\ LossOnlyInsideUnit'
    <2>1. Logged' /\ OnceInOrder'
      BY <1>0, <1>3 DEF Logged, Logs, OnceInOrder
    <2>2. LossOnlyInsideUnit'
      BY <1>0, <1>3 DEF LossOnlyInsideUnit, Behind, Given, Unit
    <2>3. QED
      BY <2>1, <2>2
  <1>7. InOrder'
    BY <1>3 DEF InOrder
  <1>8. Resumes'
    <2>1. ASSUME NEW d \in DOMAIN given PROVE given[d] <= s - 1
      <3>1. given[d] \in DOMAIN log /\ given[d] \in Nat /\ Behind(given[d])
        BY <1>0, <2>1, Typing DEF Resumes
      <3>2. QED
        BY <1>2, <1>4, <3>1
    <2>2. QED
      BY <1>0, <1>3, <2>1 DEF Resumes, Behind, Logs
  <1>9. Covered'
    <2>1. ASSUME NEW i \in 1 .. s - 1, log[i].match PROVE Spoken(i)
      <3>1. i \in DOMAIN log /\ i < s
        BY <1>2, <1>4
      <3>2. QED
        BY <1>0, <1>2, <2>1, <3>1 DEF LossOnlyInsideUnit, Spoken
    <2>2. \A i : Spoken(i) => Spoken(i)'
      BY <1>3 DEF Spoken, Given, Unit
    <2>3. QED
      BY <1>3, <2>1, <2>2 DEF Covered
  <1>10. QED
    BY <1>5, <1>6, <1>7, <1>8, <1>9 DEF IInv
-----------------------------------------------------------------------------
(* The theorems *)

LEMMA Invariance == Spec => []IInv
  <1>1. IInv /\ [Next]_vars => IInv'
    <2> SUFFICES ASSUME IInv, [Next]_vars PROVE IInv'
      OBVIOUS
    <2>1. CASE UNCHANGED vars
      BY <2>1, KeepsInv DEF IInv, Shape, vars, sub
    <2>2. CASE Next
      BY <2>2, CommitInv, NodeReadsInv, NodeReportsInv, EndsInv, ReadsInv, EndFrameInv, SubscribeInv
         DEF Next
    <2>3. QED
      BY <2>1, <2>2
  <1>2. QED
    BY InitInv, <1>1, PTL DEF Spec

\* Wherever a connection is dropped, cut or declined, and however often the caller
\* subscribes again, it is handed changes in the order they were logged and none twice
\* (connection.py:205-212, 345-401).
THEOREM DeliveredOnceInOrder == Spec => []OnceInOrder
  <1>1. IInv => OnceInOrder
    BY DEF IInv
  <1>2. QED
    BY Invariance, <1>1, PTL

\* A narrowed feed hands over only what its condition holds for, though a node it
\* resumes at may be too old to know conditions (connection.py:221-229).
THEOREM DeliveredMatches == Spec => []OnlyMatching
  <1>1. IInv => OnlyMatching
    BY DEF IInv, Resumes, OnlyMatching
  <1>2. QED
    BY Invariance, <1>1, PTL

\* What the resume point passes without its being handed over is at most the rest of a
\* commit that was begun, and nothing when the node gives cursors (connection.py:93-96,
\* 380-383).
THEOREM LosesAtMostInsideUnit == Spec => []LossOnlyInsideUnit
  <1>1. IInv => LossOnlyInsideUnit
    BY DEF IInv
  <1>2. QED
    BY Invariance, <1>1, PTL
-----------------------------------------------------------------------------
(* A step of the feed is a step of Delivery, or none *)

Publication == [unit : Parts \X Nat, wanted : BOOLEAN]

LEMMA LogPublished ==
  ASSUME NEW l \in Seq(ChangeIn),
         NEW pub, pub = [i \in 1 .. Len(l) |-> [unit |-> <<l[i].part, l[i].seq>>, wanted |-> l[i].match]]
  PROVE  /\ pub \in Seq(Publication) /\ Len(pub) = Len(l)
         /\ \A i \in 1 .. Len(l) : pub[i].unit = <<l[i].part, l[i].seq>> /\ pub[i].wanted = l[i].match
  <1>1. Len(l) \in Nat /\ \A i \in 1 .. Len(l) : l[i] \in ChangeIn
    BY LenProperties, ElementOfSeq
  <1>2. \A i \in 1 .. Len(l) :
          [unit |-> <<l[i].part, l[i].seq>>, wanted |-> l[i].match] \in Publication
    BY <1>1 DEF ChangeIn, Publication
  <1>3. pub \in Seq(Publication) /\ Len(pub) = Len(l)
    BY <1>1, <1>2
  <1>4. QED
    BY <1>3

LEMMA PublishedTyped ==
  ASSUME Shape
  PROVE  /\ Published \in Seq(Publication) /\ Len(Published) = Len(log)
         /\ \A i \in 1 .. Len(log) : /\ Published[i].unit = Unit(i)
                                     /\ Published[i].wanted = log[i].match
  BY LogPublished DEF Shape, Published, Unit

LEMMA CommitPublishes ==
  ASSUME IInv, IInv', NEW p \in Parts, Commit(p)
  PROVE  Promise!Publish
  <1>0. Shape /\ Shape'
    BY DEF IInv
  <1>1. /\ Published \in Seq(Publication) /\ Len(Published) = Len(log)
        /\ \A i \in 1 .. Len(log) : /\ Published[i].unit = Unit(i)
                                    /\ Published[i].wanted = log[i].match
    BY <1>0, PublishedTyped
  <1>2. Published' \in Seq(Publication) /\ Len(Published') = Len(log')
    BY <1>0, LogPublished DEF Shape, Published, Unit
  <1>3. /\ Len(log') \in Nat /\ Len(log) \in Nat /\ Len(log') > Len(log)
        /\ \A i \in 1 .. Len(log) : log'[i] = log[i]
        /\ UNCHANGED <<split, given>>
    BY <1>0, CommitGrows, CommitLonger, Typing
  <1> DEFINE front == SubSeq(Published', 1, Len(log))
  <1>4. /\ front \in Seq(Publication) /\ Len(front) = Len(log)
        /\ \A i \in 1 .. Len(log) : front[i] = (Published')[i]
    <2>1. \A i \in 1 .. Len(log) : (Published')[i] \in Publication
      BY <1>2, <1>3, ElementOfSeq
    <2>2. /\ front \in Seq(Publication)
          /\ Len(front) = IF 1 <= Len(log) THEN Len(log) - 1 + 1 ELSE 0
          /\ \A i \in 1 .. Len(log) - 1 + 1 : front[i] = (Published')[1 + i - 1]
      BY <1>3, <2>1, SubSeqProperties
    <2>3. QED
      BY <1>3, <2>2
  <1>5. \A i \in 1 .. Len(log) : (Published')[i] = Published[i]
    <2> SUFFICES ASSUME NEW i \in 1 .. Len(log) PROVE (Published')[i] = Published[i]
      OBVIOUS
    <2>1. i \in 1 .. Len(log') /\ log'[i] = log[i]
      BY <1>3
    <2>2. QED
      BY <2>1 DEF Published, Unit
  <1>6. front = Published
    BY <1>1, <1>4, <1>5, SeqEqual
  <1>7. QED
    BY <1>1, <1>2, <1>3, <1>6 DEF Promise!Publish

\* The change on top of the wire is wanted, is after everything handed over, and skips
\* nothing but the rest of a commit a plain feed had begun.
LEMMA ReadDelivers ==
  ASSUME IInv, ReadChange
  PROVE  \E k \in DOMAIN Published : Promise!Deliver(k)
  <1>0. Shape /\ InOrder /\ Covered
    BY DEF IInv
  <1> DEFINE f == Head(wire)
             k == f.at
  <1>1. /\ wire # <<>> /\ f.kind = "change" /\ given' = Append(given, k)
        /\ UNCHANGED <<log, split>>
    BY DEF ReadChange, Arrived, node
  <1>2. 1 \in DOMAIN wire /\ f = wire[1] /\ States(f)
    BY <1>0, <1>1, Typing DEF Shape, States
  <1>3. k \in 1 .. told /\ log[k].match /\ \A d \in DOMAIN given : given[d] < k
    BY <1>0, <1>1, <1>2 DEF InOrder, Framed
  <1>4. k \in 1 .. Len(log)
    BY <1>0, <1>3, Typing
  <1>5. \A i \in 1 .. k : log[i].match => Spoken(i) \/ Coming(i, 1)
    BY <1>0, <1>2 DEF Covered
  <1>6. \A j \in 1 .. Len(log) : j \in Given <=> Promise!Delivered(j)
    BY DEF Given, Promise!Delivered
  <1>7. \A j \in k .. Len(log) : ~Promise!Delivered(j)
    BY <1>0, <1>3, <1>4, Typing DEF Promise!Delivered
  <1>8. ASSUME NEW j \in 1 .. k - 1, log[j].match, ~Promise!Delivered(j)
        PROVE  ~split /\ Promise!Begun(j)
    <2>1. j \in 1 .. Len(log) /\ j \in 1 .. k /\ j # k
      BY <1>4
    <2>2. ~Coming(j, 1)
      BY <1>2, <2>1 DEF Coming
    <2>3. Spoken(j) /\ j \notin Given
      BY <1>5, <1>6, <1>8, <2>1, <2>2
    <2>4. PICK i \in Given : ~split /\ i < j /\ Unit(i) = Unit(j)
      BY <2>3 DEF Spoken
    <2>5. i \in 1 .. Len(log) /\ i \in 1 .. j - 1
      BY <1>0, <2>1, <2>4, Typing DEF Given
    <2>6. Published[i].unit = Published[j].unit /\ Promise!Delivered(i)
      BY <1>0, <1>6, <2>1, <2>4, <2>5, PublishedTyped
    <2>7. QED
      BY <2>4, <2>5, <2>6 DEF Promise!Begun
  <1>9. Len(Published) = Len(log) /\ DOMAIN Published = 1 .. Len(log)
          /\ \A i \in 1 .. Len(log) : Published[i].wanted = log[i].match
    BY <1>0, PublishedTyped DEF Published
  <1>10. Published' = Published
    BY <1>1 DEF Published, Unit
  <1> HIDE DEF k
  <1>11. \A j \in 1 .. k - 1 : Published[j].wanted /\ ~Promise!Delivered(j) => ~split /\ Promise!Begun(j)
    BY <1>4, <1>8, <1>9
  <1>12. Promise!Deliver(k)
    BY <1>1, <1>3, <1>4, <1>7, <1>9, <1>10, <1>11 DEF Promise!Deliver
  <1>13. QED
    BY <1>4, <1>9, <1>12

\* Every step of a feed, of the node it reads or of its caller is a step that Delivery
\* allows: what it promises in safety is kept for any parts, commits, sockets, drops and
\* rollbacks (connection.py:205-212, 334-336; README.md:199-204).
THEOREM KeepsPromise == Spec => Promise!Safety
  <1>1. Init => Promise!Init
    <2> SUFFICES ASSUME Init PROVE Promise!Init
      OBVIOUS
    <2>1. Len(log) = 0 /\ given = <<>> /\ split \in BOOLEAN
      BY DEF Init
    <2>2. Published = <<>>
      BY <2>1 DEF Published
    <2>3. QED
      BY <2>1, <2>2 DEF Promise!Init
  <1>2. IInv /\ IInv' /\ [Next]_vars => [Promise!Next]_Promise!vars
    <2> SUFFICES ASSUME IInv, IInv', [Next]_vars PROVE [Promise!Next]_Promise!vars
      OBVIOUS
    <2>1. CASE \E p \in Parts : Commit(p)
      BY <2>1, CommitPublishes DEF Promise!Next
    <2>2. CASE ReadChange
      BY <2>2, ReadDelivers DEF Promise!Next
    <2>3. CASE UNCHANGED <<log, split, given>>
      <3>1. Published' = Published
        BY <2>3 DEF Published, Unit
      <3>2. QED
        BY <2>3, <3>1 DEF Promise!vars
    <2>4. QED
      BY <2>1, <2>2, <2>3
      DEF Next, vars, node, caller, NodeReads, NodeReports, Drop, Rollback, Upgrade, Decline,
          ReadProgress, ReadRefusal, ReadUnknown, ReadEnd, Handle, HandlerFails, Subscribe
  <1>3. QED
    BY Invariance, <1>1, <1>2, PTL DEF Spec, Promise!Safety
=============================================================================
