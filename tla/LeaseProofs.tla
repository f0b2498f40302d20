---------------------------- MODULE LeaseProofs ----------------------------
(***************************************************************************)
(* What the lock of a space promises whoever is slow, cut off or dead,     *)
(* proved for any callers, names, ttls and numbers of calls.               *)
(***************************************************************************)
EXTENDS Lease, TLAPS

Shape ==
  /\ statement \in [Callers -> [op : {"none", "lock", "extend", "release"}, ttl : Nat]]
  /\ \A c \in Callers : holder[c] \in HoldersOf(c) \cup {NoHolder}
  /\ \A c \in Callers : statement[c].op # "none" => holder[c] \in HoldersOf(c)
  /\ holder \in [Callers -> Holders \cup {NoHolder}]
  /\ answer \in [Callers -> {"none", "yes", "no"}]
  /\ calls \in [Callers -> 0 .. MaxCalls]
  /\ granted \in [Callers -> Nat]
  /\ left \in Nat

\* A lease that has not lapsed is the one the key holds, for as long.
Backed ==
  \A c \in Callers : granted[c] > 0 => key \in HoldersOf(c) /\ left = granted[c]

\* The key does not come back to a caller that was overtaken.
Overtaken == \A c \in Callers : key \in HoldersOf(c) => c \notin lost

\* A fresh token is one of the caller's.
LEMMA FreshIsOwn ==
  ASSUME NEW c \in Callers, calls \in [Callers -> 0 .. MaxCalls], calls[c] < MaxCalls,
         NEW h \in Own(c) \cup {Fresh(c)}
  PROVE  h \in HoldersOf(c)
  <1>1. calls[c] + 1 \in 1 .. MaxCalls
    BY LeaseAssumption
  <1>2. QED
    BY <1>1 DEF Fresh, HoldersOf

\* The holders of two callers are told apart, and from an absent key.
LEMMA Apart ==
  /\ \A c, d \in Callers : c # d => HoldersOf(c) \cap HoldersOf(d) = {}
  /\ \A c \in Callers : NoKey \notin HoldersOf(c)
  <1>1. ASSUME NEW c \in Callers, NEW d \in Callers, c # d, NEW h \in HoldersOf(c)
        PROVE  h \notin HoldersOf(d)
    <2>1. CASE h \in Own(c)
      <3>1. PICK name \in Names[c] : h = <<name, 0>>
        BY <2>1 DEF Own
      <3>2. name \notin Names[d]
        BY <1>1, LeaseAssumption
      <3>3. h \notin Own(d)
        BY <3>1, <3>2 DEF Own
      <3>4. \A n \in 1 .. MaxCalls : h # <<d, n>>
        BY <3>1, LeaseAssumption
      <3>5. QED
        BY <3>3, <3>4 DEF HoldersOf
    <2>2. CASE \E n \in 1 .. MaxCalls : h = <<c, n>>
      <3>1. PICK n \in 1 .. MaxCalls : h = <<c, n>>
        BY <2>2
      <3>2. h \notin Own(d)
        BY <3>1, LeaseAssumption DEF Own
      <3>3. \A k \in 1 .. MaxCalls : h # <<d, k>>
        BY <1>1, <3>1
      <3>4. QED
        BY <3>2, <3>3 DEF HoldersOf
    <2>3. QED
      BY <2>1, <2>2 DEF HoldersOf
  <1>2. \A c \in Callers : NoKey \notin HoldersOf(c)
    <2>1. -1 # 0 /\ -1 \notin 1 .. MaxCalls
      BY LeaseAssumption
    <2>2. \A c \in Callers : NoKey \notin Own(c)
      BY <2>1 DEF NoKey, Own
    <2>3. \A c \in Callers, n \in 1 .. MaxCalls : NoKey # <<c, n>>
      BY <2>1 DEF NoKey
    <2>4. QED
      BY <2>2, <2>3 DEF HoldersOf
  <1>3. QED
    BY <1>1, <1>2

\* Every step keeps the types, and a caller in a call has a holder of its own.
LEMMA NextShape == Shape /\ [Next]_vars => Shape'
  <1> SUFFICES ASSUME Shape, [Next]_vars PROVE Shape'
    OBVIOUS
  <1> USE DEF space
  <1>1. CASE UNCHANGED vars
    BY <1>1 DEF vars, Shape
  <1>2. ASSUME NEW c \in Callers, NEW t \in 1 .. MaxTtl, Lock(c, t) PROVE Shape'
    <2>1. PICK h \in Own(c) \cup {Fresh(c)} : holder' = [holder EXCEPT ![c] = h]
      BY <1>2 DEF Lock
    <2>2. h \in HoldersOf(c) /\ h \in Holders
      BY <1>2, FreshIsOwn DEF Lock, Asks, Shape, Holders
    <2>3. calls' \in [Callers -> 0 .. MaxCalls]
      BY <1>2, LeaseAssumption DEF Lock, Asks, Shape
    <2>4. statement' \in [Callers -> [op : {"none", "lock", "extend", "release"}, ttl : Nat]]
      BY <1>2 DEF Lock, Asks, Statement, Shape
    <2>5. QED
      BY <1>2, <2>1, <2>2, <2>3, <2>4 DEF Lock, Asks, Shape
  <1>3. ASSUME NEW c \in Callers, NEW t \in 1 .. MaxTtl, Extend(c, t) PROVE Shape'
    <2>1. holder[c] \in HoldersOf(c)
      BY <1>3 DEF Extend, Shape
    <2>2. calls' \in [Callers -> 0 .. MaxCalls]
      BY <1>3, LeaseAssumption DEF Extend, Asks, Shape
    <2>3. statement' \in [Callers -> [op : {"none", "lock", "extend", "release"}, ttl : Nat]]
      BY <1>3 DEF Extend, Asks, Statement, Shape
    <2>4. QED
      BY <1>3, <2>1, <2>2, <2>3 DEF Extend, Asks, Shape
  <1>4. ASSUME NEW c \in Callers, Release(c) PROVE Shape'
    <2>1. holder[c] \in HoldersOf(c)
      BY <1>4 DEF Release, Shape
    <2>2. calls' \in [Callers -> 0 .. MaxCalls]
      BY <1>4, LeaseAssumption DEF Release, Asks, Shape
    <2>3. statement' \in [Callers -> [op : {"none", "lock", "extend", "release"}, ttl : Nat]]
      BY <1>4 DEF Release, Asks, Statement, Shape
    <2>4. QED
      BY <1>4, <2>1, <2>2, <2>3 DEF Release, Asks, Shape
  <1>5. ASSUME NEW c \in Callers, RunsNot(c) PROVE Shape'
    BY <1>5 DEF RunsNot, Ran, Shape
  <1>6. ASSUME NEW c \in Callers, RunsLock(c) PROVE Shape'
    BY <1>6 DEF RunsLock, Ran, Grants, Shape
  <1>7. ASSUME NEW c \in Callers, RunsExtend(c) PROVE Shape'
    BY <1>7 DEF RunsExtend, Ran, Grants, Shape
  <1>8. ASSUME NEW c \in Callers, RunsRelease(c) PROVE Shape'
    BY <1>8 DEF RunsRelease, Ran, Shape
  <1>9. CASE Tick
    BY <1>9 DEF Tick, Shape
  <1>10. ASSUME NEW c \in Callers, Answered(c) PROVE Shape'
    BY <1>10 DEF Answered, Returns, NoStatement, Statement, Shape
  <1>11. ASSUME NEW c \in Callers, Fails(c) PROVE Shape'
    BY <1>11 DEF Fails, Returns, NoStatement, Statement, Shape
  <1>12. ASSUME NEW c \in Callers, Dies(c) PROVE Shape'
    BY <1>12 DEF Dies, Shape
  <1>13. QED
    BY <1>1, <1>2, <1>3, <1>4, <1>5, <1>6, <1>7, <1>8, <1>9, <1>10, <1>11, <1>12 DEF Next

\* No step lets two leases last, or one last longer than the key.
LEMMA NextBacked == Shape /\ Backed /\ [Next]_vars => Backed'
  <1> SUFFICES ASSUME Shape, Backed, [Next]_vars PROVE Backed'
    OBVIOUS
  <1> USE DEF space
  <1>1. CASE UNCHANGED vars
    BY <1>1 DEF vars, Shape, Backed
  <1>2. ASSUME NEW c \in Callers, NEW t \in 1 .. MaxTtl, Lock(c, t) PROVE Backed'
    BY <1>2, Apart DEF Lock, Asks, Statement, Shape, Backed
  <1>3. ASSUME NEW c \in Callers, NEW t \in 1 .. MaxTtl, Extend(c, t) PROVE Backed'
    BY <1>3, Apart DEF Extend, Asks, Statement, Shape, Backed
  <1>4. ASSUME NEW c \in Callers, Release(c) PROVE Backed'
    BY <1>4, Apart DEF Release, Asks, Statement, Shape, Backed
  <1>5. ASSUME NEW c \in Callers, RunsNot(c) PROVE Backed'
    BY <1>5, Apart DEF RunsNot, Ran, Shape, Backed
  <1>6. ASSUME NEW c \in Callers, RunsLock(c) PROVE Backed'
    BY <1>6, Apart DEF RunsLock, Ran, Grants, Shape, Backed
  <1>7. ASSUME NEW c \in Callers, RunsExtend(c) PROVE Backed'
    BY <1>7, Apart DEF RunsExtend, Ran, Grants, Shape, Backed
  <1>8. ASSUME NEW c \in Callers, RunsRelease(c) PROVE Backed'
    BY <1>8, Apart DEF RunsRelease, Ran, Shape, Backed
  <1>9. CASE Tick
    BY <1>9, Apart DEF Tick, Shape, Backed
  <1>10. ASSUME NEW c \in Callers, Answered(c) PROVE Backed'
    BY <1>10, Apart DEF Answered, Returns, NoStatement, Statement, Shape, Backed
  <1>11. ASSUME NEW c \in Callers, Fails(c) PROVE Backed'
    BY <1>11, Apart DEF Fails, Returns, NoStatement, Statement, Shape, Backed
  <1>12. ASSUME NEW c \in Callers, Dies(c) PROVE Backed'
    BY <1>12, Apart DEF Dies, Shape, Backed
  <1>13. QED
    BY <1>1, <1>2, <1>3, <1>4, <1>5, <1>6, <1>7, <1>8, <1>9, <1>10, <1>11, <1>12 DEF Next

\* Unless a caller is named as what a release leaves, no step gives the key back.
LEMMA NextOvertaken == (\A d \in Callers : Free \notin HoldersOf(d)) /\ Shape /\ Overtaken /\ [Next]_vars => Overtaken'
  <1> SUFFICES ASSUME (\A d \in Callers : Free \notin HoldersOf(d)), Shape, Overtaken, [Next]_vars PROVE Overtaken'
    OBVIOUS
  <1> USE DEF space
  <1>1. CASE UNCHANGED vars
    BY <1>1 DEF vars, Shape, Overtaken
  <1>2. ASSUME NEW c \in Callers, NEW t \in 1 .. MaxTtl, Lock(c, t) PROVE Overtaken'
    BY <1>2, Apart DEF Lock, Asks, Statement, Shape, Overtaken
  <1>3. ASSUME NEW c \in Callers, NEW t \in 1 .. MaxTtl, Extend(c, t) PROVE Overtaken'
    BY <1>3, Apart DEF Extend, Asks, Statement, Shape, Overtaken
  <1>4. ASSUME NEW c \in Callers, Release(c) PROVE Overtaken'
    BY <1>4, Apart DEF Release, Asks, Statement, Shape, Overtaken
  <1>5. ASSUME NEW c \in Callers, RunsNot(c) PROVE Overtaken'
    BY <1>5, Apart DEF RunsNot, Ran, Shape, Overtaken
  <1>6. ASSUME NEW c \in Callers, RunsLock(c) PROVE Overtaken'
    BY <1>6, Apart DEF RunsLock, Ran, Grants, Shape, Overtaken
  <1>7. ASSUME NEW c \in Callers, RunsExtend(c) PROVE Overtaken'
    BY <1>7, Apart DEF RunsExtend, Ran, Grants, Shape, Overtaken
  <1>8. ASSUME NEW c \in Callers, RunsRelease(c) PROVE Overtaken'
    BY <1>8, Apart DEF RunsRelease, Ran, Shape, Overtaken
  <1>9. CASE Tick
    BY <1>9, Apart DEF Tick, Shape, Overtaken
  <1>10. ASSUME NEW c \in Callers, Answered(c) PROVE Overtaken'
    BY <1>10, Apart DEF Answered, Returns, NoStatement, Statement, Shape, Overtaken
  <1>11. ASSUME NEW c \in Callers, Fails(c) PROVE Overtaken'
    BY <1>11, Apart DEF Fails, Returns, NoStatement, Statement, Shape, Overtaken
  <1>12. ASSUME NEW c \in Callers, Dies(c) PROVE Overtaken'
    BY <1>12, Apart DEF Dies, Shape, Overtaken
  <1>13. QED
    BY <1>1, <1>2, <1>3, <1>4, <1>5, <1>6, <1>7, <1>8, <1>9, <1>10, <1>11, <1>12 DEF Next

\* The inductive invariant holds in every state.
THEOREM Invariant == Spec => [](Shape /\ Backed)
  <1>1. Init => Shape /\ Backed
    BY LeaseAssumption DEF Init, Shape, Backed, NoStatement, Statement
  <1>2. Shape /\ Backed /\ [Next]_vars => (Shape /\ Backed)'
    BY NextShape, NextBacked
  <1>3. QED
    BY <1>1, <1>2, PTL DEF Spec

\* Leases that have not lapsed are never two (cache.py:14-18).
THEOREM LeasesExclusive == Spec => []Exclusive
  <1>1. Shape /\ Backed => Exclusive
    BY Apart DEF Shape, Backed, Exclusive
  <1>2. QED
    BY <1>1, Invariant, PTL

\* True from an extend or a release means the lease was never overtaken, as long
\* as no caller goes by the name a release leaves (cache.py:202-203).
THEOREM NeverOvertaken ==
  ASSUME \A c \in Callers : "free" \notin Names[c]
  PROVE  Spec => TrueMeansUnbroken
  <1>1. \A c \in Callers : Free \notin HoldersOf(c)
    BY LeaseAssumption DEF Free, HoldersOf, Own
  <1>2. Init => Overtaken
    BY Apart DEF Init, Overtaken
  <1>3. Shape /\ Overtaken /\ [Next]_vars => Overtaken'
    BY <1>1, NextOvertaken
  <1>4. Shape /\ Overtaken /\ [Next]_vars =>
          [\A c \in Callers :
             answer[c] = "none" /\ answer'[c] = "yes" /\ statement[c].op # "lock"
               => c \notin lost]_vars
    <2> SUFFICES ASSUME Shape, Overtaken, Next, NEW c \in Callers, answer[c] = "none",
                        answer'[c] = "yes", statement[c].op # "lock"
                 PROVE  c \notin lost
      OBVIOUS
    <2>1. answer' # answer
      OBVIOUS
    <2>2. PICK d \in Callers : RunsNot(d) \/ RunsLock(d) \/ RunsExtend(d) \/ RunsRelease(d)
                              \/ Answered(d) \/ Fails(d)
      BY <2>1 DEF Next, Lock, Extend, Release, Asks, Tick, Dies
    <2>3. answer \in [Callers -> {"none", "yes", "no"}]
      BY DEF Shape
    <2>4. key = holder[c]
      BY <2>2, <2>3 DEF RunsNot, RunsLock, RunsExtend, RunsRelease, Ran, Answered, Fails, Returns
    <2>5. statement[c].op # "none"
      BY <2>2, <2>3 DEF RunsNot, RunsLock, RunsExtend, RunsRelease, Ran, Answered, Fails, Returns
    <2>6. key \in HoldersOf(c)
      BY <2>4, <2>5 DEF Shape
    <2>7. QED
      BY <2>6 DEF Overtaken
  <1>5. QED
    BY <1>2, <1>3, <1>4, Invariant, PTL DEF Spec, TrueMeansUnbroken
=============================================================================
