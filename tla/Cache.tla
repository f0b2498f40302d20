------------------------------- MODULE Cache -------------------------------
(***************************************************************************)
(* A key of a space used as a cache and a counter (src/src/tessaridb/      *)
(* cache.py): the one-statement calls of Cache, and get_or_set, which is   *)
(* up to three statements with a loader between them, made by callers that *)
(* race each other, expiry and lost answers.                               *)
(*                                                                         *)
(* The space is the store's, outside the repository: each statement runs   *)
(* atomically and does what it says.  A tick is the unit of a ttl.         *)
(***************************************************************************)
EXTENDS Integers, FiniteSets

CONSTANTS
  Callers,
  MaxTtl,      \* the longest ttl, in ticks
  MaxCalls     \* bound: calls of each caller

ASSUME CacheAssumption == {MaxTtl, MaxCalls} \subseteq Nat \ {0}

VARIABLES
  \* the store
  key,      \* what the key holds
  left,     \* the ticks it has left, 0 when it does not expire
  \* each caller
  pc,       \* which statement of its call is out
  call,     \* the call it is in, or was in last
  answer,   \* what the store answered to the statement
  result,   \* what the call gave, NoKey when nothing
  calls,
  \* history
  stood,    \* what the key held since the call began, or since its loader was done
  removed,  \* the callers since whose call began a value was removed or replaced
  added     \* the calls whose increments are in the key

space == <<key, left>>
history == <<stood, removed, added>>
vars == <<key, left, pc, call, answer, result, calls, stood, removed, added>>

\* What a caller makes in a call, a count, and what is no value.
Made(c) == <<"made", c, calls[c]>>
Count(n) == <<"count", "", n>>
NoKey == <<"none", "", 0>>
Unanswered == <<"unanswered", "", 0>>
Yes == <<"yes", "", 0>>
No == <<"no", "", 0>>

Sets == {"set", "set if absent", "set if present", "compare and set"}
Ops == Sets \cup {"get", "delete", "incr", "expire", "persist", "get or set"}

\* A ttl must be positive where one is needed, and need not be given with a set.
Ttls(op) == CASE op \in Sets -> 0 .. MaxTtl
              [] op \in {"expire", "get or set"} -> 1 .. MaxTtl
              [] OTHER -> {0}

Init ==
  /\ key = NoKey /\ left = 0
  /\ pc = [c \in Callers |-> "idle"]
  /\ call = [c \in Callers |-> [op |-> "get", ttl |-> 0, was |-> NoKey]]
  /\ answer = [c \in Callers |-> Unanswered]
  /\ result = [c \in Callers |-> NoKey]
  /\ calls = [c \in Callers |-> 0]
  /\ stood = [c \in Callers |-> {}]
  /\ removed = {} /\ added = {}

-----------------------------------------------------------------------------
(* The callers *)

\* What a compare_and_set expects is what the caller was last given.
Call(c) ==
  /\ pc[c] = "idle" /\ calls[c] < MaxCalls
  /\ \E op \in Ops : \E ttl \in Ttls(op) :
       /\ op = "compare and set" => result[c] # NoKey
       /\ call' = [call EXCEPT ![c] = [op |-> op, ttl |-> ttl, was |-> result[c]]]
       /\ pc' = [pc EXCEPT ![c] = IF op = "get or set" THEN "get" ELSE "once"]
  /\ calls' = [calls EXCEPT ![c] = @ + 1]
  /\ result' = [result EXCEPT ![c] = NoKey]
  /\ stood' = [stood EXCEPT ![c] = {key}] /\ removed' = removed \ {c}
  /\ UNCHANGED <<space, answer, added>>

Goes(c, to) ==
  /\ pc' = [pc EXCEPT ![c] = to]
  /\ answer' = [answer EXCEPT ![c] = Unanswered]
  /\ UNCHANGED <<space, call, calls, removed, added>>

Returns(c, value) ==
  /\ Goes(c, "idle")
  /\ result' = [result EXCEPT ![c] = value]
  /\ UNCHANGED stood

\* A flag is given as one, and is no value to expect afterwards.
Answered(c) ==
  /\ pc[c] = "once" /\ answer[c] # Unanswered
  /\ Returns(c, IF answer[c] \in {Yes, No} THEN NoKey ELSE answer[c])

Hits(c) ==
  /\ pc[c] = "get" /\ answer[c] \notin {Unanswered, NoKey}
  /\ Returns(c, answer[c])

\* The loader runs while everybody else goes on.
Loads(c) ==
  /\ pc[c] = "get" /\ answer[c] = NoKey
  /\ stood' = [stood EXCEPT ![c] = {key}]
  /\ Goes(c, "store") /\ UNCHANGED result

Stored(c) ==
  /\ pc[c] = "store" /\ answer[c] = Yes
  /\ Returns(c, Made(c))

\* Somebody stored first: the caller asks for what.
StoresLate(c) ==
  /\ pc[c] = "store" /\ answer[c] = No
  /\ Goes(c, "again") /\ UNCHANGED <<result, stood>>

\* Mutant: who stored late answers what it made.
ReadsAgain_Made(c) ==
  /\ pc[c] = "again" /\ answer[c] # Unanswered
  /\ Returns(c, Made(c))

\* What was stored, or what it made when that has expired.
ReadsAgain(c) ==
  /\ pc[c] = "again" /\ answer[c] # Unanswered
  /\ Returns(c, IF answer[c] = NoKey THEN Made(c) ELSE answer[c])

\* Mutants: a store that failed is answered with what was made; an increment that
\* failed is sent once more.
Fails_Serves(c) ==
  /\ pc[c] # "idle"
  /\ Returns(c, IF pc[c] = "store" THEN Made(c) ELSE NoKey)
Fails_Resends(c) ==
  /\ pc[c] # "idle"
  /\ IF call[c].op = "incr" THEN Goes(c, "once") /\ UNCHANGED <<result, stood>>
     ELSE Returns(c, NoKey)

\* The connection fails, the statement run or not, or the loader does: the call
\* raises.
Fails(c) ==
  /\ pc[c] # "idle"
  /\ Returns(c, NoKey)

-----------------------------------------------------------------------------
(* The store runs a statement *)

\* The statement of its own that the caller has out.
Out(c, op) ==
  /\ answer[c] = Unanswered
  /\ \/ pc[c] = "once" /\ call[c].op = op
     \/ pc[c] \in {"get", "again"} /\ op = "get"
     \/ pc[c] = "store" /\ op = "set if absent"

Answers(c, value) ==
  /\ answer' = [answer EXCEPT ![c] = value]
  /\ UNCHANGED <<pc, call, result, calls>>

\* What the callers that are in a call could have seen.
Seen ==
  /\ stood' = [c \in Callers |-> IF pc[c] = "idle" THEN stood[c] ELSE stood[c] \cup {key'}]
  /\ removed' = IF key \in {NoKey, key'} THEN removed ELSE Callers

Writes(c, value, ttl) ==
  /\ key' = value /\ left' = ttl
  /\ added' = {} /\ Seen

RunsGet(c) ==
  /\ Out(c, "get")
  /\ Answers(c, key) /\ UNCHANGED <<space, history>>

\* Whether the condition of a set holds.
Holds(c, op) == CASE op = "set" -> TRUE
                  [] op = "set if absent" -> key = NoKey
                  [] op = "set if present" -> key # NoKey
                  [] op = "compare and set" -> key = call[c].was

\* SET k = $v [condition] [EXPIRE $t], which clears the expiry there was.
RunsSet(c) ==
  \E op \in Sets :
    /\ Out(c, op) /\ Holds(c, op)
    /\ Answers(c, Yes) /\ Writes(c, Made(c), call[c].ttl)

RunsSetNot(c) ==
  /\ \E op \in Sets : Out(c, op) /\ ~Holds(c, op)
  /\ Answers(c, No) /\ UNCHANGED <<space, history>>

\* DELETE k RETURN BEFORE
RunsDelete(c) ==
  /\ Out(c, "delete")
  /\ Answers(c, IF key = NoKey THEN No ELSE Yes)
  /\ key' = NoKey /\ left' = 0 /\ Seen
  /\ UNCHANGED added

\* INCR k BY 1 counts a missing key from zero, and keeps the expiry there was.
RunsIncr(c) ==
  /\ Out(c, "incr")
  /\ key = NoKey \/ key[1] = "count"
  /\ key' = Count(key[3] + 1) /\ Answers(c, key')
  /\ added' = (IF key = NoKey THEN {} ELSE added) \cup {<<c, calls[c]>>}
  /\ Seen /\ UNCHANGED left

\* What is no count is not incremented: the call raises.
RunsIncrNot(c) ==
  /\ Out(c, "incr") /\ key[1] = "made"
  /\ Returns(c, NoKey)

\* EXPIRE k $t and PERSIST k
RunsExpire(c) ==
  /\ Out(c, "expire") \/ Out(c, "persist")
  /\ Answers(c, IF key = NoKey THEN No ELSE Yes)
  /\ left' = IF key = NoKey THEN 0 ELSE call[c].ttl
  /\ UNCHANGED <<key, stood, removed, added>>

Tick ==
  /\ left > 0
  /\ left' = left - 1
  /\ key' = IF left = 1 THEN NoKey ELSE key
  /\ Seen
  /\ UNCHANGED <<pc, call, answer, result, calls, added>>

Next ==
  \/ Tick
  \/ \E c \in Callers :
       \/ Call(c) \/ Answered(c) \/ Hits(c) \/ Loads(c) \/ Stored(c) \/ StoresLate(c)
       \/ ReadsAgain(c) \/ Fails(c)
       \/ RunsGet(c) \/ RunsSet(c) \/ RunsSetNot(c) \/ RunsDelete(c) \/ RunsIncr(c)
       \/ RunsIncrNot(c) \/ RunsExpire(c)

Spec == Init /\ [][Next]_vars

-----------------------------------------------------------------------------
(* Properties *)

Given(c) == call[c].op = "get or set" /\ result[c] # NoKey

\* A get_or_set answers what was under the key while it ran; its own value only if
\* it was stored, or if after the loader there was a moment without any
\* (cache.py:314-322).
AnswersStand ==
  \A c \in Callers : Given(c) =>
    \/ result[c] \in stood[c]
    \/ result[c] = Made(c) /\ NoKey \in stood[c]

\* Everybody who raced for a key has the same value in hand, the one that is
\* stored, as long as nothing removed or replaced it since they began
\* (cache.py:312-313 "the first to store wins, and the others answer the winner's
\* value").
RacersAgree == \A c \in Callers : Given(c) /\ c \notin removed => key = result[c]

\* A counter counts each call at most once, whatever answers are lost.
CountsOnce == key[1] = "count" => key[3] = Cardinality(added)
=============================================================================
