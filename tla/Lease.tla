------------------------------- MODULE Lease -------------------------------
(***************************************************************************)
(* The lock of a cache space (src/src/tessaridb/cache.py): Cache.lock, and *)
(* extend and release of the Lease it gives, each one conditional write    *)
(* that the store runs atomically, called by processes that are slow, lose *)
(* answers, and die holding the lock.  Nobody is told when a lease lapses. *)
(*                                                                         *)
(* The space is the store's, outside the repository: SET ... IF ABSENT, IF *)
(* = and EXPIRE do what the statements say.  A tick is its millisecond.    *)
(***************************************************************************)
EXTENDS Integers, FiniteSets

CONSTANTS
  Callers,     \* the processes that take the lock
  Names,       \* the names a caller may give for itself, each one's own
  MaxTtl,      \* the longest ttl, in ticks
  MaxCalls     \* bound: calls of each caller

ASSUME LeaseAssumption ==
  /\ {MaxTtl, MaxCalls} \subseteq Nat \ {0}
  /\ \A c, d \in Callers : c # d => Names[c] \cap Names[d] = {}

VARIABLES
  \* the store
  key,        \* what the key holds: NoKey, Free or a holder
  left,       \* the ticks it has left
  \* each caller
  alive,      \* the callers that have not died
  statement,  \* the statement of the call it is in
  answer,     \* what the store answered it
  holder,     \* Lease.holder, NoHolder when it has no lease
  calls,
  \* history
  granted,    \* the ticks left of what the store granted it
  lost        \* the callers since whose grant another was granted the lock

space == <<key, left>>
vars == <<key, left, alive, statement, answer, holder, calls, granted, lost>>

\* A holder is a name, or a name and a number for a token of secrets.token_hex.
NoKey == <<"no key", -1>>
NoHolder == <<"nobody", -1>>
Free == <<"free", 0>>

Fresh(c) == <<c, calls[c] + 1>>
Own(c) == {<<name, 0>> : name \in Names[c]}
HoldersOf(c) == {<<c, n>> : n \in 1 .. MaxCalls} \cup Own(c)
Holders == UNION {HoldersOf(c) : c \in Callers}

Statement(what, t) == [op |-> what, ttl |-> t]
NoStatement == Statement("none", 0)

Init ==
  /\ key = NoKey /\ left = 0
  /\ alive = Callers
  /\ statement = [c \in Callers |-> NoStatement]
  /\ answer = [c \in Callers |-> "none"]
  /\ holder = [c \in Callers |-> NoHolder]
  /\ calls = [c \in Callers |-> 0]
  /\ granted = [c \in Callers |-> 0]
  /\ lost = {}

-----------------------------------------------------------------------------
(* The calls: each sends one statement *)

Asks(c, s) ==
  /\ c \in alive /\ statement[c] = NoStatement /\ calls[c] < MaxCalls
  /\ statement' = [statement EXCEPT ![c] = s]
  /\ calls' = [calls EXCEPT ![c] = @ + 1]
  /\ UNCHANGED <<space, alive, answer, granted, lost>>

\* Under a name of the caller's, or a fresh token.
Lock(c, t) ==
  /\ holder[c] = NoHolder
  /\ \E h \in Own(c) \cup {Fresh(c)} : holder' = [holder EXCEPT ![c] = h]
  /\ Asks(c, Statement("lock", t))

\* For another ttl, or its own again.
Extend(c, t) ==
  /\ holder[c] # NoHolder
  /\ Asks(c, Statement("extend", t))
  /\ UNCHANGED holder

Release(c) ==
  /\ holder[c] # NoHolder
  /\ Asks(c, Statement("release", 1))
  /\ UNCHANGED holder

-----------------------------------------------------------------------------
(* The store runs a statement, whether or not its sender still lives *)

Ran(c, what, yes) ==
  /\ statement[c].op = what /\ answer[c] = "none"
  /\ answer' = [answer EXCEPT ![c] = yes]
  /\ UNCHANGED <<alive, statement, holder, calls>>

Grants(c) == granted' = [granted EXCEPT ![c] = statement[c].ttl]

\* The condition does not hold, and nothing is written.
RunsNot(c) ==
  /\ \/ key # NoKey /\ Ran(c, "lock", "no")
     \/ key # holder[c] /\ (Ran(c, "extend", "no") \/ Ran(c, "release", "no"))
  /\ UNCHANGED <<space, granted, lost>>

\* SET k = $h IF ABSENT EXPIRE $t
RunsLock(c) ==
  /\ key = NoKey
  /\ Ran(c, "lock", "yes")
  /\ key' = holder[c] /\ left' = statement[c].ttl
  /\ Grants(c) /\ lost' = Callers \ {c}

\* Mutant: the extension is set without IF =.
RunsExtend_Anyway(c) ==
  /\ Ran(c, "extend", "yes")
  /\ key' = holder[c] /\ left' = statement[c].ttl
  /\ Grants(c) /\ UNCHANGED lost

\* SET k = $h IF = $h EXPIRE $t
RunsExtend(c) ==
  /\ key = holder[c]
  /\ Ran(c, "extend", "yes")
  /\ left' = statement[c].ttl
  /\ Grants(c) /\ UNCHANGED <<key, lost>>

\* Mutants: the release is a DELETE; the release sets no expiry.
RunsRelease_Deletes(c) ==
  /\ Ran(c, "release", "yes")
  /\ key' = NoKey /\ left' = 0
  /\ granted' = [granted EXCEPT ![c] = 0]
  /\ UNCHANGED lost
RunsRelease_ForGood(c) ==
  /\ key = holder[c]
  /\ Ran(c, "release", "yes")
  /\ key' = Free /\ left' = 0
  /\ granted' = [granted EXCEPT ![c] = 0]
  /\ UNCHANGED lost

\* SET k = 'free' IF = $h EXPIRE 1ms
RunsRelease(c) ==
  /\ key = holder[c]
  /\ Ran(c, "release", "yes")
  /\ key' = Free /\ left' = 1
  /\ granted' = [granted EXCEPT ![c] = 0]
  /\ UNCHANGED lost

Tick ==
  /\ left > 0
  /\ left' = left - 1
  /\ key' = IF left = 1 THEN NoKey ELSE key
  /\ granted' = [c \in Callers |-> IF granted[c] > 0 THEN granted[c] - 1 ELSE 0]
  /\ UNCHANGED <<alive, statement, answer, holder, calls, lost>>

-----------------------------------------------------------------------------
(* The answer *)

Returns(c) ==
  /\ c \in alive
  /\ statement' = [statement EXCEPT ![c] = NoStatement]
  /\ answer' = [answer EXCEPT ![c] = "none"]
  /\ UNCHANGED <<space, alive, calls, granted, lost>>

\* A lock not taken gives no Lease; a lease lost or given back is done with.
Answered(c) ==
  /\ answer[c] # "none"
  /\ holder' = IF answer[c] = "yes" /\ statement[c].op # "release" THEN holder
               ELSE [holder EXCEPT ![c] = NoHolder]
  /\ Returns(c)

\* The connection fails, the statement run or not: lock gives no Lease, and a
\* lease whose extend or release raised is still in the caller's hands.
Fails(c) ==
  /\ statement[c] # NoStatement
  /\ holder' = IF statement[c].op = "lock" THEN [holder EXCEPT ![c] = NoHolder] ELSE holder
  /\ Returns(c)

Dies(c) ==
  /\ c \in alive
  /\ alive' = alive \ {c}
  /\ UNCHANGED <<space, statement, answer, holder, calls, granted, lost>>

Next ==
  \/ Tick
  \/ \E c \in Callers, t \in 1 .. MaxTtl : Lock(c, t) \/ Extend(c, t)
  \/ \E c \in Callers :
       \/ Release(c) \/ RunsNot(c) \/ RunsLock(c) \/ RunsExtend(c) \/ RunsRelease(c)
       \/ Answered(c) \/ Fails(c) \/ Dies(c)

Spec == Init /\ [][Next]_vars

\* Time passes, and an expired key is gone.
FairSpec == Spec /\ WF_vars(Tick)

-----------------------------------------------------------------------------
(* Properties *)

\* Two callers never hold leases that have both not lapsed, whatever a third
\* whose lease lapsed long ago releases or extends (cache.py:14-18; README.md:
\* 320-323 "a lease that lapsed cannot remove the next holder's lock").
Exclusive == \A c, d \in Callers : granted[c] > 0 /\ granted[d] > 0 => c = d

\* An extend or release that answers True was never overtaken: no other caller
\* was granted the lock since this one was, so the work it guards was alone all
\* along (cache.py:202-203 "False means the lease was already lost").
TrueMeansUnbroken ==
  [][\A c \in Callers :
       answer[c] = "none" /\ answer'[c] = "yes" /\ statement[c].op # "lock"
         => c \notin lost]_vars

\* Left alone the lock comes free: nothing any caller does before it dies or
\* stops makes the key permanent (cache.py:16-18 "a hand-back with no expiry
\* would make the key permanent").
ComesFree == <>[](key = NoKey)
=============================================================================
