----------------------------- MODULE VaultFrame -----------------------------
(***************************************************************************)
(* The frame of a vault's acts and the status every act answers with       *)
(* (src/src/tessaridb/_vault_frame.py).  A writer and a reader are the     *)
(* sets of what they write and read, as in Codec; words are bytes.         *)
(***************************************************************************)
EXTENDS Codec

CONSTANTS
  ACTS,         \* the byte of each act
  STATES, CUSTODIES,
  NANOS,        \* the nanoseconds of a microsecond
  Instants,     \* the seconds of the instants that a datetime holds
  Periods       \* the seconds of the periods that a timedelta holds

Nobody == <<>>   \* no credentials
Store == <<>>    \* no place: the store itself
Unsaid == <<>>   \* what a status does not say

ASSUME VaultAssumption ==
  /\ DOMAIN ACTS = {"status", "seal", "unseal", "declare", "change"}
  /\ \A act \in DOMAIN ACTS : ACTS[act] \in Byte
  /\ \A act, other \in DOMAIN ACTS : ACTS[act] = ACTS[other] => act = other
  /\ STATES # {} /\ CUSTODIES # {} /\ Unsaid \notin CUSTODIES
  /\ NANOS \in Nat \ {0}
  /\ 0 .. 3 \subseteq Instants \cap Periods

-----------------------------------------------------------------------------
(* The frame *)

\* Mutant: the target is left out when it is the store.
Target_Omitted(place) ==
  IF place = Store THEN {<<>>} ELSE Cat(U8(1), Each(place, LenBytes))

\* The store, or one vault by its namespace, database and name.
Target(place) ==
  IF place = Store THEN U8(0) ELSE Cat(U8(1), Each(place, LenBytes))

Presents(credentials) ==
  IF credentials = Nobody THEN U8(0) ELSE Cat(U8(1), Each(credentials, LenBytes))

\* The passphrases of an act: none, one, or the old one and the new.
Passphrases(act) == CASE act \in {"status", "seal"} -> 0
                      [] act \in {"unseal", "declare"} -> 1
                      [] act = "change" -> 2

FrameBody(credentials, act, place, phrases) ==
  IF act = "declare" /\ place = Store THEN {}
  ELSE Cat(Presents(credentials),
           Cat(Target(place), Cat(U8(ACTS[act]), Each(SubSeq(phrases, 1, Passphrases(act)), LenBytes))))

\* How a node reads it.
ReadPhrases(raw, n) == Times(n, raw, ReadText)
ReadFrame(body) ==
  LET credentials == Then(ReadU8(body), LAMBDA byte, rest : ReadPhrases(rest, 2 * byte))
      place == Then(credentials, LAMBDA who, rest :
                 Then(ReadU8(rest), LAMBDA byte, more :
                   As(ReadPhrases(more, 3 * byte), LAMBDA where : <<who, where>>)))
  IN {r[1] : r \in {x \in
       Then(place, LAMBDA both, rest :
         Then(ReadU8(rest), LAMBDA byte, more :
           UNION {As(ReadPhrases(more, Passphrases(act)), LAMBDA phrases : both \o <<act, phrases>>) :
                    act \in {a \in DOMAIN ACTS : ACTS[a] = byte}})) : x[2] = <<>>}}

-----------------------------------------------------------------------------
(* The status *)

\* Its fields, by the names an object has them under.
SEAL_STATE == <<115>>
UNSEAL_FOR == <<102>>
SEALS_AT == <<116>>
INITIALISED == <<105>>
CUSTODY == <<99>>

Micros(nanos) == nanos \div NANOS

\* When it seals, if it says so: none and nothing are the same.  What no datetime
\* holds raises.
SealsAt(fields) ==
  IF SEALS_AT \notin DOMAIN fields \/ fields[SEALS_AT] = <<TAG_NONE>> THEN {Unsaid}
  ELSE IF fields[SEALS_AT][1] # TAG_DATETIME \/ fields[SEALS_AT][2] \notin Instants THEN {}
  ELSE {<<fields[SEALS_AT][2], Micros(fields[SEALS_AT][3])>>}

Word(fields, name, words) ==
  IF fields[name][1] = TAG_STRING /\ fields[name][2] \in words THEN {fields[name][2]} ELSE {}

Keeper(fields) == IF CUSTODY \in DOMAIN fields THEN Word(fields, CUSTODY, CUSTODIES) ELSE {Unsaid}
State(fields) ==
  IF fields[UNSEAL_FOR][1] = TAG_DURATION /\ fields[UNSEAL_FOR][2] \in Periods
  THEN Word(fields, SEAL_STATE, STATES) ELSE {}

VaultStatus(fields, state, at, custody) ==
  [state |-> state, seals_at |-> at, custody |-> custody,
   unseal_for |-> <<fields[UNSEAL_FOR][2], Micros(fields[UNSEAL_FOR][3])>>,
   initialised |-> INITIALISED \in DOMAIN fields /\ fields[INITIALISED] = <<TAG_BOOL, TRUE>>]

Statuses(fields) ==
  {VaultStatus(fields, state, at, custody) :
     state \in State(fields), at \in SealsAt(fields), custody \in Keeper(fields)}
ReadStatus(value) ==
  IF value[1] # TAG_OBJECT \/ ~({SEAL_STATE, UNSEAL_FOR} \subseteq DOMAIN value[2]) THEN {}
  ELSE Statuses(value[2])
-----------------------------------------------------------------------------
(* Properties, for the modules that enumerate values *)

\* What can be written: no text of them is longer than a u32 says.
Sendable(texts) == \A i \in DOMAIN texts : LenBytes(texts[i]) # {}

\* A frame reads as the credentials, the vault and the act it was made for, with the
\* passphrases of that act and no others; the store is no vault that could be
\* declared, and a text that is too long is not sent (_vault_frame.py:22-56).
FrameReadsBack(credentials, act, place, phrases) ==
  LET bodies == FrameBody(credentials, act, place, phrases)
      sent == SubSeq(phrases, 1, Passphrases(act)) IN
  /\ \A body \in bodies : ReadFrame(body) = {<<credentials, place, act, sent>>}
  /\ bodies # {} <=> /\ ~(act = "declare" /\ place = Store)
                      /\ Sendable(credentials) /\ Sendable(place) /\ Sendable(sent)

\* A status says what its fields say, and one with a field of another kind or a word
\* outside the closed sets is not read (_vault_frame.py:96-128).
StatusSays(fields) ==
  \A status \in ReadStatus(<<TAG_OBJECT, fields>>) :
    /\ fields[SEAL_STATE] = <<TAG_STRING, status.state>> /\ status.state \in STATES
    /\ \E nanos \in 0 .. NANOS - 1 :
         fields[UNSEAL_FOR] = <<TAG_DURATION, status.unseal_for[1], status.unseal_for[2] * NANOS + nanos>>
    /\ IF status.seals_at = Unsaid THEN SEALS_AT \notin DOMAIN fields \/ fields[SEALS_AT] = <<TAG_NONE>>
       ELSE \E nanos \in 0 .. NANOS - 1 :
              fields[SEALS_AT] = <<TAG_DATETIME, status.seals_at[1], status.seals_at[2] * NANOS + nanos>>
    /\ status.initialised <=> INITIALISED \in DOMAIN fields /\ fields[INITIALISED] = <<TAG_BOOL, TRUE>>
    /\ IF status.custody = Unsaid THEN CUSTODY \notin DOMAIN fields
       ELSE fields[CUSTODY] = <<TAG_STRING, status.custody>> /\ status.custody \in CUSTODIES
=============================================================================
