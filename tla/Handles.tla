------------------------------ MODULE Handles ------------------------------
(***************************************************************************)
(* What the handles send and what they make of the answer: a cache and its *)
(* containers (src/src/tessaridb/cache.py, _containers.py,                 *)
(* _container_statements.py), a vault (vault.py, _vault_frame.py).         *)
(*                                                                         *)
(* A statement is the names of the parameters its text refers to, in the   *)
(* order of the text, and the values given beside it by name; the words    *)
(* between them are left out.  A reader is the set of what it reads, empty *)
(* when it raises.                                                         *)
(***************************************************************************)
EXTENDS Codec

Absent == <<>>
NONE == <<TAG_NONE>>

-----------------------------------------------------------------------------
(* Statements *)

\* Statements that always refer to the same parameters.
Always ==
  [get |-> <<"k">>, delete |-> <<"k">>, incr |-> <<"k", "n">>, ttl |-> <<"k">>,
   expire |-> <<"k", "t">>, persist |-> <<"k">>, lock |-> <<"k", "h", "t">>,
   list_range |-> <<"k", "i", "n">>, list_at |-> <<"k", "i">>, list_len |-> <<"k">>,
   list_trim |-> <<"k", "i", "j">>, hash_get |-> <<"k", "f">>, hash_incr |-> <<"k", "f", "n">>,
   hash_len |-> <<"k">>, members_has |-> <<"v", "k">>, members_len |-> <<"k">>,
   scores_incr |-> <<"k", "m", "c">>, scores_of |-> <<"k", "m">>, scores_range |-> <<"k", "i", "j">>,
   recipients |-> <<"id">>, add_recipient |-> <<"name", "id", "key">>,
   remove_recipient |-> <<"name", "id">>, reveal |-> <<"id">>]

\* Statements with a clause only for what is given.
Limited ==
  [set |-> <<"k", "v", "e", "t">>, keys |-> <<"p", "a">>, list_pop |-> <<"k", "n">>,
   list_remove |-> <<"k", "v", "n">>, scores_between |-> <<"k", "lo", "hi">>, listing |-> <<"after">>]

\* Statements about any number of values, or of pairs, after the key.
Counting == [list_push |-> "v", hash_remove |-> "f", members |-> "v", scores_remove |-> "m", write |-> "f"]
Pairing == [hash_set |-> <<"f", "v">>, scores_add |-> <<"m", "c">>]

Numbered(prefix, values) == [i \in DOMAIN values |-> prefix \o ToString(i - 1)]

\* Left and right of a pair under the number of the pair.
Paired(names, values) ==
  [i \in DOMAIN values |-> names[2 - (i % 2)] \o ToString((i - 1) \div 2)]

\* The names in the text of a call and what it gives under them.
Given(names, values) ==
  [text |-> names,
   given |-> FoldLeft(LAMBDA given, i : (names[i] :> values[i]) @@ given, <<>>, [i \in DOMAIN names |-> i])]

Statement(op, values) ==
  CASE op \in DOMAIN Always -> Given(Always[op], values)
    [] op \in DOMAIN Limited ->
         LET there == SelectSeq([i \in DOMAIN values |-> i], LAMBDA i : values[i] # Absent) IN
         Given([i \in DOMAIN there |-> Limited[op][there[i]]], [i \in DOMAIN there |-> values[there[i]]])
    [] op \in DOMAIN Counting ->
         Given(<<IF op = "write" THEN "id" ELSE "k">> \o Numbered(Counting[op], Tail(values)), values)
    [] op \in DOMAIN Pairing -> Given(<<"k">> \o Paired(Pairing[op], Tail(values)), values)

-----------------------------------------------------------------------------
(* What a container call reads of an answer: an absent key as the empty form *)

IntegerOf(found) == IF found[1] = TAG_NUMBER /\ found[2] = INTEGER THEN {found[3]} ELSE {}
FloatOf(found) == IF found[1] = TAG_NUMBER /\ found[2] = FLOAT THEN {found[3]} ELSE {}
TextOf(found) == IF found[1] = TAG_STRING THEN {found[2]} ELSE {}
Kind(found, tag, empty) ==
  IF found = NONE THEN {empty} ELSE IF found[1] = tag THEN {found[2]} ELSE {}

Length(found) == IF found = NONE THEN {0} ELSE IntegerOf(found)
Items(found) == Kind(found, TAG_ARRAY, <<>>)
HashGetAll(found) == Kind(found, TAG_OBJECT, <<>>)
MembersAll(found) == Kind(found, TAG_SET, <<>>)
Score(found) == IF found = NONE THEN {Absent} ELSE FloatOf(found)

\* A member and its score, and nothing else.
PairOf(item) ==
  IF item[1] # TAG_ARRAY \/ Len(item[2]) # 2 THEN {}
  ELSE {<<member, score>> : member \in TextOf(item[2][1]), score \in FloatOf(item[2][2])}

\* Mutant: what is no pair is left out.
Ranked_Skips(found) ==
  {FlattenSeq([i \in DOMAIN items |-> SetToSeq(PairOf(items[i]))]) : items \in Items(found)}

\* One that is no pair spoils the ranking.
Ranked(found) ==
  {FlattenSeq([i \in DOMAIN items |-> SetToSeq(PairOf(items[i]))]) :
     items \in {all \in Items(found) : \A i \in DOMAIN all : PairOf(all[i]) # {}}}

-----------------------------------------------------------------------------
(* Properties, for the modules that enumerate values *)

\* Every name a text refers to is given the value of its place, and nothing else is
\* given (_container_statements.py:18-45, cache.py:118-127, vault.py:145-156).
Carries(op, values) ==
  LET said == Statement(op, values) IN
  /\ [i \in DOMAIN said.text |-> said.given[said.text[i]]] = SelectSeq(values, LAMBDA v : v # Absent)
  /\ DOMAIN said.given = ToSet(said.text)

Operations ==
  {<<op, Len(Always[op])>> : op \in DOMAIN Always} \cup {<<op, Len(Limited[op])>> : op \in DOMAIN Limited}
    \cup {<<op, n>> : op \in DOMAIN Counting, n \in {2, 3}} \cup {<<op, n>> : op \in DOMAIN Pairing, n \in {3, 5}}

\* Values for an operation that are all different, some of them absent where they
\* may be.
Tried(op, n) ==
  IF op \notin DOMAIN Limited THEN {[i \in 1 .. n |-> <<i>>]}
  ELSE {[i \in 1 .. n |-> IF i \in there THEN <<i>> ELSE Absent] : there \in SUBSET (1 .. n)}

StatementsCarry == \A call \in Operations : \A values \in Tried(call[1], call[2]) : Carries(call[1], values)

\* A read gives back what the key holds, an empty form only for a key that is not
\* there, and raises for what is not of its kind (_containers.py:4-8, 213-246).
ReadsItsKind(found) ==
  /\ \A items \in Items(found) : (found = NONE /\ items = <<>>) \/ found = <<TAG_ARRAY, items>>
  /\ \A fields \in HashGetAll(found) : (found = NONE /\ fields = <<>>) \/ found = <<TAG_OBJECT, fields>>
  /\ \A members \in MembersAll(found) : (found = NONE /\ members = <<>>) \/ found = <<TAG_SET, members>>
  /\ \A n \in Length(found) : (found = NONE /\ n = 0) \/ found = <<TAG_NUMBER, INTEGER, n>>
  /\ \A score \in Score(found) : (found = NONE /\ score = Absent) \/ found = <<TAG_NUMBER, FLOAT, score>>
  /\ \A pairs \in Ranked(found) :
       \/ (found = NONE /\ pairs = <<>>)
       \/ found = <<TAG_ARRAY, [i \in DOMAIN pairs |->
                      <<TAG_ARRAY, <<<<TAG_STRING, pairs[i][1]>>, <<TAG_NUMBER, FLOAT, pairs[i][2]>>>>>>]>>
=============================================================================
