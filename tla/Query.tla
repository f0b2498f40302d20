------------------------------- MODULE Query -------------------------------
(***************************************************************************)
(* The query builder (src/src/tessaridb/query.py, statement.py): a caller  *)
(* makes calls on a builder, which renders at any moment a text and the    *)
(* values bound to its references.                                         *)
(*                                                                         *)
(* A name is its code points.  A text is its tokens: a clause, a name, a   *)
(* reference, a count, a span; commas and spaces are left out.  What       *)
(* raises leaves the builder as it was and renders nothing.                *)
(***************************************************************************)
EXTENDS Codec

CONSTANTS
  Names,     \* what a caller gives for names
  Values,    \* what it binds
  Filters,   \* the conditions it writes, as the trees it wrote
  Counts, U64_MAX,
  Spans,     \* what it gives for spans: a digit is "1"
  MaxCalls   \* bound: calls on the builder

VARIABLES builder, calls

None == <<>>

-----------------------------------------------------------------------------
(* Names, spans, counts *)

Letters == {95} \cup 65 .. 90 \cup 97 .. 122
Digit == 48 .. 57

CheckName(name) ==
  name # <<>> /\ \A i \in DOMAIN name : name[i] \in Letters \/ (i > 1 /\ name[i] \in Digit)

CheckCount(n) == n \in 0 .. U64_MAX

SpanUnits == {<<"n", "s">>, <<"u", "s">>, <<"m", "s">>, <<"s">>, <<"m">>, <<"h">>, <<"d">>, <<"w">>}

\* Takes digits and the longest unit there is, again and again.
RECURSIVE CheckSpan(_)
CheckSpan(rest) ==
  LET number == SelectInSeq(rest, LAMBDA x : x # "1")
      after == SubSeq(rest, number, Len(rest))
      starts == {unit \in SpanUnits : IsPrefix(unit, after)}
      longest == CHOOSE unit \in starts : \A other \in starts : Len(other) <= Len(unit)
      left == SubSeq(after, Len(longest) + 1, Len(after))
  IN number > 1 /\ starts # {} /\ (left = <<>> \/ CheckSpan(left))

-----------------------------------------------------------------------------
(* Rendering: the tokens, after those the text has, and the values bound so far *)

Reference(said, value) ==
  [text |-> Append(said.text, <<"ref", Len(said.bound)>>), bound |-> Append(said.bound, value)]
Adds(said, tokens) == [said EXCEPT !.text = @ \o tokens]
Starts(tokens) == [text |-> tokens, bound |-> <<>>]

\* Mutant: a junction is not put in parentheses.
RECURSIVE RenderFilter_Bare(_, _)
RenderFilter_Bare(said, filter) ==
  IF filter[1] = "compare"
  THEN Reference(Adds(said, <<<<"name", filter[2]>>, <<"op", filter[3]>>>>), filter[4])
  ELSE RenderFilter_Bare(Adds(RenderFilter_Bare(said, filter[2]), <<<<"word", filter[1]>>>>), filter[3])

\* Left before right, all of it in parentheses.
RECURSIVE RenderFilter(_, _)
RenderFilter(said, filter) ==
  IF filter[1] = "compare"
  THEN Reference(Adds(said, <<<<"name", filter[2]>>, <<"op", filter[3]>>>>), filter[4])
  ELSE LET left == RenderFilter(Adds(said, <<<<"word", "(">>>>), filter[2])
           right == RenderFilter(Adds(left, <<<<"word", filter[1]>>>>), filter[3])
       IN Adds(right, <<<<"word", ")">>>>)

\* The fields in the order of their names.
RenderObject(said, fields) ==
  FoldLeft(LAMBDA s, name : Reference(Adds(s, <<<<"name", name>>>>), fields[name]),
           said, SetToSortSeq(DOMAIN fields, Before))

CheckedFields(fields) == DOMAIN fields # {} /\ \A name \in DOMAIN fields : CheckName(name)

Optional(word, given, token) == IF given = None THEN <<>> ELSE <<<<"clause", word>>, token>>

RenderSelect(b) ==
  LET projection == <<<<"clause", "SELECT">>>> \o (IF b.items = <<>> THEN <<<<"word", "*">>>> ELSE b.items)
                      \o <<<<"clause", "FROM">>, <<"name", b.table>>>>
      filtered == IF b.where = None THEN Starts(projection)
                  ELSE RenderFilter(Starts(projection \o <<<<"clause", "WHERE">>>>), b.where)
  IN {Adds(filtered,
        (IF b.order = <<>> THEN <<>> ELSE <<<<"clause", "ORDER BY">>>> \o b.order)
          \o Optional("START", b.start, <<"count", b.start>>)
          \o Optional("LIMIT", b.limit, <<"count", b.limit>>)
          \o Optional("STALENESS", b.staleness, <<"span", b.staleness>>)
          \o Optional("ANSWERED BY", b.answered, <<"word", b.answered>>))}

Subject(word, b) ==
  LET table == Starts(<<<<"clause", word>>, <<"name", b.table>>>>) IN
  IF b.identity = None THEN table ELSE Reference(table, b.identity)

RenderCreate(b) ==
  IF ~CheckedFields(b.fields) THEN {}
  ELSE {RenderObject(Adds(Subject("CREATE", b), <<<<"clause", "=">>>>), b.fields)}

RenderUpdate(b) ==
  IF ~CheckedFields(b.fields) \/ b.identity = None THEN {}
  ELSE {RenderObject(Adds(Subject("UPDATE", b), <<<<"clause", "SET">>>>), b.fields)}

\* What the builder renders, at most one text.
Render ==
  CASE builder.kind = "select" -> RenderSelect(builder)
    [] builder.kind = "create" -> RenderCreate(builder)
    [] builder.kind = "update" -> RenderUpdate(builder)
    [] builder.kind = "delete" -> {Subject("DELETE", builder)}

-----------------------------------------------------------------------------
(* The calls *)

Kinds == {"select", "create", "update", "delete"}
Builder(kind, table, identity) ==
  [kind |-> kind, table |-> table, identity |-> identity, items |-> <<>>, where |-> None,
   order |-> <<>>, start |-> None, limit |-> None, staleness |-> None, answered |-> None,
   fields |-> <<>>]

\* A table is checked at once, and so is not a field of a write.
Init ==
  /\ \E kind \in Kinds : \E table \in {name \in Names : CheckName(name)} :
       \E identity \in Values \cup {None} :
         /\ kind = "select" => identity = None
         /\ kind = "delete" => identity # None
         /\ builder = Builder(kind, table, identity)
  /\ calls = <<>>

Called(kinds, call) ==
  /\ Len(calls) < MaxCalls /\ builder.kind \in kinds
  /\ calls' = Append(calls, call)

Field ==
  \E name \in Names :
    /\ Called({"select"}, <<"field", name>>)
    /\ builder' = IF CheckName(name) THEN [builder EXCEPT !.items = Append(@, <<"name", name>>)]
                  ELSE builder

Lines ==
  \E name \in Names, start, count \in Counts :
    /\ Called({"select"}, <<"lines", name, start, count>>)
    /\ builder' = IF CheckName(name) /\ CheckCount(start) /\ CheckCount(count)
                  THEN [builder EXCEPT !.items = Append(@, <<"lines", name, start, count>>)]
                  ELSE builder

\* The names in a condition were checked when it was made.
Where ==
  \E filter \in Filters :
    /\ Called({"select"}, <<"where", filter>>)
    /\ builder' = [builder EXCEPT !.where = filter]

OrderBy ==
  \E name \in Names, direction \in {"ASC", "DESC"} :
    /\ Called({"select"}, <<"order", name, direction>>)
    /\ builder' = IF CheckName(name)
                  THEN [builder EXCEPT !.order = Append(@, <<"order", name, direction>>)]
                  ELSE builder

Start ==
  \E n \in Counts :
    /\ Called({"select"}, <<"start", <<n>>>>)
    /\ builder' = IF CheckCount(n) THEN [builder EXCEPT !.start = <<n>>] ELSE builder

Limit ==
  \E n \in Counts :
    /\ Called({"select"}, <<"limit", <<n>>>>)
    /\ builder' = IF CheckCount(n) THEN [builder EXCEPT !.limit = <<n>>] ELSE builder

Staleness ==
  \E span \in Spans :
    /\ Called({"select"}, <<"staleness", span>>)
    /\ builder' = IF CheckSpan(span) THEN [builder EXCEPT !.staleness = span] ELSE builder

AnsweredBy ==
  \E word \in {"ANY", "LEADER", "MASTER"} :
    /\ Called({"select"}, <<"answered", <<word>>>>)
    /\ builder' = IF word = "MASTER" THEN builder ELSE [builder EXCEPT !.answered = <<word>>]

\* A mapping of several fields is as many calls with one.
SetField ==
  \E name \in Names, value \in Values :
    /\ Called({"create", "update"}, <<"set", name, value>>)
    /\ builder' = [builder EXCEPT !.fields = (name :> value) @@ @]

Next ==
  \/ Field \/ Lines \/ Where \/ OrderBy \/ Start \/ Limit \/ Staleness \/ AnsweredBy \/ SetField

Spec == Init /\ [][Next]_<<builder, calls>>

-----------------------------------------------------------------------------
(* Properties: what a node reads, and what the calls meant *)

\* Each reference with the value it is bound to.
Resolved(said) ==
  [i \in DOMAIN said.text |->
     LET token == said.text[i] IN
     IF token[1] = "ref" /\ token[2] < Len(said.bound) THEN <<"value", said.bound[token[2] + 1]>>
     ELSE token]

Clauses(text) == SelectSeq(text, LAMBDA token : token[1] = "clause")
SELECT_CLAUSES ==
  <<"SELECT", "FROM", "WHERE", "ORDER BY", "START", "LIMIT", "STALENESS", "ANSWERED BY">>

\* What stands under a clause.
Under(text, word) ==
  LET at == SelectInSeq(text, LAMBDA token : token = <<"clause", word>>)
      rest == SubSeq(text, at + 1, Len(text))
      end == SelectInSeq(rest, LAMBDA token : token[1] = "clause")
  IN IF at = 0 THEN None ELSE IF end = 0 THEN rest ELSE SubSeq(rest, 1, end - 1)

\* Every tree a condition can be read as, whichever of AND and OR binds first.
RECURSIVE Trees(_)
Trees(text) ==
  LET n == Len(text)
      IsComparison == n = 3 /\ text[1][1] = "name" /\ text[2][1] = "op" /\ text[3][1] = "value"
      IsNested == n > 2 /\ text[1] = <<"word", "(">> /\ text[n] = <<"word", ")">>
      Words == {i \in 2 .. n - 1 : text[i] \in {<<"word", "AND">>, <<"word", "OR">>}}
  IN (IF IsComparison THEN {<<"compare", text[1][2], text[2][2], text[3][2]>>} ELSE {})
       \cup (IF IsNested THEN Trees(SubSeq(text, 2, n - 1)) ELSE {})
       \cup UNION {{<<text[i][2], left, right>> : left \in Trees(SubSeq(text, 1, i - 1)),
                                                right \in Trees(SubSeq(text, i + 1, n))} : i \in Words}

IsName(name) ==
  name # <<>> /\ name[1] \in Letters /\ \A i \in DOMAIN name : name[i] \in Letters \cup Digit

\* Numbers with a unit each.
RECURSIVE IsSpan(_)
IsSpan(span) ==
  \E n \in 1 .. Len(span), unit \in SpanUnits :
    LET after == SubSeq(span, n + 1, Len(span))
        rest == SubSeq(after, Len(unit) + 1, Len(after))
    IN /\ \A i \in 1 .. n : span[i] = "1"
       /\ IsPrefix(unit, after) /\ (rest = <<>> \/ IsSpan(rest))

\* The calls that count, all of them or the last of a kind.
Proper(call) ==
  CASE call[1] \in {"field", "order"} -> IsName(call[2])
    [] call[1] = "lines" -> IsName(call[2]) /\ {call[3], call[4]} \subseteq 0 .. U64_MAX
    [] call[1] \in {"start", "limit"} -> call[2][1] \in 0 .. U64_MAX
    [] call[1] = "staleness" -> IsSpan(call[2])
    [] call[1] = "answered" -> call[2] # <<"MASTER">>
    [] OTHER -> TRUE
Those(kinds) == SelectSeq(calls, LAMBDA call : call[1] \in kinds /\ Proper(call))
Latest(kind) == IF Those({kind}) = <<>> THEN None ELSE Last(Those({kind}))

\* An optional clause has what the last call gave, and stands where there was one.
Agrees(text, word, kind) ==
  LET under == Under(text, word) IN
  IF Latest(kind) = None THEN under = None
  ELSE Len(under) = 1 /\ under[1][2] = Latest(kind)[2]

SelectReads(text) ==
  LET items == [i \in DOMAIN Those({"field", "lines"}) |->
                  LET call == Those({"field", "lines"})[i] IN
                  IF call[1] = "field" THEN <<"name", call[2]>> ELSE call]
      words == ToSet(Clauses(text))
  IN /\ Clauses(text) = [i \in DOMAIN SelectSeq(SELECT_CLAUSES, LAMBDA w : <<"clause", w>> \in words) |->
                           <<"clause", SelectSeq(SELECT_CLAUSES, LAMBDA w : <<"clause", w>> \in words)[i]>>]
     /\ Under(text, "SELECT") = IF items = <<>> THEN <<<<"word", "*">>>> ELSE items
     /\ Under(text, "FROM") = <<<<"name", builder.table>>>>
     /\ IF Latest("where") = None THEN Under(text, "WHERE") = None
        ELSE Trees(Under(text, "WHERE")) = {Latest("where")[2]}
     /\ Under(text, "ORDER BY") = Those({"order"})
     /\ Agrees(text, "START", "start") /\ Agrees(text, "LIMIT", "limit")
     /\ Agrees(text, "STALENESS", "staleness") /\ Agrees(text, "ANSWERED BY", "answered")

\* A record named by the value it was given, and the fields that were set last.
FieldsMeant ==
  [name \in {call[2] : call \in ToSet(calls)} |->
     Last(SelectSeq(calls, LAMBDA call : call[2] = name))[3]]
SubjectMeant ==
  <<<<"name", builder.table>>>>
    \o (IF builder.identity = None THEN <<>> ELSE <<<<"value", builder.identity>>>>)
Complete ==
  /\ DOMAIN FieldsMeant # {} /\ \A name \in DOMAIN FieldsMeant : IsName(name)
  /\ builder.kind = "update" => builder.identity # None

WriteReads(text, verb, word) ==
  LET object == Under(text, word)
      names == [i \in 1 .. Len(object) \div 2 |-> object[2 * i - 1][2]]
  IN /\ Under(text, verb) = SubjectMeant
     /\ ToSet(names) = DOMAIN FieldsMeant
     /\ \A i \in DOMAIN names : object[2 * i] = <<"value", FieldsMeant[names[i]]>>
     /\ \A i \in 2 .. Len(names) : Before(names[i - 1], names[i])

\* A text reads, whichever way a node nests AND and OR, as the statement the calls
\* made and as no other; its references are numbered as they stand in it, and each
\* is bound to the value given for its place (query.py:11-15, 166-192, 232-243;
\* statement.py:47-49, 80-84).  What no statement can say renders nothing.
ReadsAsBuilt ==
  /\ builder.kind \in {"create", "update"} => ((Render # {}) <=> Complete)
  /\ \A said \in Render :
       /\ SelectSeq(said.text, LAMBDA token : token[1] = "ref")
            = [i \in DOMAIN said.bound |-> <<"ref", i - 1>>]
       /\ CASE builder.kind = "select" -> SelectReads(Resolved(said))
            [] builder.kind = "create" -> WriteReads(Resolved(said), "CREATE", "=")
            [] builder.kind = "update" -> WriteReads(Resolved(said), "UPDATE", "SET")
            [] builder.kind = "delete" -> Under(Resolved(said), "DELETE") = SubjectMeant
=============================================================================
