------------------------------ MODULE MCValues ------------------------------
(***************************************************************************)
(* Values of every kind at the edges of their widths, put into each other, *)
(* for Codec, Answer, JSONReader, Script, Handles, VaultFrame and Routes:  *)
(* value is written, read, sent in an answer, said in JSON, found by a     *)
(* handle and spelled in an event.                                         *)
(* Beside them, the statements of Query.                                   *)
(***************************************************************************)
EXTENDS Values, Script, Handles, Routes

CONSTANT MaxCalls    \* bound: calls on a query builder

VARIABLES builder, calls

\* The units of a duration, no larger than TLC's integers need them.
SmallUnits == [h |-> 36000, m |-> 600, s |-> 100, ms |-> 10, us |-> 2, ns |-> 1]
Words == <<255, 255>> :> "NaN" @@ <<255, 254>> :> "NaN" @@ <<128, 128>> :> "-inf"
NotANumber == <<255, 255>>
SmallWholes == <<0, 0>> :> 0 @@ <<3, 3>> :> 3
Acts == [status |-> 1, unseal |-> 2, seal |-> 3, change |-> 4, declare |-> 5]
Era == -300 .. 300
Seals == {<<>>, <<117>>, <<115>>}
Keepers == {<<97>>, <<98>>}

Half == 256 ^ W64 \div 2
Ints == {-Half - 1, -Half, -257, -256, -1, 0, 1, 127, 128, 255, 256, Half - 1, Half}
Texts == {<<>>, <<0>>, <<97>>, <<0, 1>>, <<97, 0>>, <<97, 0, 97>>, <<97, 98>>, <<128>>,
          <<39, 92>>, <<47, 37, 63>>}
Raws == {<<0, 0>>, <<0, 255>>, <<255, 0, 1>>, <<1>>}
Double(n) == [i \in 1 .. W64 |-> n]
Uuids == {[i \in 1 .. W128 |-> 0], [i \in 1 .. W128 |-> i], <<1>>}

NanosEdges == {-1, NANOS_PER_SECOND - 1, NANOS_PER_SECOND}

SomeIds == {<<ID_INTEGER, n>> : n \in Ints} \cup {<<ID_UUID, raw>> : raw \in Uuids}
         \cup {<<ID_TEXT, raw>> : raw \in {x \in Texts : IsText(x)}}
         \cup {<<ID_BYTES, raw>> : raw \in Texts \cup Raws}

Here == <<Double(3), Double(4)>>
There == <<Double(255), Double(0)>>
Lost == <<NEGATIVE_ZERO, Double(128)>>   \* JSON says neither coordinate whole
Shapes == {<<POINT, Here>>, <<LINE, <<Here, There>>>>, <<MULTIPOINT, <<>>>>,
           <<POLYGON, <<<<Here, There>>, <<There>>>>>>, <<POLYGON, <<<<>>>>>>,
           <<MULTILINE, <<<<Here>>, <<>>, <<Lost>>>>>>, <<POINT, Lost>>,
           <<MULTIPOLYGON, <<<<<<Here>>, <<There>>>>>>>>,
           <<COLLECTION, <<<<POINT, Lost>>, <<COLLECTION, <<>>>>>>>>}

Edges ==
  {<<TAG_NONE>>, <<TAG_NULL>>, <<TAG_BOOL, TRUE>>, <<TAG_BOOL, FALSE>>}
    \cup {<<TAG_NUMBER, INTEGER, n>> : n \in Ints}
    \cup {<<TAG_NUMBER, FLOAT, bits>> : bits \in {Double(0), Double(3), Double(4), NEGATIVE_ZERO} \cup DOMAIN Words}
    \cup {<<TAG_NUMBER, DECIMAL, both>> : both \in Ints \X {255} \cup {1} \X {0, 256}}
    \cup {<<tag, raw>> : tag \in {TAG_STRING, TAG_REGEX}, raw \in {x \in Texts : IsText(x)}}
    \cup {<<TAG_BYTES, raw>> : raw \in Texts \cup Raws}
    \cup {<<tag>> \o both : tag \in {TAG_DURATION, TAG_DATETIME},
                            both \in Ints \X {0} \cup {1} \X NanosEdges}
    \cup {<<TAG_UUID, raw>> : raw \in Uuids} \cup {<<TAG_TABLE, n>> : n \in Ints}
    \cup {<<TAG_RECORD, 7, id>> : id \in SomeIds}
    \cup {<<TAG_GEOMETRY, shape>> : shape \in Shapes}
    \cup {<<TAG_ARRAY, <<<<TAG_STRING, <<97>>>>, <<TAG_NUMBER, FLOAT, Double(3)>>>>>>}

\* What a query is built of.
FieldNames == {<<97>>, <<65>>, <<95, 49>>, <<49>>, <<>>}
Bindable == {<<"x">>, <<"y">>}
One == <<"compare", <<97>>, "=", <<"x">>>>
Other == <<"compare", <<65>>, "<", <<"y">>>>
Joined(a, b) == {<<"AND", a, b>>, <<"OR", a, b>>}
Conditions ==
  {One} \cup Joined(Other, One)
    \cup UNION {Joined(<<"AND", One, Other>>, One) \cup Joined(Other, <<"OR", One, One>>)}
    \cup Joined(<<"OR", One, Other>>, <<"AND", Other, Other>>)
Windows == {-1, 3, 4}
Bounds == {<<>>, <<"1">>, <<"s">>, <<"1", "m">>, <<"1", "1", "m", "s">>, <<"1", "m", "1", "n", "s">>,
           <<"1", "n">>, <<"1", "m", "s", "1">>}

Queries == INSTANCE Query WITH Names <- FieldNames, Values <- Bindable, Filters <- Conditions,
                               Counts <- Windows, U64_MAX <- 3, Spans <- Bounds

Idle == [kind |-> "none"]

Init ==
  \/ Starts /\ builder = Idle /\ calls = <<>>
  \/ value = <<TAG_NONE>> /\ depth = Depth /\ Queries!Init

Next ==
  \/ builder = Idle /\ Nests /\ UNCHANGED <<builder, calls>>
  \/ builder # Idle /\ Queries!Next /\ UNCHANGED <<value, depth>>

Spec == Init /\ [][Next]_<<value, depth, builder, calls>>

-----------------------------------------------------------------------------
Recs ==
  {[Blank EXCEPT !.path = 1, !.names = Names, !.rows = <<Row>>, !.notes = notes, !.only = only,
                 !.exactness = exactness, !.suggestion = suggestion] :
     notes \in {<<>>, <<<<<<98>>, <<99>>>>>>}, only \in BOOLEAN,
     exactness \in {<<"exact">>, <<"inexact", <<100>>>>},
     suggestion \in {<<"not consulted">>, <<"complete">>, <<"corrections", <<<<<<97>>, <<98>>>>>>>>}}
\* What a node writes as bytes and as JSON reads as the same value, but for the sign of
\* a zero and a coordinate that is not finite, which JSON cannot say and which read as
\* 0.0 and NaN; and what the client spells in an event reads as that value at the node,
\* or is not sent (_json.py:1-8, 147-160, 181-245; _geojson.py:60-64; README.md:469-471;
\* test_json_corpus.py:169-183; _events.py:3-6, 47-115).
SurfacesAgree ==
  depth < Depth => SaysTheSame(value) /\ BatchReadsBack(<<39, 92>>, value)

\* Records from older and newer nodes read as what they wrote (_answer.py:11-21), and
\* the same from JSON, but for what JSON leaves of a double: what was not said, not asked
\* or not there is so on both
\* (script.py:3-4, 124-127, 208-215, 227-234).
OutcomesAgree ==
  depth = 0 =>
    /\ ReadsAtAnyAge(Rec)
    /\ ValuesTheSame(Names, value)
    /\ Sayable(value) => RecordsTheSame(Rec, Newest, KindOf(value))
    /\ value = <<TAG_BOOL, TRUE>> =>
         \A rec \in Recs, age \in 0 .. Newest : RecordsTheSame(rec, age, KindOf(value))

\* What is given to a handle stands in the statement where it was meant to, and what
\* the store answers is read as what it is or not at all (_containers.py:4-8,
\* 213-246; _container_statements.py:18-45); a file is asked for under the path given,
\* in the bucket given (_files.py:3-7, 31-47).
HandlesCarry ==
  /\ StatementsCarry /\ ReadsItsKind(value)
  /\ depth = 0 /\ value[1] = TAG_STRING =>
       \A name \in {value[2], <<95, 65>>} : PathsApart(<<<<97>>, name, <<49>>>>, value[2])

\* Queries are read as they were built (query.py:11-15, 166-192; statement.py:47-84).
ReadsAsBuilt == builder = Idle \/ Queries!ReadsAsBuilt
=============================================================================
