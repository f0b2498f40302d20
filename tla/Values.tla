------------------------------- MODULE Values -------------------------------
(***************************************************************************)
(* The values there are (src/src/tessaridb/value.py), put into each other  *)
(* one step at a time: each is written and read (Codec), sent in an answer *)
(* (Answer), and said by a vault's status (VaultFrame).                    *)
(***************************************************************************)
EXTENDS Answer, VaultFrame

CONSTANTS
  Atoms,    \* the values put into others
  Others,   \* the ids that the id of a record is compared with
  Depth     \* bound: how deep an atom is put into others

VARIABLES value, depth

-----------------------------------------------------------------------------
(* Values *)

\* One character to a byte.
Ascii == Seq(0 .. 127)
Doubles == {raw \in Seq(Byte) : Len(raw) = W64}

Ids == {ID_INTEGER} \X Int \cup {ID_TEXT} \X Ascii \cup {ID_BYTES, ID_UUID} \X Seq(Byte)

Lines == Seq(Doubles \X Doubles)
Polygons == {rings \in Seq(Lines) : rings # <<>>}   \* the exterior first

\* The shapes there are, with those of a smaller depth in them.
ShapesOf(shapes) ==
  {POINT} \X (Doubles \X Doubles) \cup {LINE, MULTIPOINT} \X Lines \cup {POLYGON} \X Polygons
    \cup {MULTILINE} \X Seq(Lines) \cup {MULTIPOLYGON} \X Seq(Polygons)
    \cup {COLLECTION} \X Seq(shapes)
ShapesTo(n) == LET to[k \in 0 .. n] == IF k = 0 THEN {} ELSE ShapesOf(to[k - 1]) IN to[n]

BoundsOf(values) == {<<UNBOUNDED>>} \cup {INCLUDED, EXCLUDED} \X values
ObjectsOf(values) == UNION {[names -> values] : names \in {x \in SUBSET Ascii : IsFiniteSet(x)}}

\* The values with none in them, and the values there are.
Plain ==
  {<<TAG_NONE>>, <<TAG_NULL>>} \cup {TAG_BOOL} \X BOOLEAN
    \cup {TAG_NUMBER} \X {INTEGER} \X Int \cup {TAG_NUMBER} \X {FLOAT} \X Doubles
    \cup {TAG_NUMBER} \X {DECIMAL} \X (Int \X Int)
    \cup {TAG_STRING, TAG_REGEX} \X Ascii \cup {TAG_BYTES, TAG_UUID} \X Seq(Byte)
    \cup {TAG_DURATION, TAG_DATETIME} \X Int \X Int
    \cup {TAG_TABLE} \X Int \cup {TAG_RECORD} \X Int \X Ids
    \cup {TAG_GEOMETRY} \X ShapesTo(NESTING)
ListsOf(values) == {TAG_ARRAY, TAG_SET} \X Seq(values)
ValuesOf(values) ==
  Plain \cup ListsOf(values) \cup {TAG_OBJECT} \X ObjectsOf(values)
    \cup {TAG_RANGE} \X BoundsOf(values) \X BoundsOf(values)
ValuesTo(n) == LET to[k \in 0 .. n] == IF k = 0 THEN {} ELSE ValuesOf(to[k - 1]) IN to[n]

ASSUME ValuesAssumption ==
  /\ Atoms \subseteq Plain \cup ListsOf(Plain) /\ Depth \in 0 .. NESTING - 2
  /\ Others \subseteq Ids

-----------------------------------------------------------------------------
(* Put into each other *)

Starts == value \in Atoms /\ depth = 0

InList == value' \in {<<tag, items>> : tag \in {TAG_ARRAY, TAG_SET},
                                       items \in {<<>>, <<value>>, <<value, <<TAG_NULL>>, value>>}}
InObject == value' \in {<<TAG_OBJECT, [name \in names |-> value]>> :
                          names \in {{}, {<<>>}, {<<97, 98>>, <<97>>, <<0>>}}}
InRange == value' \in {<<TAG_RANGE, start, <<EXCLUDED, value>>>> :
                         start \in {<<UNBOUNDED>>, <<INCLUDED, value>>}}

Nests ==
  /\ depth < Depth /\ depth' = depth + 1
  /\ InList \/ InObject \/ InRange

Nesting == Starts /\ [][Nests]_<<value, depth>>

-----------------------------------------------------------------------------
(* Properties *)

\* The bytes of a value read back as it; cut short or too long they are no value
\* (_bytes.py:14-19, 45-50, _decode.py:87-97).
ValueReadsBack == ReadsBack(value) /\ NothingElseReads(value)

\* The bytes of ids are in the order of the ids (_bytes.py:11-14).
IdsInOrder ==
  value[1] = TAG_RECORD =>
    \A id \in Others : InOrder(value[3], id) /\ InOrder(id, value[3])

Names == [id \in {3, 7} |-> <<90 + id>>]
Row == <<<<97>>, value>>
Rec == [Blank EXCEPT !.path = 1, !.names = Names, !.rows = <<Row>>,
                     !.notes = <<<<<<98>>, <<99>>>>>>, !.only = TRUE,
                     !.exactness = <<"inexact", <<100>>>>,
                     !.suggestion = <<"corrections", <<<<<<97>>, <<98>>>>>>>>]

\* An outcome that is cut or lies does no harm to its neighbours (_answer.py:6-14).
OutcomesApart ==
  depth < Depth =>
    \A bytes \in WriteRecords(Rec, Newest) \cup WriteLone(Names, value)
                   \cup WriteKeys(<<<<97>>, <<>>>>) :
      \A n \in 1 .. Len(bytes) : ReadsApart(<<0, 9>>, SubSeq(bytes, 1, n), <<99, 1>>)

\* The acts of a vault reach the node as they were made, and its status is read as
\* what it says, whatever one of its fields holds (_vault_frame.py:22-56, 96-128).
WellFormed ==
  [name \in {SEAL_STATE, UNSEAL_FOR, SEALS_AT, CUSTODY} |->
     CASE name = SEAL_STATE -> <<TAG_STRING, CHOOSE state \in STATES : TRUE>>
       [] name = UNSEAL_FOR -> <<TAG_DURATION, 1, 25>>
       [] name = SEALS_AT -> <<TAG_DATETIME, 3, 99>>
       [] name = CUSTODY -> <<TAG_STRING, CHOOSE custody \in CUSTODIES : TRUE>>]
With(name, said) ==
  [other \in {name} \cup DOMAIN WellFormed |-> IF other = name THEN said ELSE WellFormed[other]]
VaultSpeaks ==
  depth = 0 =>
    /\ value[1] = TAG_STRING =>
         \A who \in {Nobody, <<<<97>>, <<0, 1>>>>}, place \in {Store, <<<<97>>, <<98>>, <<>>>>}, act \in DOMAIN ACTS :
           FrameReadsBack(who, act, place, <<value[2], <<98>>>>)
    /\ ReadStatus(<<TAG_OBJECT, WellFormed>>) # {}
    /\ \A name \in {SEAL_STATE, UNSEAL_FOR, SEALS_AT, INITIALISED, CUSTODY} :
         /\ StatusSays(With(name, value))
         /\ StatusSays([other \in DOMAIN WellFormed \ {name} |-> WellFormed[other]])
=============================================================================
