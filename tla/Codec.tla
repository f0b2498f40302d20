------------------------------- MODULE Codec -------------------------------
(***************************************************************************)
(* The value codec (src/src/tessaridb/_encode.py, _decode.py, _bytes.py,   *)
(* _tags.py): a value written to bytes and read back.                      *)
(*                                                                         *)
(* A writer is the set of what it writes, empty when it raises; a reader   *)
(* is the set of <<what it read, the bytes after it>>, empty likewise.     *)
(* Widths are constants, as narrow as TLC's integers need them; a double   *)
(* is its bits, a text its bytes, of which those under 128 are UTF-8.      *)
(* A value is a tuple that begins with its tag.                            *)
(***************************************************************************)
EXTENDS Bytes

CONSTANT NESTING   \* how deep a value nests before the interpreter's stack ends

ASSUME NestingAssumption == NESTING \in Nat \ {0}

TAG_NONE == 1
TAG_NULL == 2
TAG_BOOL == 3
TAG_NUMBER == 4
TAG_STRING == 5
TAG_BYTES == 6
TAG_DURATION == 7
TAG_DATETIME == 8
TAG_UUID == 9
TAG_TABLE == 10
TAG_RECORD == 11
TAG_ARRAY == 12
TAG_OBJECT == 13
TAG_RANGE == 14
TAG_SET == 15
TAG_GEOMETRY == 16
TAG_REGEX == 17
INTEGER == 1    \* the kinds of number
FLOAT == 2
DECIMAL == 3
UNBOUNDED == 1  \* and of bound
INCLUDED == 2
EXCLUDED == 3
POINT == 1
LINE == 2
POLYGON == 3
MULTIPOINT == 4
MULTILINE == 5
MULTIPOLYGON == 6
COLLECTION == 7

-----------------------------------------------------------------------------
(* Writing *)

\* x and what is in it.
Inside(x, PartsOf(_)) ==
  LET within[k \in 0 .. NESTING] ==
        IF k = 0 THEN {x} ELSE within[k - 1] \cup UNION {PartsOf(part) : part \in within[k - 1]}
  IN within[NESTING]

\* Longitude first.
Position(at) == {at[1] \o at[2]}
Positions(ats) == Counted(ats, Position)
Polygon(rings) == Cat(Positions(Head(rings)), Counted(Tail(rings), Positions))

\* What a shape is after its kind, with a writer of those in it.
ShapeBody(shape, write) ==
  CASE shape[1] = POINT -> Position(shape[2])
    [] shape[1] \in {LINE, MULTIPOINT} -> Positions(shape[2])
    [] shape[1] = POLYGON -> Polygon(shape[2])
    [] shape[1] = MULTILINE -> Counted(shape[2], Positions)
    [] shape[1] = MULTIPOLYGON -> Counted(shape[2], Polygon)
    [] shape[1] = COLLECTION -> Counted(shape[2], LAMBDA part : write[part])
ShapeOne(shape, write) == Tagged(shape[1], ShapeBody(shape, write))

Collected(shape) == IF shape[1] = COLLECTION THEN ToSet(shape[2]) ELSE {}
Shape(shape) ==
  LET inside == Inside(shape, Collected)
      write[k \in 0 .. NESTING] ==
        [part \in inside |-> IF k = 0 THEN {} ELSE ShapeOne(part, write[k - 1])]
  IN write[NESTING][shape]

NumberBody(kind, n) ==
  CASE kind = INTEGER -> I64(n)
    [] kind = FLOAT -> {n}
    [] kind = DECIMAL -> Cat(I128(n[1]), U32(n[2]))
Number(kind, n) == Tagged(kind, NumberBody(kind, n))

WriteBound(bound, write) ==
  Tagged(bound[1], IF bound[1] = UNBOUNDED THEN {<<>>} ELSE write[bound[2]])
\* The fields of an object are a function; they are written in name order.
InNameOrder(names) ==
  CHOOSE s \in [1 .. Cardinality(names) -> names] :
    \A i, j \in DOMAIN s : i < j => Before(s[i], s[j])
WriteFields(fields, write) ==
  Counted(InNameOrder(DOMAIN fields),
          LAMBDA name : Cat(LenBytes(name), write[fields[name]]))

\* What a value is after its tag, with a writer of those in it.
EncodeBody(value, write) ==
  LET tag == value[1] IN
  CASE tag \in {TAG_NONE, TAG_NULL} -> {<<>>}
    [] tag = TAG_BOOL -> U8(IF value[2] THEN 1 ELSE 0)
    [] tag = TAG_NUMBER -> Number(value[2], value[3])
    [] tag \in {TAG_STRING, TAG_BYTES, TAG_REGEX} -> LenBytes(value[2])
    [] tag \in {TAG_DURATION, TAG_DATETIME} -> Cat(I64(value[2]), Nanos(value[3]))
    [] tag = TAG_UUID -> Fixed(value[2], W128)
    [] tag = TAG_TABLE -> U32(value[2])
    [] tag = TAG_RECORD -> Cat(U32(value[2]), RecordId(value[3]))
    [] tag \in {TAG_ARRAY, TAG_SET} -> Counted(value[2], LAMBDA part : write[part])
    [] tag = TAG_OBJECT -> WriteFields(value[2], write)
    [] tag = TAG_RANGE -> Cat(WriteBound(value[2], write), WriteBound(value[3], write))
    [] tag = TAG_GEOMETRY -> Shape(value[2])
EncodeOne(value, write) == Tagged(value[1], EncodeBody(value, write))

Parts(value) ==
  CASE value[1] \in {TAG_ARRAY, TAG_SET} -> ToSet(value[2])
    [] value[1] = TAG_OBJECT -> {value[2][name] : name \in DOMAIN value[2]}
    [] value[1] = TAG_RANGE ->
         {bound[2] : bound \in {x \in {value[2], value[3]} : x[1] # UNBOUNDED}}
    [] OTHER -> {}
Encode(value) ==
  LET inside == Inside(value, Parts)
      write[k \in 0 .. NESTING] ==
        [part \in inside |-> IF k = 0 THEN {} ELSE EncodeOne(part, write[k - 1])]
  IN write[NESTING][value]

-----------------------------------------------------------------------------
(* Reading *)

ReadPosition(raw) == Both(ReadDouble(raw), ReadDouble)
ReadPositions(raw) == ReadCounted(raw, ReadPosition)
ReadPolygon(raw) ==
  As(Both(ReadPositions(raw), LAMBDA rest : ReadCounted(rest, ReadPositions)),
     LAMBDA rings : <<rings[1]>> \o rings[2])

\* After the kind of a shape, with a reader of those in it.
ReadShapeBody(kind, rest, read) ==
  CASE kind = POINT -> ReadPosition(rest)
    [] kind \in {LINE, MULTIPOINT} -> ReadPositions(rest)
    [] kind = POLYGON -> ReadPolygon(rest)
    [] kind = MULTILINE -> ReadCounted(rest, ReadPositions)
    [] kind = MULTIPOLYGON -> ReadCounted(rest, ReadPolygon)
    [] kind = COLLECTION -> CountedBy(rest, read)
    [] OTHER -> {}
ReadShapeOne(raw, read) ==
  Then(ReadU8(raw), LAMBDA kind, rest :
    As(ReadShapeBody(kind, rest, read), LAMBDA shape : <<kind, shape>>))
ReadShape(raw) ==
  LET read[k \in 0 .. NESTING] ==
        [r \in Seq(Byte) |-> IF k = 0 THEN {} ELSE ReadShapeOne(r, read[k - 1])]
  IN read[NESTING][raw]

ReadNumberBody(kind, rest) ==
  CASE kind = INTEGER -> ReadI64(rest)
    [] kind = FLOAT -> ReadDouble(rest)
    [] kind = DECIMAL -> Both(ReadI128(rest), ReadU32)
    [] OTHER -> {}
ReadNumber(raw) ==
  Then(ReadU8(raw), LAMBDA kind, rest :
    As(ReadNumberBody(kind, rest), LAMBDA number : <<TAG_NUMBER, kind, number>>))

\* A name read again takes the place of the one before.
Fields(pairs) ==
  [name \in {pairs[i][1] : i \in DOMAIN pairs} |->
     pairs[CHOOSE i \in DOMAIN pairs :
             pairs[i][1] = name /\ \A j \in DOMAIN pairs : pairs[j][1] = name => j <= i][2]]

ReadBoundBody(kind, rest, read) ==
  CASE kind = UNBOUNDED -> {<<<<kind>>, rest>>}
    [] kind \in {INCLUDED, EXCLUDED} -> As(read[rest], LAMBDA value : <<kind, value>>)
    [] OTHER -> {}
ReadBound(raw, read) == Then(ReadU8(raw), LAMBDA kind, rest : ReadBoundBody(kind, rest, read))
ReadFields(raw, read) ==
  As(ReadCounted(raw, LAMBDA rest : Both(ReadText(rest), LAMBDA more : read[more])), Fields)

\* After the tag of a value, with a reader of those in it.
ReadValueBody(tag, rest, read) ==
  CASE tag \in {TAG_NONE, TAG_NULL} -> {<<<<tag>>, rest>>}
    [] tag = TAG_BOOL -> As(ReadU8(rest), LAMBDA byte : <<tag, byte # 0>>)
    [] tag = TAG_NUMBER -> ReadNumber(rest)
    [] tag \in {TAG_STRING, TAG_REGEX} -> As(ReadText(rest), LAMBDA text : <<tag, text>>)
    [] tag = TAG_BYTES -> As(ReadLenBytes(rest), LAMBDA bytes : <<tag, bytes>>)
    [] tag \in {TAG_DURATION, TAG_DATETIME} ->
         As(Both(ReadI64(rest), ReadNanos), LAMBDA both : <<tag>> \o both)
    [] tag = TAG_UUID -> As(ReadUuid(rest), LAMBDA uuid : <<tag, uuid>>)
    [] tag = TAG_TABLE -> As(ReadU32(rest), LAMBDA id : <<tag, id>>)
    [] tag = TAG_RECORD -> As(Both(ReadU32(rest), ReadRecordId), LAMBDA both : <<tag>> \o both)
    [] tag \in {TAG_ARRAY, TAG_SET} -> As(CountedBy(rest, read), LAMBDA items : <<tag, items>>)
    [] tag = TAG_OBJECT -> As(ReadFields(rest, read), LAMBDA fields : <<tag, fields>>)
    [] tag = TAG_RANGE ->
         As(Both(ReadBound(rest, read), LAMBDA r : ReadBound(r, read)), LAMBDA both : <<tag>> \o both)
    [] tag = TAG_GEOMETRY -> As(ReadShape(rest), LAMBDA shape : <<tag, shape>>)
    [] OTHER -> {}
ReadOne(raw, read) == Then(ReadU8(raw), LAMBDA tag, rest : ReadValueBody(tag, rest, read))
Read(raw) ==
  LET read[k \in 0 .. NESTING] ==
        [r \in Seq(Byte) |-> IF k = 0 THEN {} ELSE ReadOne(r, read[k - 1])]
  IN read[NESTING][raw]

\* Exactly one value.
Decode(raw) == {r[1] : r \in {x \in Read(raw) : x[2] = <<>>}}

-----------------------------------------------------------------------------
(* Properties of a value, for the modules that enumerate values *)

\* What is written reads back as the same value, and nothing that does not fit
\* its width is written narrowed (_bytes.py:14-19, 45-50).
ReadsBack(value) == \A raw \in Encode(value) : Decode(raw) = {value}

\* A payload that was cut short anywhere, or has a byte too many, reads as no
\* value (_decode.py:87-97).
NothingElseReads(value) ==
  \A raw \in Encode(value) :
    /\ \A n \in 0 .. Len(raw) - 1 : Decode(SubSeq(raw, 1, n)) = {}
    /\ \A byte \in {0, 1, 255} : Decode(Append(raw, byte)) = {}

=============================================================================
