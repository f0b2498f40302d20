----------------------------- MODULE JSONReader -----------------------------
(***************************************************************************)
(* Reading a value out of the JSON of POST /script at the kind its field   *)
(* is declared with (src/src/tessaridb/_json.py, _geojson.py, kind.py),    *)
(* beside the codec: the node writes a value on both surfaces.             *)
(*                                                                         *)
(* A JSON node is a pair of its type and what it holds; a text is its      *)
(* characters' codes, those of hexadecimal digits their worth.  A reader   *)
(* is the set of what it reads, empty when it raises.  The calendar, and the *)
(* digits of a float that is no whole number, are the library's.           *)
(***************************************************************************)
EXTENDS Codec

CONSTANTS
  FRACTION,   \* the most digits of a fraction of a second, 9 for the code
  UnitNanos,  \* the nanoseconds of each unit of a duration
  Specials,   \* the words of the doubles that are not finite, NaN that of any not a number
  NAN,        \* the not a number that the library makes
  Wholes      \* the integers of the doubles that are whole, but for the negative zero

ZERO == [i \in 1 .. W64 |-> 0]
NEGATIVE_ZERO == [ZERO EXCEPT ![1] = 128]

ASSUME JSONAssumption ==
  /\ Specials[NAN] = "NaN" /\ Wholes[ZERO] = 0
  /\ NEGATIVE_ZERO \notin DOMAIN Specials \cup DOMAIN Wholes
  /\ NANOS_PER_SECOND = 10 ^ FRACTION
  /\ UnitNanos["s"] = NANOS_PER_SECOND /\ UnitNanos["ns"] = 1
  /\ UnitNanos \in [{"h", "m", "s", "ms", "us", "ns"} -> Nat \ {0}]

\* Mutant: the units from the largest down.
UNITS_Largest == <<"h", "m", "s", "ms", "us", "ns">>

\* The units in the order they are tried in: those of two letters first.
UNITS == <<"ms", "us", "ns", "h", "m", "s">>
Letters == [h |-> <<104>>, m |-> <<109>>, s |-> <<115>>,
            ms |-> <<109, 115>>, us |-> <<117, 115>>, ns |-> <<110, 115>>]

MINUS == 45
DOT == 46
Digit == 48 .. 57

-----------------------------------------------------------------------------
(* Reading *)

Typed(node, want) == IF node[1] = want THEN {node[2]} ELSE {}

\* int(), of the text it takes: digits, a minus before them.
Worth(digits) == FoldLeft(LAMBDA n, d : 10 * n + (d - 48), 0, digits)
Signless(text) == IF text # <<>> /\ Head(text) = MINUS THEN Tail(text) ELSE text
ReadInt(text) ==
  IF Signless(text) = <<>> \/ ~(ToSet(Signless(text)) \subseteq Digit) THEN {}
  ELSE {IF Signless(text) = text THEN Worth(text) ELSE -Worth(Signless(text))}

ReadDecimal(text) ==
  LET dots == SelectInSeq(text, LAMBDA c : c = DOT)
      whole == IF dots = 0 THEN text ELSE SubSeq(text, 1, dots - 1)
      fraction == IF dots = 0 THEN <<>> ELSE SubSeq(text, dots + 1, Len(text))
  IN {<<TAG_NUMBER, DECIMAL, <<n, Len(fraction)>>>> : n \in ReadInt(whole \o fraction)}

\* The nanoseconds of counts and their units.
RECURSIVE Span(_)
Span(body) ==
  IF body = <<>> THEN {0}
  ELSE LET digits == SelectInSeq(body \o <<0>>, LAMBDA c : c \notin Digit) - 1
           unit == SelectInSeq(UNITS, LAMBDA u : IsPrefix(Letters[u], SubSeq(body, digits + 1, Len(body))))
       IN IF digits = 0 \/ unit = 0 THEN {}
          ELSE {Worth(SubSeq(body, 1, digits)) * UnitNanos[UNITS[unit]] + n :
                  n \in Span(SubSeq(body, digits + Len(Letters[UNITS[unit]]) + 1, Len(body)))}

\* Floored, so that the nanoseconds point forward.
ReadDuration(text) ==
  IF Signless(text) = <<>> THEN {}
  ELSE {LET n == IF Signless(text) = text THEN span ELSE -span IN
        <<TAG_DURATION, n \div NANOS_PER_SECOND, n % NANOS_PER_SECOND>> : span \in Span(Signless(text))}

\* An instant to the second, and the digits of its fraction.
ReadDatetime(instant, fraction) ==
  IF Len(fraction) > FRACTION THEN {}
  ELSE {<<TAG_DATETIME, instant, Worth(fraction) * 10 ^ (FRACTION - Len(fraction))>>}

FromHex(text) ==
  IF Len(text) % 2 = 1 \/ ~(ToSet(text) \subseteq 0 .. 15) THEN {}
  ELSE {[i \in 1 .. Len(text) \div 2 |-> 16 * text[2 * i - 1] + text[2 * i]]}

\* float(), of a number: an integer is the double that is whole, and 0 the positive one.
ReadDigits(node) ==
  CASE node[1] = "int" -> {bits \in DOMAIN Wholes : Wholes[bits] = node[2]}
    [] node[1] = "decimals" -> {node[2]}
    [] OTHER -> {}

ReadFloat(node) ==
  CASE node = <<"word", "NaN">> -> {NAN}
    [] node[1] = "word" /\ node[2] # "NaN" -> {bits \in DOMAIN Specials : Specials[bits] = node[2]}
    [] OTHER -> ReadDigits(node)

Every(reads) == FoldLeft(LAMBDA all, read : {Append(items, item) : items \in all, item \in read}, {<<>>}, reads)
All(node, ReadItem(_)) ==
  UNION {Every([i \in DOMAIN items |-> ReadItem(items[i])]) : items \in Typed(node, "list")}

\* What is not finite is written null, and not read as a number it was not.
ReadCoordinate(node) == IF node[1] = "null" THEN {NAN} ELSE ReadDigits(node)
ReadPlace(node) == {at \in All(node, ReadCoordinate) : Len(at) = 2}
ReadPlaces(node) == All(node, ReadPlace)
ReadRings(node) == {IF rings = <<>> THEN <<<<>>>> ELSE rings : rings \in All(node, ReadPlaces)}

RECURSIVE ReadGeo(_)
ReadGeo(body) ==
  LET shapes == CASE body.type = POINT -> ReadPlace(body.coordinates)
                  [] body.type \in {LINE, MULTIPOINT} -> ReadPlaces(body.coordinates)
                  [] body.type = POLYGON -> ReadRings(body.coordinates)
                  [] body.type = MULTILINE -> All(body.coordinates, ReadPlaces)
                  [] body.type = MULTIPOLYGON -> All(body.coordinates, ReadRings)
                  [] body.type = COLLECTION -> All(body.geometries, LAMBDA node : ReadGeo(node[2]))
                  [] OTHER -> {}
  IN {<<body.type, shape>> : shape \in shapes}

\* A kind is the tag of its values, with the kinds of what they hold.
RECURSIVE ReadJSON(_, _)
ReadJSON(node, kind) ==
  LET tag == kind[1]
      Text == Typed(node, "text")
      Items(items) ==
        IF kind[2] = "one" THEN Every([i \in DOMAIN items |-> ReadJSON(items[i], kind[3])])
        ELSE IF Len(kind[3]) # Len(items) THEN {}
        ELSE Every([i \in DOMAIN items |-> ReadJSON(items[i], kind[3][i])])
      Field(body, name) ==
        IF name \in DOMAIN body THEN ReadJSON(body[name], kind[2][name]) ELSE {<<TAG_NONE>>}
      Object(body) ==
        LET reads == [name \in DOMAIN kind[2] |-> Field(body, name)] IN
        IF \E name \in DOMAIN reads : reads[name] = {} THEN {}
        ELSE {[name \in DOMAIN reads |-> CHOOSE value \in reads[name] : TRUE]}
      Bound(end) ==
        IF end.bound = UNBOUNDED THEN {<<UNBOUNDED>>}
        ELSE IF end.bound \notin {INCLUDED, EXCLUDED} THEN {}
        ELSE {<<end.bound, value>> : value \in ReadJSON(end.value, kind[2])}
  IN IF node[1] = "null" THEN {<<TAG_NULL>>}
     ELSE CASE tag = TAG_BOOL -> {<<tag, flag>> : flag \in Typed(node, "bool")}
            [] tag = TAG_NUMBER /\ kind[2] = INTEGER -> {<<tag, INTEGER, n>> : n \in Typed(node, "int")}
            [] tag = TAG_NUMBER /\ kind[2] = FLOAT -> {<<tag, FLOAT, bits>> : bits \in ReadFloat(node)}
            [] tag = TAG_NUMBER /\ kind[2] = DECIMAL -> UNION {ReadDecimal(text) : text \in Text}
            [] tag \in {TAG_STRING, TAG_REGEX} -> {<<tag, text>> : text \in Text}
            [] tag = TAG_BYTES -> {<<tag, raw>> : raw \in UNION {FromHex(text) : text \in Text}}
            [] tag = TAG_UUID ->
                 {<<tag, raw>> : raw \in UNION {FromHex(SelectSeq(text, LAMBDA c : c # MINUS)) : text \in Text}}
            [] tag = TAG_DURATION -> UNION {ReadDuration(text) : text \in Text}
            [] tag = TAG_DATETIME -> UNION {ReadDatetime(text[1], text[2]) : text \in Typed(node, "instant")}
            [] tag \in {TAG_TABLE, TAG_RECORD} -> Text
            [] tag = TAG_GEOMETRY -> {<<tag, shape>> : shape \in UNION {ReadGeo(body) : body \in Typed(node, "dict")}}
            [] tag \in {TAG_ARRAY, TAG_SET} ->
                 {<<tag, items>> : items \in UNION {Items(nodes) : nodes \in Typed(node, "list")}}
            [] tag = TAG_OBJECT ->
                 {<<tag, fields>> : fields \in UNION {Object(body) : body \in Typed(node, "dict")}}
            [] tag = TAG_RANGE ->
                 UNION {{<<tag, start, end>> : start \in Bound(body.start), end \in Bound(body.end)} :
                          body \in Typed(node, "dict")}
            [] OTHER -> {}

-----------------------------------------------------------------------------
(* What a node writes *)

\* The decimal digits of n, at least w of them.
Spelled(n, w) ==
  LET least == CHOOSE k \in 1 .. 9 : 10 ^ k > n /\ (k > 1 => 10 ^ (k - 1) <= n)
      places == IF w > least THEN w ELSE least
  IN [i \in 1 .. places |-> 48 + (IF places - i > 8 THEN 0 ELSE (n \div 10 ^ (places - i)) % 10)]
Size(n) == IF n < 0 THEN -n ELSE n
Sign(n) == IF n < 0 THEN <<MINUS>> ELSE <<>>

\* The node writes a decimal as the client spells it in an event.
WriteDecimal(n, scale) ==
  LET digits == Spelled(Size(n), scale + 1)
      whole == Len(digits) - scale
  IN Sign(n) \o SubSeq(digits, 1, whole)
       \o (IF scale = 0 THEN <<>> ELSE <<DOT>> \o SubSeq(digits, whole + 1, Len(digits)))

\* The largest unit first, and none of which there is nothing.
WriteDuration(seconds, nanos) ==
  LET total == seconds * NANOS_PER_SECOND + nanos
      Next(split, u) ==
        LET count == split[1] \div UnitNanos[u] IN
        IF count = 0 THEN split
        ELSE <<split[1] % UnitNanos[u], split[2] \o Spelled(count, 1) \o Letters[u]>>
      terms == FoldLeft(Next, <<Size(total), <<>>>>, <<"h", "m", "s", "ms", "us", "ns">>)[2]
  IN Sign(total) \o (IF total = 0 THEN <<48, 115>> ELSE terms)

\* A fraction without the zeros it ends in.
WriteFraction(nanos) ==
  LET digits == Spelled(nanos, FRACTION)
      last == SelectLastInSeq(digits, LAMBDA d : d # 48)
  IN SubSeq(digits, 1, last)

ToHex(raw) == FlattenSeq([i \in DOMAIN raw |-> <<raw[i] \div 16, raw[i] % 16>>])

\* The node writes no zero with a sign, and a whole number without a point.
Normalised(bits) == IF bits = NEGATIVE_ZERO THEN ZERO ELSE bits
WriteDigits(bits) ==
  LET double == Normalised(bits) IN
  IF double \in DOMAIN Wholes THEN <<"int", Wholes[double]>> ELSE <<"decimals", double>>
WriteFloat(bits) ==
  IF bits \in DOMAIN Specials THEN <<"word", Specials[bits]>> ELSE WriteDigits(bits)
List(items, Write(_)) == <<"list", [i \in DOMAIN items |-> Write(items[i])]>>
WriteCoordinate(bits) == IF bits \in DOMAIN Specials THEN <<"null">> ELSE WriteDigits(bits)
WritePlace(at) == List(at, WriteCoordinate)
WritePlaces(ats) == List(ats, WritePlace)
WriteRings(rings) == List(rings, WritePlaces)

RECURSIVE WriteGeo(_)
WriteGeo(shape) ==
  LET kind == shape[1] IN
  <<"dict",
    IF kind = COLLECTION THEN [type |-> kind, geometries |-> List(shape[2], WriteGeo)]
    ELSE [type |-> kind,
          coordinates |-> CASE kind = POINT -> WritePlace(shape[2])
                            [] kind \in {LINE, MULTIPOINT} -> WritePlaces(shape[2])
                            [] kind = POLYGON -> WriteRings(shape[2])
                            [] kind = MULTILINE -> List(shape[2], WritePlaces)
                            [] kind = MULTIPOLYGON -> List(shape[2], WriteRings)]>>

RECURSIVE WriteJSON(_)
WriteJSON(value) ==
  LET tag == value[1]
      End(bound) == IF bound[1] = UNBOUNDED THEN [bound |-> UNBOUNDED]
                    ELSE [bound |-> bound[1], value |-> WriteJSON(bound[2])]
      Held == {name \in DOMAIN value[2] : value[2][name] # <<TAG_NONE>>}
  IN CASE tag = TAG_NULL -> <<"null">>
       [] tag = TAG_BOOL -> <<"bool", value[2]>>
       [] tag = TAG_NUMBER /\ value[2] = INTEGER -> <<"int", value[3]>>
       [] tag = TAG_NUMBER /\ value[2] = FLOAT -> WriteFloat(value[3])
       [] tag = TAG_NUMBER /\ value[2] = DECIMAL -> <<"text", WriteDecimal(value[3][1], value[3][2])>>
       [] tag \in {TAG_STRING, TAG_REGEX} -> <<"text", value[2]>>
       [] tag = TAG_BYTES -> <<"text", ToHex(value[2])>>
       [] tag = TAG_UUID -> <<"text", SubSeq(ToHex(value[2]), 1, 2) \o <<MINUS>> \o ToHex(Tail(value[2]))>>
       [] tag = TAG_DURATION -> <<"text", WriteDuration(value[2], value[3])>>
       [] tag = TAG_DATETIME -> <<"instant", <<value[2], WriteFraction(value[3])>>>>
       [] tag = TAG_GEOMETRY -> WriteGeo(value[2])
       [] tag \in {TAG_ARRAY, TAG_SET} -> List(value[2], WriteJSON)
       [] tag = TAG_OBJECT -> <<"dict", [name \in Held |-> WriteJSON(value[2][name])]>>
       [] tag = TAG_RANGE -> <<"dict", [start |-> End(value[2]), end |-> End(value[3])]>>

\* The kind a field that holds the value is declared with.
RECURSIVE KindOf(_)
KindOf(value) ==
  LET tag == value[1]
      kinds == [i \in DOMAIN value[2] |-> KindOf(value[2][i])]
  IN CASE tag = TAG_NUMBER -> <<tag, value[2]>>
       [] tag \in {TAG_ARRAY, TAG_SET} ->
            IF Len(value[2]) = 1 THEN <<tag, "one", kinds[1]>> ELSE <<tag, "each", kinds>>
       [] tag = TAG_OBJECT -> <<tag, kinds>>
       [] tag = TAG_RANGE -> <<tag, KindOf(value[3][2])>>
       [] OTHER -> <<tag>>

-----------------------------------------------------------------------------
(* Properties of a value, for the modules that enumerate values *)

\* What JSON can say, if not all of it: no table or record, which stay the names they are written
\* as, and none only as a field that is not there.
RECURSIVE Sayable(_)
Sayable(value) ==
  LET tag == value[1] IN
  CASE tag \in {TAG_NONE, TAG_TABLE, TAG_RECORD} -> FALSE
    [] tag \in {TAG_ARRAY, TAG_SET} -> \A i \in DOMAIN value[2] : Sayable(value[2][i])
    [] tag = TAG_OBJECT ->
         \A name \in DOMAIN value[2] : value[2][name] = <<TAG_NONE>> \/ Sayable(value[2][name])
    [] tag = TAG_RANGE -> Sayable(value[3][2])
    [] OTHER -> TRUE

\* What JSON leaves of a double: no sign of a zero, no bits of a NaN beside the
\* library's, and of a coordinate that is not finite, that it was not a number.
LeftOfFloat(bits) ==
  IF bits \in DOMAIN Specials /\ Specials[bits] = "NaN" THEN NAN ELSE Normalised(bits)
LeftOfCoordinate(bits) == IF bits \in DOMAIN Specials THEN NAN ELSE Normalised(bits)

\* How deep the coordinates of a shape are.
Levels == POINT :> 1 @@ LINE :> 2 @@ MULTIPOINT :> 2 @@ POLYGON :> 3 @@ MULTILINE :> 3 @@ MULTIPOLYGON :> 4
RECURSIVE Coordinates(_, _), LeftOfShape(_)
Coordinates(held, levels) ==
  IF levels = 0 THEN LeftOfCoordinate(held)
  ELSE [i \in DOMAIN held |-> Coordinates(held[i], levels - 1)]
LeftOfShape(shape) ==
  <<shape[1], IF shape[1] = COLLECTION THEN [i \in DOMAIN shape[2] |-> LeftOfShape(shape[2][i])]
              ELSE Coordinates(shape[2], Levels[shape[1]])>>

RECURSIVE LeftOf(_)
LeftOf(value) ==
  LET tag == value[1]
      End(bound) == IF bound[1] = UNBOUNDED THEN bound ELSE <<bound[1], LeftOf(bound[2])>>
  IN CASE tag = TAG_NUMBER /\ value[2] = FLOAT -> <<tag, FLOAT, LeftOfFloat(value[3])>>
       [] tag = TAG_GEOMETRY -> <<tag, LeftOfShape(value[2])>>
       [] tag \in {TAG_ARRAY, TAG_SET, TAG_OBJECT} ->
            <<tag, [name \in DOMAIN value[2] |-> LeftOf(value[2][name])]>>
       [] tag = TAG_RANGE -> <<tag, End(value[2]), End(value[3])>>
       [] OTHER -> value

\* A value the wire can carry reads the same from the JSON of the node, at the kind it
\* is declared with, but for what JSON cannot say of a double, which reads as what
\* is left of it: a negative zero as the positive one, a coordinate that is not
\* finite as NaN (_json.py:1-8, 147-160, 181-245; _geojson.py:60-64;
\* test_json_corpus.py:169-183).
SaysTheSame(value) ==
  Sayable(value) =>
    \A raw \in Encode(value) :
      ReadJSON(WriteJSON(value), KindOf(value)) = {LeftOf(read) : read \in Decode(raw)}
=============================================================================
