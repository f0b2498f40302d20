------------------------------- MODULE Routes -------------------------------
(***************************************************************************)
(* What the HTTP client writes into a request by hand                      *)
(* (src/src/tessaridb/_events.py, _files.py): a batch of events spelled as *)
(* the source of one value, and the paths of series, buckets and files.    *)
(*                                                                         *)
(* A text is its tokens, of which a string between quotes is its           *)
(* characters; commas, colons and spaces are left out, and so are a        *)
(* float's digits and the calendar, which are the library's.  A writer and *)
(* a reader are the sets of what they write and read, as in Codec.         *)
(***************************************************************************)
EXTENDS JSONReader

CONSTANT Years   \* the seconds of the years 1 to 9999

QUOTE == 39
BACKSLASH == 92
SLASH == 47
PERCENT == 37
UNDERSCORE == 95
Alphanumeric == Digit \cup 65 .. 90 \cup 97 .. 122

-----------------------------------------------------------------------------
(* Events *)

Token(kind, what) == {<<<<kind, what>>>>}
Within(open, inside, close) == Cat(Token("mark", open), Cat(inside, Token("mark", close)))

Quoted(text) ==
  LET body == FlattenSeq([i \in DOMAIN text |->
                IF text[i] \in {QUOTE, BACKSLASH} THEN <<BACKSLASH, text[i]>> ELSE <<text[i]>>])
      whole == <<QUOTE>> \o body \o <<QUOTE>>
  IN {[i \in DOMAIN whole |-> <<"char", whole[i]>>]}

\* A fraction has all its digits, or is not there.
Instant(seconds, nanos) ==
  IF seconds \notin Years THEN {}
  ELSE Token("datetime", <<seconds, IF nanos = 0 THEN <<>> ELSE Spelled(nanos, FRACTION)>>)

\* A kind without a spelling raises, and so does none in an array; a field that
\* holds none is left out.
RECURSIVE Literal(_)
Literal(value) ==
  LET tag == value[1]
      Held == {name \in DOMAIN value[2] : value[2][name] # <<TAG_NONE>>}
      Field(name) == Cat(Quoted(name), Literal(value[2][name]))
  IN CASE tag = TAG_NULL -> Token("word", "NULL")
       [] tag = TAG_BOOL -> Token("bool", value[2])
       [] tag = TAG_NUMBER /\ value[2] = INTEGER -> Token("int", value[3])
       [] tag = TAG_NUMBER /\ value[2] = FLOAT ->
            IF value[3] \in DOMAIN Specials THEN {} ELSE Token("float", value[3])
       [] tag = TAG_NUMBER /\ value[2] = DECIMAL ->
            Token("dec", WriteDecimal(value[3][1], value[3][2]))
       [] tag = TAG_STRING -> Quoted(value[2])
       [] tag = TAG_DATETIME -> Instant(value[2], value[3])
       [] tag = TAG_UUID -> Token("uuid", ToHex(value[2]))
       [] tag = TAG_ARRAY -> Within("[", Each(value[2], Literal), "]")
       [] tag = TAG_OBJECT -> Within("{", Each(SetToSortSeq(Held, Before), Field), "}")
       [] OTHER -> {}

Batch(events) ==
  IF \E i \in DOMAIN events : events[i][1] # TAG_OBJECT THEN {}
  ELSE Within("[", Each(events, Literal), "]")

-----------------------------------------------------------------------------
(* How a node reads them *)

\* Up to the quote that no backslash is before.
RECURSIVE Unquoted(_)
Unquoted(text) ==
  IF text = <<>> \/ Head(text)[1] # "char" THEN {}
  ELSE LET char == Head(text)[2] IN
       CASE char = QUOTE -> {<<<<>>, Tail(text)>>}
         [] char = BACKSLASH /\ Len(text) > 1 ->
              As(Unquoted(SubSeq(text, 3, Len(text))), LAMBDA more : <<text[2][2]>> \o more)
         [] char = BACKSLASH /\ Len(text) = 1 -> {}
         [] OTHER -> As(Unquoted(Tail(text)), LAMBDA more : <<char>> \o more)

String(text) ==
  IF text = <<>> \/ Head(text) # <<"char", QUOTE>> THEN {} ELSE Unquoted(Tail(text))

RECURSIVE ReadLiteral(_), Rest(_, _, _)
\* One after another, up to the mark.
Rest(text, close, pairs) ==
  IF text = <<>> THEN {}
  ELSE IF Head(text) = <<"mark", close>> THEN {<<<<>>, Tail(text)>>}
  ELSE Then(IF pairs THEN Both(String(text), ReadLiteral) ELSE ReadLiteral(text),
            LAMBDA item, after : As(Rest(after, close, pairs), LAMBDA items : <<item>> \o items))

ReadLiteral(text) ==
  IF text = <<>> THEN {}
  ELSE LET kind == Head(text)[1]
           what == Head(text)[2]
           One(values) == {<<value, Tail(text)>> : value \in values}
       IN CASE kind = "word" -> One({<<TAG_NULL>>})
            [] kind = "bool" -> One({<<TAG_BOOL, what>>})
            [] kind = "int" -> One({<<TAG_NUMBER, INTEGER, what>>})
            [] kind = "float" -> One({<<TAG_NUMBER, FLOAT, Normalised(what)>>})
            [] kind = "dec" -> One(ReadDecimal(what))
            [] kind = "datetime" -> One(ReadDatetime(what[1], what[2]))
            [] kind = "uuid" -> One({<<TAG_UUID, raw>> : raw \in FromHex(what)})
            [] kind = "char" -> As(String(text), LAMBDA string : <<TAG_STRING, string>>)
            [] kind = "mark" /\ what = "[" ->
                 As(Rest(Tail(text), "]", FALSE), LAMBDA items : <<TAG_ARRAY, items>>)
            [] kind = "mark" /\ what = "{" ->
                 As(Rest(Tail(text), "}", TRUE), LAMBDA pairs : <<TAG_OBJECT, Fields(pairs)>>)
            [] OTHER -> {}

-----------------------------------------------------------------------------
(* Paths *)

\* A name is letters, digits and underscores, not all of them underscores.
IsSegment(name) ==
  /\ \A i \in DOMAIN name : name[i] \in Alphanumeric \cup {UNDERSCORE}
  /\ \E i \in DOMAIN name : name[i] # UNDERSCORE

\* The path below the route, of a series or of a bucket.
BucketPath(names) ==
  IF \A i \in DOMAIN names : IsSegment(names[i])
  THEN {FlattenSeq([i \in DOMAIN names |-> <<SLASH>> \o names[i]])} ELSE {}

Upper(n) == IF n < 10 THEN 48 + n ELSE 55 + n

PathQuoted(path) ==
  FlattenSeq([i \in DOMAIN path |->
    IF path[i] \in Alphanumeric \cup {UNDERSCORE, SLASH, DOT, MINUS, 126} THEN <<path[i]>>
    ELSE <<PERCENT, Upper(path[i] \div 16), Upper(path[i] % 16)>>])

FilePath(names, path) == Cat(BucketPath(names), {<<SLASH>> \o PathQuoted(path)})

\* How a node reads one: what cannot stand in a request line, or begins a query,
\* is not the path's; the names are between slashes, and what is after them is
\* decoded.
Worths(digit) == IF digit \in Digit THEN {digit - 48} ELSE IF digit \in 65 .. 70 THEN {digit - 55} ELSE {}

RECURSIVE Decoded(_)
Decoded(text) ==
  IF text = <<>> THEN {<<>>}
  ELSE IF Head(text) # PERCENT THEN {<<Head(text)>> \o more : more \in Decoded(Tail(text))}
  ELSE IF Len(text) < 3 THEN {}
  ELSE {<<16 * high + low>> \o more : high \in Worths(text[2]), low \in Worths(text[3]),
                                      more \in Decoded(SubSeq(text, 4, Len(text)))}

ReadPath(text) ==
  LET slashes == {i \in DOMAIN text : text[i] = SLASH}
      At(n) == CHOOSE i \in slashes : Cardinality({j \in slashes : j <= i}) = n
      names == [n \in 1 .. 3 |->
                  SubSeq(text, At(n) + 1, IF n = Cardinality(slashes) THEN Len(text) ELSE At(n + 1) - 1)]
  IN IF (\E i \in DOMAIN text : text[i] \notin 33 .. 126 \ {35, 63}) \/ Cardinality(slashes) < 3 THEN {}
     ELSE IF Cardinality(slashes) = 3 THEN {<<"bucket", names>>}
     ELSE {<<"file", names, path>> : path \in Decoded(SubSeq(text, At(4) + 1, Len(text)))}

-----------------------------------------------------------------------------
(* Properties of a value, for the modules that enumerate values *)

\* What an event says: a field that holds none is as one that is not there, and the
\* node, which builds no zero with a sign, holds a negative one as the other.
RECURSIVE Meant(_)
Meant(value) ==
  CASE value[1] = TAG_ARRAY -> <<TAG_ARRAY, [i \in DOMAIN value[2] |-> Meant(value[2][i])]>>
    [] value[1] = TAG_OBJECT ->
         <<TAG_OBJECT, [name \in {name \in DOMAIN value[2] : value[2][name] # <<TAG_NONE>>} |->
                          Meant(value[2][name])]>>
    [] value[1] = TAG_NUMBER /\ value[2] = FLOAT -> <<TAG_NUMBER, FLOAT, Normalised(value[3])>>
    [] OTHER -> value

\* A batch of events that hold a value the wire can carry is read by the node as
\* those events, or is not sent (_events.py:3-6, 47-115).
BatchReadsBack(name, value) ==
  LET events == <<<<TAG_OBJECT, name :> value>>, <<TAG_OBJECT, <<>>>>>> IN
  Encode(value) # {} =>
    \A text \in Batch(events) : ReadLiteral(text) = {<<Meant(<<TAG_ARRAY, events>>), <<>>>>}

\* A file is asked for under the name the caller gave it, in the bucket it gave,
\* and a bucket is never one of its files (_files.py:3-7, 31-47).
PathsApart(names, path) ==
  /\ \A text \in FilePath(names, path) : ReadPath(text) = {<<"file", names, path>>}
  /\ \A text \in BucketPath(names) : ReadPath(text) = {<<"bucket", names>>}
=============================================================================
