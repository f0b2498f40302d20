------------------------------- MODULE Answer -------------------------------
(***************************************************************************)
(* The body of an answer (src/src/tessaridb/_answer.py): outcomes, each    *)
(* with its length, read by a client that may be older or newer than the   *)
(* node that wrote them.                                                    *)
(***************************************************************************)
EXTENDS Codec

CONSTANT ACCESS_PATHS   \* how many ways of access the client can name

SCAN == 2   \* the one that stands for the others

\* Records of which nothing was read yet.
Blank == [path |-> SCAN, names |-> <<>>, rows |-> <<>>, notes |-> <<>>, only |-> FALSE,
          exactness |-> <<"unstated">>, suggestion |-> <<"not consulted">>]

-----------------------------------------------------------------------------
(* Reading *)

\* The names of tables by their ids, the last one read of each.
ReadNames(raw) ==
  As(ReadCounted(raw, LAMBDA rest : Both(ReadU32(rest), ReadText)), Fields)

ReadValue(raw) ==
  Then(ReadLenBytes(raw), LAMBDA bytes, rest : {<<value, rest>> : value \in Decode(bytes)})

ReadRow(raw) == Both(ReadText(raw), ReadValue)
ReadNote(raw) == Both(ReadText(raw), ReadText)

ReadSuggestion(raw) ==
  Then(ReadU8(raw), LAMBDA state, rest :
    CASE state = 1 -> {<<<<"complete">>, rest>>}
      [] state = 2 -> As(ReadCounted(rest, ReadNote), LAMBDA items : <<"corrections", items>>)
      [] OTHER -> {<<<<"not consulted">>, rest>>})

\* What an older node did not write keeps its default.
Unless(records, More(_, _)) ==
  UNION {IF r[2] = <<>> THEN {r} ELSE More(r[1], r[2]) : r \in records}

ReadRecords(raw) ==
  LET path == As(ReadU8(raw), LAMBDA byte :
                 [Blank EXCEPT !.path = IF byte < ACCESS_PATHS THEN byte ELSE SCAN])
      names == Then(path, LAMBDA rec, rest :
                 As(ReadNames(rest), LAMBDA named : [rec EXCEPT !.names = named]))
      rows == Then(names, LAMBDA rec, rest :
                As(ReadCounted(rest, ReadRow), LAMBDA read : [rec EXCEPT !.rows = read]))
      notes == Unless(rows, LAMBDA rec, rest :
                 As(ReadCounted(rest, ReadNote), LAMBDA read : [rec EXCEPT !.notes = read]))
      only == Unless(notes, LAMBDA rec, rest :
                As(ReadU8(rest), LAMBDA byte : [rec EXCEPT !.only = byte # 0]))
      exactness == Unless(only, LAMBDA rec, rest :
                     As(Both(ReadU8(rest), ReadText), LAMBDA both :
                       [rec EXCEPT !.exactness = IF both[1] = 0 THEN <<"exact">>
                                                 ELSE <<"inexact", both[2]>>]))
  IN Unless(exactness, LAMBDA rec, rest :
       As(ReadSuggestion(rest), LAMBDA said : [rec EXCEPT !.suggestion = said]))

\* What an outcome's bytes say; those left over are skipped.
Outcome(bytes) ==
  {r[1] : r \in
     Then(ReadU8(bytes), LAMBDA tag, rest :
       CASE tag = 0 -> {<<<<"done">>, rest>>}
         [] tag = 1 -> As(ReadRecords(rest), LAMBDA rec : <<"records", rec>>)
         [] tag = 2 -> As(Both(ReadNames(rest), ReadValue), LAMBDA both : <<"value">> \o both)
         [] tag = 3 -> As(ReadCounted(rest, ReadText), LAMBDA keys : <<"keys", keys>>)
         [] tag = 4 -> As(Take(rest, W64), LAMBDA raw : <<"removed", Unsigned(raw)>>)
         [] OTHER -> {<<<<"unknown", tag, rest>>, <<>>>>})}

\* Mutant: an outcome is read from the whole answer and its length not kept to.
ReadOutcome_Unbounded(raw) ==
  Then(ReadU32(raw), LAMBDA length, rest :
    IF length < 1 THEN {}
    ELSE {<<outcome, SubSeq(rest, length + 1, Len(rest))>> : outcome \in Outcome(rest)})

ReadOutcome(raw) ==
  Then(ReadU32(raw), LAMBDA length, rest :
    IF length < 1 THEN {}
    ELSE Then(Take(rest, length), LAMBDA bytes, after :
           {<<outcome, after>> : outcome \in Outcome(bytes)}))

\* The outcomes of an answer; it is not looked at what follows them.
ReadAnswer(body) == {r[1] : r \in ReadCounted(body, ReadOutcome)}

-----------------------------------------------------------------------------
(* What a node writes, an older one fewer of the fields of records *)

Text(raw) == LenBytes(raw)
WriteNames(names) ==
  Counted(SetToSeq(DOMAIN names), LAMBDA id : Cat(U32(id), Text(names[id])))
WriteValue(value) == UNION {LenBytes(raw) : raw \in Encode(value)}
WriteNote(note) == Cat(Text(note[1]), Text(note[2]))
Newest == 4

WriteRecords(rec, age) ==
  LET rows == Counted(rec.rows, LAMBDA row : Cat(Text(row[1]), WriteValue(row[2])))
      exactness == IF rec.exactness = <<"exact">> THEN Cat(U8(0), Text(<<>>))
                   ELSE Cat(U8(1), Text(rec.exactness[2]))
      suggestion == IF rec.suggestion = <<"complete">> THEN U8(1)
                    ELSE IF rec.suggestion = <<"not consulted">> THEN U8(0)
                    ELSE Cat(U8(2), Counted(rec.suggestion[2], WriteNote))
      fields == <<Cat(U8(rec.path), Cat(WriteNames(rec.names), rows)), Counted(rec.notes, WriteNote),
                  U8(IF rec.only THEN 1 ELSE 0), exactness, suggestion>>
  IN Cat(U8(1), Each(SubSeq(fields, 1, age + 1), LAMBDA field : field))

\* An outcome that is a value, and one that is keys.
WriteLone(names, value) == Cat(U8(2), Cat(WriteNames(names), WriteValue(value)))
WriteKeys(keys) == Cat(U8(3), Counted(keys, Text))

-----------------------------------------------------------------------------
(* Properties, for the modules that enumerate what is written *)

\* What the records say when all that is newer than age is left out.
AsOf(rec, age) ==
  [rec EXCEPT !.notes = IF age >= 1 THEN @ ELSE <<>>, !.only = age >= 2 /\ @,
              !.exactness = IF age >= 3 THEN @ ELSE <<"unstated">>,
              !.suggestion = IF age >= 4 THEN @ ELSE <<"not consulted">>]

\* Records from a node of any age read as what it wrote of them, and an older
\* one is not made to say what it never said; what a newer one appends is
\* skipped (_answer.py:11-21, 108-131; outcome.py:53-61).
ReadsAtAnyAge(rec) ==
  \A age \in 0 .. Newest : \A bytes \in WriteRecords(rec, age) :
    /\ Outcome(bytes) = {<<"records", AsOf(rec, age)>>}
    /\ age = Newest => Outcome(bytes \o <<7, 0>>) = {<<"records", rec>>}

\* However an outcome's bytes lie about their shape, the outcomes on either side
\* of it are read as they are: the answer is refused or each of its outcomes is
\* what its own bytes say (_answer.py:6-14, 80-82).
ReadsApart(before, bytes, after) ==
  \A body \in Counted(<<before, bytes, after>>, LenBytes) :
    ReadAnswer(body) = {<<a, b, c>> : a \in Outcome(before), b \in Outcome(bytes), c \in Outcome(after)}
=============================================================================
