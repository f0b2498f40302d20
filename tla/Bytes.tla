------------------------------- MODULE Bytes -------------------------------
(***************************************************************************)
(* The primitives values are written with (src/src/tessaridb/_bytes.py)    *)
(* and the ids of records (_encode.py, _decode.py), which keys are made of. *)
(*                                                                         *)
(* A writer is the set of what it writes, empty when it raises; a reader   *)
(* is the set of <<what it read, the bytes after it>>, empty likewise.     *)
(* Widths are constants, as narrow as TLC's integers need them; a double   *)
(* is its bits, a text its bytes, of which those under 128 are UTF-8.      *)
(***************************************************************************)
EXTENDS Integers, Sequences, SequencesExt

CONSTANTS
  W32,   \* the bytes of a u32, of which the code has 4
  W64,   \* of an i64 or a double, 8
  W128,  \* of an i128 and of a uuid, 16
  NANOS_PER_SECOND

ID_INTEGER == 1
ID_TEXT == 2
ID_UUID == 3
ID_BYTES == 4

-----------------------------------------------------------------------------
(* Bytes *)

Byte == 0 .. 255

\* 256 to the w.
Powers(w) == LET power[k \in 0 .. w] == IF k = 0 THEN 1 ELSE 256 * power[k - 1] IN power
Power(w) == Powers(w)[w]

ASSUME CodecAssumption ==
  /\ {W32, W64, W128, NANOS_PER_SECOND} \subseteq Nat \ {0}
  /\ NANOS_PER_SECOND <= Power(W32)   \* nanoseconds are written as a u32

\* n without its last k digits.
Quotients(n, w) == LET over[k \in 0 .. w] == IF k = 0 THEN n ELSE over[k - 1] \div 256 IN over

\* The last w digits of n, two's complement when it is negative.
Digits(n, w) == [i \in 1 .. w |-> Quotients(n, w)[w - i] % 256]

\* What the first k digits say.
Sums(raw) == LET sum[k \in 0 .. Len(raw)] == IF k = 0 THEN 0 ELSE 256 * sum[k - 1] + raw[k] IN sum
Unsigned(raw) == Sums(raw)[Len(raw)]
Signed(raw) ==
  IF raw[1] < 128 THEN Unsigned(raw) ELSE Unsigned(raw) - Power(Len(raw))
\* The sign bit the other way.
Flip(raw) == [i \in DOMAIN raw |-> IF i = 1 THEN (raw[i] + 128) % 256 ELSE raw[i]]
IsText(raw) == \A i \in DOMAIN raw : raw[i] < 128

Checked(n, low, high, w) == IF n \in low .. high THEN {Digits(n, w)} ELSE {}

\* Mutant: an i64 is written as it is.
I64_Plain(n) == Checked(n, -(Power(W64) \div 2), Power(W64) \div 2 - 1, W64)

U8(n) == Checked(n, 0, 255, 1)
U32(n) == Checked(n, 0, Power(W32) - 1, W32)
I64(n) == {Flip(raw) : raw \in Checked(n, -(Power(W64) \div 2), Power(W64) \div 2 - 1, W64)}
I128(n) == Checked(n, -(Power(W128) \div 2), Power(W128) \div 2 - 1, W128)
Nanos(n) == Checked(n, 0, NANOS_PER_SECOND - 1, W32)
Fixed(raw, w) == IF Len(raw) = w THEN {raw} ELSE {}

Cat(writes, more) == {raw \o rest : raw \in writes, rest \in more}
\* What is written in turn.
InTurn(writes) ==
  LET turn[k \in 0 .. Len(writes)] == IF k = 0 THEN {<<>>} ELSE Cat(turn[k - 1], writes[k])
  IN turn[Len(writes)]
\* One writer for each of them, after each other.
Each(items, Write(_)) == InTurn([i \in DOMAIN items |-> Write(items[i])])
WriteCounted(writes) == Cat(U32(Len(writes)), InTurn(writes))
Counted(items, Write(_)) == WriteCounted([i \in DOMAIN items |-> Write(items[i])])
LenBytes(raw) == Cat(U32(Len(raw)), {raw})

\* Mutant: a zero byte is not escaped.
VarBytes_Plain(raw) == {raw \o <<0, 1>>}
Escaped(byte) == IF byte = 0 THEN <<0, 255>> ELSE <<byte>>
VarBytes(raw) == {FlattenSeq([i \in DOMAIN raw |-> Escaped(raw[i])]) \o <<0, 1>>}

Take(raw, w) ==
  IF Len(raw) < w THEN {} ELSE {<<SubSeq(raw, 1, w), SubSeq(raw, w + 1, Len(raw))>>}
Then(reads, Next(_, _)) == UNION {Next(r[1], r[2]) : r \in reads}
As(reads, Made(_)) == {<<Made(r[1]), r[2]>> : r \in reads}
Only(reads, Fits(_)) == {r \in reads : Fits(r[1])}
Both(reads, Read(_)) == Then(reads, LAMBDA a, rest : As(Read(rest), LAMBDA b : <<a, b>>))
OneMore(reads, read) ==
  Then(reads, LAMBDA items, rest : As(read[rest], LAMBDA item : Append(items, item)))
\* n items, by a reader that is a function.
Repeated(n, raw, read) ==
  LET reads[k \in 0 .. n] == IF k = 0 THEN {<<<<>>, raw>>} ELSE OneMore(reads[k - 1], read)
  IN reads[n]
Times(n, raw, Read(_)) == Repeated(n, raw, [rest \in Seq(Byte) |-> Read(rest)])

ReadU8(raw) == As(Take(raw, 1), Unsigned)
ReadU32(raw) == As(Take(raw, W32), Unsigned)
ReadI64(raw) == As(Take(raw, W64), LAMBDA digits : Signed(Flip(digits)))
ReadI128(raw) == As(Take(raw, W128), Signed)
ReadDouble(raw) == Take(raw, W64)
ReadUuid(raw) == Take(raw, W128)

ReadNanos(raw) == Only(ReadU32(raw), LAMBDA n : n < NANOS_PER_SECOND)
ReadLenBytes(raw) == Then(ReadU32(raw), LAMBDA n, rest : Take(rest, n))
ReadText(raw) == Only(ReadLenBytes(raw), IsText)
CountedBy(raw, read) == Then(ReadU32(raw), LAMBDA n, rest : Repeated(n, rest, read))
ReadCounted(raw, Read(_)) == CountedBy(raw, [rest \in Seq(Byte) |-> Read(rest)])

\* Up to the first zero that 255 does not follow, which 1 must.
ReadVarBytes(raw) ==
  LET Zeros == {i \in DOMAIN raw : raw[i] = 0}
      Ends == {i \in Zeros : i = Len(raw) \/ raw[i + 1] # 255}
  IN {<<FlattenSeq([i \in 1 .. e - 1 |-> IF i - 1 \in Zeros THEN <<>> ELSE <<raw[i]>>]),
        SubSeq(raw, e + 2, Len(raw))>> :
        e \in {x \in Ends : x < Len(raw) /\ raw[x + 1] = 1 /\ \A y \in Ends : x <= y}}

-----------------------------------------------------------------------------
(* The ids of records *)

Tagged(tag, writes) == Cat({<<tag>>}, writes)

RecordId(id) ==
  Tagged(id[1], CASE id[1] = ID_INTEGER -> I64(id[2])
                  [] id[1] \in {ID_TEXT, ID_BYTES} -> VarBytes(id[2])
                  [] id[1] = ID_UUID -> Fixed(id[2], W128))

ReadRecordId(raw) ==
  Then(ReadU8(raw), LAMBDA tag, rest :
    As(CASE tag = ID_INTEGER -> ReadI64(rest)
         [] tag = ID_TEXT -> Only(ReadVarBytes(rest), IsText)
         [] tag = ID_UUID -> ReadUuid(rest)
         [] tag = ID_BYTES -> ReadVarBytes(rest)
         [] OTHER -> {},
       LAMBDA id : <<tag, id>>))

-----------------------------------------------------------------------------
(* Properties, for the modules that enumerate ids *)

\* Whether text a comes before b, by their bytes.
Before(a, b) ==
  \E n \in 0 .. Len(a) :
    /\ n <= Len(b) /\ SubSeq(a, 1, n) = SubSeq(b, 1, n)
    /\ n < Len(b) /\ (n = Len(a) \/ a[n + 1] < b[n + 1])

\* The ids of one kind are in the order of their bytes, so that keys made of them
\* are (_bytes.py:11-14).
Lesser(id, other) == IF id[1] = ID_INTEGER THEN id[2] < other[2] ELSE Before(id[2], other[2])
InOrder(id, other) ==
  \A raw \in RecordId(id), more \in RecordId(other) :
    id[1] = other[1] /\ Lesser(id, other) => Before(raw, more)
=============================================================================
