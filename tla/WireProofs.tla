----------------------------- MODULE WireProofs -----------------------------
(***************************************************************************)
(* The types of a wire connection, its credentials, the pairing of its     *)
(* answers with its calls and the naming of its peers, proved for any      *)
(* bodies, minors, ceiling and numbers of calls.                           *)
(*                                                                         *)
(* And of the bytes that go over it, proved for any width and length: keys *)
(* are in the order of their ids; numbers, texts, ids and whole values are *)
(* read back as they were written; the outcomes of an answer do not harm   *)
(* each other; the frames of a vault and its status say what they should.  *)
(***************************************************************************)
EXTENDS Wire, Values, SequenceTheorems, FiniteSetTheorems, TLAPS

LEMMA Bounds ==
  /\ MaxCalls \in Nat /\ MaxInterrupts \in Nat /\ CEILING \in Nat /\ CEILING + 1 < 256 * 256
  /\ Minors \subseteq 0 .. 255 /\ HasUser \in BOOLEAN
  <1>1. {MaxCalls, MaxInterrupts} \subseteq Nat /\ HasUser \in BOOLEAN
    BY WireAssumption, Zenon
  <1>2. CEILING \in Nat /\ CEILING + 1 < 256 * 256 /\ Minors \subseteq 0 .. 255
    BY WireAssumption, Zenon
  <1>3. MaxCalls \in Nat /\ MaxInterrupts \in Nat
    BY <1>1
  <1>4. QED
    BY <1>1, <1>2, <1>3, Zenon

LEMMA BodiesAreBytes ==
  ASSUME NEW body \in Bodies
  PROVE  body \in Seq(0 .. 255) /\ Len(body) \in Nat /\ Len(body) < 256 * 256
  <1>1. body \in Seq(0 .. 255) /\ Len(body) < 256 * 256
    BY WireAssumption, Zenon
  <1>2. QED
    BY <1>1, LenProperties

\* Streams are made of streams.
LEMMA NoBytes == <<>> \in Streams
  BY EmptySeq DEF Streams

LEMMA Joined ==
  ASSUME NEW s \in Streams, NEW t \in Streams
  PROVE  s \o t \in Streams
  BY ConcatProperties DEF Streams

LEMMA Pieces ==
  ASSUME NEW s \in Streams, NEW n \in 0 .. Len(s)
  PROVE  SubSeq(s, 1, n) \in Streams /\ SubSeq(s, n + 1, Len(s)) \in Streams
  <1>1. Len(s) \in Nat /\ \A i \in 1 .. Len(s) : s[i] \in Items
    BY LenProperties, ElementOfSeq DEF Streams
  <1>2. n \in Int /\ n + 1 \in Int /\ Len(s) \in Int /\ 1 \in Int
    BY <1>1
  <1>3. (\A i \in 1 .. n : s[i] \in Items) /\ (\A i \in n + 1 .. Len(s) : s[i] \in Items)
    BY <1>1
  <1>4. SubSeq(s, 1, n) \in Seq(Items)
    BY <1>2, <1>3, SubSeqProperties
  <1>5. SubSeq(s, n + 1, Len(s)) \in Seq(Items)
    BY <1>2, <1>3, SubSeqProperties
  <1>6. QED
    BY <1>4, <1>5 DEF Streams

LEMMA SentIsStream ==
  ASSUME NEW bytes \in Seq(0 .. 255), NEW call \in 0 .. MaxCalls
  PROVE  Sent(bytes, call) \in Streams
  <1>1. Len(bytes) \in Nat /\ DOMAIN bytes = 1 .. Len(bytes)
    BY LenProperties
  <1>2. \A i \in 1 .. Len(bytes) : bytes[i] \in 0 .. 255
    BY ElementOfSeq
  <1>3. \A i \in 1 .. Len(bytes) :
          [byte |-> bytes[i], call |-> call, last |-> (i = Len(bytes))] \in Items
    BY <1>2 DEF Items
  <1>4. Sent(bytes, call) \in [1 .. Len(bytes) -> Items]
    BY <1>1, <1>3 DEF Sent
  <1>5. QED
    BY <1>1, <1>4, SeqDef DEF Streams

LEMMA GreetingsAreBytes == Greetings \subseteq Seq(0 .. 255)
  <1>1. ASSUME NEW m \in Minors PROVE MAGIC \o <<MAJOR, m>> \in Seq(0 .. 255)
    BY Bounds DEF MAGIC, MAJOR
  <1>2. MAGIC \o <<MAJOR + 1, 0>> \in Seq(0 .. 255)
    BY DEF MAGIC, MAJOR
  <1>3. <<72, 84, 84, 80>> \in Seq(0 .. 255) /\ <<84, 69, 72>> \in Seq(0 .. 255)
    OBVIOUS
  <1>4. ASSUME NEW greeting \in Greetings PROVE greeting \in Seq(0 .. 255)
    BY <1>1, <1>2, <1>3 DEF Greetings
  <1>5. QED
    BY <1>4

LEMMA InitTyped == Init => TypeOK
  <1> SUFFICES ASSUME Init PROVE TypeOK
    OBVIOUS
  <1>1. PICK greeting \in Greetings : wire = Sent(greeting, 0)
    BY DEF Init
  <1>2. wire \in Streams /\ took \in Streams
    BY Bounds, <1>1, SentIsStream, GreetingsAreBytes, NoBytes DEF Init
  <1>3. asked \in Seq(1 .. MaxCalls)
    BY EmptySeq DEF Init
  <1>4. replies \in [1 .. MaxCalls -> Streams]
    BY NoBytes DEF Init
  <1>5. owed \in BOOLEAN /\ open \in BOOLEAN /\ cut \in BOOLEAN
    BY Bounds, Zenon DEF Init
  <1>6. calls \in 0 .. MaxCalls /\ interrupts \in 0 .. MaxInterrupts
    BY Bounds DEF Init
  <1>7. pc \in Reading \cup {"idle", "over"} /\ result \in Results
          /\ peer \in {"up", "ended", "reset"} /\ minor \in Nat /\ presented \in Nat
    BY DEF Init, Reading, Results
  <1>8. QED
    BY <1>2, <1>3, <1>4, <1>5, <1>6, <1>7, Zenon DEF TypeOK

\* Reading moves the bytes and how far the call is, and nothing else.
LEMMA ReadsTyped ==
  ASSUME TypeOK, Part \/ NotMagic \/ ReadMagic \/ ReadVersion \/ ReadFirst \/ ReadLength \/ ReadBody
  PROVE  TypeOK'
  <1>1. PICK n : Receives(n)
    BY DEF Part, NotMagic, ReadMagic, ReadVersion, ReadFirst, ReadLength, ReadBody, Whole
  <1>2. took' \in Streams /\ wire' \in Streams
    BY <1>1, Pieces, Joined DEF TypeOK, Receives
  <1>3. UNCHANGED <<peer, node, owed, calls, interrupts>>
    BY <1>1 DEF Receives
  <1>4. minor' \in Nat
    <2>1. CASE ReadVersion
      <3>a. pc = "version" /\ Receives(Wanted - Len(took))
        BY <2>1 DEF ReadVersion, Whole
      <3>b. Wanted = Len(MAGIC) + 2
        BY <3>a, Zenon DEF Wanted
      <3>1. Receives(6 - Len(took))
        BY <3>a, <3>b DEF MAGIC
      <3>2. Len(took') = 6
        <4>1. Len(took) \in Nat /\ Len(wire) \in Nat /\ \A i \in 1 .. Len(wire) : wire[i] \in Items
          BY LenProperties, ElementOfSeq DEF TypeOK, Streams
        <4>2. 6 - Len(took) \in 0 .. Len(wire)
                /\ took' = took \o SubSeq(wire, 1, 6 - Len(took))
          BY <3>1 DEF Receives
        <4>3. SubSeq(wire, 1, 6 - Len(took)) \in Seq(Items)
                /\ Len(SubSeq(wire, 1, 6 - Len(took))) = 6 - Len(took)
          <5> DEFINE k == 6 - Len(took)
          <5>1. k \in Int /\ k >= 0 /\ \A i \in 1 .. k : wire[i] \in Items
            BY <4>1, <4>2
          <5> HIDE DEF k
          <5>2. SubSeq(wire, 1, k) \in Seq(Items)
                  /\ Len(SubSeq(wire, 1, k)) = IF 1 <= k THEN k - 1 + 1 ELSE 0
            BY <5>1, SubSeqProperties
          <5>3. SubSeq(wire, 1, k) \in Seq(Items) /\ Len(SubSeq(wire, 1, k)) = k
            BY <5>1, <5>2
          <5>4. QED
            BY <5>3 DEF k
        <4>4. QED
          BY <4>1, <4>2, <4>3, ConcatProperties DEF TypeOK, Streams
      <3>3. took'[6] \in Items
        <4>1. took' \in Seq(Items) /\ 6 \in 1 .. Len(took')
          BY <1>2, <3>2 DEF Streams
        <4>2. QED
          BY <4>1, ElementOfSeq
      <3>4. took'[6].byte \in Nat
        BY <3>3 DEF Items
      <3>5. minor' = took'[6].byte \/ minor' = minor
        BY <2>1 DEF ReadVersion
      <3>6. QED
        BY <3>4, <3>5 DEF TypeOK
    <2>2. CASE ~ReadVersion
      BY <2>2 DEF TypeOK, Part, NotMagic, ReadMagic, ReadFirst, ReadLength, ReadBody
    <2>3. QED
      BY <2>1, <2>2
  <1>5. pc' \in Reading \cup {"idle", "over"} /\ open' \in BOOLEAN /\ result' \in Results
    <2>1. CASE Part
      BY <2>1 DEF TypeOK, Part
    <2>2. CASE NotMagic
      BY <2>2 DEF NotMagic, Closes, Results
    <2>3. CASE ReadMagic \/ ReadFirst
      BY <2>3 DEF TypeOK, ReadMagic, ReadFirst, Goes, Reading
    <2>4. CASE ReadVersion
      BY <2>4 DEF TypeOK, ReadVersion, Returns, Closes, Results
    <2>5. CASE ReadLength
      BY <2>5 DEF TypeOK, ReadLength, Goes, Closes, Reading, Results
    <2>6. CASE ReadBody
      BY <2>6 DEF TypeOK, ReadBody, Returns, Closes, Results
    <2>7. QED
      BY <2>1, <2>2, <2>3, <2>4, <2>5, <2>6
  <1>6. QED
    BY <1>2, <1>3, <1>4, <1>5 DEF TypeOK, node

\* What the peer sends for a call is bytes, and it answers a call that was made.
LEMMA AnswersTyped == TypeOK /\ Answers => TypeOK'
  <1> SUFFICES ASSUME TypeOK, Answers PROVE TypeOK'
    OBVIOUS
  <1>1. Head(asked) \in 1 .. MaxCalls /\ Tail(asked) \in Seq(1 .. MaxCalls)
    BY HeadTailProperties DEF TypeOK, Answers
  <1> DEFINE Header(kind, length) == <<kind, length \div 256, length % 256>>
             Frame(kind, body, length) == Sent(Header(kind, length) \o body, Head(asked))
  <1>2. PICK kind \in FROM_NODE \cup {VAULT}, body \in Bodies :
          \E length \in {Len(body), CEILING + 1} :
            /\ wire' = wire \o Frame(kind, body, length)
            /\ replies' = [replies EXCEPT ![Head(asked)] = Frame(kind, body, length)]
    BY DEF Answers
  <1>3. PICK length \in {Len(body), CEILING + 1} :
          /\ wire' = wire \o Frame(kind, body, length)
          /\ replies' = [replies EXCEPT ![Head(asked)] = Frame(kind, body, length)]
    BY <1>2
  <1>4. kind \in 0 .. 255
    BY DEF FROM_NODE, ANSWER, REFUSAL, CHANGE, ELSEWHERE, PROGRESS, VAULT
  <1>5. length \in Nat /\ length < 256 * 256
    BY Bounds, BodiesAreBytes
  <1>6. length \div 256 \in 0 .. 255 /\ length % 256 \in 0 .. 255
    BY <1>5
  <1>7. Header(kind, length) \in Seq(0 .. 255)
    BY <1>4, <1>6
  <1>8. Header(kind, length) \o body \in Seq(0 .. 255)
    BY <1>7, BodiesAreBytes, ConcatProperties
  <1>9. Head(asked) \in 0 .. MaxCalls
    BY <1>1, Bounds
  <1> HIDE DEF Header
  <1>10. Frame(kind, body, length) \in Streams
    BY <1>8, <1>9, SentIsStream
  <1> HIDE DEF Frame
  <1>11. wire' \in Streams
    BY <1>3, <1>10, Joined DEF TypeOK
  <1>12. replies' \in [1 .. MaxCalls -> Streams]
    BY <1>1, <1>3, <1>10 DEF TypeOK
  <1>13. QED
    BY <1>1, <1>11, <1>12 DEF TypeOK, Answers

LEMMA NextTyped == TypeOK /\ [Next]_vars => TypeOK'
  <1> SUFFICES ASSUME TypeOK, [Next]_vars PROVE TypeOK'
    OBVIOUS
  <1>1. CASE Answers
    BY <1>1, AnswersTyped
  <1>2. CASE Stops
    <2>1. PICK n \in 0 .. Len(wire) : wire' = SubSeq(wire, 1, n)
      BY <1>2 DEF Stops
    <2>2. wire' \in Streams
      BY <2>1, Pieces DEF TypeOK
    <2>3. cut' \in BOOLEAN
      BY <1>2, Zenon DEF Stops
    <2>4. QED
      BY <1>2, <2>2, <2>3 DEF TypeOK, Stops
  <1>3. CASE Resets
    BY <1>3, NoBytes DEF TypeOK, Resets, node
  <1>4. CASE Part \/ NotMagic \/ ReadMagic \/ ReadVersion \/ ReadFirst \/ ReadLength \/ ReadBody
    BY <1>4, ReadsTyped
  <1>5. CASE ReadEnd \/ ReadFails
    BY <1>5 DEF TypeOK, ReadEnd, ReadFails, node, Closes, Results
  <1>6. CASE Ask \/ Act
    <2>1. Sends /\ owed' = FALSE
      BY <1>6 DEF Ask, Act
    <2>2. calls' \in 0 .. MaxCalls /\ calls' \in 1 .. MaxCalls
      BY <2>1, Bounds DEF TypeOK, Sends
    <2>3. Append(asked, calls') \in Seq(1 .. MaxCalls)
      BY <2>2 DEF TypeOK
    <2>4. asked' \in Seq(1 .. MaxCalls) /\ presented' \in Nat
      <3>1. asked' \in {Append(asked, calls'), asked} /\ presented' \in {presented, presented + 1}
        BY <2>1, Zenon DEF Sends
      <3>2. asked \in Seq(1 .. MaxCalls) /\ presented \in Nat
        BY DEF TypeOK
      <3>3. asked' \in Seq(1 .. MaxCalls)
        BY <2>3, <3>1, <3>2, Zenon
      <3>4. presented' \in Nat
        BY <3>1, <3>2
      <3>5. QED
        BY <3>3, <3>4
    <2>5. QED
      BY <2>1, <2>2, <2>4, NoBytes DEF TypeOK, Sends, Goes, Reading
  <1>7. CASE AskUnsent("too large") \/ AskUnsent("io")
    <2>1. calls' \in 0 .. MaxCalls
      <3>1. calls < MaxCalls /\ calls' = calls + 1
        BY <1>7, Zenon DEF AskUnsent
      <3>2. QED
        BY <3>1, Bounds DEF TypeOK
    <2>2. QED
      BY <1>7, <2>1, NoBytes DEF TypeOK, AskUnsent, node, Results
  <1>8. CASE Interrupted
    <2>1. interrupts' \in 0 .. MaxInterrupts
      BY <1>8, Bounds DEF TypeOK, Interrupted
    <2>2. QED
      BY <1>8, <2>1 DEF TypeOK, Interrupted, Returns, node, Results
  <1>9. CASE UNCHANGED vars
    BY <1>9 DEF TypeOK, vars, node
  <1>10. QED
    BY <1>1, <1>2, <1>3, <1>4, <1>5, <1>6, <1>7, <1>8, <1>9 DEF Next

\* Every variable of a connection has its type, whatever bytes a peer sends.
THEOREM TypeCorrect == Spec => []TypeOK
  BY InitTyped, NextTyped, PTL DEF Spec

-----------------------------------------------------------------------------
\* Credentials that are owed went out in no frame.
Owing == presented <= 1 /\ (owed => presented = 0)

LEMMA OwingStep == TypeOK /\ Owing /\ [Next]_vars => Owing'
  <1> SUFFICES ASSUME TypeOK, Owing, [Next]_vars PROVE Owing'
    OBVIOUS
  <1>1. CASE Ask \/ Act
    BY <1>1 DEF Ask, Act, Sends, TypeOK, Owing
  <1>2. CASE AskUnsent("too large") \/ AskUnsent("io")
    BY <1>2 DEF Owing, AskUnsent, node
  <1>3. CASE UNCHANGED <<presented, owed>>
    BY <1>3 DEF Owing
  <1>4. CASE Part \/ NotMagic \/ ReadMagic \/ ReadVersion \/ ReadFirst \/ ReadLength \/ ReadBody
    <2>1. PICK n : Receives(n)
      BY <1>4 DEF Part, NotMagic, ReadMagic, ReadVersion, ReadFirst, ReadLength, ReadBody, Whole
    <2>2. QED
      BY <2>1, <1>3 DEF Receives, node
  <1>5. QED
    BY <1>1, <1>2, <1>3, <1>4
    DEF Next, vars, node, Answers, Stops, Resets, ReadEnd, ReadFails, Interrupted

\* The credentials of a connection go out in at most one frame, whichever of the
\* scripts and the vault's acts is sent first and however it ends
\* (connection.py:252-263, 283-295).
THEOREM CredentialsOnce == Spec => []PresentedOnce
  <1>1. Init => Owing
    BY DEF Init, Owing
  <1>2. Owing => PresentedOnce
    BY DEF Owing, PresentedOnce
  <1>3. QED
    BY <1>1, <1>2, TypeCorrect, OwingStep, PTL DEF Spec

-----------------------------------------------------------------------------
(* The answer of a call is the frame the node sent for it. *)

\* s is where t begins.
Beginning(s, t) == Len(s) <= Len(t) /\ \A i \in 1 .. Len(s) : s[i] = t[i]

\* The length a frame announces in its header.
Announced(s) == 256 * s[2].byte + s[3].byte

\* All that came or is on its way.
Heard == took \o wire

\* What the peer wrote for a call is as long as it says, or says more than the
\* client takes; nothing is written for a call before it is made.
Written ==
  \A c \in 1 .. MaxCalls :
    /\ replies[c] # <<>> => /\ Len(replies[c]) >= 3
                            /\ \/ Announced(replies[c]) > CEILING
                               \/ Len(replies[c]) = 3 + Announced(replies[c])
    /\ c > calls => replies[c] = <<>>

\* The peer answers calls that were made.
Made == \A i \in 1 .. Len(asked) : asked[i] <= calls

Outcomes == {"answer", "refused", "redirect", "malformed"}

\* How much a call has of what it reads, by where it is.
Place ==
  /\ pc \in Reading => open
  /\ pc \in {"magic", "version"} => asked = <<>> /\ calls = 0 /\ Len(took) + Len(wire) <= 6
  /\ pc = "magic" => Len(took) < 4
  /\ pc = "version" => Len(took) \in 4 .. 5
  /\ pc = "first" => took = <<>>
  /\ pc = "length" => Len(took) \in 1 .. 2
  /\ pc = "body" => Len(took) >= 3 /\ Announced(took) <= CEILING
  /\ ~open => result \notin Outcomes

\* A call that waits hears the beginning of its own reply; while the peer is
\* there, all of it, or nothing and the peer still has the call.
Waits ==
  interrupts = 0 /\ pc \in {"first", "length", "body"} =>
    /\ calls >= 1 /\ Beginning(Heard, replies[calls])
    /\ peer = "up" => /\ Heard = replies[calls]
                      /\ asked = IF replies[calls] = <<>> THEN <<calls>> ELSE <<>>

\* Between two calls nothing is left to read and nothing still to be answered.
Rests == interrupts = 0 /\ pc = "idle" /\ open => wire = <<>> /\ (peer = "up" => asked = <<>>)

IInv == TypeOK /\ Written /\ Made /\ Place /\ Waits /\ Rests /\ Paired

LEMMA Elements ==
  ASSUME NEW s \in Streams
  PROVE  /\ Len(s) \in Nat
         /\ \A i \in 1 .. Len(s) : s[i] \in Items
         /\ \A i \in 1 .. Len(s) : s[i].byte \in 0 .. 255
         /\ s = <<>> <=> Len(s) = 0
  <1>1. Len(s) \in Nat /\ \A i \in 1 .. Len(s) : s[i] \in Items
    BY LenProperties, ElementOfSeq DEF Streams
  <1>2. \A i \in 1 .. Len(s) : s[i].byte \in 0 .. 255
    BY <1>1 DEF Items
  <1>3. s = <<>> <=> Len(s) = 0
    BY EmptySeq DEF Streams
  <1>4. QED
    BY <1>1, <1>2, <1>3, Zenon

LEMMA Cuts ==
  ASSUME NEW s \in Streams, NEW n \in 0 .. Len(s)
  PROVE  /\ Len(SubSeq(s, 1, n)) = n /\ Len(SubSeq(s, n + 1, Len(s))) = Len(s) - n
         /\ \A i \in 1 .. n : SubSeq(s, 1, n)[i] = s[i]
         /\ SubSeq(s, 1, n) \o SubSeq(s, n + 1, Len(s)) = s
  <1>1. Len(s) \in Nat /\ \A i \in 1 .. Len(s) : s[i] \in Items
    BY Elements
  <1>2. n \in Int /\ n + 1 \in Int /\ Len(s) \in Int /\ 1 \in Int /\ n <= Len(s) /\ 0 <= n
    BY <1>1
  <1>3. (\A i \in 1 .. n : s[i] \in Items) /\ (\A i \in n + 1 .. Len(s) : s[i] \in Items)
    BY <1>1
  <1>4. /\ Len(SubSeq(s, 1, n)) = IF 1 <= n THEN n - 1 + 1 ELSE 0
        /\ \A i \in 1 .. n - 1 + 1 : SubSeq(s, 1, n)[i] = s[1 + i - 1]
    BY <1>2, <1>3, SubSeqProperties
  <1>5. Len(SubSeq(s, n + 1, Len(s))) = IF n + 1 <= Len(s) THEN Len(s) - (n + 1) + 1 ELSE 0
    BY <1>2, <1>3, SubSeqProperties
  <1>6. SubSeq(s, 1, n) \o SubSeq(s, n + 1, Len(s)) = s
    <2>1. s \in Seq(Items) /\ 1 \in 1 .. Len(s) + 1 /\ n \in 1 - 1 .. Len(s) /\ Len(s) \in n .. Len(s)
      BY <1>2 DEF Streams
    <2>2. SubSeq(s, 1, n) \o SubSeq(s, n + 1, Len(s)) = SubSeq(s, 1, Len(s))
      BY <2>1, ConcatAdjacentSubSeq
    <2>3. QED
      BY <2>1, <2>2, SubSeqFull
  <1>7. Len(SubSeq(s, 1, n)) = n /\ \A i \in 1 .. n : SubSeq(s, 1, n)[i] = s[i]
    BY <1>2, <1>4
  <1>8. Len(SubSeq(s, n + 1, Len(s))) = Len(s) - n
    BY <1>2, <1>5
  <1>9. QED
    BY <1>6, <1>7, <1>8, Zenon

\* Reading moves bytes from what is on its way to what came and loses none.
LEMMA Moves ==
  ASSUME TypeOK, NEW n, Receives(n)
  PROVE  /\ n \in 0 .. Len(wire) /\ took' \in Streams /\ wire' \in Streams
         /\ Len(took') = Len(took) + n /\ Len(wire') = Len(wire) - n
         /\ \A i \in 1 .. Len(took) : took'[i] = took[i]
         /\ Heard' = Heard
  <1> DEFINE front == SubSeq(wire, 1, n)
             back == SubSeq(wire, n + 1, Len(wire))
  <1>1. n \in 0 .. Len(wire) /\ took' = took \o front /\ wire' = back
    BY DEF Receives
  <1>2. took \in Streams /\ wire \in Streams
    BY DEF TypeOK
  <1>3. front \in Streams /\ back \in Streams
    BY <1>1, <1>2, Pieces
  <1>4. Len(front) = n /\ Len(back) = Len(wire) - n /\ front \o back = wire
    BY <1>1, <1>2, Cuts
  <1> HIDE DEF front, back
  <1>5. /\ took \o front \in Seq(Items) /\ Len(took \o front) = Len(took) + Len(front)
        /\ \A i \in 1 .. Len(took) + Len(front) :
             (took \o front)[i] = IF i <= Len(took) THEN took[i] ELSE front[i - Len(took)]
    BY <1>2, <1>3, ConcatProperties DEF Streams
  <1>6. (took \o front) \o back = took \o (front \o back)
    BY <1>2, <1>3, ConcatAssociative DEF Streams
  <1>7. Heard' = Heard
    BY <1>1, <1>4, <1>6, Zenon DEF Heard
  <1>8. Len(took) \in Nat /\ n \in Nat
    BY <1>1, <1>2, Elements
  <1>9. \A i \in 1 .. Len(took) : took'[i] = took[i]
    BY <1>1, <1>4, <1>5, <1>8
  <1>10. took' \in Streams /\ wire' \in Streams /\ Len(took') = Len(took) + n /\ Len(wire') = Len(wire) - n
    BY <1>1, <1>3, <1>4, <1>5, Zenon DEF Streams
  <1>11. QED
    BY <1>1, <1>7, <1>9, <1>10, Zenon

LEMMA Wants ==
  /\ pc = "magic" => Wanted = 4
  /\ pc = "version" => Wanted = 6
  /\ pc = "first" => Wanted = 1
  /\ pc = "length" => Wanted = 3
  /\ pc = "body" => Wanted = 3 + 256 * took[2].byte + took[3].byte
  <1>1. Len(MAGIC) = 4
    BY DEF MAGIC
  <1>2. pc = "magic" => Wanted = Len(MAGIC)
    BY Zenon DEF Wanted
  <1>3. pc = "version" => Wanted = Len(MAGIC) + 2
    BY Zenon DEF Wanted
  <1>4. pc = "first" => Wanted = 1
    BY Zenon DEF Wanted
  <1>5. pc = "length" => Wanted = 3
    BY Zenon DEF Wanted, HEADER
  <1>6. pc = "body" => Wanted = 3 + 256 * took[2].byte + took[3].byte
    BY Zenon DEF Wanted, HEADER
  <1>7. QED
    BY <1>1, <1>2, <1>3, <1>4, <1>5, <1>6

LEMMA TwoBytes == \A a, b \in 0 .. 255 : 256 * a + b \in Nat
  OBVIOUS

LEMMA Announces ==
  ASSUME NEW s \in Streams, Len(s) >= 3
  PROVE  Announced(s) \in Nat
  <1>1. Len(s) \in Nat
    BY Elements
  <1>2. 2 \in 1 .. Len(s) /\ 3 \in 1 .. Len(s)
    BY <1>1
  <1>3. s[2].byte \in 0 .. 255 /\ s[3].byte \in 0 .. 255
    BY <1>2, Elements
  <1>4. QED
    BY <1>3, TwoBytes, Zenon DEF Announced

LEMMA WantsBody ==
  ASSUME TypeOK, Place, pc = "body"
  PROVE  Wanted = 3 + Announced(took) /\ Announced(took) \in Nat
  <1>1. took \in Streams /\ Len(took) >= 3
    BY DEF TypeOK, Place
  <1>2. Len(took) \in Nat
    BY <1>1, Elements
  <1>3. 2 \in 1 .. Len(took) /\ 3 \in 1 .. Len(took)
    BY <1>1, <1>2
  <1>4. took[2].byte \in 0 .. 255 /\ took[3].byte \in 0 .. 255
    BY <1>1, <1>3, Elements
  <1> DEFINE high == took[2].byte
             low == took[3].byte
  <1>5. high \in 0 .. 255 /\ low \in 0 .. 255
    BY <1>4
  <1>6. Wanted = 3 + 256 * high + low /\ Announced(took) = 256 * high + low
    BY Wants DEF Announced
  <1> HIDE DEF high, low
  <1>7. 3 + 256 * high + low = 3 + (256 * high + low)
    BY <1>5
  <1>8. Wanted = 3 + Announced(took)
    BY <1>6, <1>7, Zenon
  <1>9. QED
    BY <1>1, <1>8, Announces, Zenon

\* A piece that is whole is as long as it was wanted.
LEMMA WholePiece ==
  ASSUME TypeOK, Place, pc \in Reading, Whole
  PROVE  Len(took') = Wanted
  <1>1. Len(took) \in Nat
    BY Elements DEF TypeOK
  <1>2. Wanted \in Int
    <2>1. CASE pc = "body"
      BY <2>1, WantsBody
    <2>2. QED
      BY <2>1, Wants DEF Reading
  <1>3. Receives(Wanted - Len(took))
    BY DEF Whole
  <1>4. Len(took') = Len(took) + (Wanted - Len(took))
    BY <1>3, Moves
  <1>5. QED
    BY <1>1, <1>2, <1>4

LEMMA PlaceStep == TypeOK /\ Place /\ [Next]_vars => Place'
  <1> SUFFICES ASSUME TypeOK, Place, [Next]_vars PROVE Place'
    OBVIOUS
  <1>0. /\ took \in Streams /\ wire \in Streams /\ Len(took) \in Nat /\ Len(wire) \in Nat
        /\ TypeOK'
    BY NextTyped, Elements DEF TypeOK
  <1>a. Len(took') \in Nat /\ Len(wire') \in Nat
    BY <1>0, Elements DEF TypeOK
  <1>b. Len(<<>>) = 0
    OBVIOUS
  <1>1. CASE Answers
    BY <1>1 DEF Answers, Place
  <1>2. CASE Stops
    <2>1. PICK n \in 0 .. Len(wire) : wire' = SubSeq(wire, 1, n)
      BY <1>2 DEF Stops
    <2>2. Len(wire') <= Len(wire)
      BY <1>0, <2>1, Cuts
    <2>3. QED
      BY <1>0, <1>a, <1>2, <2>2 DEF Stops, Place
  <1>3. CASE Resets
    BY <1>0, <1>b, <1>3 DEF Resets, Place, node
  <1>4. CASE Part
    <2>1. PICK n \in 1 .. Wanted - Len(took) - 1 : Receives(n)
      BY <1>4 DEF Part
    <2>2. /\ n \in Nat /\ Len(took') = Len(took) + n /\ Len(wire') = Len(wire) - n
          /\ \A i \in 1 .. Len(took) : took'[i] = took[i]
      BY <1>0, <2>1, Moves
    <2>3. pc \in Reading /\ UNCHANGED <<pc, open, result, asked, calls>>
      BY <1>4, <2>1 DEF Part, Receives, node
    <2>4. CASE pc = "body"
      BY <1>0, <2>2, <2>4, <2>3 DEF Place, Announced, Reading
    <2>5. CASE pc # "body"
      <3>1. pc \in {"magic", "version", "first", "length"}
        BY <2>3, <2>5 DEF Reading
      <3>2. Wanted \in Nat /\ Len(took) + n < Wanted
        BY <1>0, <2>1, <3>1, Wants
      <3>3. pc # "first"
        BY <1>0, <1>b, <2>2, <2>1, <3>2, Wants DEF Place
      <3>4. /\ pc = "magic" => Len(took') < 4
            /\ pc = "version" => Len(took') \in 4 .. 5
            /\ pc = "length" => Len(took') \in 1 .. 2
            /\ Len(took') + Len(wire') = Len(took) + Len(wire)
        <4> DEFINE before == Len(took)
                   after == Len(took')
        <4>1. before \in Nat /\ after \in Nat /\ before <= after /\ after < Wanted
          BY <1>0, <1>a, <2>2, <3>2
        <4>2. /\ pc = "magic" => Wanted = 4
              /\ pc = "version" => Wanted = 6 /\ before \in 4 .. 5
              /\ pc = "length" => Wanted = 3 /\ before \in 1 .. 2
          BY Wants, Zenon DEF Place
        <4>3. Len(took') + Len(wire') = Len(took) + Len(wire)
          BY <1>0, <2>2
        <4> HIDE DEF before, after
        <4>4. /\ pc = "magic" => after < 4
              /\ pc = "version" => after \in 4 .. 5
              /\ pc = "length" => after \in 1 .. 2
          BY <4>1, <4>2
        <4>5. QED
          BY <4>3, <4>4, Zenon DEF after
      <3>5. QED
        BY <2>3, <3>1, <3>3, <3>4 DEF Place, Reading
    <2>6. QED
      BY <2>4, <2>5
  <1>5. CASE NotMagic
    BY <1>5 DEF NotMagic, Closes, Place, Reading, Outcomes
  <1>6. CASE ReadMagic
    <2>1. pc = "magic" /\ Len(took') = 4 /\ pc' = "version" /\ UNCHANGED <<open, result>>
      BY <1>6, WholePiece, Wants DEF ReadMagic, Goes, Reading
    <2>2. PICK n : Receives(n)
      BY <1>6 DEF ReadMagic, Whole
    <2>3. n \in 0 .. Len(wire) /\ Len(took') = Len(took) + n /\ Len(wire') = Len(wire) - n
            /\ UNCHANGED <<asked, calls>>
      BY <2>2, Moves DEF Receives, node
    <2>4. Len(took') + Len(wire') = Len(took) + Len(wire)
      BY <1>0, <2>3
    <2>5. QED
      BY <2>1, <2>3, <2>4 DEF Place, Reading
  <1>7. CASE ReadVersion
    BY <1>7 DEF ReadVersion, Returns, Closes, Place, Reading, Outcomes
  <1>8. CASE ReadFirst
    BY <1>8, WholePiece, Wants DEF ReadFirst, Goes, Reading, Place
  <1>9. CASE ReadLength
    <2>1. Len(took') = 3 /\ pc = "length" /\ open
      BY <1>9, WholePiece, Wants DEF ReadLength, Reading, Place
    <2>2. CASE pc' = "body"
      BY <1>9, <2>2, <2>1 DEF ReadLength, Announced, Goes, Closes, Place, Reading
    <2>3. CASE pc' # "body"
      BY <1>9, <2>1, <2>3 DEF ReadLength, Goes, Closes, Outcomes, Place, Reading
    <2>4. QED
      BY <2>2, <2>3
  <1>10. CASE ReadBody
    <2>1. pc = "body" /\ open
      BY <1>10 DEF ReadBody, Place, Reading
    <2>a. pc' = "idle" /\ (open' \/ result' \notin Outcomes)
      BY <1>10, <2>1 DEF ReadBody, Returns, Closes, Outcomes
    <2>2. QED
      BY <2>a DEF Place, Reading
  <1>11. CASE ReadEnd \/ ReadFails
    BY <1>11 DEF ReadEnd, ReadFails, Closes, Outcomes, Place, Reading
  <1>12. CASE Ask \/ Act
    BY <1>12 DEF Ask, Act, Sends, Goes, Place, Reading
  <1>13. CASE AskUnsent("too large") \/ AskUnsent("io")
    BY <1>13 DEF AskUnsent, Place, Reading, Outcomes
  <1>14. CASE Interrupted
    BY <1>14 DEF Interrupted, Returns, Place, Reading, Outcomes
  <1>15. CASE UNCHANGED vars
    BY <1>15 DEF vars, node, Place
  <1>16. QED
    BY <1>1, <1>2, <1>3, <1>4, <1>5, <1>6, <1>7, <1>8, <1>9, <1>10, <1>11, <1>12, <1>13,
       <1>14, <1>15 DEF Next

LEMMA MadeStep == TypeOK /\ Made /\ [Next]_vars => Made'
  <1> SUFFICES ASSUME TypeOK, Made, [Next]_vars PROVE Made'
    OBVIOUS
  <1>0. /\ asked \in Seq(1 .. MaxCalls) /\ Len(asked) \in Nat /\ calls \in Nat
        /\ \A i \in 1 .. Len(asked) : asked[i] \in 1 .. MaxCalls
    BY Bounds, LenProperties, ElementOfSeq DEF TypeOK
  <1>1. CASE Answers
    BY <1>1, <1>0, HeadTailProperties DEF Answers, Made
  <1>2. CASE Ask \/ Act
    <2>1. calls' = calls + 1 /\ calls' \in 1 .. MaxCalls
      BY <1>0, <1>2, Bounds DEF Ask, Act, Sends, TypeOK
    <2>2. asked' \in {Append(asked, calls'), asked}
      BY <1>2, Zenon DEF Ask, Act, Sends
    <2>3. CASE asked' = asked
      BY <1>0, <2>1, <2>3 DEF Made
    <2>4. CASE asked' = Append(asked, calls')
      BY <1>0, <2>1, AppendProperties, <2>4 DEF Made
    <2>5. QED
      BY <2>2, <2>3, <2>4
  <1>3. CASE AskUnsent("too large") \/ AskUnsent("io")
    <2>1. calls' = calls + 1 /\ asked' = asked
      BY <1>3 DEF AskUnsent, node
    <2>2. QED
      BY <1>0, <2>1 DEF Made
  <1>4. CASE UNCHANGED <<asked, calls>>
    BY <1>4 DEF Made
  <1>5. CASE Part \/ NotMagic \/ ReadMagic \/ ReadVersion \/ ReadFirst \/ ReadLength \/ ReadBody
    <2>1. PICK n : Receives(n)
      BY <1>5 DEF Part, NotMagic, ReadMagic, ReadVersion, ReadFirst, ReadLength, ReadBody, Whole
    <2>2. QED
      BY <2>1, <1>4 DEF Receives, node
  <1>6. QED
    BY <1>1, <1>2, <1>3, <1>4, <1>5
    DEF Next, vars, node, Stops, Resets, ReadEnd, ReadFails, Interrupted

LEMMA Divided == \A k \in Nat : 256 * (k \div 256) + (k % 256) = k
  OBVIOUS

\* What the peer writes says how long it is, or says more than the client takes.
LEMMA AnswersWell ==
  ASSUME TypeOK, Made, Answers
  PROVE  /\ asked # <<>> /\ Head(asked) \in 1 .. MaxCalls /\ Head(asked) <= calls
         /\ \E frame \in Streams :
              /\ Len(frame) >= 3
              /\ Announced(frame) > CEILING \/ Len(frame) = 3 + Announced(frame)
              /\ wire' = wire \o frame
              /\ replies' = [replies EXCEPT ![Head(asked)] = frame]
              /\ \A i \in 1 .. Len(frame) : frame[i].last <=> i = Len(frame)
  <1>1. asked # <<>> /\ asked \in Seq(1 .. MaxCalls)
    BY DEF TypeOK, Answers
  <1>2. Head(asked) \in 1 .. MaxCalls
    BY <1>1, HeadTailProperties
  <1>3. Head(asked) <= calls
    BY <1>1, EmptySeq DEF Made
  <1> DEFINE Header(kind, length) == <<kind, length \div 256, length % 256>>
             Frame(kind, body, length) == Sent(Header(kind, length) \o body, Head(asked))
  <1>4. PICK kind \in FROM_NODE \cup {VAULT}, body \in Bodies :
          \E length \in {Len(body), CEILING + 1} :
            /\ wire' = wire \o Frame(kind, body, length)
            /\ replies' = [replies EXCEPT ![Head(asked)] = Frame(kind, body, length)]
    BY DEF Answers
  <1>5. PICK length \in {Len(body), CEILING + 1} :
          /\ wire' = wire \o Frame(kind, body, length)
          /\ replies' = [replies EXCEPT ![Head(asked)] = Frame(kind, body, length)]
    BY <1>4
  <1>6. kind \in 0 .. 255
    BY DEF FROM_NODE, ANSWER, REFUSAL, CHANGE, ELSEWHERE, PROGRESS, VAULT
  <1>7. length \in Nat /\ length < 256 * 256
    BY Bounds, BodiesAreBytes
  <1>8. length \div 256 \in 0 .. 255 /\ length % 256 \in 0 .. 255
    BY <1>7
  <1> DEFINE header == Header(kind, length)
             bytes == header \o body
             frame == Frame(kind, body, length)
  <1>9. /\ header \in Seq(0 .. 255) /\ Len(header) = 3
        /\ header[2] = length \div 256 /\ header[3] = length % 256
    BY <1>6, <1>8
  <1> HIDE DEF header
  <1>10. /\ bytes \in Seq(0 .. 255) /\ Len(bytes) = 3 + Len(body)
         /\ bytes[2] = length \div 256 /\ bytes[3] = length % 256
    <2>1. body \in Seq(0 .. 255) /\ Len(body) \in Nat
      BY BodiesAreBytes
    <2>a. header \in Seq(0 .. 255)
      BY <1>9
    <2>2. /\ bytes \in Seq(0 .. 255) /\ Len(bytes) = Len(header) + Len(body)
          /\ \A i \in 1 .. Len(header) + Len(body) :
               bytes[i] = IF i <= Len(header) THEN header[i] ELSE body[i - Len(header)]
      BY <2>a, <2>1, ConcatProperties
    <2>3. QED
      BY <1>9, <2>1, <2>2
  <1>11. Len(bytes) \in Nat /\ DOMAIN bytes = 1 .. Len(bytes)
    BY <1>10, LenProperties
  <1>12. frame = Sent(bytes, Head(asked))
    BY DEF header
  <1> HIDE DEF bytes, frame
  <1>13. frame \in Streams
    BY <1>2, Bounds, <1>10, <1>12, SentIsStream
  <1>14. Len(frame) = Len(bytes)
    BY <1>12, <1>13, LenProperties, <1>11 DEF Sent, Streams
  <1>15. frame[2].byte = bytes[2] /\ frame[3].byte = bytes[3]
    BY BodiesAreBytes, <1>10, <1>11, <1>12 DEF Sent
  <1>16. Announced(frame) = length
    BY <1>10, <1>15, <1>7, Divided DEF Announced
  <1>17. Len(frame) >= 3 /\ (Announced(frame) > CEILING \/ Len(frame) = 3 + Announced(frame))
    <2>1. Len(body) \in Nat /\ CEILING \in Nat
      BY BodiesAreBytes, Bounds
    <2>2. Len(frame) = 3 + Len(body)
      BY <1>10, <1>14
    <2>3. CASE length = Len(body)
      BY <1>16, <2>1, <2>2, <2>3
    <2>4. CASE length = CEILING + 1
      BY <1>16, <2>1, <2>4, <2>2
    <2>5. QED
      BY <2>3, <2>4
  <1>18. wire' = wire \o frame /\ replies' = [replies EXCEPT ![Head(asked)] = frame]
    BY <1>5, SMTT(30) DEF frame
  <1>19. \A i \in 1 .. Len(frame) : frame[i].last <=> i = Len(frame)
    BY <1>12, <1>11, <1>14 DEF Sent
  <1>20. QED
    BY <1>1, <1>2, <1>3, <1>13, <1>17, <1>18, <1>19, Zenon

LEMMA WrittenStep == TypeOK /\ Made /\ Written /\ [Next]_vars => Written'
  <1> SUFFICES ASSUME TypeOK, Made, Written, [Next]_vars PROVE Written'
    OBVIOUS
  <1>0. replies \in [1 .. MaxCalls -> Streams] /\ calls \in Nat
    BY Bounds DEF TypeOK
  <1>1. CASE Answers
    <2>1. PICK frame \in Streams :
            /\ Len(frame) >= 3
            /\ Announced(frame) > CEILING \/ Len(frame) = 3 + Announced(frame)
            /\ replies' = [replies EXCEPT ![Head(asked)] = frame]
      BY <1>1, AnswersWell
    <2>2. Head(asked) \in 1 .. MaxCalls /\ Head(asked) <= calls /\ calls' = calls
      BY <1>1, AnswersWell DEF Answers
    <2>3. SUFFICES ASSUME NEW c \in 1 .. MaxCalls
                   PROVE  /\ replies'[c] # <<>> => /\ Len(replies'[c]) >= 3
                                                   /\ \/ Announced(replies'[c]) > CEILING
                                                      \/ Len(replies'[c]) = 3 + Announced(replies'[c])
                          /\ c > calls => replies'[c] = <<>>
      BY <2>2 DEF Written, Announced
    <2>4. CASE c = Head(asked)
      BY <1>0, <2>1, <2>2, <2>4
    <2>5. CASE c # Head(asked)
      BY <1>0, <2>1, <2>2, <2>5 DEF Written
    <2>6. QED
      BY <2>4, <2>5
  <1>2. CASE UNCHANGED <<replies, calls>>
    BY <1>2, Zenon DEF Written, Announced
  <1>3. CASE replies' = replies /\ calls' = calls + 1
    <2>1. SUFFICES ASSUME NEW c \in 1 .. MaxCalls
                   PROVE  /\ replies[c] # <<>> => /\ Len(replies[c]) >= 3
                                                  /\ \/ Announced(replies[c]) > CEILING
                                                     \/ Len(replies[c]) = 3 + Announced(replies[c])
                          /\ c > calls' => replies[c] = <<>>
      BY <1>3, Zenon DEF Written, Announced
    <2>2. c > calls' => c > calls
      BY <1>0, <1>3
    <2>3. QED
      BY <2>2, Zenon DEF Written
  <1>4. CASE Part \/ NotMagic \/ ReadMagic \/ ReadVersion \/ ReadFirst \/ ReadLength \/ ReadBody
    <2>1. PICK n : Receives(n)
      BY <1>4 DEF Part, NotMagic, ReadMagic, ReadVersion, ReadFirst, ReadLength, ReadBody, Whole
    <2>2. QED
      BY <2>1, <1>2 DEF Receives, node
  <1>5. CASE Ask \/ Act
    BY <1>3, <1>5 DEF Ask, Act, Sends
  <1>6. CASE AskUnsent("too large") \/ AskUnsent("io")
    BY <1>3, <1>6 DEF AskUnsent, node
  <1>7. QED
    BY <1>1, <1>2, <1>4, <1>5, <1>6
    DEF Next, vars, node, Stops, Resets, ReadEnd, ReadFails, Interrupted

\* What is heard stays a beginning when the end of what is on its way is lost.
LEMMA Shorter ==
  ASSUME NEW s \in Streams, NEW t \in Streams, NEW n \in 0 .. Len(t), NEW r \in Streams,
         Beginning(s \o t, r)
  PROVE  Beginning(s \o SubSeq(t, 1, n), r)
  <1> DEFINE u == SubSeq(t, 1, n)
  <1>1. Len(s) \in Nat /\ Len(t) \in Nat /\ Len(r) \in Nat /\ n \in Nat /\ n <= Len(t)
    BY Elements
  <1>2. u \in Streams /\ Len(u) = n /\ \A i \in 1 .. n : u[i] = t[i]
    BY Pieces, Cuts
  <1> HIDE DEF u
  <1>3. /\ Len(s \o t) = Len(s) + Len(t)
        /\ \A i \in 1 .. Len(s) + Len(t) : (s \o t)[i] = IF i <= Len(s) THEN s[i] ELSE t[i - Len(s)]
    BY ConcatProperties DEF Streams
  <1>4. /\ Len(s \o u) = Len(s) + Len(u)
        /\ \A i \in 1 .. Len(s) + Len(u) : (s \o u)[i] = IF i <= Len(s) THEN s[i] ELSE u[i - Len(s)]
    BY <1>2, ConcatProperties DEF Streams
  <1>5. ASSUME NEW i \in 1 .. Len(s) + n PROVE (s \o u)[i] = r[i]
    <2>1. i \in 1 .. Len(s) + Len(t)
      BY <1>1
    <2>2. (s \o t)[i] = r[i]
      BY <1>3, <2>1 DEF Beginning
    <2>3. (s \o u)[i] = (s \o t)[i]
      <3>1. CASE i <= Len(s)
        BY <1>2, <1>3, <1>4, <2>1, <3>1
      <3>2. CASE ~(i <= Len(s))
        BY <1>1, <3>2, <1>2, <1>3, <1>4, <2>1
      <3>3. QED
        BY <3>1, <3>2
    <2>4. QED
      BY <2>2, <2>3
  <1>6. Len(s \o u) = Len(s) + n /\ Len(s \o u) <= Len(r)
    BY <1>1, <1>2, <1>3, <1>4 DEF Beginning
  <1>7. Beginning(s \o u, r)
    BY <1>5, <1>6 DEF Beginning
  <1>8. QED
    BY <1>7 DEF u

LEMMA WaitsStep == IInv /\ [Next]_vars => Waits'
  <1> SUFFICES ASSUME IInv, [Next]_vars, interrupts' = 0, pc' \in {"first", "length", "body"}
               PROVE  /\ calls' >= 1 /\ Beginning(Heard', replies'[calls'])
                      /\ peer' = "up" =>
                           /\ Heard' = replies'[calls']
                           /\ asked' = IF replies'[calls'] = <<>> THEN <<calls'>> ELSE <<>>
    BY Zenon DEF Waits, Beginning
  <1>0. /\ TypeOK /\ took \in Streams /\ wire \in Streams /\ calls \in Nat
        /\ replies \in [1 .. MaxCalls -> Streams] /\ calls <= MaxCalls
    BY Bounds DEF IInv, TypeOK
  <1>a. ASSUME pc \in {"first", "length", "body"}, interrupts = 0
        PROVE  /\ calls >= 1 /\ Beginning(Heard, replies[calls])
               /\ peer = "up" => /\ Heard = replies[calls]
                                 /\ asked = IF replies[calls] = <<>> THEN <<calls>> ELSE <<>>
    BY <1>a DEF IInv, Waits
  <1>1. CASE Answers
    <2>1. /\ pc \in {"first", "length", "body"} /\ interrupts = 0 /\ peer = "up" /\ asked # <<>>
          /\ UNCHANGED <<took, calls>> /\ asked' = Tail(asked)
      BY <1>1 DEF Answers
    <2>2. /\ calls >= 1 /\ Heard = replies[calls] /\ replies[calls] = <<>> /\ asked = <<calls>>
      BY <1>a, <2>1
    <2>3. took = <<>> /\ wire = <<>>
      BY <2>2, <1>0, ConcatEqualIffEmpty DEF Heard, Streams
    <2>4. Head(asked) = calls /\ Tail(asked) = <<>>
      BY <2>2
    <2>5. PICK frame \in Streams :
            /\ Len(frame) >= 3
            /\ wire' = wire \o frame
            /\ replies' = [replies EXCEPT ![Head(asked)] = frame]
      BY <1>0, <1>1, AnswersWell DEF IInv
    <2>6. replies'[calls'] = frame
      BY <1>0, <2>1, <2>2, <2>4, <2>5
    <2>7. Heard' = frame
      BY <2>3, <2>5, ConcatEmptySeq, <2>1 DEF Streams, Heard
    <2>8. frame # <<>> /\ Beginning(frame, frame)
      BY Elements, <2>5 DEF Beginning
    <2>9. QED
      BY <2>1, <2>2, <2>4, <2>6, <2>7, <2>8
  <1>2. CASE Stops
    <2>1. PICK n \in 0 .. Len(wire) : wire' = SubSeq(wire, 1, n)
      BY <1>2 DEF Stops
    <2>2. UNCHANGED <<took, calls, replies, pc, interrupts>> /\ peer' = "ended"
      BY <1>2 DEF Stops
    <2>3. calls >= 1 /\ Beginning(Heard, replies[calls])
      BY <1>a, <2>2
    <2>4. replies[calls] \in Streams
      BY <1>0, <2>3
    <2>5. Beginning(took \o SubSeq(wire, 1, n), replies[calls])
      BY <1>0, <2>1, <2>3, <2>4, Shorter DEF Heard
    <2>6. Heard' = took \o SubSeq(wire, 1, n)
      BY <2>1, <2>2 DEF Heard
    <2>7. QED
      BY <2>2, <2>3, <2>5, <2>6
  <1>3. CASE Resets
    <2>1. wire' = <<>> /\ peer' = "reset" /\ UNCHANGED <<took, calls, replies, pc, interrupts>>
      BY <1>3 DEF Resets, node
    <2>2. calls >= 1 /\ Beginning(Heard, replies[calls])
      BY <1>a, <2>1
    <2>3. replies[calls] \in Streams
      BY <1>0, <2>2
    <2>4. 0 \in 0 .. Len(wire) /\ SubSeq(wire, 1, 0) = <<>>
      BY <1>0, Elements, SubSeqEmpty
    <2>5. Beginning(took \o <<>>, replies[calls])
      BY <1>0, <2>2, <2>3, <2>4, Shorter DEF Heard
    <2>6. Heard' = took \o <<>>
      BY <2>1 DEF Heard
    <2>7. QED
      BY <2>1, <2>2, <2>5, <2>6
  <1>4. CASE Part \/ NotMagic \/ ReadMagic \/ ReadVersion \/ ReadFirst \/ ReadLength \/ ReadBody
    <2>1. PICK n : Receives(n)
      BY <1>4 DEF Part, NotMagic, ReadMagic, ReadVersion, ReadFirst, ReadLength, ReadBody, Whole
    <2>2. Heard' = Heard
      BY <1>0, <2>1, Moves
    <2>3. UNCHANGED <<peer, asked, replies, calls, interrupts>>
      BY <2>1 DEF Receives, node
    <2>4. pc \in {"first", "length", "body"}
      BY <1>4 DEF Part, NotMagic, ReadMagic, ReadVersion, ReadFirst, ReadLength, ReadBody,
                  Goes, Returns, Closes
    <2>5. QED
      BY <1>a, <2>2, <2>3, <2>4
  <1>5. CASE Ask \/ Act
    <2>1. Sends
      BY <1>5 DEF Ask, Act
    <2>2. /\ pc = "idle" /\ open /\ calls' = calls + 1 /\ took' = <<>>
          /\ UNCHANGED <<wire, peer, replies, interrupts>>
          /\ asked' = IF peer = "up" THEN Append(asked, calls') ELSE asked
      BY <2>1 DEF Sends
    <2>3. wire = <<>> /\ (peer = "up" => asked = <<>>)
      BY <2>2 DEF IInv, Rests
    <2>4. calls' \in 1 .. MaxCalls /\ calls' > calls
      BY <1>0, <2>1, Bounds DEF Sends
    <2>5. replies'[calls'] = <<>>
      BY <2>2, <2>4 DEF IInv, Written
    <2>6. Heard' = <<>>
      BY <2>2, <2>3, NoBytes, ConcatEmptySeq DEF Heard, Streams
    <2>7. Beginning(<<>>, <<>>)
      BY DEF Beginning
    <2>8. peer' = "up" => asked' = <<calls'>>
      BY <2>2, <2>3
    <2>9. QED
      BY <1>0, <2>4, <2>5, <2>6, <2>7, <2>8
  <1>6. CASE ReadEnd \/ ReadFails
    BY <1>6 DEF ReadEnd, ReadFails, Closes
  <1>7. CASE AskUnsent("too large") \/ AskUnsent("io")
    BY <1>7 DEF AskUnsent
  <1>8. CASE Interrupted
    BY <1>8 DEF Interrupted, Returns
  <1>9. CASE UNCHANGED vars
    BY <1>9, <1>a DEF vars, node, Heard
  <1>10. QED
    BY <1>1, <1>2, <1>3, <1>4, <1>5, <1>6, <1>7, <1>8, <1>9 DEF Next

\* A body that is whole ends the reply, byte for byte.
LEMMA BodyEnds ==
  ASSUME IInv, ReadBody, interrupts = 0
  PROVE  /\ took' = replies[calls] /\ wire' = <<>>
         /\ peer = "up" => asked = <<>>
         /\ UNCHANGED <<replies, calls, peer, asked>>
  <1>1. /\ TypeOK /\ Place /\ took \in Streams /\ wire \in Streams /\ calls \in Nat
        /\ replies \in [1 .. MaxCalls -> Streams] /\ calls <= MaxCalls
    BY Bounds DEF IInv, TypeOK
  <1>2. pc = "body" /\ Whole
    BY DEF ReadBody
  <1>3. PICK n : Receives(n)
    BY <1>2 DEF Whole
  <1>4. /\ took' \in Streams /\ wire' \in Streams /\ Heard' = Heard
        /\ \A i \in 1 .. Len(took) : took'[i] = took[i]
    BY <1>1, <1>3, Moves
  <1>5. UNCHANGED <<replies, calls, peer, asked>>
    BY <1>3 DEF Receives, node
  <1>6. Len(took') = 3 + Announced(took) /\ Announced(took) \in Nat /\ Announced(took) <= CEILING
    BY <1>2, <1>1, WholePiece, WantsBody DEF Reading, IInv, Place
  <1> DEFINE reply == replies[calls]
  <1>7. /\ calls >= 1 /\ Beginning(Heard, reply)
        /\ peer = "up" => asked = IF reply = <<>> THEN <<calls>> ELSE <<>>
    BY <1>2 DEF IInv, Waits
  <1>8. reply \in Streams /\ calls \in 1 .. MaxCalls
    BY <1>1, <1>7
  <1> HIDE DEF reply
  <1>9. /\ Len(took) \in Nat /\ Len(took) >= 3 /\ Len(took') \in Nat /\ Len(wire') \in Nat
        /\ Len(reply) \in Nat
    BY <1>1, <1>2, <1>4, <1>8, Elements DEF Place
  <1>10. /\ Len(Heard) = Len(took') + Len(wire')
         /\ \A i \in 1 .. Len(took') : Heard[i] = took'[i]
    BY <1>4, ConcatProperties, <1>9 DEF Heard, Streams
  <1>11. Len(took') + Len(wire') <= Len(reply) /\ \A i \in 1 .. Len(took') : took'[i] = reply[i]
    BY <1>7, <1>9, <1>10 DEF Beginning
  <1>12. reply[2] = took[2] /\ reply[3] = took[3]
    <2>1. 2 \in 1 .. Len(took') /\ 3 \in 1 .. Len(took') /\ 2 \in 1 .. Len(took) /\ 3 \in 1 .. Len(took)
      BY <1>6, <1>9
    <2>2. QED
      BY <1>4, <1>11, <2>1
  <1>13. Announced(reply) = Announced(took)
    BY <1>12 DEF Announced
  <1>14. reply # <<>>
    BY <1>6, <1>9, <1>11, <1>8, Elements
  <1>15. Announced(reply) > CEILING \/ Len(reply) = 3 + Announced(reply)
    BY <1>8, <1>14 DEF IInv, Written, reply
  <1>16. Len(reply) = Len(took')
    BY <1>6, <1>13, <1>15, Bounds
  <1>17. Len(wire') = 0
    BY <1>9, <1>11, <1>16
  <1>18. wire' = <<>>
    BY <1>4, <1>17, Elements
  <1>19. took' = reply
    BY <1>4, <1>8, <1>11, <1>16, SeqEqual DEF Streams
  <1>20. QED
    BY <1>5, <1>7, <1>14, <1>18, <1>19 DEF reply

LEMMA RestsStep == IInv /\ [Next]_vars => Rests'
  <1> SUFFICES ASSUME IInv, [Next]_vars, interrupts' = 0, pc' = "idle", open'
               PROVE  wire' = <<>> /\ (peer' = "up" => asked' = <<>>)
    BY DEF Rests
  <1>0. TypeOK /\ Place /\ took \in Streams /\ wire \in Streams
    BY DEF IInv, TypeOK
  <1>a. pc = "idle" /\ open /\ interrupts = 0 => wire = <<>> /\ (peer = "up" => asked = <<>>)
    BY DEF IInv, Rests
  <1>1. CASE Answers
    BY <1>1, <1>a DEF Answers
  <1>2. CASE Stops
    <2>1. PICK n \in 0 .. Len(wire) : wire' = SubSeq(wire, 1, n)
      BY <1>2 DEF Stops
    <2>2. wire = <<>> /\ peer' = "ended"
      BY <1>2, <1>a DEF Stops
    <2>3. n = 0
      BY <2>1, <2>2
    <2>4. QED
      BY <2>1, <2>2, <2>3, SubSeqEmpty
  <1>3. CASE Resets
    BY <1>3 DEF Resets
  <1>4. CASE ReadVersion
    <2>1. pc = "version" /\ Len(took') = 6
      BY <1>0, <1>4, WholePiece, Wants DEF ReadVersion, Reading
    <2>2. PICK n : Receives(n)
      BY <1>4 DEF ReadVersion, Whole
    <2>3. /\ n \in 0 .. Len(wire) /\ Len(took') = Len(took) + n /\ Len(wire') = Len(wire) - n
          /\ wire' \in Streams /\ UNCHANGED asked
      BY <1>0, <2>2, Moves DEF Receives, node
    <2>4. asked = <<>> /\ Len(took) + Len(wire) <= 6
      BY <1>0, <2>1 DEF Place
    <2>5. Len(took) \in Nat /\ Len(wire) \in Nat /\ Len(wire') \in Nat
      BY <1>0, <2>3, Elements
    <2>6. Len(wire') = 0
      <3>1. Len(took') + Len(wire') = Len(took) + Len(wire)
        BY <2>3, <2>5
      <3>2. 6 + Len(wire') <= 6
        BY <2>1, <2>4, <3>1, Zenon
      <3>3. QED
        BY <2>5, <3>2
    <2>7. QED
      BY <2>3, <2>4, <2>6, Elements
  <1>5. CASE ReadBody
    <2>1. interrupts = 0
      <3>1. PICK n : Receives(n)
        BY <1>5 DEF ReadBody, Whole
      <3>2. QED
        BY <3>1 DEF Receives
    <2>2. QED
      BY <1>5, <2>1, BodyEnds
  <1>6. CASE Part \/ NotMagic \/ ReadMagic \/ ReadFirst \/ ReadLength
    BY <1>6 DEF Part, NotMagic, ReadMagic, ReadFirst, ReadLength, Goes, Closes, Reading
  <1>7. CASE ReadEnd \/ ReadFails
    BY <1>7 DEF ReadEnd, ReadFails, Closes
  <1>8. CASE Ask \/ Act
    BY <1>8 DEF Ask, Act, Sends, Goes
  <1>9. CASE AskUnsent("too large") \/ AskUnsent("io")
    BY <1>9, <1>a DEF AskUnsent, node
  <1>10. CASE Interrupted
    BY <1>0, <1>10, Bounds DEF Interrupted, TypeOK
  <1>11. CASE UNCHANGED vars
    BY <1>11, <1>a DEF vars, node
  <1>12. QED
    BY <1>1, <1>2, <1>3, <1>4, <1>5, <1>6, <1>7, <1>8, <1>9, <1>10, <1>11 DEF Next

LEMMA PairedStep == IInv /\ [Next]_vars => Paired'
  <1> SUFFICES ASSUME IInv, [Next]_vars, interrupts' = 0, pc' = "idle", result' \in Outcomes
               PROVE  took' = replies'[calls']
    BY DEF Paired, Outcomes
  <1>0. TypeOK /\ Place
    BY DEF IInv
  <1>a. interrupts = 0 /\ pc = "idle" /\ result \in Outcomes => took = replies[calls]
    BY DEF IInv, Paired, Outcomes
  <1>1. CASE Answers
    BY <1>1, <1>0 DEF Answers, Place, IInv, Rests
  <1>2. CASE Stops \/ Resets \/ UNCHANGED vars
    BY <1>2, <1>a DEF Stops, Resets, vars, node
  <1>3. CASE ReadBody
    <2>1. interrupts = 0
      <3>1. PICK n : Receives(n)
        BY <1>3 DEF ReadBody, Whole
      <3>2. QED
        BY <3>1 DEF Receives
    <2>2. QED
      BY <1>3, <2>1, BodyEnds
  <1>4. CASE Part \/ NotMagic \/ ReadMagic \/ ReadVersion \/ ReadFirst \/ ReadLength
    BY <1>4 DEF Part, NotMagic, ReadMagic, ReadVersion, ReadFirst, ReadLength, Goes, Returns,
                Closes, Reading, Outcomes
  <1>5. CASE ReadEnd \/ ReadFails
    BY <1>5 DEF ReadEnd, ReadFails, Closes, Outcomes
  <1>6. CASE Ask \/ Act
    BY <1>6 DEF Ask, Act, Sends, Goes
  <1>7. CASE AskUnsent("too large") \/ AskUnsent("io")
    BY <1>7 DEF AskUnsent, Outcomes
  <1>8. CASE Interrupted
    BY <1>8 DEF Interrupted, Returns, Outcomes
  <1>9. QED
    BY <1>1, <1>2, <1>3, <1>4, <1>5, <1>6, <1>7, <1>8 DEF Next

LEMMA InitPaired == Init => IInv
  <1> SUFFICES ASSUME Init PROVE IInv
    OBVIOUS
  <1>1. TypeOK /\ took \in Streams /\ wire \in Streams
    BY InitTyped DEF TypeOK
  <1>2. Written /\ Made
    BY DEF Init, Written, Made
  <1>3. Place
    <2>1. Len(took) = 0 /\ pc = "magic" /\ open /\ asked = <<>> /\ calls = 0
      BY DEF Init
    <2>2. Len(wire) <= 6
      <3>1. PICK greeting \in Greetings : wire = Sent(greeting, 0)
        BY DEF Init
      <3>2. Len(greeting) <= 6 /\ Len(greeting) \in Nat
        <4>1. \A m \in Minors : Len(MAGIC \o <<MAJOR, m>>) = 6
          BY DEF MAGIC, MAJOR
        <4>2. Len(MAGIC \o <<MAJOR + 1, 0>>) = 6
          BY DEF MAGIC, MAJOR
        <4>3. Len(<<72, 84, 84, 80>>) = 4 /\ Len(<<84, 69, 72>>) = 3
          OBVIOUS
        <4>4. \/ \E m \in Minors : greeting = MAGIC \o <<MAJOR, m>>
              \/ greeting \in {MAGIC \o <<MAJOR + 1, 0>>, <<72, 84, 84, 80>>, <<84, 69, 72>>}
          BY DEF Greetings
        <4>5. Len(greeting) \in {3, 4, 6}
          BY <4>1, <4>2, <4>3, <4>4, Zenon
        <4>6. \A k \in {3, 4, 6} : k <= 6 /\ k \in Nat
          OBVIOUS
        <4>7. QED
          BY <4>5, <4>6, Zenon
      <3>3. DOMAIN wire = DOMAIN greeting
        BY <3>1 DEF Sent
      <3>4. DOMAIN wire = 1 .. Len(wire) /\ Len(wire) \in Nat
        BY <1>1, LenProperties DEF Streams
      <3>5. DOMAIN greeting = 1 .. Len(greeting)
        BY GreetingsAreBytes, LenProperties
      <3>6. \A m, n \in Nat : 1 .. m = 1 .. n => m = n
        OBVIOUS
      <3>7. Len(wire) = Len(greeting)
        BY <3>2, <3>3, <3>4, <3>5, <3>6
      <3>8. QED
        BY <3>2, <3>7
    <2>3. Len(wire) \in Nat
      BY <1>1, Elements
    <2>4. QED
      BY <2>1, <2>2, <2>3 DEF Place
  <1>4. Waits /\ Rests /\ Paired
    BY DEF Init, Waits, Rests, Paired
  <1>5. QED
    BY <1>1, <1>2, <1>3, <1>4 DEF IInv

LEMMA IInvStep == IInv /\ [Next]_vars => IInv'
  <1> SUFFICES ASSUME IInv, [Next]_vars PROVE IInv'
    OBVIOUS
  <1>1. TypeOK /\ Written /\ Made /\ Place
    BY DEF IInv
  <1>2. TypeOK' /\ Written' /\ Made' /\ Place'
    BY <1>1, NextTyped, WrittenStep, MadeStep, PlaceStep
  <1>3. QED
    BY <1>2, WaitsStep, RestsStep, PairedStep DEF IInv

\* The answer a call comes back with is the frame the node sent for that call,
\* byte for byte, in whatever pieces it came and whatever went wrong before, while
\* no call is interrupted (connection.py:182-189).
THEOREM AnswersPaired == Spec => []Paired
  <1>1. IInv => Paired
    BY DEF IInv
  <1>2. QED
    BY <1>1, InitPaired, IInvStep, PTL DEF Spec

-----------------------------------------------------------------------------
(* A peer is named for what it sent *)

\* What came of a greeting is the magic, as far as the magic goes.
Agrees(s) == \A i \in 1 .. Len(s) : i <= 4 => s[i].byte = MAGIC[i]

\* The stream stops inside a frame.
Partial(s) == s # <<>> /\ ~Last(s).last

\* Of a frame the last byte is marked, and no other.
Marked ==
  \A c \in 1 .. MaxCalls : \A i \in 1 .. Len(replies[c]) :
    replies[c][i].last <=> i = Len(replies[c])

\* How the greeting stands, and why a connection that ended in it did.
Judges ==
  /\ pc \in {"magic", "version"} => Agrees(took) /\ (Len(Heard) = 6 => Heard[6].last)
  /\ pc = "over" =>
       /\ asked = <<>>
       /\ \/ result = "io"
          \/ result = "not this protocol" /\ ((took = <<>> /\ wire = <<>>) \/ ~Agrees(took))
          \/ result = "wrong version" /\ Agrees(took) /\ Len(took) = 6 /\ took[5].byte # MAJOR
          \/ result = "truncated" /\ Agrees(took) /\ Len(took) \in 1 .. 5 /\ wire = <<>>

\* A peer that stopped was inside a frame exactly if what is heard of it ends inside one;
\* between calls it was not.
Ends ==
  interrupts = 0 =>
    /\ pc \in Reading /\ peer = "ended" => (cut <=> Partial(Heard))
    /\ pc = "idle" /\ open => ~Partial(took) /\ (peer = "ended" => ~cut)
    /\ pc = "idle" /\ result \in {"hung up", "truncated"} => peer = "ended" /\ (cut <=> result = "truncated")

NInv == IInv /\ Marked /\ Judges /\ Ends

\* A stream's bytes are a sequence of its length.
LEMMA BytesAre ==
  ASSUME NEW s \in Streams
  PROVE  /\ BytesOf(s) \in Seq(0 .. 255) /\ Len(BytesOf(s)) = Len(s)
         /\ \A i \in 1 .. Len(s) : BytesOf(s)[i] = s[i].byte
  <1>1. Len(s) \in Nat /\ DOMAIN s = 1 .. Len(s) /\ \A i \in 1 .. Len(s) : s[i].byte \in 0 .. 255
    BY Elements, LenProperties DEF Streams
  <1>2. BytesOf(s) = [i \in 1 .. Len(s) |-> s[i].byte]
    BY <1>1 DEF BytesOf
  <1>3. QED
    BY <1>1, <1>2

LEMMA Magic == MAGIC \in Seq(0 .. 255) /\ Len(MAGIC) = 4
  BY DEF MAGIC

\* A prefix is as far as it goes the same.
LEMMA Prefix ==
  ASSUME NEW b \in Seq(0 .. 255), NEW c \in Seq(0 .. 255)
  PROVE  IsPrefix(b, c) <=> Len(b) <= Len(c) /\ \A i \in 1 .. Len(b) : b[i] = c[i]
  <1>1. Len(b) \in Nat /\ Len(c) \in Nat
    BY LenProperties
  <1>2. \A i \in 1 .. Len(b) : b[i] \in 0 .. 255
    BY ElementOfSeq
  <1>3. \A i \in 1 .. Len(c) : c[i] \in 0 .. 255
    BY ElementOfSeq
  <1>4. CASE Len(b) <= Len(c)
    <2> DEFINE n == Len(b)
               front == SubSeq(b, 1, n)
               other == SubSeq(c, 1, n)
    <2>1. /\ front \in Seq(0 .. 255) /\ Len(front) = IF 1 <= n THEN n - 1 + 1 ELSE 0
          /\ \A i \in 1 .. n - 1 + 1 : front[i] = b[1 + i - 1]
      BY <1>1, <1>2, SubSeqProperties
    <2>2. /\ other \in Seq(0 .. 255) /\ Len(other) = IF 1 <= n THEN n - 1 + 1 ELSE 0
          /\ \A i \in 1 .. n - 1 + 1 : other[i] = c[1 + i - 1]
      BY <1>1, <1>3, <1>4, SubSeqProperties
    <2>3. /\ Len(front) = n /\ \A i \in 1 .. n : front[i] = b[i]
          /\ Len(other) = n /\ \A i \in 1 .. n : other[i] = c[i]
      BY <1>1, <2>1, <2>2
    <2>4. front = other <=> \A i \in 1 .. n : front[i] = other[i]
      BY <2>1, <2>2, <2>3, SeqEqual
    <2>5. front = other <=> \A i \in 1 .. n : b[i] = c[i]
      BY <2>3, <2>4
    <2>6. IsPrefix(b, c) <=> Len(b) <= Len(c) /\ front = other
      BY DEF IsPrefix
    <2>7. QED
      BY <1>4, <2>5, <2>6
  <1>5. CASE ~(Len(b) <= Len(c))
    BY <1>5 DEF IsPrefix
  <1>6. QED
    BY <1>4, <1>5

\* The magic and what came of it are comparable as long as they agree.
LEMMA Comparable ==
  ASSUME NEW s \in Streams
  PROVE  /\ Agrees(s) <=> IsPrefix(BytesOf(s), MAGIC) \/ IsPrefix(MAGIC, BytesOf(s))
         /\ Len(s) <= 4 => (Agrees(s) <=> IsPrefix(BytesOf(s), MAGIC))
  <1> DEFINE b == BytesOf(s)
  <1>1. /\ b \in Seq(0 .. 255) /\ Len(b) = Len(s) /\ \A i \in 1 .. Len(s) : b[i] = s[i].byte
        /\ Len(s) \in Nat
    BY BytesAre, Elements
  <1> HIDE DEF b
  <1>2. IsPrefix(b, MAGIC) <=> Len(s) <= 4 /\ \A i \in 1 .. Len(s) : b[i] = MAGIC[i]
    BY <1>1, Magic, Prefix
  <1>3. IsPrefix(MAGIC, b) <=> 4 <= Len(s) /\ \A i \in 1 .. 4 : MAGIC[i] = b[i]
    BY <1>1, Magic, Prefix
  <1>4. CASE Len(s) <= 4
    BY <1>1, <1>4, <1>3, <1>2 DEF Agrees, b
  <1>5. CASE ~(Len(s) <= 4)
    BY <1>1, <1>5, <1>2, <1>3 DEF Agrees, b
  <1>6. QED
    BY <1>4, <1>5

\* What has agreed as far as the magic goes agrees whatever follows.
LEMMA AgreesOn ==
  ASSUME NEW s \in Streams, NEW t \in Streams, Len(s) <= Len(t), \A i \in 1 .. Len(s) : t[i] = s[i]
  PROVE  /\ Agrees(t) => Agrees(s)
         /\ Len(s) >= 4 => (Agrees(s) => Agrees(t))
  BY Elements, SMTT(30) DEF Agrees

\* What is heard begins with what came.
LEMMA HeardBegins ==
  ASSUME TypeOK
  PROVE  /\ Heard \in Streams /\ Len(Heard) = Len(took) + Len(wire)
         /\ Len(took) \in Nat /\ Len(wire) \in Nat
         /\ \A i \in 1 .. Len(took) : Heard[i] = took[i]
  <1>1. /\ took \in Streams /\ wire \in Streams /\ Len(took) \in Nat /\ Len(wire) \in Nat
    BY Elements DEF TypeOK
  <1>2. Heard \in Streams
    BY <1>1, Joined DEF Heard
  <1>3. /\ Len(took \o wire) = Len(took) + Len(wire)
        /\ \A i \in 1 .. Len(took) + Len(wire) :
             (took \o wire)[i] = IF i <= Len(took) THEN took[i] ELSE wire[i - Len(took)]
    BY <1>1, ConcatProperties DEF Streams
  <1>4. QED
    BY <1>1, <1>2, <1>3 DEF Heard

LEMMA AllRead ==
  ASSUME TypeOK, wire = <<>>
  PROVE  Heard = took
  BY ConcatEmptySeq DEF TypeOK, Streams, Heard

\* How a greeting ended is what its bytes say, read at once.
LEMMA JudgedRight ==
  ASSUME TypeOK, Judges, pc = "over", result # "io"
  PROVE  result = Judged(BytesOf(took \o wire))
  <1> DEFINE b == BytesOf(Heard)
  <1>1. /\ Heard \in Streams /\ took \in Streams /\ Len(Heard) = Len(took) + Len(wire)
        /\ Len(took) \in Nat /\ Len(wire) \in Nat
        /\ \A i \in 1 .. Len(took) : Heard[i] = took[i]
    BY HeardBegins DEF TypeOK
  <1>2. /\ b \in Seq(0 .. 255) /\ Len(b) = Len(Heard)
        /\ \A i \in 1 .. Len(Heard) : b[i] = Heard[i].byte
        /\ b = <<>> <=> Len(Heard) = 0
    BY <1>1, BytesAre, EmptySeq
  <1>3. Agrees(Heard) <=> IsPrefix(b, MAGIC) \/ IsPrefix(MAGIC, b)
    BY <1>1, Comparable
  <1>4. /\ Agrees(Heard) => Agrees(took)
        /\ Len(took) >= 4 => (Agrees(took) => Agrees(Heard))
    BY <1>1, AgreesOn
  <1>5. Judged(b) = IF b = <<>> \/ ~Agrees(Heard) THEN "not this protocol"
                    ELSE IF Len(b) < 6 THEN "truncated"
                    ELSE IF b[5] # MAJOR THEN "wrong version" ELSE "greeted"
    <2>1. Len(MAGIC) + 2 = 6
      BY Magic
    <2>2. Judged(b) = IF b = <<>> \/ ~(IsPrefix(b, MAGIC) \/ IsPrefix(MAGIC, b)) THEN "not this protocol"
                      ELSE IF Len(b) < Len(MAGIC) + 2 THEN "truncated"
                      ELSE IF b[5] # MAJOR THEN "wrong version" ELSE "greeted"
      BY Zenon DEF Judged
    <2> HIDE DEF b
    <2>3. QED
      BY <1>3, <2>1, <2>2, Zenon
  <1> HIDE DEF b
  <1>6. CASE result = "not this protocol"
    <2>1. (took = <<>> /\ wire = <<>>) \/ ~Agrees(took)
      BY <1>6 DEF Judges
    <2>2. took = <<>> /\ wire = <<>> => b = <<>>
      BY <1>1, <1>2
    <2>3. QED
      BY <1>4, <1>5, <1>6, <2>1, <2>2 DEF b, Heard
  <1>7. CASE result = "wrong version"
    <2>1. Agrees(took) /\ Len(took) = 6 /\ took[5].byte # MAJOR
      BY <1>7 DEF Judges
    <2>2. Agrees(Heard) /\ Len(b) >= 6 /\ b[5] = took[5].byte
      BY <1>1, <1>2, <1>4, <2>1
    <2>3. b # <<>> /\ ~(Len(b) < 6)
      BY <1>1, <1>2, <2>2
    <2>4. QED
      BY <1>5, <1>7, <2>1, <2>2, <2>3 DEF b, Heard
  <1>8. CASE result = "truncated"
    <2>1. Agrees(took) /\ Len(took) \in 1 .. 5 /\ wire = <<>>
      BY <1>8 DEF Judges
    <2>2. Heard = took
      BY <2>1, AllRead
    <2>3. Len(b) \in 1 .. 5 /\ b # <<>> /\ Agrees(Heard)
      BY <1>1, <1>2, <2>1, <2>2
    <2>4. Len(b) < 6
      <3>1. \A n \in 1 .. 5 : n < 6
        OBVIOUS
      <3>2. QED
        BY <2>3, <3>1, Zenon
    <2>5. QED
      BY <1>5, <1>8, <2>3, <2>4 DEF b, Heard
  <1>9. QED
    BY <1>6, <1>7, <1>8 DEF Judges

LEMMA MarkedStep == TypeOK /\ Made /\ Marked /\ [Next]_vars => Marked'
  <1> SUFFICES ASSUME TypeOK, Made, Marked, [Next]_vars PROVE Marked'
    OBVIOUS
  <1>1. CASE Answers
    <2>1. PICK frame \in Streams :
            /\ replies' = [replies EXCEPT ![Head(asked)] = frame]
            /\ \A i \in 1 .. Len(frame) : frame[i].last <=> i = Len(frame)
      BY <1>1, AnswersWell, Zenon
    <2>2. Head(asked) \in 1 .. MaxCalls /\ replies \in [1 .. MaxCalls -> Streams]
      BY <1>1, AnswersWell DEF TypeOK
    <2>3. SUFFICES ASSUME NEW c \in 1 .. MaxCalls
                   PROVE  \A i \in 1 .. Len(replies'[c]) : replies'[c][i].last <=> i = Len(replies'[c])
      BY Zenon DEF Marked
    <2>4. replies'[c] = IF c = Head(asked) THEN frame ELSE replies[c]
      BY <2>1, <2>2
    <2>5. CASE c = Head(asked)
      BY <2>4, <2>5, <2>1
    <2>6. CASE c # Head(asked)
      BY <2>4, <2>6 DEF Marked
    <2>7. QED
      BY <2>5, <2>6
  <1>2. CASE UNCHANGED replies
    BY <1>2, Zenon DEF Marked
  <1>3. CASE Part \/ NotMagic \/ ReadMagic \/ ReadVersion \/ ReadFirst \/ ReadLength \/ ReadBody
    <2>1. PICK n : Receives(n)
      BY <1>3 DEF Part, NotMagic, ReadMagic, ReadVersion, ReadFirst, ReadLength, ReadBody, Whole
    <2>2. QED
      BY <2>1, <1>2 DEF Receives, node
  <1>4. QED
    BY <1>1, <1>2, <1>3
    DEF Next, vars, node, Stops, Resets, ReadEnd, ReadFails, Ask, Act, Sends, AskUnsent, Interrupted

\* How much came of what is read, in numbers.
LEMMA Got ==
  ASSUME Place
  PROVE  /\ pc = "magic" => Len(took) < 4
         /\ pc = "version" => Len(took) >= 4 /\ Len(took) < 6 /\ Len(took) # 0
         /\ pc = "length" => Len(took) >= 1 /\ Len(took) < 3
  <1>1. \A n \in 4 .. 5 : n >= 4 /\ n < 6 /\ n # 0
    OBVIOUS
  <1>2. \A n \in 1 .. 2 : n >= 1 /\ n < 3
    OBVIOUS
  <1>3. pc = "magic" => Len(took) < 4
    BY Zenon DEF Place
  <1>4. pc = "version" => Len(took) \in 4 .. 5
    BY Zenon DEF Place
  <1>5. pc = "length" => Len(took) \in 1 .. 2
    BY Zenon DEF Place
  <1>6. QED
    BY <1>1, <1>2, <1>3, <1>4, <1>5, Zenon

LEMMA JudgesStep == IInv /\ Judges /\ [Next]_vars => Judges'
  <1> SUFFICES ASSUME IInv, Judges, [Next]_vars PROVE Judges'
    OBVIOUS
  <1>0. /\ TypeOK /\ TypeOK' /\ Place
        /\ took \in Streams /\ took' \in Streams /\ wire \in Streams
        /\ Len(took) \in Nat /\ Len(took') \in Nat /\ Len(wire) \in Nat
    BY NextTyped, Elements DEF IInv, TypeOK
  <1>a. ASSUME pc \in {"magic", "version"}
        PROVE  Agrees(took) /\ (Len(Heard) = 6 => Heard[6].last)
    BY <1>a DEF Judges
  \* In the steps that are not named here the greeting is done and over with.
  <1>b. ASSUME UNCHANGED <<pc, result, asked, took, wire>>
        PROVE  Judges'
    BY <1>b DEF Heard, Judges
  <1>1. CASE Answers
    BY <1>1 DEF Answers, Place, Judges, IInv
  <1>2. CASE Stops \/ Resets
    <2>1. PICK n \in 0 .. Len(wire) : wire' = SubSeq(wire, 1, n)
      <3>1. CASE Stops
        BY <3>1 DEF Stops
      <3>2. CASE Resets
        BY <1>0, SubSeqEmpty, <3>2 DEF Resets
      <3>3. QED
        BY <1>2, <3>1, <3>2
    <2>2. UNCHANGED <<pc, result, asked, took>>
      BY <1>2 DEF Stops, Resets, node
    <2>3. wire = <<>> => wire' = <<>>
      <3>1. ASSUME wire = <<>> PROVE n = 0
        BY <3>1, <2>1
      <3>2. QED
        BY <2>1, <3>1, SubSeqEmpty
    <2>4. CASE pc = "over"
      BY <2>2, <2>3, <2>4 DEF Judges, Agrees
    <2>5. CASE pc \in {"magic", "version"}
      <3>1. SUFFICES ASSUME Len(Heard') = 6 PROVE Heard'[6].last
        BY <1>a, <2>2, <2>5 DEF Judges, Agrees
      <3>2. Len(took) + Len(wire) <= 6
        BY <2>5 DEF IInv, Place
      <3>3. Len(wire') = n
        BY <1>0, <2>1, Cuts
      <3>4. Heard' = took \o wire' /\ wire' \in Streams
        BY <1>0, <2>2 DEF Heard, TypeOK
      <3>5. Len(Heard') = Len(took) + n
        BY <1>0, <3>3, <3>4, ConcatProperties DEF Streams
      <3>6. n = Len(wire)
        <4>1. Len(took) + n = 6 /\ n \in 0 .. Len(wire)
          BY <2>1, <3>1, <3>5, Zenon
        <4>2. \A t, w \in Nat : \A k \in 0 .. w : t + w <= 6 /\ t + k = 6 => k = w
          OBVIOUS
        <4>3. QED
          BY <1>0, <3>2, <4>1, <4>2, Zenon
      <3>7. wire' = wire
        BY <1>0, <2>1, <3>6, SubSeqFull DEF Streams
      <3>8. Heard' = Heard
        BY <2>2, <3>7 DEF Heard
      <3>9. QED
        BY <1>a, <2>5, <3>1, <3>8
    <2>6. CASE pc \notin {"magic", "version", "over"}
      BY <2>2, <2>6 DEF Judges
    <2>7. QED
      BY <2>4, <2>5, <2>6
  <1>3. CASE Part
    <2>1. PICK n \in 1 .. Wanted - Len(took) - 1 : Receives(n)
      BY <1>3 DEF Part
    <2>2. /\ Len(took') = Len(took) + n /\ n \in Nat /\ Heard' = Heard
          /\ \A i \in 1 .. Len(took) : took'[i] = took[i]
      BY <1>0, <2>1, Moves
    <2>3. pc' = pc /\ pc # "over"
      BY <1>3 DEF Part, Reading
    <2>4. CASE pc = "magic"
      BY <1>3, <2>4, <1>0, Comparable, <1>a, <2>2, <2>3 DEF Part, Judges
    <2>5. CASE pc = "version"
      BY <1>0, <2>5, Got, <2>2, <1>a, AgreesOn, <2>3 DEF Judges
    <2>6. QED
      BY <2>3, <2>4, <2>5 DEF Judges
  <1>4. CASE NotMagic
    <2>1. pc = "magic" /\ pc' = "over" /\ result' = "not this protocol"
      BY <1>4 DEF NotMagic, Closes
    <2>2. PICK n \in 1 .. Wanted - Len(took) : Receives(n)
      BY <1>4 DEF NotMagic
    <2>3. Len(took') <= 4 /\ asked' = <<>>
      <3>1. Len(took') = Len(took) + n /\ UNCHANGED asked
        BY <1>0, <2>2, Moves DEF Receives, node
      <3>2. Wanted = 4 /\ asked = <<>>
        BY <2>1, Wants DEF IInv, Place
      <3>3. QED
        BY <1>0, <2>2, <3>1, <3>2
    <2>4. ~Agrees(took')
      BY <1>4, <1>0, <2>3, Comparable DEF NotMagic
    <2>5. QED
      BY <2>1, <2>3, <2>4 DEF Judges
  <1>5. CASE ReadMagic
    BY <1>5, <1>0, Moves, Magic, Prefix, Comparable, <1>a DEF ReadMagic, Goes, Whole, Judges
  <1>6. CASE ReadVersion
    <2>1. pc = "version" /\ Len(took') = 6
      BY <1>0, <1>6, WholePiece, Wants DEF ReadVersion, Reading
    <2>2. PICK n : Receives(n)
      BY <1>6 DEF ReadVersion, Whole
    <2>3. asked' = <<>> /\ \A i \in 1 .. Len(took) : took'[i] = took[i]
      BY <1>0, <2>1, <2>2, Moves DEF Receives, node, Place
    <2>4. Agrees(took')
      BY <1>0, <2>1, Got, <1>a, <2>3, AgreesOn
    <2>5. \/ pc' = "idle"
          \/ pc' = "over" /\ result' = "wrong version" /\ took'[5].byte # MAJOR
      BY <1>6 DEF ReadVersion, Returns, Closes
    <2>6. QED
      BY <2>1, <2>3, <2>4, <2>5 DEF Judges
  <1>7. CASE ReadFirst \/ ReadLength \/ ReadBody
    BY <1>7 DEF ReadFirst, ReadLength, ReadBody, Goes, Returns, Closes, Judges
  <1>8. CASE ReadEnd
    <2>1. /\ UNCHANGED <<took, wire, asked>> /\ wire = <<>> /\ pc \in Reading /\ Len(took) < Wanted
          /\ Closes(IF pc = "magic" /\ took = <<>> THEN "not this protocol"
                    ELSE IF pc = "first" THEN "hung up" ELSE "truncated")
      BY <1>8 DEF ReadEnd, node
    <2>2. CASE pc \in {"magic", "version"}
      <3>1. asked = <<>> /\ Agrees(took) /\ pc' = "over" /\ Len(took) < 6
        <4>1. asked = <<>> /\ Agrees(took) /\ pc' = "over"
          BY <1>0, <1>a, <2>1, <2>2 DEF Place, Closes
        <4>2. \A t \in Nat : t < 4 => t < 6
          OBVIOUS
        <4>3. Len(took) < 6
          BY <1>0, <2>2, <4>2, Got, Zenon
        <4>4. QED
          BY <4>1, <4>3
      <3>2. CASE took = <<>> /\ pc = "magic"
        BY <2>1, <3>1, <3>2 DEF Judges, Closes
      <3>3. CASE ~(took = <<>> /\ pc = "magic")
        <4>1. result' = "truncated"
          BY <2>1, <2>2, <3>3 DEF Closes
        <4>2. Len(took) # 0
          BY <1>0, <2>2, <3>3, Elements, Got, Zenon
        <4>3. Len(took) \in 1 .. 5
          <5>1. \A t \in Nat : t # 0 /\ t < 6 => t \in 1 .. 5
            OBVIOUS
          <5>2. QED
            BY <1>0, <3>1, <4>2, <5>1, Zenon
        <4>4. Agrees(took') /\ Len(took') \in 1 .. 5
          BY <2>1, <3>1, <4>3
        <4>5. QED
          BY <2>1, <3>1, <4>1, <4>4 DEF Judges
      <3>4. QED
        BY <3>2, <3>3
    <2>3. CASE pc \notin {"magic", "version"}
      BY <2>1, <2>3 DEF Judges, Closes
    <2>4. QED
      BY <2>2, <2>3
  <1>9. CASE ReadFails
    BY <1>9 DEF ReadFails, Closes, Judges, Place, node, Reading, IInv
  <1>10. CASE Ask \/ Act
    BY <1>10 DEF Ask, Act, Sends, Goes, Judges
  <1>11. CASE AskUnsent("too large") \/ AskUnsent("io")
    BY <1>11 DEF AskUnsent, Judges
  <1>12. CASE Interrupted
    BY <1>12 DEF Interrupted, Returns, Judges
  <1>13. CASE UNCHANGED vars
    BY <1>13, <1>b DEF vars, node
  <1>14. QED
    BY <1>1, <1>2, <1>3, <1>4, <1>5, <1>6, <1>7, <1>8, <1>9, <1>10, <1>11, <1>12, <1>13 DEF Next

\* A reply that is not all there ends inside a frame.
LEMMA CutReply ==
  ASSUME IInv, Marked, interrupts = 0, pc \in {"length", "body"}, wire = <<>>, Len(took) < Wanted,
         peer = "ended"
  PROVE  Partial(Heard)
  <1> DEFINE reply == replies[calls]
             last == Len(took)
  <1>1. /\ TypeOK /\ Place /\ Heard = took /\ took \in Streams /\ Len(took) \in Nat
        /\ calls \in 1 .. MaxCalls /\ Beginning(took, reply)
    BY AllRead, Bounds, Elements DEF IInv, Waits, TypeOK
  <1>2. reply \in Streams /\ Len(reply) \in Nat
    BY <1>1, Elements DEF TypeOK
  <1>3. Len(took) >= 1
    BY <1>1 DEF Place
  <1>4. Len(took) <= Len(reply) /\ \A i \in 1 .. Len(took) : took[i] = reply[i]
    BY <1>1 DEF Beginning
  <1>5. reply # <<>>
    BY <1>2, <1>3, <1>4
  <1>6. Len(reply) >= 3 /\ (Announced(reply) > CEILING \/ Len(reply) = 3 + Announced(reply))
    BY <1>1, <1>5 DEF IInv, Written
  <1>7. Len(took) < Len(reply)
    <2>1. CASE pc = "length"
      BY <1>1, <2>1, Got, <1>2, <1>6
    <2>2. CASE pc = "body"
      BY <1>1, <2>2, WantsBody, <1>4, <1>2, <1>6, Bounds DEF Place, Announced
    <2>3. QED
      BY <2>1, <2>2
  <1>8. last \in 1 .. Len(reply) /\ last \in 1 .. Len(took) /\ last # Len(reply)
    BY <1>1, <1>2, <1>3, <1>7
  <1>9. ~reply[last].last
    BY <1>1, <1>8, Zenon DEF Marked
  <1>10. took[last] = reply[last] /\ took # <<>>
    BY <1>3, <1>4, <1>8
  <1>11. QED
    BY <1>1, <1>9, <1>10 DEF Partial, Last
\* A stream that ends with a marked byte, or is empty, does not end inside a frame.
LEMMA WholeStream ==
  ASSUME NEW s, s = <<>> \/ s[Len(s)].last
  PROVE  ~Partial(s)
  BY DEF Partial, Last

LEMMA EndsStep == NInv /\ [Next]_vars => Ends'
  <1> SUFFICES ASSUME NInv, [Next]_vars, interrupts' = 0
               PROVE  /\ pc' \in Reading /\ peer' = "ended" => (cut' <=> Partial(Heard'))
                      /\ pc' = "idle" /\ open' => ~Partial(took') /\ (peer' = "ended" => ~cut')
                      /\ pc' = "idle" /\ result' \in {"hung up", "truncated"} =>
                           peer' = "ended" /\ (cut' <=> result' = "truncated")
    BY Zenon DEF Ends
  <1>0. /\ IInv /\ TypeOK /\ TypeOK' /\ Place /\ Marked
        /\ took \in Streams /\ took' \in Streams /\ wire \in Streams /\ wire' \in Streams
    BY NextTyped DEF NInv, IInv, TypeOK
  <1>a. ASSUME interrupts = 0
        PROVE  /\ pc \in Reading /\ peer = "ended" => (cut <=> Partial(Heard))
               /\ pc = "idle" /\ open => ~Partial(took) /\ (peer = "ended" => ~cut)
               /\ pc = "idle" /\ result \in {"hung up", "truncated"} =>
                    peer = "ended" /\ (cut <=> result = "truncated")
    BY <1>a, Zenon DEF NInv, Ends
  <1>b. pc = "idle" /\ open /\ interrupts = 0 => wire = <<>>
    BY <1>0 DEF IInv, Rests
  <1>c. Reading = {"magic", "version", "first", "length", "body"}
    BY DEF Reading
  <1>d. ~Partial(<<>>)
    BY WholeStream, Zenon
  <1>e. wire' = <<>> => Heard' = took'
    BY <1>0, ConcatEmptySeq DEF Streams, Heard
  <1>1. CASE Answers \/ Resets
    <2>1. /\ UNCHANGED <<pc, open, result, took, interrupts>>
          /\ peer = "up" /\ peer' # "ended"
      BY <1>1 DEF Answers, Resets
    <2>2. interrupts = 0 /\ Partial(took') = Partial(took)
      BY <2>1
    <2>3. QED
      BY <1>a, <2>1, <2>2
  <1>2. CASE Stops
    <2>1. PICK n \in 0 .. Len(wire) :
            /\ wire' = SubSeq(wire, 1, n)
            /\ cut' = LET sent == took \o SubSeq(wire, 1, n) IN sent # <<>> /\ ~Last(sent).last
      BY <1>2 DEF Stops
    <2>2. UNCHANGED <<pc, open, result, took, interrupts>> /\ peer = "up" /\ peer' = "ended"
      BY <1>2 DEF Stops
    <2>3. interrupts = 0
      BY <2>2
    <2>4. cut' <=> Partial(Heard')
      BY <2>1, <2>2 DEF Partial, Heard
    <2>5. ASSUME pc = "idle", open
          PROVE  ~Partial(took') /\ ~cut'
      <3>1. wire = <<>>
        BY <1>b, <2>3, <2>5
      <3>2. n = 0
        BY <2>1, <3>1
      <3>3. wire' = <<>>
        BY <2>1, <3>2, SubSeqEmpty
      <3>4. Heard' = took /\ ~Partial(took)
        BY <1>a, <1>e, <2>2, <2>3, <2>5, <3>3
      <3>5. QED
        BY <2>2, <2>4, <3>4
    <2>6. ~(pc = "idle" /\ result \in {"hung up", "truncated"})
      BY <1>a, <2>2, <2>3
    <2>7. QED
      BY <2>2, <2>4, <2>5, <2>6
  <1>3. CASE Part \/ NotMagic \/ ReadMagic \/ ReadFirst \/ ReadLength
    <2>1. PICK n : Receives(n)
      BY <1>3 DEF Part, NotMagic, ReadMagic, ReadFirst, ReadLength, Whole
    <2>2. Heard' = Heard /\ UNCHANGED <<peer, cut, interrupts>>
      BY <1>0, <2>1, Moves DEF Receives, node
    <2>3. /\ pc \in Reading
          /\ \/ pc' \in Reading
             \/ pc' = "over"
             \/ pc' = "idle" /\ ~open' /\ result' \in {"too large", "unknown frame"}
      BY <1>3 DEF Part, NotMagic, ReadMagic, ReadFirst, ReadLength, Goes, Closes, Reading
    <2>4. pc' \in Reading => pc' # "idle"
      BY DEF Reading
    <2>5. interrupts = 0 /\ (Partial(Heard') <=> Partial(Heard))
      BY <2>2
    <2>6. QED
      BY <1>a, <1>c, <2>2, <2>3, <2>4, <2>5
  <1>4. CASE ReadVersion
    <2>1. PICK n : Receives(n)
      BY <1>4 DEF ReadVersion, Whole
    <2>2. Heard' = Heard /\ UNCHANGED <<peer, cut, interrupts>>
      BY <1>0, <2>1, Moves DEF Receives, node
    <2>3. pc = "version" /\ Len(took') = 6
      BY <1>0, <1>4, WholePiece, Wants DEF ReadVersion, Reading
    <2>4. \/ pc' = "over"
          \/ pc' = "idle" /\ open' /\ result' = "greeted"
      <3>1. open
        BY <1>0, <1>c, <2>3, Zenon DEF Place
      <3>2. (pc' = "idle" /\ result' = "greeted" /\ open' = open) \/ pc' = "over"
        BY <1>4, <2>3 DEF ReadVersion, Returns, Closes
      <3>3. QED
        BY <3>1, <3>2
    <2>5. ASSUME pc' = "idle", open'
          PROVE  ~Partial(took') /\ (peer' = "ended" => ~cut')
      <3>1. wire' = <<>>
        BY <1>0, <2>5, RestsStep DEF Rests
      <3>2. Heard = took' /\ Len(Heard) = 6
        BY <1>e, <2>2, <2>3, <3>1
      <3>3. Heard[6].last
        BY <2>3, <3>2 DEF NInv, Judges
      <3>4. ~Partial(took') /\ ~Partial(Heard)
        BY <2>3, <3>2, <3>3, WholeStream
      <3>5. QED
        BY <1>a, <1>c, <2>2, <2>3, <3>4
    <2>6. QED
      BY <2>4, <2>5 DEF Reading
  <1>5. CASE ReadBody
    <2>1. PICK n : Receives(n)
      BY <1>5 DEF ReadBody, Whole
    <2>2. Heard' = Heard /\ UNCHANGED <<peer, cut, interrupts>>
      BY <1>0, <2>1, Moves DEF Receives, node
    <2>3. took' = replies[calls] /\ wire' = <<>> /\ interrupts = 0
      BY <1>0, <1>5, <2>2, BodyEnds
    <2>4. ~Partial(took')
      <3>1. calls \in 1 .. MaxCalls
        <4>1. pc = "body"
          BY <1>5 DEF ReadBody
        <4>2. calls >= 1
          BY <1>0, <2>3, <4>1 DEF IInv, Waits
        <4>3. QED
          BY <1>0, <4>2, Bounds DEF TypeOK
      <3>2. took' # <<>> => Len(took') \in 1 .. Len(took')
        BY <1>0, Elements
      <3>3. \A i \in 1 .. Len(took') : took'[i].last <=> i = Len(took')
        BY <1>0, <2>3, <3>1, Zenon DEF Marked
      <3>4. QED
        BY <3>2, <3>3, WholeStream, Zenon
    <2>5. pc = "body" /\ pc' = "idle" /\ result' \notin {"hung up", "truncated"}
      BY <1>5 DEF ReadBody, Returns, Closes
    <2>6. peer = "ended" => ~cut
      BY <1>a, <1>c, <1>e, <2>2, <2>3, <2>4, <2>5
    <2>7. QED
      BY <2>2, <2>4, <2>5, <2>6, <1>c
  <1>6. CASE ReadEnd
    <2>1. /\ UNCHANGED <<wire, peer, cut, took, interrupts>> /\ wire = <<>> /\ peer = "ended"
          /\ pc \in Reading /\ Len(took) < Wanted /\ interrupts = 0
          /\ Closes(IF pc = "magic" /\ took = <<>> THEN "not this protocol"
                    ELSE IF pc = "first" THEN "hung up" ELSE "truncated")
      BY <1>6 DEF ReadEnd, node
    <2>2. cut <=> Partial(Heard)
      BY <1>a, <2>1
    <2>3. CASE pc \in {"magic", "version"}
      BY <1>c, <2>1, <2>3 DEF Closes
    <2>4. CASE pc = "first"
      BY <1>0, <2>1, <2>4, AllRead, <1>d, <2>2, <1>c DEF Place, Closes
    <2>5. CASE pc \in {"length", "body"}
      BY <1>0, <2>1, <2>2, <2>5, CutReply, <1>c DEF Closes
    <2>6. QED
      BY <1>c, <2>1, <2>3, <2>4, <2>5
  <1>7. CASE ReadFails
    BY <1>7 DEF ReadFails, Closes, Reading
  <1>8. CASE Ask \/ Act
    <2>1. /\ pc = "idle" /\ open /\ pc' = "first" /\ took' = <<>>
          /\ UNCHANGED <<wire, peer, cut, interrupts>>
      BY <1>8 DEF Ask, Act, Sends, Goes
    <2>2. interrupts = 0 /\ wire' = <<>>
      BY <1>b, <2>1
    <2>3. Heard' = <<>>
      BY <1>e, <2>1, <2>2
    <2>4. ~Partial(Heard')
      BY <1>d, <2>3
    <2>5. QED
      BY <1>a, <2>1, <2>2, <2>4
  <1>9. CASE AskUnsent("too large") \/ AskUnsent("io")
    <2>1. /\ pc = "idle" /\ open /\ took' = <<>> /\ result' \in {"too large", "io"}
          /\ UNCHANGED <<pc, open, peer, cut, interrupts>>
      BY <1>9 DEF AskUnsent, node
    <2>2. ~Partial(took') /\ interrupts = 0
      BY <1>d, <2>1
    <2>3. QED
      BY <1>a, <1>c, <2>1, <2>2
  <1>10. CASE Interrupted
    <2>1. interrupts' = interrupts + 1 /\ interrupts \in Nat
      BY <1>0, <1>10, Bounds DEF Interrupted, TypeOK
    <2>2. \A k \in Nat : k + 1 # 0
      OBVIOUS
    <2>3. QED
      BY <2>1, <2>2, Zenon
  <1>11. CASE UNCHANGED vars
    BY <1>11, <1>a DEF vars, node, Heard
  <1>12. QED
    BY <1>1, <1>2, <1>3, <1>4, <1>5, <1>6, <1>7, <1>8, <1>9, <1>10, <1>11 DEF Next

LEMMA NInvInit == Init => NInv
  <1> SUFFICES ASSUME Init PROVE NInv
    OBVIOUS
  <1>1. /\ IInv /\ TypeOK /\ pc = "magic" /\ took = <<>> /\ peer = "up"
        /\ replies = [c \in 1 .. MaxCalls |-> <<>>]
    BY InitPaired DEF Init, IInv
  <1>2. Marked
    BY <1>1 DEF Marked
  <1>3. Ends
    BY <1>1 DEF Ends
  <1>4. Agrees(took)
    BY <1>1 DEF Agrees
  <1>5. ASSUME Len(Heard) = 6 PROVE Heard[6].last
    <2>1. wire \in Streams /\ Heard = wire /\ 6 \in 1 .. 6
      BY <1>1, ConcatEmptySeq DEF TypeOK, Heard, Streams
    <2>2. PICK greeting \in Greetings : wire = Sent(greeting, 0)
      BY DEF Init
    <2>3. DOMAIN wire = DOMAIN greeting /\ DOMAIN wire = 1 .. 6
      BY <1>5, <2>1, <2>2, LenProperties DEF Sent, Streams
    <2>4. DOMAIN greeting = 1 .. Len(greeting) /\ Len(greeting) \in Nat
      BY <2>2, GreetingsAreBytes, LenProperties
    <2>5. \A k \in Nat : 1 .. k = 1 .. 6 => k = 6
      OBVIOUS
    <2>6. Len(greeting) = 6
      BY <2>3, <2>4, <2>5, Zenon
    <2>7. wire[6] = [byte |-> greeting[6], call |-> 0, last |-> 6 = Len(greeting)]
      BY <2>1, <2>2, <2>3 DEF Sent
    <2>8. wire[6].last = (6 = Len(greeting))
      BY <2>7
    <2>9. QED
      BY <2>1, <2>6, <2>8, Zenon
  <1>6. Judges
    BY <1>1, <1>4, <1>5 DEF Judges
  <1>7. QED
    BY <1>1, <1>2, <1>3, <1>6 DEF NInv

\* A peer that is not a node is named so however its bytes come, and never reported
\* as a connection that was cut; a node that hung up between two frames and one cut
\* off inside a frame are told apart, while no call is interrupted
\* (_frames.py:17-20, 127-132).
THEOREM NamedAsSent == Spec => []NamedForWhatItSent
  <1>1. Init => NInv
    BY NInvInit
  <1>2. NInv /\ [Next]_vars => NInv'
    <2> SUFFICES ASSUME NInv, [Next]_vars PROVE NInv'
      OBVIOUS
    <2>1. IInv /\ TypeOK /\ Made /\ Marked /\ Judges
      BY DEF NInv, IInv
    <2>2. QED
      BY <2>1, IInvStep, MarkedStep, JudgesStep, EndsStep DEF NInv
  <1>3. NInv => NamedForWhatItSent
    <2> SUFFICES ASSUME NInv PROVE NamedForWhatItSent
      OBVIOUS
    <2>1. TypeOK /\ Judges
      BY DEF NInv, IInv
    <2>2. pc = "over" /\ result # "io" => result = Judged(BytesOf(took \o wire))
      BY <2>1, JudgedRight
    <2>3. interrupts = 0 /\ pc = "idle" =>
            (result = "hung up" => ~cut) /\ (result = "truncated" => cut)
      BY DEF NInv, Ends
    <2>4. QED
      BY <2>2, <2>3, Zenon DEF NamedForWhatItSent
  <1>4. QED
    BY <1>1, <1>2, <1>3, PTL DEF Spec

-----------------------------------------------------------------------------
(* Induction, from the order of finite sets by inclusion *)

\* The numbers up to n are a finite set.
LEMMA Intervals == \A n \in Nat : 1 .. n \in FiniteSubsetsOf(Nat)
  BY FS_Interval DEF FiniteSubsetsOf

\* A set of numbers has a least one.
LEMMA Least ==
  ASSUME NEW T \in SUBSET Nat, T # {}
  PROVE  \E x \in T : \A y \in T : x <= y
  <1> DEFINE I == {1 .. n : n \in T}
             R == StrictSubsetOrdering(Nat)
  <1>1. IsWellFoundedOn(R, FiniteSubsetsOf(Nat))
    BY FS_StrictSubsetOrderingWellFounded
  <1>2. I \subseteq FiniteSubsetsOf(Nat) /\ I # {}
    BY Intervals
  <1>3. \E x \in I : \A y \in I : ~ (<<y, x>> \in R)
    <2> HIDE DEF I, R
    <2>1. QED
      BY <1>1, <1>2, WFMin, Zenon
  <1>4. PICK x \in T : \A y \in T : ~ (<<1 .. y, 1 .. x>> \in R)
    BY <1>3
  <1>5. ASSUME NEW y \in T, y < x PROVE FALSE
    <2>1. 1 .. y \subseteq 1 .. x /\ x \in 1 .. x /\ x \notin 1 .. y
      BY <1>5
    <2>2. 1 .. y \in SUBSET Nat /\ 1 .. x \in SUBSET Nat
      OBVIOUS
    <2>3. <<1 .. y, 1 .. x>> \in R
      BY <2>1, <2>2 DEF StrictSubsetOrdering
    <2>4. QED
      BY <1>4, <2>3
  <1>6. QED
    BY <1>5

\* A set that holds 0, and n + 1 with each n, holds every number.
LEMMA Induct ==
  ASSUME NEW T, 0 \in T, \A n \in Nat : n \in T => n + 1 \in T
  PROVE  \A n \in Nat : n \in T
  <1> DEFINE Out == Nat \ T
  <1>1. SUFFICES ASSUME Out # {} PROVE FALSE
    OBVIOUS
  <1>2. PICK x \in Out : \A y \in Out : x <= y
    BY <1>1, Least
  <1>3. x # 0 /\ x \in Nat
    OBVIOUS
  <1>4. x - 1 \in Nat /\ x - 1 \notin Out /\ (x - 1) + 1 = x
    BY <1>2, <1>3
  <1>5. QED
    BY <1>4

\* The first of f, and how each follows from the one before it.
Recurs(f, n, first, step) == f[0] = first /\ \A k \in 1 .. n : f[k] = step[<<f[k - 1], k>>]

\* A recursion over the numbers up to n has a function that satisfies it.
LEMMA Recursion ==
  ASSUME NEW S, NEW first \in S, NEW step \in [S \X Nat -> S]
  PROVE  \A n \in Nat : \E f \in [0 .. n -> S] : Recurs(f, n, first, step)
  <1> DEFINE Sat(n, f) == Recurs(f, n, first, step)
             T == {n \in Nat : \E f \in [0 .. n -> S] : Sat(n, f)}
  <1> USE DEF Recurs
  <1>1. 0 \in T
    <2>1. [k \in 0 .. 0 |-> first] \in [0 .. 0 -> S] /\ Sat(0, [k \in 0 .. 0 |-> first])
      OBVIOUS
    <2>2. QED
      BY <2>1
  <1>2. ASSUME NEW n \in Nat, n \in T PROVE n + 1 \in T
    <2>1. PICK f \in [0 .. n -> S] : Sat(n, f)
      BY <1>2
    <2> DEFINE g == [k \in 0 .. n + 1 |-> IF k = n + 1 THEN step[<<f[n], n + 1>>] ELSE f[k]]
    <2>2. n \in 0 .. n /\ n + 1 \in Nat /\ f[n] \in S /\ step[<<f[n], n + 1>>] \in S
      OBVIOUS
    <2>3. g \in [0 .. n + 1 -> S]
      BY <2>2
    <2>4. g[0] = first
      BY <2>1
    <2>5. ASSUME NEW k \in 1 .. n + 1 PROVE g[k] = step[<<g[k - 1], k>>]
      <3>1. CASE k = n + 1
        <4>1. (n + 1) - 1 = n /\ g[n + 1] = step[<<f[n], n + 1>>]
          OBVIOUS
        <4>2. g[n] = f[n]
          BY <2>2
        <4> HIDE DEF g
        <4>3. QED
          BY <4>1, <4>2, <3>1, Zenon
      <3>2. CASE k \in 1 .. n
        BY <3>2, <2>1
      <3>3. QED
        BY <3>1, <3>2
    <2>6. Sat(n + 1, g)
      BY <2>4, <2>5
    <2> HIDE DEF g, Sat, Recurs
    <2>7. QED
      BY <2>2, <2>3, <2>6
  <1>3. \A n \in Nat : n \in T
    <2> HIDE DEF T
    <2> QED
      BY <1>1, <1>2, Induct
  <1>4. QED
    <2> HIDE DEF Recurs
    <2> QED
      BY <1>3

-----------------------------------------------------------------------------
(* Numbers and their digits *)

\* How the powers of 256 grow.
LEMMA PowersGrow ==
  ASSUME NEW w \in Nat
  PROVE  /\ Powers(w) \in [0 .. w -> Nat \ {0}]
         /\ Powers(w)[0] = 1
         /\ \A k \in 1 .. w : Powers(w)[k] = 256 * Powers(w)[k - 1]
  <1> DEFINE S == Nat \ {0}
             step == [x \in S \X Nat |-> 256 * x[1]]
             first == 1
  <1>1. step \in [S \X Nat -> S] /\ first \in S
    OBVIOUS
  <1>2. PICK f \in [0 .. w -> S] : Recurs(f, w, first, step)
    <2> HIDE DEF S, step, first
    <2> QED
      BY <1>1, Recursion, Zenon
  <1>3. f[0] = 1 /\ \A k \in 1 .. w : f[k] = 256 * f[k - 1]
    <2>1. \A k \in 1 .. w : f[k - 1] \in S /\ k \in Nat
      BY <1>2
    <2>2. \A x \in S, k \in Nat : step[<<x, k>>] = 256 * x
      OBVIOUS
    <2>3. f[0] = first /\ \A k \in 1 .. w : f[k] = step[<<f[k - 1], k>>]
      BY <1>2 DEF Recurs
    <2> HIDE DEF S, step
    <2>4. \A k \in 1 .. w : step[<<f[k - 1], k>>] = 256 * f[k - 1]
      BY <2>1, <2>2, Zenon
    <2>5. QED
      BY <2>3, <2>4
  <1>4. f = [k \in 0 .. w |-> IF k = 0 THEN 1 ELSE 256 * f[k - 1]]
    BY <1>2, <1>3
  <1>5. \E g : g = [k \in 0 .. w |-> IF k = 0 THEN 1 ELSE 256 * g[k - 1]]
    BY <1>4, Zenon
  <1>6. Powers(w) = [k \in 0 .. w |-> IF k = 0 THEN 1 ELSE 256 * Powers(w)[k - 1]]
    BY <1>5, Zenon DEF Powers
  <1>7. SUFFICES ASSUME NEW p, p = [k \in 0 .. w |-> IF k = 0 THEN 1 ELSE 256 * p[k - 1]]
                 PROVE  /\ p \in [0 .. w -> S]
                        /\ p[0] = 1 /\ \A k \in 1 .. w : p[k] = 256 * p[k - 1]
    BY <1>6
  <1> DEFINE T == {k \in Nat : k <= w => p[k] \in S}
  <1>8. p[0] = 1 /\ \A k \in 1 .. w : p[k] = 256 * p[k - 1]
    BY <1>7
  <1>9. \A k \in Nat : k \in T
    <2>1. 0 \in T
      BY <1>8
    <2>2. ASSUME NEW k \in Nat, k \in T PROVE k + 1 \in T
      BY <2>2, <1>8
    <2>3. QED
      BY <2>1, <2>2, Induct
  <1>10. DOMAIN p = 0 .. w /\ p = [k \in DOMAIN p |-> p[k]]
    BY <1>7
  <1>11. \A k \in 0 .. w : p[k] \in S
    BY <1>9
  <1>12. QED
    BY <1>8, <1>10, <1>11

\* The quotients of a number: each is the one before it without its last digit.
Shrinks(q, n, w) ==
  /\ q \in [0 .. w -> Int] /\ q[0] = n
  /\ \A k \in 1 .. w : q[k] = q[k - 1] \div 256

LEMMA QuotientsShrink ==
  ASSUME NEW n \in Int, NEW w \in Nat
  PROVE  Shrinks(Quotients(n, w), n, w)
  <1> DEFINE step == [x \in Int \X Nat |-> x[1] \div 256]
  <1>1. step \in [Int \X Nat -> Int]
    OBVIOUS
  <1>2. PICK f \in [0 .. w -> Int] : Recurs(f, w, n, step)
    <2> HIDE DEF step
    <2> QED
      BY <1>1, Recursion, Zenon
  <1>3. f[0] = n /\ \A k \in 1 .. w : f[k] = f[k - 1] \div 256
    <2>1. \A k \in 1 .. w : f[k - 1] \in Int /\ k \in Nat
      BY <1>2
    <2>2. \A x \in Int, k \in Nat : step[<<x, k>>] = x \div 256
      OBVIOUS
    <2>3. f[0] = n /\ \A k \in 1 .. w : f[k] = step[<<f[k - 1], k>>]
      BY <1>2 DEF Recurs
    <2> HIDE DEF step
    <2>4. QED
      BY <2>1, <2>2, <2>3, Zenon
  <1>4. f = [k \in 0 .. w |-> IF k = 0 THEN n ELSE f[k - 1] \div 256]
    BY <1>2, <1>3
  <1>5. \E g : g = [k \in 0 .. w |-> IF k = 0 THEN n ELSE g[k - 1] \div 256]
    BY <1>4, Zenon
  <1>6. Quotients(n, w) = [k \in 0 .. w |-> IF k = 0 THEN n ELSE Quotients(n, w)[k - 1] \div 256]
    BY <1>5, Zenon DEF Quotients
  <1>7. SUFFICES ASSUME NEW q, q = [k \in 0 .. w |-> IF k = 0 THEN n ELSE q[k - 1] \div 256]
                 PROVE  Shrinks(q, n, w)
    BY <1>6
  <1> DEFINE T == {k \in Nat : k <= w => q[k] \in Int}
  <1>8. q[0] = n /\ \A k \in 1 .. w : q[k] = q[k - 1] \div 256
    BY <1>7
  <1>9. \A k \in Nat : k \in T
    <2>1. 0 \in T
      BY <1>8
    <2>2. ASSUME NEW k \in Nat, k \in T PROVE k + 1 \in T
      BY <2>2, <1>8
    <2>3. QED
      BY <2>1, <2>2, Induct
  <1>10. DOMAIN q = 0 .. w /\ q = [k \in DOMAIN q |-> q[k]]
    BY <1>7
  <1>11. \A k \in 0 .. w : q[k] \in Int
    BY <1>9
  <1>12. QED
    BY <1>8, <1>10, <1>11 DEF Shrinks

\* What the digits of a sequence add up to.
Adds(s, raw) ==
  /\ s \in [0 .. Len(raw) -> Nat] /\ s[0] = 0
  /\ \A k \in 1 .. Len(raw) : s[k] = 256 * s[k - 1] + raw[k]

LEMMA SumsGrow ==
  ASSUME NEW raw \in Seq(Byte)
  PROVE  Adds(Sums(raw), raw)
  <1> DEFINE w == Len(raw)
             first == 0
             step == [x \in Nat \X Nat |-> IF x[2] \in 1 .. w THEN 256 * x[1] + raw[x[2]] ELSE 0]
  <1>1. step \in [Nat \X Nat -> Nat] /\ first \in Nat /\ w \in Nat
    <2>1. \A k \in 1 .. w : raw[k] \in Byte
      OBVIOUS
    <2>2. \A x, d \in Nat : 256 * x + d \in Nat
      OBVIOUS
    <2>3. ASSUME NEW x \in Nat \X Nat
          PROVE  (IF x[2] \in 1 .. w THEN 256 * x[1] + raw[x[2]] ELSE 0) \in Nat
      <3>1. CASE x[2] \in 1 .. w
        <4>1. raw[x[2]] \in Nat /\ x[1] \in Nat
          <5>1. \A d \in Byte : d \in Nat
            BY DEF Byte
          <5> HIDE DEF w
          <5>2. QED
            BY <3>1, <2>1, <5>1
        <4>2. 256 * x[1] + raw[x[2]] \in Nat
          BY <4>1, <2>2
        <4>3. QED
          BY <4>2, <3>1
      <3>2. QED
        BY <3>1
    <2>4. QED
      BY <2>3
  <1>2. PICK f \in [0 .. w -> Nat] : Recurs(f, w, first, step)
    <2> HIDE DEF step, w, first
    <2> QED
      BY <1>1, Recursion, Zenon
  <1>3. f[0] = 0 /\ \A k \in 1 .. w : f[k] = 256 * f[k - 1] + raw[k]
    <2>1. \A k \in 1 .. w : f[k - 1] \in Nat /\ k \in Nat
      BY <1>2, SMTT(30)
    <2>2. \A x \in Nat, k \in 1 .. w : step[<<x, k>>] = 256 * x + raw[k]
      BY <1>1
    <2>3. f[0] = first /\ \A k \in 1 .. w : f[k] = step[<<f[k - 1], k>>]
      BY <1>2 DEF Recurs
    <2> HIDE DEF step, w
    <2>4. \A k \in 1 .. w : step[<<f[k - 1], k>>] = 256 * f[k - 1] + raw[k]
      BY <2>1, <2>2, Zenon
    <2>5. QED
      BY <2>3, <2>4
  <1>4. f = [k \in 0 .. w |-> IF k = 0 THEN 0 ELSE 256 * f[k - 1] + raw[k]]
    BY <1>2, <1>3
  <1>5. \E g : g = [k \in 0 .. w |-> IF k = 0 THEN 0 ELSE 256 * g[k - 1] + raw[k]]
    BY <1>4, Zenon
  <1>6. Sums(raw) = [k \in 0 .. w |-> IF k = 0 THEN 0 ELSE 256 * Sums(raw)[k - 1] + raw[k]]
    BY <1>5, Zenon DEF Sums
  <1>7. SUFFICES ASSUME NEW s, s = [k \in 0 .. w |-> IF k = 0 THEN 0 ELSE 256 * s[k - 1] + raw[k]]
                 PROVE  Adds(s, raw)
    BY <1>6
  <1>8. s[0] = 0 /\ \A k \in 1 .. w : s[k] = 256 * s[k - 1] + raw[k]
    BY <1>7
  <1>9. \A k \in 1 .. w : f[k] = 256 * f[k - 1] + raw[k]
    BY <1>3
  <1> DEFINE T == {k \in Nat : k <= w => s[k] = f[k]}
  <1>10. \A k \in Nat : k \in T
    <2>1. 0 \in T
      BY <1>3, <1>8
    <2>2. ASSUME NEW k \in Nat, k \in T PROVE k + 1 \in T
      <3>1. CASE k + 1 <= w
        BY <3>1, <2>2, <1>8, <1>9
      <3>2. QED
        BY <3>1
    <2>3. QED
      <3> HIDE DEF T
      <3> QED
        BY <2>1, <2>2, Induct
  <1>11. DOMAIN s = 0 .. w /\ s = [k \in DOMAIN s |-> s[k]]
    BY <1>7
  <1>12. \A k \in 0 .. w : s[k] \in Nat
    BY <1>10, <1>2
  <1>13. QED
    BY <1>8, <1>11, <1>12 DEF Adds

\* A power of 256 is a positive number, and the next one is 256 times as large.
LEMMA PowerStep ==
  ASSUME NEW w \in Nat
  PROVE  Power(w) \in Nat \ {0} /\ Power(w + 1) = 256 * Power(w)
  <1> DEFINE p == Powers(w)
             q == Powers(w + 1)
             T == {k \in Nat : k <= w => p[k] = q[k]}
  <1>1. /\ p[0] = 1 /\ \A k \in 1 .. w : p[k] = 256 * p[k - 1]
        /\ q[0] = 1 /\ \A k \in 1 .. w + 1 : q[k] = 256 * q[k - 1]
        /\ p \in [0 .. w -> Nat \ {0}]
    <2>1. w + 1 \in Nat
      OBVIOUS
    <2>2. \A v \in Nat : /\ Powers(v) \in [0 .. v -> Nat \ {0}] /\ Powers(v)[0] = 1
                        /\ \A k \in 1 .. v : Powers(v)[k] = 256 * Powers(v)[k - 1]
      BY PowersGrow, Zenon
    <2>3. QED
      BY <2>1, <2>2, Zenon
  <1>2. \A k \in Nat : k \in T
    <2> HIDE DEF p, q
    <2>1. 0 \in T
      BY <1>1
    <2>2. ASSUME NEW k \in Nat, k \in T PROVE k + 1 \in T
      BY <2>2, <1>1
    <2>3. QED
      BY <2>1, <2>2, Induct
  <1>3. p[w] \in Nat \ {0} /\ q[w + 1] = 256 * p[w]
    <2> HIDE DEF p, q
    <2>1. w \in 0 .. w /\ w + 1 \in 1 .. w + 1 /\ (w + 1) - 1 = w
      OBVIOUS
    <2>2. p[w] = q[w]
      BY <1>2
    <2>3. QED
      BY <1>1, <2>1, <2>2
  <1>4. QED
    BY <1>3 DEF Power

LEMMA PowerZero == Power(0) = 1
  BY PowersGrow DEF Power

\* A number that fits in half of w bytes either way has one digit left that holds its sign.
LEMMA SignedRange ==
  ASSUME NEW w \in Nat \ {0}, NEW n \in -(Power(w) \div 2) .. Power(w) \div 2 - 1
  PROVE  /\ n \in Int
         /\ Quotients(n, w)[w - 1] \in -128 .. 127
         /\ Quotients(n, w)[w] = IF Quotients(n, w)[w - 1] < 0 THEN -1 ELSE 0
  <1>1. PICK v \in Nat : w = v + 1
    OBVIOUS
  <1> DEFINE q == Quotients(n, w)
             p == Powers(v)
             T == {k \in Nat : k <= v => q[k] \in -(128 * p[v - k]) .. 128 * p[v - k] - 1}
  <1>2. n \in Int /\ n \in -(128 * p[v]) .. 128 * p[v] - 1
    <2>1. Power(w) = 256 * p[v] /\ p[v] \in Nat
      BY <1>1, PowerStep DEF Power
    <2>2. \A x, y \in Nat : y = 256 * x => y \div 2 = 128 * x
      OBVIOUS
    <2>3. Power(w) \div 2 = 128 * p[v] /\ Power(w) \in Nat
      <3> HIDE DEF p
      <3>1. 256 * p[v] \in Nat
        BY <2>1
      <3>2. QED
        BY <2>1, <2>2, <3>1
    <2> HIDE DEF p
    <2>4. QED
      BY <2>1, <2>3
  <1>3. /\ q \in [0 .. w -> Int] /\ q[0] = n
        /\ \A k \in 1 .. w : q[k] = q[k - 1] \div 256
    <2>1. w \in Nat
      OBVIOUS
    <2>2. n \in Int
      BY <1>2
    <2>3. Shrinks(q, n, w)
      <3> HIDE DEF q
      <3> QED
        BY <2>1, <2>2, QuotientsShrink DEF q
    <2>4. QED
      BY <2>3 DEF Shrinks
  <1>4. /\ p \in [0 .. v -> Nat \ {0}] /\ p[0] = 1
        /\ \A k \in 1 .. v : p[k] = 256 * p[k - 1]
    BY PowersGrow
  <1> HIDE DEF q, p
  <1>5. \A k \in Nat : k \in T
    <2>1. 0 \in T
      BY <1>2, <1>3
    <2>2. ASSUME NEW k \in Nat, k \in T PROVE k + 1 \in T
      <3>1. SUFFICES ASSUME k + 1 <= v
                     PROVE  q[k + 1] \in -(128 * p[v - (k + 1)]) .. 128 * p[v - (k + 1)] - 1
        OBVIOUS
      <3> DEFINE x == p[v - (k + 1)]
                 y == q[k]
      <3>2. v - (k + 1) \in 0 .. v /\ v - k \in 1 .. v /\ (v - k) - 1 = v - (k + 1) /\ k + 1 \in 1 .. w
        BY <3>1, <1>1
      <3>3. x \in Nat /\ p[v - k] = 256 * x
        BY <3>2, <1>4
      <3>4. y \in Int /\ q[k + 1] = y \div 256
        BY <3>2, <1>3
      <3>5. y \in -(128 * p[v - k]) .. 128 * p[v - k] - 1
        BY <2>2, <3>1
      <3> HIDE DEF x, y
      <3>6. -(128 * (256 * x)) <= y /\ y < 128 * (256 * x)
        BY <3>3, <3>4, <3>5
      <3>7. \A a \in Nat, b \in Int : -(128 * (256 * a)) <= b /\ b < 128 * (256 * a)
                                     => b \div 256 \in -(128 * a) .. 128 * a - 1
        OBVIOUS
      <3>8. y \div 256 \in -(128 * x) .. 128 * x - 1
        BY <3>3, <3>4, <3>6, <3>7
      <3>9. QED
        BY <3>8, <3>4 DEF x
    <2>3. QED
      <3> HIDE DEF T
      <3> QED
        BY <2>1, <2>2, Induct
  <1>6. q[v] \in -(128 * p[v - v]) .. 128 * p[v - v] - 1
    BY <1>5
  <1>7. w - 1 = v /\ v - v = 0 /\ q[v] \in -128 .. 127
    <2>1. w - 1 = v /\ v - v = 0
      BY <1>1
    <2>2. q[v] \in -(128 * 1) .. 128 * 1 - 1
      BY <2>1, <1>4, <1>6
    <2>3. QED
      BY <2>1, <2>2
  <1>8. q[w] = q[v] \div 256
    BY <1>3, <1>7
  <1>9. \A x \in -128 .. 127 : x \div 256 = IF x < 0 THEN -1 ELSE 0
    OBVIOUS
  <1>10. QED
    BY <1>2, <1>7, <1>8, <1>9 DEF q

\* The digits of a number are bytes.
LEMMA DigitsAreBytes ==
  ASSUME NEW w \in Nat, NEW n \in Int
  PROVE  /\ Digits(n, w) \in Seq(Byte) /\ Len(Digits(n, w)) = w
         /\ \A i \in 1 .. w : Digits(n, w)[i] = Quotients(n, w)[w - i] % 256
  <1> DEFINE q == Quotients(n, w)
  <1>1. q \in [0 .. w -> Int]
    BY QuotientsShrink DEF Shrinks
  <1> HIDE DEF q
  <1>2. \A i \in 1 .. w : w - i \in 0 .. w /\ q[w - i] \in Int
    BY <1>1
  <1>3. \A x \in Int : x % 256 \in Byte
    BY DEF Byte
  <1>4. [i \in 1 .. w |-> q[w - i] % 256] \in [1 .. w -> Byte]
    BY <1>2, <1>3
  <1>5. Digits(n, w) = [i \in 1 .. w |-> q[w - i] % 256]
    BY DEF Digits, q
  <1>6. QED
    BY <1>4, <1>5 DEF q

\* Flipping the sign bit changes the first byte.
LEMMA FlipsFirst ==
  ASSUME NEW raw \in Seq(Byte), raw # <<>>
  PROVE  /\ Flip(raw) \in Seq(Byte) /\ Len(Flip(raw)) = Len(raw)
         /\ Flip(raw)[1] = (raw[1] + 128) % 256
         /\ \A i \in 2 .. Len(raw) : Flip(raw)[i] = raw[i]
  <1> DEFINE e == (raw[1] + 128) % 256
  <1>1. 1 \in 1 .. Len(raw) /\ Len(raw) \in Nat
    OBVIOUS
  <1>2. raw[1] \in Byte
    BY <1>1
  <1>3. e \in Byte
    <2>1. \A b \in Byte : (b + 128) % 256 \in Byte
      BY DEF Byte
    <2>2. QED
      BY <1>2, <2>1
  <1>4. Flip(raw) = [raw EXCEPT ![1] = e]
    BY DEF Flip
  <1> HIDE DEF e
  <1>5. /\ [raw EXCEPT ![1] = e] \in Seq(Byte)
        /\ Len([raw EXCEPT ![1] = e]) = Len(raw)
        /\ \A j \in 1 .. Len(raw) : [raw EXCEPT ![1] = e][j] = IF j = 1 THEN e ELSE raw[j]
    BY <1>1, <1>3, ExceptSeq
  <1>6. \A i \in 2 .. Len(raw) : i \in 1 .. Len(raw) /\ i # 1
    OBVIOUS
  <1>7. QED
    BY <1>1, <1>4, <1>5, <1>6 DEF e

\* Flipping the sign bit changes the first byte only, and twice changes nothing.
LEMMA Flips ==
  ASSUME NEW raw \in Seq(Byte), raw # <<>>
  PROVE  /\ Flip(raw) \in Seq(Byte) /\ Len(Flip(raw)) = Len(raw)
         /\ Flip(raw)[1] = (raw[1] + 128) % 256
         /\ \A i \in 2 .. Len(raw) : Flip(raw)[i] = raw[i]
         /\ Flip(Flip(raw)) = raw
  <1>1. 1 \in 1 .. Len(raw) /\ raw[1] \in Byte
    OBVIOUS
  <1>2. /\ Flip(raw) \in Seq(Byte) /\ Len(Flip(raw)) = Len(raw)
        /\ Flip(raw)[1] = (raw[1] + 128) % 256
        /\ \A i \in 2 .. Len(raw) : Flip(raw)[i] = raw[i]
    BY <1>1, FlipsFirst
  <1>3. /\ Flip(Flip(raw)) \in Seq(Byte) /\ Len(Flip(Flip(raw))) = Len(raw)
        /\ Flip(Flip(raw))[1] = (Flip(raw)[1] + 128) % 256
        /\ \A i \in 2 .. Len(raw) : Flip(Flip(raw))[i] = Flip(raw)[i]
    BY <1>1, <1>2, FlipsFirst
  <1>4. \A b \in Byte : (((b + 128) % 256) + 128) % 256 = b
    <2>1. \A b \in 0 .. 127 : (b + 128) % 256 = b + 128
      OBVIOUS
    <2>2. \A b \in 128 .. 255 : (b + 128) % 256 = b - 128
      OBVIOUS
    <2>3. ASSUME NEW b \in Byte PROVE (((b + 128) % 256) + 128) % 256 = b
      <3>1. CASE b \in 0 .. 127
        BY <3>1, <2>1, <2>2
      <3>2. CASE b \in 128 .. 255
        BY <3>2, <2>1, <2>2
      <3>3. QED
        BY <3>1, <3>2 DEF Byte
    <2>4. QED
      BY <2>3
  <1>5. \A i \in 1 .. Len(raw) : Flip(Flip(raw))[i] = raw[i]
    BY <1>1, <1>2, <1>3, <1>4
  <1>6. Flip(Flip(raw)) = raw
    BY <1>3, <1>5, SeqEqual
  <1>7. QED
    BY <1>2, <1>6

\* x is before y at the first byte in which they differ.
Differ(x, y) ==
  \E i \in 1 .. Len(x) : i <= Len(y) /\ x[i] < y[i] /\ \A j \in 1 .. i - 1 : x[j] = y[j]

\* The number as it is written in a key, by the quotients.
LEMMA FlippedDigits ==
  ASSUME NEW w \in Nat \ {0}, NEW n \in -(Power(w) \div 2) .. Power(w) \div 2 - 1
  PROVE  /\ Flip(Digits(n, w)) \in Seq(Byte) /\ Len(Flip(Digits(n, w))) = w
         /\ Flip(Digits(n, w))[1] = Quotients(n, w)[w - 1] + 128
         /\ \A i \in 2 .. w : Flip(Digits(n, w))[i] = Quotients(n, w)[w - i] % 256
  <1> DEFINE raw == Digits(n, w)
             q == Quotients(n, w)
  <1>1. w \in Nat /\ n \in Int /\ q[w - 1] \in -128 .. 127
    BY SignedRange
  <1>2. raw \in Seq(Byte) /\ Len(raw) = w /\ \A i \in 1 .. w : raw[i] = q[w - i] % 256
    BY <1>1, DigitsAreBytes
  <1> HIDE DEF raw, q
  <1>3. raw # <<>> /\ raw[1] = q[w - 1] % 256
    BY <1>1, <1>2
  <1>4. \A x \in -128 .. 127 : ((x % 256) + 128) % 256 = x + 128
    OBVIOUS
  <1>5. /\ Flip(raw) \in Seq(Byte) /\ Len(Flip(raw)) = w
        /\ Flip(raw)[1] = (raw[1] + 128) % 256
        /\ \A i \in 2 .. w : Flip(raw)[i] = raw[i]
    BY <1>2, <1>3, Flips
  <1>6. Flip(raw)[1] = q[w - 1] + 128
    <2>1. ((q[w - 1] % 256) + 128) % 256 = q[w - 1] + 128
      BY <1>1, <1>4, Zenon
    <2>2. QED
      BY <2>1, <1>3, <1>5, Zenon
  <1>7. \A i \in 2 .. w : Flip(raw)[i] = q[w - i] % 256
    BY <1>2, <1>5
  <1>8. QED
    BY <1>5, <1>6, <1>7 DEF raw, q

\* The smaller of two numbers has the smaller bytes.
LEMMA SmallerDiffers ==
  ASSUME NEW w \in Nat \ {0},
         NEW m \in -(Power(w) \div 2) .. Power(w) \div 2 - 1,
         NEW n \in -(Power(w) \div 2) .. Power(w) \div 2 - 1,
         m < n
  PROVE  Differ(Flip(Digits(m, w)), Flip(Digits(n, w)))
  <1> DEFINE x == Flip(Digits(m, w))
             y == Flip(Digits(n, w))
             p == Quotients(m, w)
             q == Quotients(n, w)
  <1>1. /\ x \in Seq(Byte) /\ Len(x) = w /\ x[1] = p[w - 1] + 128
        /\ \A i \in 2 .. w : x[i] = p[w - i] % 256
    BY FlippedDigits
  <1>2. /\ y \in Seq(Byte) /\ Len(y) = w /\ y[1] = q[w - 1] + 128
        /\ \A i \in 2 .. w : y[i] = q[w - i] % 256
    BY FlippedDigits
  <1>3. m \in Int /\ n \in Int
    BY SignedRange
  <1>4. Shrinks(p, m, w)
    BY <1>3, QuotientsShrink
  <1>5. Shrinks(q, n, w)
    BY <1>3, QuotientsShrink
  <1> HIDE DEF x, y, p, q
  <1>6. /\ p \in [0 .. w -> Int] /\ p[0] = m /\ \A k \in 1 .. w : p[k] = p[k - 1] \div 256
        /\ q \in [0 .. w -> Int] /\ q[0] = n /\ \A k \in 1 .. w : q[k] = q[k - 1] \div 256
    BY <1>4, <1>5 DEF Shrinks
  <1> DEFINE T == {k \in Nat : k <= w => p[k] <= q[k]}
             Alike == {k \in 1 .. w : p[k] = q[k]}
  <1>7. \A k \in Nat : k \in T
    <2>1. 0 \in T
      BY <1>6, <1>3
    <2>2. ASSUME NEW k \in Nat, k \in T PROVE k + 1 \in T
      <3>1. SUFFICES ASSUME k + 1 <= w PROVE p[k + 1] <= q[k + 1]
        OBVIOUS
      <3>2. p[k + 1] = p[k] \div 256 /\ q[k + 1] = q[k] \div 256 /\ p[k] \in Int /\ q[k] \in Int
        BY <3>1, <1>6, SMTT(30)
      <3>3. p[k] <= q[k]
        BY <3>1, <2>2
      <3>4. \A a, b \in Int : a <= b => a \div 256 <= b \div 256
        OBVIOUS
      <3>5. QED
        BY <3>2, <3>3, <3>4
    <2>3. QED
      <3> HIDE DEF T
      <3> QED
        BY <2>1, <2>2, Induct
  <1>8. \A k \in 0 .. w : p[k] <= q[k] /\ p[k] \in Int /\ q[k] \in Int
    BY <1>6, <1>7, SMTT(30)
  <1>9. CASE p[w - 1] # q[w - 1]
    BY <1>1, <1>2, <1>8, <1>9 DEF Differ, x, y
  <1>10. CASE p[w - 1] = q[w - 1]
    <2>1. w - 1 \in Alike
      BY <1>10, <1>6, <1>3
    <2>2. PICK k \in Alike : \A l \in Alike : k <= l
      <3>1. Alike \in SUBSET Nat
        OBVIOUS
      <3> HIDE DEF Alike
      <3>2. QED
        BY <2>1, <3>1, Least
    <2>3. k \in 1 .. w - 1
      BY <2>1, <2>2
    <2>4. p[k - 1] # q[k - 1]
      <3>1. CASE k = 1
        BY <3>1, <1>6, <1>3
      <3>2. CASE k - 1 \in 1 .. w
        BY <3>2, <2>2, <2>3
      <3>3. QED
        BY <3>1, <3>2, <2>3
    <2> DEFINE i == w - k + 1
               E == {l \in Nat : k + l <= w => p[k + l] = q[k + l]}
    <2>5. \A l \in Nat : l \in E
      <3>1. 0 \in E
        BY <2>2
      <3>2. ASSUME NEW l \in Nat, l \in E PROVE l + 1 \in E
        <4>1. SUFFICES ASSUME k + (l + 1) <= w PROVE p[k + (l + 1)] = q[k + (l + 1)]
          OBVIOUS
        <4>2. k + (l + 1) \in 1 .. w /\ (k + (l + 1)) - 1 = k + l /\ k + l <= w
          BY <4>1, <2>3
        <4>3. QED
          BY <4>2, <3>2, <1>6
      <3>3. QED
        <4> HIDE DEF E
        <4> QED
          BY <3>1, <3>2, Induct
    <2>6. i \in 2 .. w /\ w - i = k - 1 /\ k - 1 \in 0 .. w
      BY <2>3
    <2>7. x[i] < y[i]
      <3>1. x[i] = p[k - 1] % 256 /\ y[i] = q[k - 1] % 256
        BY <2>6, <1>1, <1>2
      <3>2. p[k - 1] \div 256 = q[k - 1] \div 256 /\ p[k - 1] < q[k - 1]
        <4>1. p[k] = q[k] /\ k \in 1 .. w
          BY <2>2
        <4>2. p[k] = p[k - 1] \div 256 /\ q[k] = q[k - 1] \div 256
          BY <4>1, <1>6
        <4>3. p[k - 1] <= q[k - 1] /\ p[k - 1] \in Int /\ q[k - 1] \in Int
          BY <2>6, <1>8
        <4>4. QED
          BY <4>1, <4>2, <4>3, <2>4
      <3>3. \A a, b \in Int : a \div 256 = b \div 256 /\ a < b => a % 256 < b % 256
        OBVIOUS
      <3>4. QED
        BY <3>1, <3>2, <3>3, <2>6, <1>8
    <2>8. ASSUME NEW j \in 1 .. i - 1 PROVE x[j] = y[j]
      <3>1. w - j \in Nat /\ (w - j) - k \in Nat /\ k + ((w - j) - k) = w - j /\ w - j <= w
        BY <2>3
      <3>2. p[w - j] = q[w - j]
        BY <3>1, <2>5
      <3>3. j = 1 \/ j \in 2 .. w
        BY <2>6
      <3>4. QED
        BY <3>2, <3>3, <1>1, <1>2
    <2>9. i \in 1 .. Len(x) /\ i <= Len(y)
      BY <2>6, <1>1, <1>2
    <2> HIDE DEF i
    <2>10. QED
      BY <2>7, <2>8, <2>9 DEF Differ, x, y
  <1>11. QED
    BY <1>9, <1>10

-----------------------------------------------------------------------------
(* Sequences put together *)

\* What seqs are after each other, up to each of them.
Joins(f, seqs) == f[0] = <<>> /\ \A k \in 1 .. Len(seqs) : f[k] = f[k - 1] \o seqs[k]

\* FlattenSeq puts its sequences after each other.
LEMMA Flattened ==
  ASSUME NEW S, NEW seqs \in Seq(Seq(S))
  PROVE  \E f \in [0 .. Len(seqs) -> Seq(S)] : Joins(f, seqs) /\ FlattenSeq(seqs) = f[Len(seqs)]
  <1> DEFINE n == Len(seqs)
             V == Seq(S)
             first == <<>>
             step == [x \in V \X Nat |-> IF x[2] \in 1 .. n THEN x[1] \o seqs[x[2]] ELSE <<>>]
  <1>1. step \in [V \X Nat -> V] /\ first \in V /\ n \in Nat
    <2>1. \A k \in 1 .. n : seqs[k] \in V
      OBVIOUS
    <2>2. \A s, t \in V : s \o t \in V
      OBVIOUS
    <2>3. ASSUME NEW x \in V \X Nat
          PROVE  (IF x[2] \in 1 .. n THEN x[1] \o seqs[x[2]] ELSE <<>>) \in V
      <3>1. <<>> \in V /\ x[1] \in V
        OBVIOUS
      <3> HIDE DEF V, n
      <3>2. QED
        BY <3>1, <2>1, <2>2
    <2>4. QED
      BY <2>3
  <1>2. PICK f \in [0 .. n -> V] : Recurs(f, n, first, step)
    <2> HIDE DEF step, n, first, V
    <2> QED
      BY <1>1, Recursion, Zenon
  <1>3. f[0] = <<>> /\ \A k \in 1 .. n : f[k] = f[k - 1] \o seqs[k]
    <2>1. \A k \in 1 .. n : f[k - 1] \in V /\ k \in Nat
      <3> HIDE DEF V, n, step
      <3> QED
        BY <1>1, <1>2
    <2>2. \A x \in V, k \in 1 .. n : step[<<x, k>>] = x \o seqs[k]
      <3> HIDE DEF V, n
      <3>1. ASSUME NEW x \in V, NEW k \in 1 .. n PROVE step[<<x, k>>] = x \o seqs[k]
        <4>1. <<x, k>> \in V \X Nat /\ <<x, k>>[1] = x /\ <<x, k>>[2] = k
          BY <1>1
        <4>2. step[<<x, k>>] = IF <<x, k>>[2] \in 1 .. n THEN <<x, k>>[1] \o seqs[<<x, k>>[2]] ELSE <<>>
          BY <4>1, Zenon
        <4>3. QED
          BY <4>1, <4>2, Zenon
      <3>2. QED
        BY <3>1
    <2>3. f[0] = first /\ \A k \in 1 .. n : f[k] = step[<<f[k - 1], k>>]
      BY <1>2 DEF Recurs
    <2> HIDE DEF step, V
    <2>4. QED
      BY <2>1, <2>2, <2>3, Zenon
  <1>4. Joins(f, seqs)
    BY <1>3 DEF Joins
  <1>5. \A k \in 1 .. n : seqs[k] \in V /\ <<>> \o seqs[k] = seqs[k]
    OBVIOUS
  <1>6. FlattenSeq(seqs) = f[n]
    <2>1. CASE n = 0
      BY <2>1, <1>3 DEF FlattenSeq
    <2>2. CASE n # 0
      <3> DEFINE h == [i \in 1 .. n |-> f[i]]
      <3> HIDE DEF V, step
      <3>1. ASSUME NEW i \in 1 .. n PROVE f[i] = IF i = 1 THEN seqs[i] ELSE h[i - 1] \o seqs[i]
        <4>1. CASE i = 1
          <5>1. f[i] = f[i - 1] \o seqs[i] /\ <<>> \o seqs[i] = seqs[i]
            BY <1>3, <1>5, Zenon
          <5>2. i - 1 = 0
            BY <4>1
          <5>3. QED
            BY <5>1, <5>2, <4>1, <1>3, Zenon
        <4>2. CASE i - 1 \in 1 .. n /\ i # 1
          BY <4>2, <1>3
        <4>3. QED
          BY <4>1, <4>2
      <3>2. h = [i \in 1 .. n |-> IF i = 1 THEN seqs[i] ELSE h[i - 1] \o seqs[i]]
        BY <3>1
      <3>3. \E g : g = [i \in 1 .. n |-> IF i = 1 THEN seqs[i] ELSE g[i - 1] \o seqs[i]]
        BY <3>2, Zenon
      <3>4. \E g : /\ g = [i \in 1 .. n |-> IF i = 1 THEN seqs[i] ELSE g[i - 1] \o seqs[i]]
                   /\ FlattenSeq(seqs) = g[n]
        BY <3>3, <2>2, Zenon DEF FlattenSeq
      <3>5. PICK g : /\ g = [i \in 1 .. n |-> IF i = 1 THEN seqs[i] ELSE g[i - 1] \o seqs[i]]
                     /\ FlattenSeq(seqs) = g[n]
        BY <3>4
      <3>6. \A i \in 1 .. n : g[i] = IF i = 1 THEN seqs[i] ELSE g[i - 1] \o seqs[i]
        BY <3>5
      <3> DEFINE T == {k \in Nat : k + 1 <= n => g[k + 1] = f[k + 1]}
      <3>7. \A k \in Nat : k \in T
        <4>1. 0 \in T
          <5> HIDE DEF n, h
          <5>1. 1 \in 1 .. n /\ g[1] = seqs[1] /\ f[1] = seqs[1]
            BY <2>2, <1>1, <3>1, <3>6
          <5>2. QED
            BY <5>1
        <4>2. ASSUME NEW k \in Nat, k \in T PROVE k + 1 \in T
          <5>1. SUFFICES ASSUME (k + 1) + 1 <= n PROVE g[(k + 1) + 1] = f[(k + 1) + 1]
            OBVIOUS
          <5>2. /\ (k + 1) + 1 \in 1 .. n /\ (k + 1) + 1 # 1 /\ ((k + 1) + 1) - 1 = k + 1
                /\ g[k + 1] = f[k + 1]
            BY <5>1, <4>2, <1>1
          <5>3. g[(k + 1) + 1] = g[k + 1] \o seqs[(k + 1) + 1]
            BY <5>2, <3>6
          <5>4. f[(k + 1) + 1] = f[k + 1] \o seqs[(k + 1) + 1]
            BY <5>2, <1>3
          <5>5. QED
            BY <5>2, <5>3, <5>4
        <4>3. QED
          <5> HIDE DEF T
          <5> QED
            BY <4>1, <4>2, Induct
      <3>8. n - 1 \in Nat /\ (n - 1) + 1 = n
        BY <2>2, <1>1
      <3>9. g[n] = f[n]
        <4>1. (n - 1) + 1 <= n
          BY <3>8, <1>1
        <4> HIDE DEF n
        <4>2. g[(n - 1) + 1] = f[(n - 1) + 1]
          BY <3>7, <3>8, <4>1
        <4>3. QED
          BY <4>2, <3>8
      <3>10. QED
        BY <3>5, <3>9
    <2>3. QED
      BY <2>1, <2>2
  <1>7. QED
    BY <1>4, <1>6

\* u begins with s.
Begins(s, u) == Len(s) <= Len(u) /\ \A t \in 1 .. Len(s) : u[t] = s[t]

\* What is put together only grows at its end.
LEMMA Grown ==
  ASSUME NEW S, NEW seqs \in Seq(Seq(S)), NEW f \in [0 .. Len(seqs) -> Seq(S)], Joins(f, seqs),
         NEW i \in 0 .. Len(seqs), NEW j \in i .. Len(seqs)
  PROVE  Begins(f[i], f[j])
  <1> DEFINE n == Len(seqs)
             T == {d \in Nat : i + d <= n => Begins(f[i], f[i + d])}
  <1>1. n \in Nat /\ (\A k \in 1 .. n : seqs[k] \in Seq(S)) /\ \A k \in 0 .. n : f[k] \in Seq(S)
    <2>1. n \in Nat /\ \A k \in 1 .. n : seqs[k] \in Seq(S)
      OBVIOUS
    <2>2. \A k \in 0 .. n : f[k] \in Seq(S)
      OBVIOUS
    <2>3. QED
      BY <2>1, <2>2
  <1>2. 0 \in T
    <2>1. \A s : Begins(s, s) \/ ~(Len(s) <= Len(s))
      BY DEF Begins
    <2>2. f[i] \in Seq(S) /\ i + 0 = i
      <3>1. i \in 0 .. n
        OBVIOUS
      <3> HIDE DEF n
      <3>2. QED
        BY <3>1, <1>1
    <2>3. QED
      BY <2>1, <2>2
  <1>3. ASSUME NEW d \in Nat, d \in T PROVE d + 1 \in T
    <2>1. SUFFICES ASSUME i + (d + 1) <= n PROVE Begins(f[i], f[i + (d + 1)])
      OBVIOUS
    <2>2. /\ i + d \in 0 .. n /\ i + (d + 1) \in 1 .. n /\ (i + (d + 1)) - 1 = i + d /\ i + d <= n
      BY <2>1
    <2> DEFINE u == f[i + d]
               s == f[i]
               v == seqs[i + (d + 1)]
    <2>3. f[i + (d + 1)] = u \o v
      BY <2>2 DEF Joins
    <2>4. u \in Seq(S) /\ v \in Seq(S) /\ s \in Seq(S) /\ Begins(s, u)
      <3>1. i \in 0 .. n
        OBVIOUS
      <3> HIDE DEF n
      <3>2. QED
        BY <3>1, <2>2, <1>1, <1>3
    <2> HIDE DEF u, s, v
    <2>5. Begins(s, u \o v)
      BY <2>4 DEF Begins
    <2>6. QED
      BY <2>3, <2>5 DEF s
  <1>4. \A d \in Nat : d \in T
    <2> HIDE DEF T
    <2> QED
      BY <1>2, <1>3, Induct
  <1>5. j - i \in Nat /\ i + (j - i) = j /\ i + (j - i) <= n
    OBVIOUS
  <1>6. Begins(f[i], f[i + (j - i)])
    <2> HIDE DEF n
    <2> QED
      BY <1>4, <1>5
  <1>7. QED
    BY <1>5, <1>6

\* A text as it is escaped, up to each of its bytes.
Escapes(f, raw) ==
  /\ f \in [0 .. Len(raw) -> Seq(Byte)] /\ f[0] = <<>>
  /\ \A k \in 1 .. Len(raw) : f[k] = f[k - 1] \o Escaped(raw[k])
  /\ \A k \in 0 .. Len(raw) : Begins(f[k], f[Len(raw)])

LEMMA VarBytesEscapes ==
  ASSUME NEW raw \in Seq(Byte)
  PROVE  \E f : Escapes(f, raw) /\ VarBytes(raw) = {f[Len(raw)] \o <<0, 1>>}
  <1> DEFINE n == Len(raw)
             seqs == [i \in DOMAIN raw |-> Escaped(raw[i])]
  <1>1. \A b \in Byte : Escaped(b) \in Seq(Byte)
    <2>1. \A b \in Byte : <<b>> \in Seq(Byte)
      OBVIOUS
    <2>2. <<0, 255>> \in Seq(Byte)
      BY DEF Byte
    <2>3. QED
      BY <2>1, <2>2, Zenon DEF Escaped
  <1>2. \A i \in 1 .. n : raw[i] \in Byte /\ Escaped(raw[i]) \in Seq(Byte)
    BY <1>1
  <1>3. seqs \in Seq(Seq(Byte)) /\ Len(seqs) = n /\ \A i \in 1 .. n : seqs[i] = Escaped(raw[i])
    BY <1>2
  <1>4. PICK f \in [0 .. Len(seqs) -> Seq(Byte)] : Joins(f, seqs) /\ FlattenSeq(seqs) = f[Len(seqs)]
    <2> HIDE DEF seqs
    <2> QED
      BY <1>3, Flattened
  <1>5. VarBytes(raw) = {f[n] \o <<0, 1>>}
    BY <1>3, <1>4 DEF VarBytes
  <1> HIDE DEF seqs
  <1>6. f \in [0 .. n -> Seq(Byte)] /\ f[0] = <<>> /\ \A k \in 1 .. n : f[k] = f[k - 1] \o Escaped(raw[k])
    BY <1>3, <1>4 DEF Joins
  <1>7. ASSUME NEW k \in 0 .. n
        PROVE  Begins(f[k], f[n])
    <2>1. k \in 0 .. Len(seqs) /\ n \in k .. Len(seqs)
      BY <1>3
    <2> HIDE DEF n
    <2>2. QED
      BY <2>1, <1>3, <1>4, Grown
  <1>8. QED
    BY <1>5, <1>6, <1>7 DEF Escapes

\* e stands in whole after its first bytes.
Stands(whole, at, e) == at + Len(e) <= Len(whole) /\ \A t \in 1 .. Len(e) : whole[at + t] = e[t]

\* Where each byte stands once it is escaped.
LEMMA EscapeStands ==
  ASSUME NEW raw \in Seq(Byte), NEW f, Escapes(f, raw), NEW k \in 1 .. Len(raw)
  PROVE  /\ Len(f[k]) = Len(f[k - 1]) + Len(Escaped(raw[k]))
         /\ Stands(f[Len(raw)], Len(f[k - 1]), Escaped(raw[k]))
  <1> DEFINE n == Len(raw)
             e == Escaped(raw[k])
             u == f[k - 1]
             v == f[n]
  <1>1. /\ k \in 0 .. n /\ k - 1 \in 0 .. n /\ n \in 0 .. n
        /\ f \in [0 .. n -> Seq(Byte)] /\ Begins(f[k], v) /\ f[k] = u \o e
    <2>1. k \in 0 .. n /\ k - 1 \in 0 .. n /\ n \in 0 .. n
      OBVIOUS
    <2> HIDE DEF n
    <2>2. QED
      BY <2>1 DEF Escapes, n
  <1>2. u \in Seq(Byte) /\ v \in Seq(Byte)
    BY <1>1
  <1>3. e \in Seq(Byte)
    <2>1. \A b \in Byte : <<b>> \in Seq(Byte)
      OBVIOUS
    <2>2. <<0, 255>> \in Seq(Byte)
      BY DEF Byte
    <2>3. raw[k] \in Byte
      OBVIOUS
    <2>4. QED
      BY <2>1, <2>2, <2>3, Zenon DEF Escaped
  <1> HIDE DEF u, v, e, n
  <1>4. Len(f[k]) = Len(u) + Len(e) /\ Len(f[k]) <= Len(v)
    BY <1>1, <1>2, <1>3 DEF Begins
  <1>5. ASSUME NEW t \in 1 .. Len(e) PROVE v[Len(u) + t] = e[t]
    <2>1. Len(u) \in Nat /\ Len(e) \in Nat
      BY <1>2, <1>3
    <2>2. Len(u) + t \in 1 .. Len(f[k])
      BY <2>1, <1>4
    <2>3. v[Len(u) + t] = (u \o e)[Len(u) + t]
      BY <2>2, <1>1 DEF Begins
    <2>4. (u \o e)[Len(u) + t] = e[t]
      BY <1>2, <1>3, <2>1
    <2>5. QED
      BY <2>3, <2>4
  <1>6. QED
    BY <1>4, <1>5 DEF u, v, e, n, Stands

\* A byte that is escaped is itself, and 255 after it when it is zero.
LEMMA EscapedByte ==
  ASSUME NEW whole \in Seq(Byte), NEW at \in Nat, NEW d \in Byte, Stands(whole, at, Escaped(d))
  PROVE  /\ at + 1 <= Len(whole) /\ whole[at + 1] = d
         /\ d = 0 => at + 2 <= Len(whole) /\ whole[at + 2] = 255
         /\ Len(Escaped(d)) = IF d = 0 THEN 2 ELSE 1
  <1>1. CASE d = 0
    <2> DEFINE e == Escaped(d)
    <2>1. Len(e) = 2 /\ e[1] = 0 /\ e[2] = 255
      BY <1>1 DEF Escaped
    <2> HIDE DEF e
    <2>2. at + 2 <= Len(whole) /\ whole[at + 1] = 0 /\ whole[at + 2] = 255
      BY <2>1 DEF Stands, e
    <2>3. QED
      BY <1>1, <2>1, <2>2 DEF e
  <1>2. CASE d # 0
    BY <1>2 DEF Escaped, Stands
  <1>3. QED
    BY <1>1, <1>2

\* Texts are in the order of their bytes as they are escaped.
LEMMA VarBytesInOrder ==
  ASSUME NEW a \in Seq(Byte), NEW b \in Seq(Byte), Before(a, b),
         NEW x \in VarBytes(a), NEW y \in VarBytes(b)
  PROVE  Differ(x, y)
  <1>1. PICK f : Escapes(f, a) /\ VarBytes(a) = {f[Len(a)] \o <<0, 1>>}
    BY VarBytesEscapes
  <1>2. PICK g : Escapes(g, b) /\ VarBytes(b) = {g[Len(b)] \o <<0, 1>>}
    BY VarBytesEscapes
  <1>3. PICK n \in 0 .. Len(a) :
          /\ n < Len(b) /\ SubSeq(a, 1, n) = SubSeq(b, 1, n)
          /\ n = Len(a) \/ a[n + 1] < b[n + 1]
    BY DEF Before
  <1>4. ASSUME NEW k \in 1 .. n PROVE a[k] = b[k]
    BY <1>3
  <1> DEFINE T == {k \in Nat : k <= n => f[k] = g[k]}
             v == f[Len(a)]
             w == g[Len(b)]
             L == Len(f[n])
  <1>5. \A k \in Nat : k \in T
    <2>1. 0 \in T
      BY <1>1, <1>2 DEF Escapes
    <2>2. ASSUME NEW k \in Nat, k \in T PROVE k + 1 \in T
      <3>1. SUFFICES ASSUME k + 1 <= n PROVE f[k + 1] = g[k + 1]
        OBVIOUS
      <3>2. /\ k + 1 \in 1 .. Len(a) /\ k + 1 \in 1 .. Len(b) /\ k + 1 \in 1 .. n
            /\ (k + 1) - 1 = k /\ f[k] = g[k]
        BY <3>1, <2>2, <1>3
      <3>3. f[k + 1] = f[k] \o Escaped(a[k + 1]) /\ g[k + 1] = g[k] \o Escaped(b[k + 1])
        BY <3>2, <1>1, <1>2 DEF Escapes
      <3>4. QED
        BY <3>2, <3>3, <1>4
    <2>3. QED
      <3> HIDE DEF T
      <3> QED
        BY <2>1, <2>2, Induct
  <1>6. /\ v \in Seq(Byte) /\ w \in Seq(Byte) /\ f[n] \in Seq(Byte) /\ f[n] = g[n]
        /\ Begins(f[n], v) /\ Begins(f[n], w)
    <2>1. n \in 0 .. Len(a) /\ n \in 0 .. Len(b) /\ Len(a) \in 0 .. Len(a) /\ Len(b) \in 0 .. Len(b)
      BY <1>3
    <2>2. f[n] = g[n]
      BY <1>5
    <2>3. QED
      BY <2>1, <2>2, <1>1, <1>2 DEF Escapes
  <1>7. x = v \o <<0, 1>> /\ y = w \o <<0, 1>>
    BY <1>1, <1>2
  <1> HIDE DEF v, w, T, L
  <1>8. /\ Len(x) = Len(v) + 2 /\ Len(y) = Len(w) + 2 /\ Len(v) \in Nat /\ Len(w) \in Nat
        /\ L \in Nat /\ L <= Len(v) /\ L <= Len(w)
        /\ (\A t \in 1 .. Len(v) : x[t] = v[t]) /\ (\A t \in 1 .. Len(w) : y[t] = w[t])
        /\ x[Len(v) + 1] = 0 /\ x[Len(v) + 2] = 1
    BY <1>6, <1>7 DEF Byte, Begins, L
  <1>9. \A t \in 1 .. L : x[t] = y[t]
    BY <1>6, <1>8 DEF Begins, L
  <1> DEFINE d == b[n + 1]
  <1>10. d \in Byte /\ Stands(w, L, Escaped(d))
    <2>1. n + 1 \in 1 .. Len(b) /\ (n + 1) - 1 = n
      BY <1>3
    <2>2. Stands(w, Len(g[n]), Escaped(d))
      BY <2>1, <1>2, EscapeStands DEF w
    <2>3. QED
      BY <2>1, <2>2, <1>6 DEF L
  <1>11. /\ L + 1 <= Len(w) /\ (d = 0 => L + 2 <= Len(w))
         /\ w[L + 1] = d /\ (d = 0 => w[L + 2] = 255)
    <2> HIDE DEF d
    <2> QED
      BY <1>6, <1>8, <1>10, EscapedByte
  <1>12. d \in Nat
    <2> HIDE DEF d
    <2> QED
      BY <1>10 DEF Byte
  <1>13. y[L + 1] = d /\ (d = 0 => y[L + 2] = 255)
    BY <1>8, <1>11
  <1>14. SUFFICES \E t \in {L + 1, L + 2} :
            /\ t <= Len(x) /\ t <= Len(y) /\ x[t] < y[t] /\ (t = L + 2 => x[L + 1] = y[L + 1])
    <2>1. PICK t \in {L + 1, L + 2} :
            /\ t <= Len(x) /\ t <= Len(y) /\ x[t] < y[t] /\ (t = L + 2 => x[L + 1] = y[L + 1])
      BY <1>14
    <2>2. \A j \in 1 .. t - 1 : x[j] = y[j]
      BY <2>1, <1>8, <1>9
    <2>3. t \in 1 .. Len(x)
      BY <2>1, <1>8
    <2>4. QED
      BY <2>1, <2>2, <2>3 DEF Differ
  <1>15. CASE n = Len(a)
    <2>1. L = Len(v)
      BY <1>15 DEF L, v
    <2>2. x[L + 1] = 0 /\ x[L + 2] = 1
      BY <2>1, <1>8
    <2>3. CASE d = 0
      BY <2>1, <2>2, <2>3, <1>8, <1>11, <1>13
    <2>4. CASE d # 0
      BY <2>4, <1>12, <2>1, <2>2, <1>8, <1>11, <1>13
    <2>5. QED
      BY <2>3, <2>4
  <1>16. CASE n # Len(a)
    <2> DEFINE c == a[n + 1]
    <2>1. n + 1 \in 1 .. Len(a) /\ (n + 1) - 1 = n /\ c < d
      BY <1>3, <1>16
    <2>2. Stands(v, L, Escaped(c)) /\ c \in Byte
      <3>1. Stands(v, Len(f[n]), Escaped(c))
        BY <2>1, <1>1, EscapeStands DEF v
      <3>2. QED
        BY <2>1, <3>1 DEF L
    <2>3. L + 1 <= Len(v) /\ v[L + 1] = c
      <3> HIDE DEF c
      <3> QED
        BY <2>2, <1>6, <1>8, EscapedByte
    <2>4. x[L + 1] = c
      BY <2>3, <1>8
    <2>5. QED
      BY <2>1, <2>3, <2>4, <1>8, <1>11, <1>13
  <1>17. QED
    BY <1>15, <1>16

-----------------------------------------------------------------------------
(* Keys *)

\* What is written of an id after its tag.
IsBody(id, body) ==
  \/ /\ id[1] = ID_INTEGER /\ id[2] \in -(Power(W64) \div 2) .. Power(W64) \div 2 - 1
     /\ body = Flip(Digits(id[2], W64))
  \/ id[1] \in {ID_TEXT, ID_BYTES} /\ id[2] \in Seq(Byte) /\ body \in VarBytes(id[2])
  \/ id[1] = ID_UUID /\ id[2] \in Seq(Byte) /\ Len(id[2]) = W128 /\ body = id[2]

\* An escaped text is bytes.
LEMMA VarBytesAreBytes ==
  ASSUME NEW raw \in Seq(Byte), NEW body \in VarBytes(raw)
  PROVE  body \in Seq(Byte)
  <1>1. PICK f : Escapes(f, raw) /\ VarBytes(raw) = {f[Len(raw)] \o <<0, 1>>}
    BY VarBytesEscapes
  <1>2. f[Len(raw)] \in Seq(Byte)
    <2>1. Len(raw) \in 0 .. Len(raw)
      OBVIOUS
    <2>2. QED
      BY <2>1, <1>1 DEF Escapes
  <1>3. <<0, 1>> \in Seq(Byte)
    BY DEF Byte
  <1>4. \A x, y \in Seq(Byte) : x \o y \in Seq(Byte)
    OBVIOUS
  <1>5. body = f[Len(raw)] \o <<0, 1>>
    BY <1>1
  <1>6. QED
    BY <1>2, <1>3, <1>4, <1>5, Zenon

\* A text of one byte to a character is its bytes.
LEMMA TextsAreBytes == Ascii \subseteq Seq(Byte)
  BY DEF Byte, Ascii

\* The bytes of an id are its tag and what is written of it.
LEMMA KeyIsTagged ==
  ASSUME NEW id \in Ids, NEW raw \in RecordId(id)
  PROVE  \E body \in Seq(Byte) : raw = <<id[1]>> \o body /\ IsBody(id, body)
  <1> DEFINE half == Power(W64) \div 2
  <1> USE DEF ID_INTEGER, ID_TEXT, ID_BYTES, ID_UUID
  <1>1. CASE id[1] = ID_INTEGER
    <2>1. RecordId(id) = Cat({<<id[1]>>}, I64(id[2]))
      BY <1>1 DEF RecordId, Tagged
    <2>2. PICK body \in I64(id[2]) : raw = <<id[1]>> \o body
      BY <2>1 DEF Cat
    <2>3. id[2] \in -half .. half - 1 /\ body = Flip(Digits(id[2], W64))
      BY <2>2 DEF I64, Checked
    <2>4. W64 \in Nat \ {0}
      BY CodecAssumption
    <2>5. body \in Seq(Byte)
      BY <2>3, <2>4, FlippedDigits
    <2>6. QED
      BY <1>1, <2>2, <2>3, <2>5 DEF IsBody
  <1>2. CASE id[1] \in {ID_TEXT, ID_BYTES}
    <2>1. RecordId(id) = Cat({<<id[1]>>}, VarBytes(id[2]))
      BY <1>2 DEF RecordId, Tagged
    <2>2. PICK body \in VarBytes(id[2]) : raw = <<id[1]>> \o body
      BY <2>1 DEF Cat
    <2>3. id[2] \in Seq(Byte)
      BY <1>2, TextsAreBytes DEF Ids
    <2>4. body \in Seq(Byte)
      BY <2>3, VarBytesAreBytes
    <2>5. QED
      BY <1>2, <2>2, <2>3, <2>4 DEF IsBody
  <1>3. CASE id[1] = ID_UUID
    <2>1. RecordId(id) = Cat({<<id[1]>>}, Fixed(id[2], W128))
      BY <1>3 DEF RecordId, Tagged
    <2>2. PICK body \in Fixed(id[2], W128) : raw = <<id[1]>> \o body
      BY <2>1 DEF Cat
    <2>3. body = id[2] /\ Len(id[2]) = W128 /\ id[2] \in Seq(Byte)
      BY <1>3, <2>2 DEF Fixed, Ids
    <2>4. QED
      BY <1>3, <2>2, <2>3 DEF IsBody
  <1>4. QED
    BY <1>1, <1>2, <1>3 DEF Ids

\* Bytes that differ after a tag are in order with it.
LEMMA DifferIsBefore ==
  ASSUME NEW x \in Seq(Byte), NEW y \in Seq(Byte), Differ(x, y), NEW tag \in Byte
  PROVE  Before(<<tag>> \o x, <<tag>> \o y)
  <1> DEFINE a == <<tag>> \o x
             b == <<tag>> \o y
  <1>1. PICK i \in 1 .. Len(x) : i <= Len(y) /\ x[i] < y[i] /\ \A j \in 1 .. i - 1 : x[j] = y[j]
    BY DEF Differ
  <1>2. /\ a \in Seq(Byte) /\ Len(a) = Len(x) + 1 /\ a[1] = tag
        /\ \A j \in 1 .. Len(x) : a[j + 1] = x[j]
    OBVIOUS
  <1>3. /\ b \in Seq(Byte) /\ Len(b) = Len(y) + 1 /\ b[1] = tag
        /\ \A j \in 1 .. Len(y) : b[j + 1] = y[j]
    OBVIOUS
  <1>4. i \in 0 .. Len(a) /\ i < Len(b) /\ a[i + 1] < b[i + 1]
    BY <1>1, <1>2, <1>3
  <1> HIDE DEF a, b
  <1>5. \A j \in 1 .. i : a[j] = b[j]
    <2>1. ASSUME NEW j \in 1 .. i PROVE a[j] = b[j]
      <3>1. CASE j = 1
        BY <3>1, <1>2, <1>3
      <3>2. CASE j - 1 \in 1 .. i - 1
        <4>1. j - 1 \in 1 .. Len(x) /\ j - 1 \in 1 .. Len(y) /\ (j - 1) + 1 = j
          BY <3>2, <1>1
        <4>2. a[j] = x[j - 1] /\ b[j] = y[j - 1]
          BY <4>1, <1>2, <1>3
        <4>3. QED
          BY <4>2, <3>2, <1>1
      <3>3. QED
        BY <3>1, <3>2
    <2>2. QED
      BY <2>1
  <1>6. SubSeq(a, 1, i) = SubSeq(b, 1, i)
    BY <1>2, <1>3, <1>4, <1>5
  <1>7. QED
    BY <1>4, <1>6 DEF Before, a, b

\* The keys of records are in the order of their ids, whatever numbers, texts and
\* bytes these are and however wide a number is (_bytes.py:10-12, 76-81, 111-121).
THEOREM KeysInOrder == \A id, other \in Ids : InOrder(id, other)
  <1>1. SUFFICES ASSUME NEW id \in Ids, NEW other \in Ids,
                        NEW raw \in RecordId(id), NEW more \in RecordId(other),
                        id[1] = other[1], Lesser(id, other)
                 PROVE  Before(raw, more)
    BY DEF InOrder
  <1> USE DEF ID_INTEGER, ID_TEXT, ID_BYTES, ID_UUID
  <1>2. PICK x \in Seq(Byte) : raw = <<id[1]>> \o x /\ IsBody(id, x)
    BY KeyIsTagged
  <1>3. PICK y \in Seq(Byte) : more = <<other[1]>> \o y /\ IsBody(other, y)
    BY KeyIsTagged
  <1>4. id[1] \in Byte
    BY <1>2 DEF IsBody, Byte
  <1>5. Differ(x, y)
    <2>1. CASE id[1] = ID_INTEGER
      <3> DEFINE half == Power(W64) \div 2
      <3>1. /\ id[2] \in -half .. half - 1 /\ x = Flip(Digits(id[2], W64))
            /\ other[2] \in -half .. half - 1 /\ y = Flip(Digits(other[2], W64))
        BY <2>1, <1>1, <1>2, <1>3 DEF IsBody
      <3>2. id[2] < other[2] /\ W64 \in Nat \ {0}
        BY <2>1, <1>1, CodecAssumption DEF Lesser
      <3>3. QED
        BY <3>1, <3>2, SmallerDiffers
    <2>2. CASE id[1] \in {ID_TEXT, ID_BYTES}
      BY <2>2, <1>1, <1>2, <1>3, VarBytesInOrder DEF IsBody, Lesser
    <2>3. CASE id[1] = ID_UUID
      <3>1. x = id[2] /\ y = other[2] /\ Len(x) = Len(y)
        BY <2>3, <1>1, <1>2, <1>3 DEF IsBody
      <3>2. Before(x, y)
        BY <2>3, <3>1, <1>1 DEF Lesser
      <3>3. PICK n \in 0 .. Len(x) :
              /\ n < Len(y) /\ SubSeq(x, 1, n) = SubSeq(y, 1, n)
              /\ n = Len(x) \/ x[n + 1] < y[n + 1]
        BY <3>2 DEF Before
      <3>4. n + 1 \in 1 .. Len(x) /\ n + 1 <= Len(y) /\ x[n + 1] < y[n + 1]
        BY <3>1, <3>3
      <3>5. ASSUME NEW j \in 1 .. n PROVE x[j] = y[j]
        BY <3>3
      <3>6. (n + 1) - 1 = n
        OBVIOUS
      <3>7. QED
        BY <3>4, <3>5, <3>6 DEF Differ
    <2>4. QED
      BY <2>1, <2>2, <2>3, <1>2 DEF IsBody
  <1>6. QED
    BY <1>1, <1>2, <1>3, <1>4, <1>5, DifferIsBefore

-----------------------------------------------------------------------------
(* Reading *)

\* What is taken of a sequence after which others come is that sequence.
LEMMA TakesFirst ==
  ASSUME NEW x \in Seq(Byte), NEW rest \in Seq(Byte)
  PROVE  Take(x \o rest, Len(x)) = {<<x, rest>>}
  <1> DEFINE w == Len(x)
             raw == x \o rest
  <1>1. /\ raw \in Seq(Byte) /\ w \in Nat /\ Len(rest) \in Nat /\ Len(raw) = w + Len(rest)
        /\ (\A i \in 1 .. w : raw[i] = x[i]) /\ \A i \in 1 .. Len(rest) : raw[w + i] = rest[i]
    OBVIOUS
  <1> HIDE DEF raw
  <1>2. SubSeq(raw, 1, w) = x
    BY <1>1, SeqEqual
  <1>3. SubSeq(raw, w + 1, Len(raw)) = rest
    <2> DEFINE tail == SubSeq(raw, w + 1, Len(raw))
    <2>1. tail \in Seq(Byte) /\ Len(tail) = Len(rest)
      BY <1>1
    <2>2. \A i \in 1 .. Len(rest) : tail[i] = rest[i]
      BY <1>1
    <2> HIDE DEF tail
    <2>3. tail = rest
      BY <2>1, <2>2, SeqEqual
    <2>4. QED
      BY <2>3 DEF tail
  <1>4. ~(Len(raw) < w)
    BY <1>1
  <1>5. QED
    BY <1>2, <1>3, <1>4 DEF Take, raw

\* The digits of a number that are not kept are zero, or all ones when it is negative.
LEMMA DigitsAddUp ==
  ASSUME NEW w \in Nat, NEW n \in Int
  PROVE  /\ Quotients(n, w)[w] = 0 => Unsigned(Digits(n, w)) = n
         /\ Quotients(n, w)[w] = -1 => Unsigned(Digits(n, w)) = n + Power(w)
  <1> DEFINE raw == Digits(n, w)
             q == Quotients(n, w)
             p == Powers(w)
             s == Sums(raw)
  <1>1. raw \in Seq(Byte) /\ Len(raw) = w /\ \A i \in 1 .. w : raw[i] = q[w - i] % 256
    BY DigitsAreBytes
  <1>2. Shrinks(q, n, w)
    BY QuotientsShrink
  <1>3. /\ p \in [0 .. w -> Nat \ {0}] /\ p[0] = 1
        /\ \A k \in 1 .. w : p[k] = 256 * p[k - 1]
    BY PowersGrow
  <1> HIDE DEF raw, q, p
  <1>4. s \in [0 .. w -> Nat] /\ s[0] = 0 /\ \A k \in 1 .. w : s[k] = 256 * s[k - 1] + raw[k]
    <2>1. Adds(s, raw)
      BY <1>1, SumsGrow
    <2> HIDE DEF s
    <2>2. QED
      BY <1>1, <2>1 DEF Adds
  <1> HIDE DEF s
  <1>5. ASSUME NEW c \in {0, 1}, q[w] = -c
        PROVE  s[w] = n + c * p[w]
    <2> DEFINE Owed(k) == IF c = 0 THEN 0 ELSE p[k]
               T == {k \in Nat : k <= w => s[k] = q[w - k] + Owed(k)}
    <2>1. 0 \in T
      BY <1>3, <1>4, <1>5
    <2>2. ASSUME NEW k \in Nat, k \in T PROVE k + 1 \in T
      <3>1. SUFFICES ASSUME k + 1 <= w PROVE s[k + 1] = q[w - (k + 1)] + Owed(k + 1)
        OBVIOUS
      <3> DEFINE x == q[w - (k + 1)]
                 y == Owed(k)
      <3>2. /\ k + 1 \in 1 .. w /\ (k + 1) - 1 = k /\ k \in 0 .. w /\ w - k \in 1 .. w
            /\ (w - k) - 1 = w - (k + 1) /\ w - (k + 1) \in 0 .. w
        BY <3>1
      <3>3. x \in Int /\ q[w - k] = x \div 256
        BY <3>2, <1>2 DEF Shrinks
      <3>4. y \in Int /\ Owed(k + 1) = 256 * y
        BY <3>2, <1>3
      <3>5. s[k + 1] = 256 * s[k] + (x % 256)
        BY <3>2, <1>4, <1>1
      <3>6. s[k] = x \div 256 + y
        BY <3>3, <3>2, <2>2
      <3> HIDE DEF x, y
      <3>7. \A a, b \in Int : 256 * (a \div 256 + b) + (a % 256) = a + 256 * b
        OBVIOUS
      <3>8. s[k + 1] = x + 256 * y
        BY <3>3, <3>4, <3>5, <3>6, <3>7
      <3>9. QED
        BY <3>8, <3>4 DEF x
    <2>3. \A k \in Nat : k \in T
      <3> HIDE DEF T
      <3> QED
        BY <2>1, <2>2, Induct
    <2>4. s[w] = q[w - w] + Owed(w)
      BY <2>3
    <2>5. w - w = 0 /\ q[0] = n /\ p[w] \in Nat
      BY <1>2, <1>3 DEF Shrinks
    <2>6. QED
      BY <2>4, <2>5
  <1>6. p[w] \in Nat
    BY <1>3
  <1>7. Unsigned(raw) = s[w] /\ Power(w) = p[w]
    BY <1>1 DEF Unsigned, Power, s, p
  <1>8. QED
    BY <1>5, <1>6, <1>7 DEF q, raw

\* A number in half the range either way is read back from its digits.
LEMMA SignedDigits ==
  ASSUME NEW w \in Nat \ {0}, NEW n \in -(Power(w) \div 2) .. Power(w) \div 2 - 1
  PROVE  Signed(Digits(n, w)) = n
  <1> DEFINE raw == Digits(n, w)
             q == Quotients(n, w)
  <1>1. w \in Nat /\ n \in Int /\ q[w - 1] \in -128 .. 127 /\ q[w] = IF q[w - 1] < 0 THEN -1 ELSE 0
    BY SignedRange
  <1>2. Len(raw) = w /\ raw[1] = q[w - 1] % 256
    BY <1>1, DigitsAreBytes
  <1>3. Power(w) \in Nat
    BY <1>1, PowerStep
  <1>4. (q[w] = 0 => Unsigned(raw) = n) /\ (q[w] = -1 => Unsigned(raw) = n + Power(w))
    BY <1>1, DigitsAddUp
  <1> HIDE DEF raw, q
  <1>5. \A x \in -128 .. 127 : x % 256 = IF x < 0 THEN x + 256 ELSE x
    OBVIOUS
  <1>6. (q[w - 1] < 0 => ~(raw[1] < 128)) /\ (~(q[w - 1] < 0) => raw[1] < 128)
    BY <1>1, <1>2, <1>5
  <1>7. Signed(raw) = n
    BY <1>1, <1>2, <1>3, <1>4, <1>6 DEF Signed
  <1>8. QED
    BY <1>7 DEF raw

\* A number that fits has no digit left.
LEMMA UnsignedDigits ==
  ASSUME NEW w \in Nat, NEW n \in 0 .. Power(w) - 1
  PROVE  Unsigned(Digits(n, w)) = n
  <1> DEFINE q == Quotients(n, w)
             p == Powers(w)
             T == {k \in Nat : k <= w => q[k] \in 0 .. p[w - k] - 1}
  <1>1. Power(w) \in Nat /\ Power(w) = p[w]
    BY PowerStep DEF Power
  <1>2. n \in Int /\ n \in 0 .. p[w] - 1
    BY <1>1
  <1>3. Shrinks(q, n, w)
    BY <1>2, QuotientsShrink
  <1>4. /\ p \in [0 .. w -> Nat \ {0}] /\ p[0] = 1
        /\ \A k \in 1 .. w : p[k] = 256 * p[k - 1]
    BY PowersGrow
  <1> HIDE DEF q, p
  <1>5. 0 \in T
    BY <1>2, <1>3 DEF Shrinks
  <1>6. ASSUME NEW k \in Nat, k \in T PROVE k + 1 \in T
    <2>1. SUFFICES ASSUME k + 1 <= w PROVE q[k + 1] \in 0 .. p[w - (k + 1)] - 1
      OBVIOUS
    <2> DEFINE x == p[w - (k + 1)]
               y == q[k]
    <2>2. /\ w - (k + 1) \in 0 .. w /\ w - k \in 1 .. w /\ (w - k) - 1 = w - (k + 1)
          /\ k + 1 \in 1 .. w /\ (k + 1) - 1 = k
      BY <2>1
    <2>3. x \in Nat /\ p[w - k] = 256 * x
      BY <2>2, <1>4
    <2>4. y \in Int /\ q[k + 1] = y \div 256
      BY <2>2, <1>3 DEF Shrinks
    <2>5. y \in 0 .. p[w - k] - 1
      BY <2>1, <1>6
    <2> HIDE DEF x, y
    <2>6. 0 <= y /\ y < 256 * x
      BY <2>3, <2>4, <2>5
    <2>7. \A a \in Nat, b \in Int : 0 <= b /\ b < 256 * a => b \div 256 \in 0 .. a - 1
      OBVIOUS
    <2>8. QED
      BY <2>3, <2>4, <2>6, <2>7 DEF x
  <1>7. \A k \in Nat : k \in T
    <2> HIDE DEF T
    <2> QED
      BY <1>5, <1>6, Induct
  <1>8. q[w] \in 0 .. p[w - w] - 1
    BY <1>7
  <1>9. q[w] = 0
    BY <1>4, <1>8
  <1>10. QED
    BY <1>2, <1>9, DigitsAddUp DEF q

\* An escaped text among other bytes: where it ends, and that no byte before is an end.
Holds(s, f, a, rest) ==
  LET n == Len(a)
      L == Len(f[n])
  IN /\ s \in Seq(Byte) /\ L \in Nat /\ L + 2 <= Len(s) /\ s[L + 1] = 0 /\ s[L + 2] = 1
     /\ SubSeq(s, L + 3, Len(s)) = rest
     /\ Len(f[0]) = 0
     /\ \A k \in 1 .. n :
          /\ Len(f[k - 1]) \in Nat /\ Len(f[k]) = Len(f[k - 1]) + (IF a[k] = 0 THEN 2 ELSE 1)
          /\ Len(f[k]) <= L /\ s[Len(f[k - 1]) + 1] = a[k]
          /\ a[k] = 0 => s[Len(f[k - 1]) + 2] = 255

LEMMA EscapedHolds ==
  ASSUME NEW a \in Seq(Byte), NEW rest \in Seq(Byte), NEW x \in VarBytes(a)
  PROVE  \E f : Escapes(f, a) /\ Holds(x \o rest, f, a, rest)
  <1>1. PICK f : Escapes(f, a) /\ VarBytes(a) = {f[Len(a)] \o <<0, 1>>}
    BY VarBytesEscapes
  <1> DEFINE n == Len(a)
             v == f[n]
             s == x \o rest
             L == Len(v)
  <1>2. n \in Nat /\ v \in Seq(Byte) /\ f[0] = <<>> /\ \A k \in 1 .. n : f[k - 1] \in Seq(Byte) /\ f[k] \in Seq(Byte)
    <2>1. n \in Nat /\ n \in 0 .. n /\ \A k \in 1 .. n : k - 1 \in 0 .. n /\ k \in 0 .. n
      OBVIOUS
    <2>2. f \in [0 .. n -> Seq(Byte)] /\ f[0] = <<>>
      BY <1>1 DEF Escapes
    <2> HIDE DEF n
    <2>3. QED
      BY <2>1, <2>2
  <1>3. x = v \o <<0, 1>>
    BY <1>1
  <1>4. <<0, 1>> \in Seq(Byte) /\ Len(<<0, 1>>) = 2 /\ <<0, 1>>[1] = 0 /\ <<0, 1>>[2] = 1
    BY DEF Byte
  <1> HIDE DEF v, n
  <1>5. /\ x \in Seq(Byte) /\ Len(x) = L + 2 /\ L \in Nat /\ x[L + 1] = 0 /\ x[L + 2] = 1
        /\ \A t \in 1 .. L : x[t] = v[t]
    BY <1>2, <1>3, <1>4
  <1>6. /\ s \in Seq(Byte) /\ Len(s) = L + 2 + Len(rest) /\ Len(rest) \in Nat
        /\ \A t \in 1 .. L + 2 : s[t] = x[t]
    <2>1. x \in Seq(Byte) /\ Len(x) \in Nat /\ Len(rest) \in Nat
      BY <1>5
    <2>2. /\ s \in Seq(Byte) /\ Len(s) = Len(x) + Len(rest)
          /\ \A t \in 1 .. Len(x) + Len(rest) :
               s[t] = IF t <= Len(x) THEN x[t] ELSE rest[t - Len(x)]
      BY <2>1, ConcatProperties, Zenon
    <2> HIDE DEF s
    <2>3. \A t \in 1 .. Len(x) : t \in 1 .. Len(x) + Len(rest) /\ t <= Len(x)
      BY <2>1
    <2>4. \A t \in 1 .. Len(x) : s[t] = x[t]
      BY <2>2, <2>3, Zenon
    <2>5. Len(x) = L + 2
      BY <1>5
    <2>6. QED
      BY <2>1, <2>2, <2>4, <2>5, Zenon
  <1>7. SubSeq(s, L + 3, Len(s)) = rest
    <2>1. Take(s, Len(x)) = {<<x, rest>>}
      BY <1>5, TakesFirst
    <2>2. Take(s, Len(x)) = {<<SubSeq(s, 1, Len(x)), SubSeq(s, Len(x) + 1, Len(s))>>}
      BY <1>5, <1>6, SMTT(30) DEF Take
    <2>3. SubSeq(s, Len(x) + 1, Len(s)) = rest
      BY <2>1, <2>2
    <2>4. Len(x) + 1 = L + 3
      BY <1>5
    <2>5. QED
      BY <2>3, <2>4
  <1>8. L + 1 \in 1 .. L + 2 /\ L + 2 \in 1 .. L + 2 /\ L + 2 <= Len(s) /\ s[L + 1] = 0 /\ s[L + 2] = 1
    BY <1>5, <1>6
  <1>9. ASSUME NEW k \in 1 .. n
        PROVE  /\ Len(f[k - 1]) \in Nat /\ Len(f[k]) = Len(f[k - 1]) + (IF a[k] = 0 THEN 2 ELSE 1)
               /\ Len(f[k]) <= L /\ s[Len(f[k - 1]) + 1] = a[k]
               /\ a[k] = 0 => s[Len(f[k - 1]) + 2] = 255
    <2> DEFINE d == a[k]
               at == Len(f[k - 1])
    <2>1. at \in Nat /\ d \in Byte
      BY <1>2 DEF n
    <2>2. Len(f[k]) = at + Len(Escaped(d)) /\ Stands(v, at, Escaped(d))
      BY <1>1, EscapeStands DEF v, n
    <2> HIDE DEF d, at
    <2>3. /\ at + 1 <= L /\ v[at + 1] = d
          /\ d = 0 => at + 2 <= L /\ v[at + 2] = 255
          /\ Len(Escaped(d)) = IF d = 0 THEN 2 ELSE 1
      BY <1>2, <2>1, <2>2, EscapedByte
    <2>4. Len(f[k]) = at + (IF d = 0 THEN 2 ELSE 1) /\ Len(f[k]) <= L
      BY <2>1, <2>2, <2>3
    <2>5. s[at + 1] = d /\ (d = 0 => s[at + 2] = 255)
      BY <2>1, <2>3, <1>5, <1>6
    <2>6. QED
      BY <2>1, <2>4, <2>5 DEF d, at
  <1>10. Len(f[0]) = 0
    BY <1>2
  <1> HIDE DEF s
  <1>11. Holds(s, f, a, rest)
    BY <1>5, <1>6, <1>7, <1>8, <1>9, <1>10 DEF Holds, v, n
  <1>12. QED
    BY <1>1, <1>11 DEF s

\* Every zero of an escaped text has 255 after it, inside the text.
LEMMA NoEndInside ==
  ASSUME NEW a \in Seq(Byte), NEW f, NEW s, NEW rest, Holds(s, f, a, rest)
  PROVE  \A k \in 0 .. Len(a) : Len(f[k]) \in Nat
           /\ \A t \in 1 .. Len(f[k]) : s[t] = 0 => t < Len(f[k]) /\ s[t + 1] = 255
  <1> DEFINE n == Len(a)
             Closed(k) == Len(f[k]) \in Nat
                            /\ \A t \in 1 .. Len(f[k]) : s[t] = 0 => t < Len(f[k]) /\ s[t + 1] = 255
             T == {k \in Nat : k <= n => Closed(k)}
  <1>1. 0 \in T
    BY DEF Holds
  <1>2. ASSUME NEW k \in Nat, k \in T PROVE k + 1 \in T
    <2>1. SUFFICES ASSUME k + 1 <= n PROVE Closed(k + 1)
      OBVIOUS
    <2> DEFINE at == Len(f[k])
               to == Len(f[k + 1])
    <2>2. k + 1 \in 1 .. n /\ (k + 1) - 1 = k /\ Closed(k)
      BY <2>1, <1>2
    <2>3. /\ at \in Nat /\ to = at + (IF a[k + 1] = 0 THEN 2 ELSE 1)
          /\ s[at + 1] = a[k + 1] /\ (a[k + 1] = 0 => s[at + 2] = 255)
      <3>1. \A j \in 1 .. n :
              /\ Len(f[j - 1]) \in Nat /\ Len(f[j]) = Len(f[j - 1]) + (IF a[j] = 0 THEN 2 ELSE 1)
              /\ s[Len(f[j - 1]) + 1] = a[j] /\ (a[j] = 0 => s[Len(f[j - 1]) + 2] = 255)
        BY Zenon DEF Holds
      <3>2. k + 1 \in 1 .. n /\ (k + 1) - 1 = k
        BY <2>2
      <3>3. /\ Len(f[(k + 1) - 1]) \in Nat
            /\ Len(f[k + 1]) = Len(f[(k + 1) - 1]) + (IF a[k + 1] = 0 THEN 2 ELSE 1)
            /\ s[Len(f[(k + 1) - 1]) + 1] = a[k + 1]
            /\ (a[k + 1] = 0 => s[Len(f[(k + 1) - 1]) + 2] = 255)
        BY <3>1, <3>2, Zenon
      <3>4. QED
        BY <3>2, <3>3, Zenon
    <2>4. \A t \in 1 .. at : s[t] = 0 => t < at /\ s[t + 1] = 255
      BY <2>2
    <2> HIDE DEF at, to
    <2>5. to \in Nat /\ \A t \in 1 .. to : s[t] = 0 => t < to /\ s[t + 1] = 255
      <3>1. CASE a[k + 1] = 0
        BY <3>1, <2>3, <2>4
      <3>2. CASE a[k + 1] # 0
        BY <3>2, <2>3, <2>4
      <3>3. QED
        BY <3>1, <3>2
    <2>6. QED
      BY <2>5 DEF to
  <1>3. \A k \in Nat : k \in T
    <2> HIDE DEF T
    <2> QED
      BY <1>1, <1>2, Induct
  <1>4. \A k \in 0 .. n : Closed(k)
    <2> HIDE DEF Closed
    <2> QED
      BY <1>3
  <1>5. QED
    BY <1>4

\* What is kept of the first bytes of s: those that do not follow a zero.
Kept(s, to) ==
  [i \in 1 .. to |-> IF i - 1 \in {j \in DOMAIN s : s[j] = 0} THEN <<>> ELSE <<s[i]>>]

\* Without the bytes that escape its zeros a text is what it was.
LEMMA Unescaped ==
  ASSUME NEW a \in Seq(Byte), NEW f, NEW s, NEW rest, Holds(s, f, a, rest)
  PROVE  FlattenSeq(Kept(s, Len(f[Len(a)]))) = a
  <1> DEFINE n == Len(a)
             L == Len(f[n])
             Zeros == {j \in DOMAIN s : s[j] = 0}
             z == Kept(s, L)
  <1>1. /\ s \in Seq(Byte) /\ L \in Nat /\ L + 2 <= Len(s) /\ Len(f[0]) = 0 /\ n \in Nat
        /\ \A k \in 1 .. n :
             /\ Len(f[k - 1]) \in Nat /\ Len(f[k]) = Len(f[k - 1]) + (IF a[k] = 0 THEN 2 ELSE 1)
             /\ Len(f[k]) <= L /\ s[Len(f[k - 1]) + 1] = a[k]
    <2>1. n \in Nat
      OBVIOUS
    <2>2. QED
      BY <2>1, Zenon DEF Holds
  <1>2. \A i \in 1 .. L : s[i] \in Byte
    <2> HIDE DEF L
    <2> QED
      BY <1>1
  <1>3. z \in Seq(Seq(Byte)) /\ Len(z) = L /\ \A i \in 1 .. L : z[i] = IF i - 1 \in Zeros THEN <<>> ELSE <<s[i]>>
    <2>1. <<>> \in Seq(Byte) /\ \A b \in Byte : <<b>> \in Seq(Byte)
      OBVIOUS
    <2> HIDE DEF L, Zeros
    <2>2. \A i \in 1 .. L : (IF i - 1 \in Zeros THEN <<>> ELSE <<s[i]>>) \in Seq(Byte)
      BY <1>2, <2>1, Zenon
    <2>3. z = [i \in 1 .. L |-> IF i - 1 \in Zeros THEN <<>> ELSE <<s[i]>>]
      BY Zenon DEF Kept, Zeros
    <2> HIDE DEF z
    <2>4. z \in [1 .. L -> Seq(Byte)]
      BY <2>2, <2>3
    <2>5. QED
      BY <2>3, <2>4, <1>1
  <1> HIDE DEF z
  <1>4. PICK h \in [0 .. Len(z) -> Seq(Byte)] : Joins(h, z) /\ FlattenSeq(z) = h[Len(z)]
    BY <1>3, Flattened
  <1>5. h \in [0 .. L -> Seq(Byte)] /\ h[0] = <<>> /\ (\A i \in 1 .. L : h[i] = h[i - 1] \o z[i]) /\ FlattenSeq(z) = h[L]
    BY <1>3, <1>4 DEF Joins
  <1> DEFINE T == {k \in Nat : k <= n => h[Len(f[k])] = SubSeq(a, 1, k)}
  <1>6. 0 \in T
    BY <1>1, <1>5
  <1>7. ASSUME NEW k \in Nat, k \in T PROVE k + 1 \in T
    <2>1. SUFFICES ASSUME k + 1 <= n PROVE h[Len(f[k + 1])] = SubSeq(a, 1, k + 1)
      OBVIOUS
    <2> DEFINE at == Len(f[k])
               c == a[k + 1]
    <2>2. k + 1 \in 1 .. n /\ (k + 1) - 1 = k /\ k \in 0 .. n /\ h[at] = SubSeq(a, 1, k)
      BY <2>1, <1>7
    <2>3. /\ at \in Nat /\ Len(f[k + 1]) = at + (IF c = 0 THEN 2 ELSE 1) /\ Len(f[k + 1]) <= L
          /\ s[at + 1] = c
      BY <2>2, <1>1
    <2>4. \A t \in 1 .. at : s[t] = 0 => t < at
      BY <2>2, NoEndInside
    <2> HIDE DEF at, L
    <2>5. at + 1 \in 1 .. L /\ (at + 1) - 1 = at
      BY <2>3, <1>1
    <2>6. at \notin Zeros
      BY <2>3, <2>4, <1>1
    <2>7. h[at + 1] = SubSeq(a, 1, k) \o <<c>>
      BY <2>2, <2>3, <2>5, <2>6, <1>3, <1>5
    <2>8. SubSeq(a, 1, k) \o <<c>> = SubSeq(a, 1, k + 1)
      BY <2>2, SubSeqRecursiveSecond
    <2>9. CASE c # 0
      BY <2>3, <2>7, <2>8, <2>9
    <2>10. CASE c = 0
      <3>1. at + 2 \in 1 .. L /\ (at + 2) - 1 = at + 1 /\ at + 1 \in DOMAIN s /\ at + 1 \in 0 .. L
        BY <2>3, <2>5, <2>10, <1>1
      <3>2. at + 1 \in Zeros
        BY <3>1, <2>3, <2>10
      <3>3. h[at + 2] = h[at + 1] \o <<>> /\ h[at + 1] \in Seq(Byte)
        BY <3>1, <3>2, <1>3, <1>5
      <3>4. h[at + 2] = h[at + 1]
        BY <3>3, ConcatEmptySeq
      <3>5. QED
        BY <3>4, <2>3, <2>7, <2>8, <2>10
    <2>11. QED
      BY <2>9, <2>10
  <1>8. \A k \in Nat : k \in T
    <2> HIDE DEF T
    <2> QED
      BY <1>6, <1>7, Induct
  <1>9. h[L] = SubSeq(a, 1, n)
    BY <1>1, <1>8
  <1>10. SubSeq(a, 1, n) = a
    BY SubSeqFull
  <1>11. QED
    BY <1>5, <1>9, <1>10 DEF z

\* An escaped text is read back as it was, up to its end and no further.
LEMMA VarBytesReadBack ==
  ASSUME NEW a \in Seq(Byte), NEW rest \in Seq(Byte), NEW x \in VarBytes(a)
  PROVE  ReadVarBytes(x \o rest) = {<<a, rest>>}
  <1> DEFINE s == x \o rest
             n == Len(a)
             Zeros == {i \in DOMAIN s : s[i] = 0}
             Finals == {i \in Zeros : i = Len(s) \/ s[i + 1] # 255}
             Fits == {e \in Finals : e < Len(s) /\ s[e + 1] = 1 /\ \A y \in Finals : e <= y}
             What(e) == <<FlattenSeq([i \in 1 .. e - 1 |-> IF i - 1 \in Zeros THEN <<>> ELSE <<s[i]>>]),
                          SubSeq(s, e + 2, Len(s))>>
  <1>1. PICK f : Escapes(f, a) /\ Holds(s, f, a, rest)
    BY EscapedHolds
  <1> DEFINE L == Len(f[n])
  <1>2. ReadVarBytes(s) = {What(e) : e \in Fits}
    BY DEF ReadVarBytes
  <1> HIDE DEF s
  <1>3. /\ s \in Seq(Byte) /\ L \in Nat /\ L + 2 <= Len(s) /\ s[L + 1] = 0 /\ s[L + 2] = 1
        /\ SubSeq(s, L + 3, Len(s)) = rest
    BY <1>1 DEF Holds
  <1>4. \A t \in 1 .. L : s[t] = 0 => t < L /\ s[t + 1] = 255
    BY <1>1, NoEndInside
  <1>5. FlattenSeq(Kept(s, L)) = a
    BY <1>1, Unescaped
  <1> HIDE DEF L
  <1>6. L + 1 \in Finals
    BY <1>3
  <1>7. \A e \in Finals : L + 1 <= e
    <2>1. ASSUME NEW e \in Finals, ~(L + 1 <= e) PROVE FALSE
      BY <2>1, <1>3, <1>4
    <2>2. QED
      BY <2>1
  <1>8. Fits = {L + 1}
    <2>1. L + 1 < Len(s) /\ s[(L + 1) + 1] = 1
      BY <1>3
    <2>2. \A e \in Finals : e \in Nat
      BY <1>3
    <2> HIDE DEF Finals
    <2>3. L + 1 \in Fits
      BY <2>1, <1>6, <1>7
    <2>4. \A e \in Fits : e = L + 1
      BY <2>2, <1>6, <1>7, <1>3
    <2>5. QED
      BY <2>3, <2>4
  <1>9. What(L + 1) = <<a, rest>>
    BY <1>3, <1>5 DEF Kept
  <1>10. QED
    <2> HIDE DEF Fits, What
    <2>1. {What(e) : e \in Fits} = {<<a, rest>>}
      BY <1>8, <1>9
    <2>2. QED
      BY <2>1, <1>2 DEF s

\* What is read of a writing of w bytes is taken from these bytes.
LEMMA TakesDigits ==
  ASSUME NEW w \in Nat, NEW x \in Seq(Byte), Len(x) = w, NEW rest \in Seq(Byte)
  PROVE  Take(x \o rest, w) = {<<x, rest>>}
  BY TakesFirst

\* A number that is written at all is read back as itself, and the bytes after it
\* are left (_bytes.py:44-49, 61-89, 149-168).
THEOREM NumbersReadBack ==
  \A n \in Int, rest \in Seq(Byte) :
    /\ \A raw \in U32(n) : ReadU32(raw \o rest) = {<<n, rest>>}
    /\ \A raw \in I64(n) : ReadI64(raw \o rest) = {<<n, rest>>}
    /\ \A raw \in I128(n) : ReadI128(raw \o rest) = {<<n, rest>>}
    /\ \A raw \in Nanos(n) : ReadNanos(raw \o rest) = {<<n, rest>>}
  <1> SUFFICES ASSUME NEW n \in Int, NEW rest \in Seq(Byte)
               PROVE  /\ \A raw \in U32(n) : ReadU32(raw \o rest) = {<<n, rest>>}
                      /\ \A raw \in I64(n) : ReadI64(raw \o rest) = {<<n, rest>>}
                      /\ \A raw \in I128(n) : ReadI128(raw \o rest) = {<<n, rest>>}
                      /\ \A raw \in Nanos(n) : ReadNanos(raw \o rest) = {<<n, rest>>}
    OBVIOUS
  <1>1. W32 \in Nat \ {0} /\ W64 \in Nat \ {0} /\ W128 \in Nat \ {0} /\ NANOS_PER_SECOND \in Nat
    BY CodecAssumption
  <1>2. ASSUME n \in 0 .. Power(W32) - 1
        PROVE  ReadU32(Digits(n, W32) \o rest) = {<<n, rest>>}
    <2>1. Digits(n, W32) \in Seq(Byte) /\ Len(Digits(n, W32)) = W32
      BY <1>1, DigitsAreBytes
    <2>2. Take(Digits(n, W32) \o rest, W32) = {<<Digits(n, W32), rest>>}
      BY <1>1, <2>1, TakesDigits
    <2>3. Unsigned(Digits(n, W32)) = n
      BY <1>1, <1>2, UnsignedDigits
    <2>4. QED
      BY <2>2, <2>3 DEF ReadU32, As
  <1>3. ASSUME NEW raw \in U32(n) PROVE ReadU32(raw \o rest) = {<<n, rest>>}
    BY <1>2 DEF U32, Checked
  <1>4. ASSUME NEW raw \in I64(n) PROVE ReadI64(raw \o rest) = {<<n, rest>>}
    <2> DEFINE x == Digits(n, W64)
    <2>1. n \in -(Power(W64) \div 2) .. Power(W64) \div 2 - 1 /\ raw = Flip(x)
      BY DEF I64, Checked
    <2>2. x \in Seq(Byte) /\ Len(x) = W64
      BY <1>1, DigitsAreBytes
    <2>3. Signed(x) = n
      BY <1>1, <2>1, SignedDigits
    <2> HIDE DEF x
    <2>4. raw \in Seq(Byte) /\ Len(raw) = W64 /\ Flip(raw) = x
      BY <1>1, <2>1, <2>2, Flips
    <2>5. Take(raw \o rest, W64) = {<<raw, rest>>}
      BY <1>1, <2>4, TakesDigits
    <2>6. QED
      BY <2>3, <2>4, <2>5 DEF ReadI64, As
  <1>5. ASSUME NEW raw \in I128(n) PROVE ReadI128(raw \o rest) = {<<n, rest>>}
    <2>1. n \in -(Power(W128) \div 2) .. Power(W128) \div 2 - 1 /\ raw = Digits(n, W128)
      BY DEF I128, Checked
    <2>2. raw \in Seq(Byte) /\ Len(raw) = W128
      BY <1>1, <2>1, DigitsAreBytes
    <2>3. Signed(raw) = n
      BY <1>1, <2>1, SignedDigits
    <2>4. Take(raw \o rest, W128) = {<<raw, rest>>}
      BY <1>1, <2>2, TakesDigits
    <2>5. QED
      BY <2>3, <2>4 DEF ReadI128, As
  <1>6. ASSUME NEW raw \in Nanos(n) PROVE ReadNanos(raw \o rest) = {<<n, rest>>}
    <2>1. n \in 0 .. NANOS_PER_SECOND - 1 /\ raw = Digits(n, W32)
      BY DEF Nanos, Checked
    <2>2. NANOS_PER_SECOND <= Power(W32) /\ Power(W32) \in Nat
      BY <1>1, CodecAssumption, PowerStep
    <2>3. n \in 0 .. Power(W32) - 1 /\ n < NANOS_PER_SECOND
      BY <1>1, <2>1, <2>2
    <2>4. ReadU32(raw \o rest) = {<<n, rest>>}
      BY <1>2, <2>1, <2>3
    <2>5. QED
      BY <2>3, <2>4 DEF ReadNanos, Only
  <1>7. QED
    BY <1>3, <1>4, <1>5, <1>6

\* A text is read back as it was written, by its length or by its end, and the
\* bytes after it are left (_bytes.py:104-121, 176-203).
THEOREM TextsReadBack ==
  \A text \in Seq(Byte), rest \in Seq(Byte) :
    /\ \A raw \in LenBytes(text) : ReadLenBytes(raw \o rest) = {<<text, rest>>}
    /\ \A raw \in VarBytes(text) : ReadVarBytes(raw \o rest) = {<<text, rest>>}
  <1>1. ASSUME NEW text \in Seq(Byte), NEW rest \in Seq(Byte), NEW raw \in LenBytes(text)
        PROVE  ReadLenBytes(raw \o rest) = {<<text, rest>>}
    <2>1. PICK x \in U32(Len(text)) : raw = x \o text
      BY DEF LenBytes, Cat
    <2>2. Len(text) \in Int /\ text \o rest \in Seq(Byte)
      OBVIOUS
    <2>3. ReadU32(x \o (text \o rest)) = {<<Len(text), text \o rest>>}
      BY <2>2, NumbersReadBack
    <2>4. x \in Seq(Byte)
      BY <2>2, CodecAssumption, DigitsAreBytes DEF U32, Checked
    <2>5. raw \o rest = x \o (text \o rest)
      BY <2>1, <2>4, ConcatAssociative
    <2>6. Take(text \o rest, Len(text)) = {<<text, rest>>}
      BY TakesFirst
    <2>7. ReadLenBytes(raw \o rest) = UNION {Take(r[2], r[1]) : r \in {<<Len(text), text \o rest>>}}
      BY <2>3, <2>5 DEF ReadLenBytes, Then
    <2>8. \A m, l : UNION {Take(r[2], r[1]) : r \in {<<l, m>>}} = Take(m, l)
      OBVIOUS
    <2>9. QED
      BY <2>6, <2>7, <2>8
  <1>2. QED
    BY <1>1, VarBytesReadBack

\* The id of a record is read back from its key, whatever follows the key
\* (_encode.py:188-203, _decode.py:180-194).
THEOREM KeysReadBack ==
  \A id \in Ids, rest \in Seq(Byte) :
    \A raw \in RecordId(id) : ReadRecordId(raw \o rest) = {<<id, rest>>}
  <1> SUFFICES ASSUME NEW id \in Ids, NEW rest \in Seq(Byte), NEW raw \in RecordId(id)
               PROVE  ReadRecordId(raw \o rest) = {<<id, rest>>}
    OBVIOUS
  <1> USE DEF ID_INTEGER, ID_TEXT, ID_BYTES, ID_UUID
  <1>1. PICK body \in Seq(Byte) : raw = <<id[1]>> \o body /\ IsBody(id, body)
    BY KeyIsTagged
  <1> DEFINE tag == id[1]
             more == body \o rest
  <1>2. tag \in {1, 2, 3, 4} /\ tag \in Byte
    BY <1>1 DEF IsBody, Byte
  <1>3. id = <<tag, id[2]>>
    BY DEF Ids
  <1>4. more \in Seq(Byte) /\ raw \o rest = <<tag>> \o more
    BY <1>2, <1>1, ConcatAssociative
  <1> HIDE DEF more
  <1>5. ReadU8(raw \o rest) = {<<tag, more>>}
    <2> DEFINE one == <<tag>>
    <2>1. one \in Seq(Byte) /\ Len(one) = 1 /\ one[1] = tag
      BY <1>2
    <2>2. raw \o rest = one \o more
      BY <1>4
    <2> HIDE DEF one
    <2>3. Take(raw \o rest, 1) = {<<one, more>>}
      BY <1>4, <2>1, <2>2, TakesDigits
    <2>4. Unsigned(one) = tag
      <3>1. 1 \in 1 .. Len(one) /\ 1 - 1 = 0
        BY <2>1
      <3>2. Sums(one)[0] = 0 /\ Sums(one)[1] = 256 * Sums(one)[0] + one[1]
        <4>1. Adds(Sums(one), one)
          BY <2>1, SumsGrow
        <4>2. QED
          BY <3>1, <4>1 DEF Adds
      <3>3. QED
        BY <2>1, <3>2, <1>2 DEF Unsigned, Byte
    <2>5. QED
      <3>1. ReadU8(raw \o rest) = {<<Unsigned(r[1]), r[2]>> : r \in {<<one, more>>}}
        BY <2>3 DEF ReadU8, As
      <3>2. \A a, b : {<<Unsigned(r[1]), r[2]>> : r \in {<<a, b>>}} = {<<Unsigned(a), b>>}
        OBVIOUS
      <3>3. QED
        BY <2>4, <3>1, <3>2, Zenon
  <1> DEFINE Reads == CASE tag = ID_INTEGER -> ReadI64(more)
                        [] tag = ID_TEXT -> Only(ReadVarBytes(more), IsText)
                        [] tag = ID_UUID -> ReadUuid(more)
                        [] tag = ID_BYTES -> ReadVarBytes(more)
                        [] OTHER -> {}
  <1>6. Reads = {<<id[2], rest>>}
    <2>1. CASE tag = ID_INTEGER
      BY <2>1, <1>1, NumbersReadBack DEF IsBody, I64, Checked, Ids, more
    <2>2. CASE tag = ID_TEXT
      <3>1. body \in VarBytes(id[2]) /\ id[2] \in Seq(Byte)
        BY <2>2, <1>1 DEF IsBody
      <3>2. ReadVarBytes(more) = {<<id[2], rest>>}
        BY <3>1, VarBytesReadBack DEF more
      <3>3. IsText(id[2])
        <4>1. id \in {ID_TEXT} \X Ascii
          BY <2>2 DEF Ids
        <4>2. ASSUME NEW text \in Ascii, NEW i \in DOMAIN text PROVE text[i] < 128
          <5>1. text[i] \in 0 .. 127
            BY ElementOfSeq, LenProperties DEF Ascii
          <5>2. \A b \in 0 .. 127 : b < 128
            OBVIOUS
          <5>3. QED
            BY <5>1, <5>2, Zenon
        <4>3. id[2] \in Ascii
          BY <4>1
        <4>4. QED
          BY <4>2, <4>3, Zenon DEF IsText
      <3>4. QED
        BY <2>2, <3>2, <3>3 DEF Only
    <2>3. CASE tag = ID_UUID
      BY <2>3, <1>1, CodecAssumption, TakesDigits DEF IsBody, more, ReadUuid
    <2>4. CASE tag = ID_BYTES
      BY <2>4, <1>1, VarBytesReadBack DEF IsBody, more
    <2>5. QED
      BY <1>2, <2>1, <2>2, <2>3, <2>4
  <1>7. ReadRecordId(raw \o rest) = {<<<<tag, r[1]>>, r[2]>> : r \in Reads}
    BY <1>5 DEF ReadRecordId, Then, As
  <1> HIDE DEF Reads
  <1>8. {<<<<tag, r[1]>>, r[2]>> : r \in {<<id[2], rest>>}} = {<<<<tag, id[2]>>, rest>>}
    OBVIOUS
  <1>9. QED
    BY <1>3, <1>6, <1>7, <1>8, Zenon

\* No key is the key of another id, nor the beginning of one (_encode.py:188-203).
THEOREM KeysApart ==
  \A id, other \in Ids, rest \in Seq(Byte) :
    \A raw \in RecordId(id), more \in RecordId(other) :
      more = raw \o rest => id = other /\ rest = <<>>
  <1> SUFFICES ASSUME NEW id \in Ids, NEW other \in Ids, NEW rest \in Seq(Byte),
                      NEW raw \in RecordId(id), NEW more \in RecordId(other), more = raw \o rest
               PROVE  id = other /\ rest = <<>>
    OBVIOUS
  <1>1. ReadRecordId(more) = {<<id, rest>>}
    BY KeysReadBack
  <1>2. ReadRecordId(more) = {<<other, <<>>>>}
    <2>1. PICK body \in Seq(Byte) : more = <<other[1]>> \o body /\ IsBody(other, body)
      BY KeyIsTagged
    <2>2. other[1] \in Byte
      BY <2>1 DEF IsBody, Byte, ID_INTEGER, ID_TEXT, ID_BYTES, ID_UUID
    <2>3. more \in Seq(Byte) /\ <<>> \in Seq(Byte)
      BY <2>1, <2>2
    <2>4. more \o <<>> = more
      BY <2>3, ConcatEmptySeq
    <2>5. ReadRecordId(more \o <<>>) = {<<other, <<>>>>}
      BY <2>3, KeysReadBack
    <2>6. QED
      BY <2>4, <2>5
  <1>3. <<id, rest>> = <<other, <<>>>>
    BY <1>1, <1>2
  <1> DEFINE none == <<>>
  <1> HIDE DEF none
  <1>4. <<id, rest>> = <<other, none>>
    BY <1>3 DEF none
  <1>5. id = other /\ rest = none
    BY <1>4
  <1>6. QED
    BY <1>5 DEF none

-----------------------------------------------------------------------------
(* One after the other *)

\* What is written in turn, up to each.
Turns(t, writes) ==
  t = [k \in 0 .. Len(writes) |-> IF k = 0 THEN {<<>>} ELSE Cat(t[k - 1], writes[k])]

LEMMA WritesInTurn ==
  ASSUME NEW writes, Len(writes) \in Nat
  PROVE  \E t : Turns(t, writes) /\ InTurn(writes) = t[Len(writes)]
  <1> DEFINE Is(t, n) == t = [k \in 0 .. n |-> IF k = 0 THEN {<<>>} ELSE Cat(t[k - 1], writes[k])]
             T == {n \in Nat : \E t : Is(t, n)}
  <1>1. 0 \in T
    <2>1. Is([k \in 0 .. 0 |-> {<<>>}], 0)
      OBVIOUS
    <2>2. QED
      BY <2>1
  <1>2. ASSUME NEW n \in Nat, n \in T PROVE n + 1 \in T
    <2>1. PICK t : Is(t, n)
      BY <1>2
    <2> DEFINE u == [k \in 0 .. n + 1 |-> IF k = 0 THEN {<<>>} ELSE Cat(t[k - 1], writes[k])]
    <2>2. ASSUME NEW k \in 1 .. n + 1 PROVE u[k - 1] = t[k - 1]
      <3>1. k - 1 \in 0 .. n /\ k - 1 \in 0 .. n + 1
        OBVIOUS
      <3>2. QED
        BY <3>1, <2>1
    <2>3. /\ DOMAIN u = 0 .. n + 1 /\ u = [k \in DOMAIN u |-> u[k]]
          /\ \A k \in 0 .. n + 1 : u[k] = IF k = 0 THEN {<<>>} ELSE Cat(t[k - 1], writes[k])
      OBVIOUS
    <2> HIDE DEF u
    <2>4. \A k \in 0 .. n + 1 : u[k] = IF k = 0 THEN {<<>>} ELSE Cat(u[k - 1], writes[k])
      BY <2>2, <2>3
    <2>5. Is(u, n + 1)
      BY <2>3, <2>4, Zenon
    <2>6. n + 1 \in Nat
      OBVIOUS
    <2>7. QED
      BY <2>5, <2>6, Zenon
  <1>3. Len(writes) \in T
    <2> HIDE DEF T
    <2> QED
      BY <1>1, <1>2, Induct
  <1>4. \E t : Turns(t, writes)
    BY <1>3 DEF Turns
  <1>5. QED
    BY <1>4 DEF InTurn, Turns

\* What is read of n items, up to each.
Rounds(t, n, raw, read) ==
  t = [k \in 0 .. n |-> IF k = 0 THEN {<<<<>>, raw>>} ELSE OneMore(t[k - 1], read)]

LEMMA ReadsInRounds ==
  ASSUME NEW n \in Nat, NEW raw, NEW read
  PROVE  \E t : Rounds(t, n, raw, read) /\ Repeated(n, raw, read) = t[n]
  <1> DEFINE T == {m \in Nat : \E t : Rounds(t, m, raw, read)}
  <1>1. 0 \in T
    <2>1. Rounds([k \in 0 .. 0 |-> {<<<<>>, raw>>}], 0, raw, read)
      BY DEF Rounds
    <2>2. QED
      BY <2>1
  <1>2. ASSUME NEW m \in Nat, m \in T PROVE m + 1 \in T
    <2>1. PICK t : Rounds(t, m, raw, read)
      BY <1>2
    <2> DEFINE u == [k \in 0 .. m + 1 |-> IF k = 0 THEN {<<<<>>, raw>>} ELSE OneMore(t[k - 1], read)]
    <2>2. ASSUME NEW k \in 1 .. m + 1 PROVE u[k - 1] = t[k - 1]
      <3>1. k - 1 \in 0 .. m /\ k - 1 \in 0 .. m + 1
        OBVIOUS
      <3>2. QED
        BY <3>1, <2>1 DEF Rounds
    <2>3. /\ DOMAIN u = 0 .. m + 1 /\ u = [k \in DOMAIN u |-> u[k]]
          /\ \A k \in 0 .. m + 1 : u[k] = IF k = 0 THEN {<<<<>>, raw>>} ELSE OneMore(t[k - 1], read)
      OBVIOUS
    <2> HIDE DEF u
    <2>4. \A k \in 0 .. m + 1 : u[k] = IF k = 0 THEN {<<<<>>, raw>>} ELSE OneMore(u[k - 1], read)
      BY <2>2, <2>3
    <2>5. Rounds(u, m + 1, raw, read)
      BY <2>3, <2>4, Zenon DEF Rounds
    <2>6. m + 1 \in Nat
      OBVIOUS
    <2>7. QED
      BY <2>5, <2>6, Zenon
  <1>3. n \in T
    <2> HIDE DEF T
    <2> QED
      BY <1>1, <1>2, Induct
  <1>4. \E t : Rounds(t, n, raw, read)
    BY <1>3
  <1>5. QED
    BY <1>4 DEF Repeated, Rounds

\* Bytes after bytes, and after them others.
LEMMA Rejoined ==
  \A x, y, rest \in Seq(Byte) :
    x \o y \in Seq(Byte) /\ y \o rest \in Seq(Byte) /\ (x \o y) \o rest = x \o (y \o rest)
  BY ConcatProperties, ConcatAssociative, SMTT(30)

\* x was read and nothing else could be, before rest.
One(x, rest) == {<<x, rest>>}
\* w is a writing of x for the reader that is read, whatever follows; and all of
\* the writes are, each of one of the items.
Said(w, read, x) == w \in Seq(Byte) /\ \A rest \in Seq(Byte) : read[w \o rest] = One(x, rest)
AllSaid(writes, read, items) ==
  /\ Len(writes) = Len(items)
  /\ \A i \in 1 .. Len(items) : \A w \in writes[i] : Said(w, read, items[i])

\* One more item than were read.
LEMMA OneMoreRead ==
  ASSUME NEW items, NEW raw, NEW read, NEW item, NEW rest, read[raw] = One(item, rest)
  PROVE  OneMore(One(items, raw), read) = One(Append(items, item), rest)
  <1> USE DEF One
  <1>1. OneMore({<<items, raw>>}, read)
          = UNION {{<<Append(r[1], q[1]), q[2]>> : q \in read[r[2]]} : r \in {<<items, raw>>}}
    BY DEF OneMore, Then, As
  <1>2. \A a, b : UNION {{<<Append(r[1], q[1]), q[2]>> : q \in read[r[2]]} : r \in {<<a, b>>}}
                    = {<<Append(a, q[1]), q[2]>> : q \in read[b]}
    OBVIOUS
  <1>3. {<<Append(items, q[1]), q[2]>> : q \in {<<item, rest>>}} = {<<Append(items, item), rest>>}
    OBVIOUS
  <1>4. QED
    BY <1>1, <1>2, <1>3

\* What is written in turn is read back in turn.
LEMMA TurnsReadBack ==
  ASSUME NEW S, NEW items \in Seq(S), NEW writes, NEW read, AllSaid(writes, read, items)
  PROVE  \A w \in InTurn(writes) :
           /\ w \in Seq(Byte)
           /\ \A rest \in Seq(Byte) : Repeated(Len(items), w \o rest, read) = One(items, rest)
  <1> DEFINE n == Len(items)
             First(k) == SubSeq(items, 1, k)
  <1>1. n \in Nat /\ Len(writes) = n
    BY DEF AllSaid
  <1>2. PICK t : Turns(t, writes) /\ InTurn(writes) = t[n]
    BY <1>1, WritesInTurn
  <1> DEFINE Fine(k) == \A w \in t[k] :
                          /\ w \in Seq(Byte)
                          /\ \A rest \in Seq(Byte) : \A u :
                               Rounds(u, n, w \o rest, read) => u[k] = One(First(k), rest)
             T == {k \in Nat : k <= n => Fine(k)}
  <1>3. 0 \in T
    <2>1. t[0] = {<<>>} /\ First(0) = <<>> /\ <<>> \in Seq(Byte)
      BY <1>1, <1>2 DEF Turns
    <2>2. ASSUME NEW rest \in Seq(Byte), NEW u, Rounds(u, n, <<>> \o rest, read)
          PROVE  u[0] = One(<<>>, rest)
      BY <2>2, <1>1 DEF Rounds, One
    <2> HIDE DEF First
    <2>3. QED
      BY <2>1, <2>2
  <1>4. ASSUME NEW k \in Nat, k \in T PROVE k + 1 \in T
    <2> SUFFICES ASSUME k + 1 <= n PROVE Fine(k + 1)
      OBVIOUS
    <2>1. Fine(k) /\ k + 1 \in 1 .. n /\ k + 1 \in 0 .. n /\ (k + 1) - 1 = k /\ k + 1 # 0 /\ k \in 0 .. n
      BY <1>1, <1>4
    <2>2. t[k + 1] = Cat(t[k], writes[k + 1])
      BY <2>1, <1>2 DEF Turns
    <2>3. Append(First(k), items[k + 1]) = First(k + 1)
      <3>1. items \in Seq(S) /\ k \in Nat /\ k + 1 \in 1 .. Len(items)
        BY <2>1
      <3>2. /\ SubSeq(items, 1, k) \in Seq(S) /\ Len(SubSeq(items, 1, k)) = k
            /\ \A i \in 1 .. k : SubSeq(items, 1, k)[i] = items[i]
        BY <3>1
      <3>3. /\ SubSeq(items, 1, k + 1) \in Seq(S) /\ Len(SubSeq(items, 1, k + 1)) = k + 1
            /\ \A i \in 1 .. k + 1 : SubSeq(items, 1, k + 1)[i] = items[i]
        BY <3>1
      <3>4. items[k + 1] \in S
        BY <3>1
      <3> DEFINE a == SubSeq(items, 1, k)
                 b == SubSeq(items, 1, k + 1)
      <3> HIDE DEF a, b
      <3>5. /\ Append(a, items[k + 1]) \in Seq(S) /\ Len(Append(a, items[k + 1])) = k + 1
            /\ \A i \in 1 .. k + 1 : Append(a, items[k + 1])[i] = IF i = k + 1 THEN items[k + 1] ELSE a[i]
        BY <3>2, <3>4, AppendProperties DEF a
      <3>6. \A i \in 1 .. k + 1 : Append(a, items[k + 1])[i] = b[i]
        BY <2>1, <3>2, <3>3, <3>5 DEF a, b
      <3>7. Append(a, items[k + 1]) = b
        BY <3>3, <3>5, <3>6, SeqEqual DEF b
      <3>8. QED
        BY <3>7 DEF a, b
    <2> HIDE DEF First
    <2>4. ASSUME NEW w \in t[k + 1]
          PROVE  /\ w \in Seq(Byte)
                 /\ \A rest \in Seq(Byte) : \A u :
                      Rounds(u, n, w \o rest, read) => u[k + 1] = One(First(k + 1), rest)
      <3>1. PICK x \in t[k], y \in writes[k + 1] : w = x \o y
        BY <2>2, SMTT(30) DEF Cat
      <3>2. x \in Seq(Byte) /\ y \in Seq(Byte) /\ Said(y, read, items[k + 1])
        BY <2>1 DEF AllSaid, Said
      <3>3. w \in Seq(Byte)
        BY <3>1, <3>2, ConcatProperties
      <3>4. ASSUME NEW rest \in Seq(Byte), NEW u, Rounds(u, n, w \o rest, read)
            PROVE  u[k + 1] = One(First(k + 1), rest)
        <4>1. y \o rest \in Seq(Byte) /\ w \o rest = x \o (y \o rest)
          BY <3>1, <3>2, Rejoined, SMTT(30)
        <4>2. Rounds(u, n, x \o (y \o rest), read)
          BY <3>4, <4>1
        <4>3. u[k] = One(First(k), y \o rest)
          BY <2>1, <4>1, <4>2
        <4>4. u[k + 1] = OneMore(u[k], read)
          BY <3>4, <2>1 DEF Rounds
        <4>5. read[y \o rest] = One(items[k + 1], rest)
          BY <3>2 DEF Said
        <4>6. OneMore(One(First(k), y \o rest), read) = One(Append(First(k), items[k + 1]), rest)
          <5> DEFINE had == First(k)
                     here == y \o rest
                     item == items[k + 1]
          <5>1. read[here] = One(item, rest)
            BY <4>5
          <5> HIDE DEF had, here, item
          <5>2. OneMore(One(had, here), read) = One(Append(had, item), rest)
            BY <5>1, OneMoreRead
          <5>3. QED
            BY <5>2 DEF had, here, item
        <4>7. QED
          BY <4>3, <4>4, <4>6, <2>3, Zenon
      <3>5. QED
        BY <3>3, <3>4
    <2>5. QED
      BY <2>4
  <1>5. Fine(n)
    <2>1. \A k \in Nat : k \in T
      <3> HIDE DEF T
      <3> QED
        BY <1>3, <1>4, Induct
    <2> HIDE DEF Fine
    <2>2. QED
      BY <2>1, <1>1
  <1>6. ASSUME NEW w \in InTurn(writes), NEW rest \in Seq(Byte)
        PROVE  Repeated(n, w \o rest, read) = One(items, rest)
    <2>1. PICK u : Rounds(u, n, w \o rest, read) /\ Repeated(n, w \o rest, read) = u[n]
      BY <1>1, ReadsInRounds
    <2>2. First(n) = items
      BY <1>1
    <2> HIDE DEF First
    <2>3. QED
      BY <2>1, <2>2, <1>2, <1>5
  <1>7. QED
    BY <1>2, <1>5, <1>6

\* And so are those that are counted first.
LEMMA CountedReadBack ==
  ASSUME NEW S, NEW items \in Seq(S), NEW writes, NEW read, AllSaid(writes, read, items)
  PROVE  \A w \in WriteCounted(writes) :
           w \in Seq(Byte) /\ \A rest \in Seq(Byte) : CountedBy(w \o rest, read) = One(items, rest)
  <1> SUFFICES ASSUME NEW w \in WriteCounted(writes)
               PROVE  w \in Seq(Byte) /\ \A rest \in Seq(Byte) : CountedBy(w \o rest, read) = One(items, rest)
    OBVIOUS
  <1>1. PICK x \in U32(Len(items)), y \in InTurn(writes) : w = x \o y
    BY DEF WriteCounted, Cat, AllSaid
  <1>2. y \in Seq(Byte) /\ \A rest \in Seq(Byte) : Repeated(Len(items), y \o rest, read) = One(items, rest)
    BY TurnsReadBack
  <1>3. Len(items) \in Int
    OBVIOUS
  <1>4. x \in Seq(Byte)
    BY <1>3, CodecAssumption, DigitsAreBytes DEF U32, Checked
  <1>5. ASSUME NEW rest \in Seq(Byte) PROVE CountedBy(w \o rest, read) = One(items, rest)
    <2>1. w \o rest = x \o (y \o rest) /\ y \o rest \in Seq(Byte)
      BY <1>1, <1>2, <1>4, ConcatProperties, ConcatAssociative, SMTT(30)
    <2>2. ReadU32(x \o (y \o rest)) = {<<Len(items), y \o rest>>}
      BY <1>1, <1>3, <2>1, NumbersReadBack
    <2>3. CountedBy(w \o rest, read) = UNION {Repeated(r[1], r[2], read) : r \in {<<Len(items), y \o rest>>}}
      BY <2>1, <2>2 DEF CountedBy, Then
    <2>4. \A a, b : UNION {Repeated(r[1], r[2], read) : r \in {<<a, b>>}} = Repeated(a, b, read)
      OBVIOUS
    <2>5. QED
      BY <2>3, <2>4, <1>2, Zenon
  <1>6. QED
    BY <1>1, <1>2, <1>4, <1>5, ConcatProperties

-----------------------------------------------------------------------------
(* With more bytes after them *)

\* All that was read is read with more bytes after, which are left.
Grows(reads, more, further) ==
  \A r \in reads : r = <<r[1], r[2]>> /\ r[2] \in Seq(Byte) /\ <<r[1], r[2] \o more>> \in further
Local(read) == \A raw, more \in Seq(Byte) : Grows(read[raw], more, read[raw \o more])

\* One reading does when it is there with more after it; readings do together.
LEMMA OneGrows ==
  ASSUME NEW x, NEW rest \in Seq(Byte), NEW more, NEW further,
         One(x, rest \o more) \subseteq further
  PROVE  Grows(One(x, rest), more, further)
  <1>1. \A r \in One(x, rest) : r = <<x, rest>> /\ r[1] = x /\ r[2] = rest
    BY DEF One
  <1>2. <<x, rest \o more>> \in further
    BY DEF One
  <1>3. QED
    BY <1>1, <1>2, Zenon DEF Grows

LEMMA UnionGrows ==
  ASSUME NEW Rs, NEW more, NEW further, \A reads \in Rs : Grows(reads, more, further)
  PROVE  Grows(UNION Rs, more, further)
  BY Zenon DEF Grows

LEMMA MoreGrows ==
  ASSUME NEW reads, NEW more, NEW part, NEW further, part \subseteq further,
         Grows(reads, more, part)
  PROVE  Grows(reads, more, further)
  BY Zenon DEF Grows

LEMMA TakeGrows ==
  ASSUME NEW w \in Nat, NEW raw \in Seq(Byte), NEW more \in Seq(Byte)
  PROVE  /\ Grows(Take(raw, w), more, Take(raw \o more, w))
         /\ \A r \in Take(raw, w) : r[1] \in Seq(Byte) /\ Len(r[1]) = w
  <1> DEFINE x == SubSeq(raw, 1, w)
             y == SubSeq(raw, w + 1, Len(raw))
  <1>1. CASE Len(raw) < w
    BY <1>1 DEF Take, Grows
  <1>2. CASE ~(Len(raw) < w)
    <2>1. /\ Len(raw) \in Nat /\ w <= Len(raw)
          /\ x \in Seq(Byte) /\ Len(x) = w /\ y \in Seq(Byte) /\ Len(y) = Len(raw) - w
      BY <1>2
    <2>2. raw = x \o y
      <3>1. \A i \in 1 .. w : x[i] = raw[i]
        BY <2>1
      <3>2. \A i \in 1 .. Len(raw) - w : y[i] = raw[w + i]
        BY <2>1
      <3> HIDE DEF x, y
      <3>3. /\ x \o y \in Seq(Byte) /\ Len(x \o y) = Len(raw)
            /\ \A i \in 1 .. Len(raw) : (x \o y)[i] = IF i <= w THEN x[i] ELSE y[i - w]
        BY <2>1, ConcatProperties
      <3>4. \A i \in 1 .. Len(raw) : raw[i] = (x \o y)[i]
        <4>1. ASSUME NEW i \in 1 .. Len(raw), i <= w PROVE raw[i] = (x \o y)[i]
          BY <4>1, <2>1, <3>1, <3>3
        <4>2. ASSUME NEW i \in 1 .. Len(raw), ~(i <= w) PROVE raw[i] = (x \o y)[i]
          <5>1. i - w \in 1 .. Len(raw) - w /\ w + (i - w) = i
            BY <4>2, <2>1
          <5>2. y[i - w] = raw[i]
            BY <5>1, <3>2
          <5>3. QED
            BY <4>2, <5>2, <3>3
        <4>3. QED
          BY <4>1, <4>2
      <3>5. QED
        BY <3>3, <3>4, SeqEqual
    <2>3. Take(raw, w) = {<<x, y>>}
      BY <1>2 DEF Take
    <2> HIDE DEF x, y
    <2>4. y \o more \in Seq(Byte) /\ raw \o more = x \o (y \o more)
      BY <2>1, <2>2, Rejoined
    <2>5. Take(raw \o more, w) = {<<x, y \o more>>}
      BY <2>1, <2>4, TakesFirst
    <2>6. Take(raw, w) = One(x, y) /\ Take(raw \o more, w) = One(x, y \o more)
      BY <2>3, <2>5 DEF One
    <2>7. Grows(Take(raw, w), more, Take(raw \o more, w))
      BY <2>1, <2>6, OneGrows
    <2>8. QED
      BY <2>1, <2>3, <2>7
  <1>3. QED
    BY <1>1, <1>2

\* A number of any bytes is one.
LEMMA UnsignedIsNat ==
  ASSUME NEW raw \in Seq(Byte)
  PROVE  Unsigned(raw) \in Nat
  <1>1. Adds(Sums(raw), raw)
    BY SumsGrow
  <1>2. Len(raw) \in 0 .. Len(raw)
    OBVIOUS
  <1>3. QED
    BY <1>1, <1>2 DEF Adds, Unsigned

LEMMA ReadU32Grows ==
  ASSUME NEW raw \in Seq(Byte), NEW more \in Seq(Byte)
  PROVE  /\ Grows(ReadU32(raw), more, ReadU32(raw \o more))
         /\ \A r \in ReadU32(raw) : r[1] \in Nat
  <1>1. Grows(Take(raw, W32), more, Take(raw \o more, W32))
    BY CodecAssumption, TakeGrows
  <1>2. \A r \in Take(raw, W32) : r[1] \in Seq(Byte)
    BY CodecAssumption, TakeGrows
  <1>3. \A r \in Take(raw, W32) : Unsigned(r[1]) \in Nat
    BY <1>2, UnsignedIsNat
  <1>4. \A s : ReadU32(s) = {<<Unsigned(r[1]), r[2]>> : r \in Take(s, W32)}
    BY DEF ReadU32, As
  <1>5. ASSUME NEW r \in Take(raw, W32)
        PROVE  r[2] \in Seq(Byte) /\ <<Unsigned(r[1]), r[2] \o more>> \in ReadU32(raw \o more)
    <2>1. r[2] \in Seq(Byte) /\ <<r[1], r[2] \o more>> \in Take(raw \o more, W32)
      BY <1>1 DEF Grows
    <2> DEFINE q == <<r[1], r[2] \o more>>
    <2>2. q[1] = r[1] /\ q[2] = r[2] \o more
      OBVIOUS
    <2>3. <<Unsigned(q[1]), q[2]>> \in ReadU32(raw \o more)
      <3>1. \A o \in Take(raw \o more, W32) : <<Unsigned(o[1]), o[2]>> \in ReadU32(raw \o more)
        BY <1>4
      <3>2. q \in Take(raw \o more, W32)
        BY <2>1
      <3> HIDE DEF q
      <3>3. QED
        BY <3>1, <3>2
    <2> HIDE DEF q
    <2>4. QED
      BY <2>1, <2>2, <2>3
  <1>6. ASSUME NEW x \in ReadU32(raw)
        PROVE  /\ x = <<x[1], x[2]>> /\ x[2] \in Seq(Byte) /\ x[1] \in Nat
               /\ <<x[1], x[2] \o more>> \in ReadU32(raw \o more)
    <2>1. PICK r \in Take(raw, W32) : x = <<Unsigned(r[1]), r[2]>>
      BY <1>4
    <2>2. x[1] = Unsigned(r[1]) /\ x[2] = r[2]
      BY <2>1
    <2>3. QED
      BY <2>1, <2>2, <1>3, <1>5
  <1>7. QED
    BY <1>6 DEF Grows

LEMMA OneMoreGrows ==
  ASSUME NEW reads, NEW further, NEW more \in Seq(Byte), NEW read,
         Grows(reads, more, further), Local(read)
  PROVE  Grows(OneMore(reads, read), more, OneMore(further, read))
  <1>1. \A some : OneMore(some, read)
                    = UNION {{<<Append(r[1], q[1]), q[2]>> : q \in read[r[2]]} : r \in some}
    BY DEF OneMore, Then, As
  <1> SUFFICES ASSUME NEW x \in OneMore(reads, read)
               PROVE  /\ x = <<x[1], x[2]>> /\ x[2] \in Seq(Byte)
                      /\ <<x[1], x[2] \o more>> \in OneMore(further, read)
    BY DEF Grows
  <1>2. PICK r \in reads : \E q \in read[r[2]] : x = <<Append(r[1], q[1]), q[2]>>
    BY <1>1
  <1>9. PICK q \in read[r[2]] : x = <<Append(r[1], q[1]), q[2]>>
    BY <1>2
  <1>3. r[2] \in Seq(Byte) /\ <<r[1], r[2] \o more>> \in further
    BY DEF Grows
  <1>4. q[2] \in Seq(Byte) /\ <<q[1], q[2] \o more>> \in read[r[2] \o more]
    BY <1>3 DEF Local, Grows
  <1> DEFINE s == <<r[1], r[2] \o more>>
             p == <<q[1], q[2] \o more>>
  <1>5. s \in further /\ p \in read[s[2]]
    BY <1>3, <1>4
  <1>6. <<Append(s[1], p[1]), p[2]>> \in OneMore(further, read)
    <2> HIDE DEF s, p
    <2> QED
      BY <1>1, <1>5
  <1>7. x[1] = Append(r[1], q[1]) /\ x[2] = q[2] /\ s[1] = r[1] /\ p[1] = q[1] /\ p[2] = q[2] \o more
    BY <1>9
  <1> HIDE DEF s, p
  <1>8. QED
    BY <1>9, <1>4, <1>6, <1>7

LEMMA RepeatedGrows ==
  ASSUME NEW n \in Nat, NEW raw \in Seq(Byte), NEW more \in Seq(Byte), NEW read, Local(read)
  PROVE  Grows(Repeated(n, raw, read), more, Repeated(n, raw \o more, read))
  <1>1. PICK t : Rounds(t, n, raw, read) /\ Repeated(n, raw, read) = t[n]
    BY ReadsInRounds
  <1>2. PICK u : Rounds(u, n, raw \o more, read) /\ Repeated(n, raw \o more, read) = u[n]
    BY ReadsInRounds
  <1> DEFINE T == {k \in Nat : k <= n => Grows(t[k], more, u[k])}
  <1>3. 0 \in T
    <2>1. t[0] = {<<<<>>, raw>>} /\ u[0] = {<<<<>>, raw \o more>>}
      BY <1>1, <1>2 DEF Rounds
    <2>2. t[0] = One(<<>>, raw) /\ u[0] = One(<<>>, raw \o more)
      BY <2>1 DEF One
    <2>3. Grows(t[0], more, u[0])
      BY <2>2, OneGrows
    <2>4. QED
      BY <2>3
  <1>4. ASSUME NEW k \in Nat, k \in T PROVE k + 1 \in T
    <2> SUFFICES ASSUME k + 1 <= n PROVE Grows(t[k + 1], more, u[k + 1])
      OBVIOUS
    <2>1. k + 1 \in 0 .. n /\ k + 1 # 0 /\ (k + 1) - 1 = k /\ k <= n
      OBVIOUS
    <2>2. t[k + 1] = OneMore(t[(k + 1) - 1], read) /\ u[k + 1] = OneMore(u[(k + 1) - 1], read)
      BY <2>1, <1>1, <1>2 DEF Rounds
    <2>3. Grows(t[k], more, u[k])
      BY <1>4, <2>1
    <2>4. QED
      BY <2>1, <2>2, <2>3, OneMoreGrows
  <1>5. n \in T
    <2> HIDE DEF T
    <2> QED
      BY <1>3, <1>4, Induct
  <1>6. QED
    BY <1>1, <1>2, <1>5

LEMMA CountedGrows ==
  ASSUME NEW raw \in Seq(Byte), NEW more \in Seq(Byte), NEW read, Local(read)
  PROVE  Grows(CountedBy(raw, read), more, CountedBy(raw \o more, read))
  <1>1. \A s : CountedBy(s, read) = UNION {Repeated(r[1], r[2], read) : r \in ReadU32(s)}
    BY DEF CountedBy, Then
  <1>2. ASSUME NEW r \in ReadU32(raw)
        PROVE  Grows(Repeated(r[1], r[2], read), more, CountedBy(raw \o more, read))
    <2> DEFINE s == <<r[1], r[2] \o more>>
    <2>1. r[1] \in Nat /\ r[2] \in Seq(Byte) /\ s \in ReadU32(raw \o more)
      BY ReadU32Grows DEF Grows
    <2>2. Grows(Repeated(r[1], r[2], read), more, Repeated(s[1], s[2], read))
      BY <2>1, RepeatedGrows
    <2>3. Repeated(s[1], s[2], read) \subseteq CountedBy(raw \o more, read)
      <3> HIDE DEF s
      <3> QED
        BY <1>1, <2>1
    <2> HIDE DEF s
    <2>4. QED
      BY <2>2, <2>3, MoreGrows
  <1> DEFINE Rs == {Repeated(r[1], r[2], read) : r \in ReadU32(raw)}
  <1>3. \A reads \in Rs : Grows(reads, more, CountedBy(raw \o more, read))
    BY <1>2
  <1>4. CountedBy(raw, read) = UNION Rs
    BY <1>1
  <1> HIDE DEF Rs
  <1>5. QED
    BY <1>3, <1>4, UnionGrows

-----------------------------------------------------------------------------
(* How readers are put together *)

\* What was made of readings grows with them, when it is made of what was read alone.
LEMMA MadeGrows ==
  ASSUME NEW reads, NEW more, NEW further, NEW made, NEW furthermade, Grows(reads, more, further),
         \A x \in made : \E r \in reads :
           /\ x = <<x[1], r[2]>>
           /\ \A q \in further : q[1] = r[1] => <<x[1], q[2]>> \in furthermade
  PROVE  Grows(made, more, furthermade)
  <1> SUFFICES ASSUME NEW x \in made
               PROVE  x = <<x[1], x[2]>> /\ x[2] \in Seq(Byte) /\ <<x[1], x[2] \o more>> \in furthermade
    BY DEF Grows
  <1>1. PICK r \in reads : /\ x = <<x[1], r[2]>>
                           /\ \A q \in further : q[1] = r[1] => <<x[1], q[2]>> \in furthermade
    OBVIOUS
  <1>2. x[2] = r[2]
    BY <1>1
  <1> DEFINE q == <<r[1], r[2] \o more>>
  <1>3. q \in further /\ r[2] \in Seq(Byte) /\ q[1] = r[1] /\ q[2] = r[2] \o more
    BY DEF Grows
  <1> HIDE DEF q
  <1>4. <<x[1], q[2]>> \in furthermade
    BY <1>1, <1>3
  <1>5. QED
    BY <1>1, <1>2, <1>3, <1>4

\* Two readings, one after the other.
BothBy(reads, read) == UNION {{<<<<r[1], q[1]>>, q[2]>> : q \in read[r[2]]} : r \in reads}

LEMMA BothByGrows ==
  ASSUME NEW reads, NEW more \in Seq(Byte), NEW further, NEW read,
         Grows(reads, more, further), Local(read)
  PROVE  Grows(BothBy(reads, read), more, BothBy(further, read))
  <1> SUFFICES ASSUME NEW x \in BothBy(reads, read)
               PROVE  /\ x = <<x[1], x[2]>> /\ x[2] \in Seq(Byte)
                      /\ <<x[1], x[2] \o more>> \in BothBy(further, read)
    BY DEF Grows
  <1>1. PICK r \in reads : \E q \in read[r[2]] : x = <<<<r[1], q[1]>>, q[2]>>
    BY DEF BothBy
  <1>2. PICK q \in read[r[2]] : x = <<<<r[1], q[1]>>, q[2]>>
    BY <1>1
  <1>3. r[2] \in Seq(Byte) /\ <<r[1], r[2] \o more>> \in further
    BY DEF Grows
  <1>4. q[2] \in Seq(Byte) /\ <<q[1], q[2] \o more>> \in read[r[2] \o more]
    BY <1>3 DEF Local, Grows
  <1> DEFINE s == <<r[1], r[2] \o more>>
             p == <<q[1], q[2] \o more>>
  <1>5. s \in further /\ p \in read[s[2]] /\ s[1] = r[1] /\ p[1] = q[1] /\ p[2] = q[2] \o more
    BY <1>3, <1>4
  <1> HIDE DEF s, p
  <1>6. <<<<s[1], p[1]>>, p[2]>> \in BothBy(further, read)
    BY <1>5 DEF BothBy
  <1>7. x[1] = <<r[1], q[1]>> /\ x[2] = q[2]
    BY <1>2
  <1>8. QED
    BY <1>2, <1>4, <1>5, <1>6, <1>7

LEMMA BothByOne ==
  ASSUME NEW a, NEW w, NEW rest, NEW b, NEW read, read[w] = One(b, rest)
  PROVE  BothBy(One(a, w), read) = One(<<a, b>>, rest)
  <1>1. \A x, y : UNION {{<<<<r[1], q[1]>>, q[2]>> : q \in read[r[2]]} : r \in {<<x, y>>}}
                    = {<<<<x, q[1]>>, q[2]>> : q \in read[y]}
    OBVIOUS
  <1>3. read[w] = {<<b, rest>>}
    BY DEF One
  <1>4. BothBy({<<a, w>>}, read) = {<<<<a, q[1]>>, q[2]>> : q \in read[w]}
    BY <1>1 DEF BothBy
  <1>5. {<<<<a, q[1]>>, q[2]>> : q \in {<<b, rest>>}} = {<<<<a, b>>, rest>>}
    OBVIOUS
  <1>7. BothBy({<<a, w>>}, read) = {<<<<a, b>>, rest>>}
    BY <1>3, <1>4, <1>5
  <1>6. QED
    BY <1>7 DEF One

\* The byte a writing begins with.
LEMMA TagRead ==
  ASSUME NEW tag \in Byte, NEW body \in Seq(Byte)
  PROVE  ReadU8(<<tag>> \o body) = One(tag, body) /\ <<tag>> \o body \in Seq(Byte)
  <1> DEFINE one == <<tag>>
  <1>1. one \in Seq(Byte) /\ Len(one) = 1 /\ one[1] = tag
    OBVIOUS
  <1> HIDE DEF one
  <1>2. Take(one \o body, 1) = {<<one, body>>}
    BY <1>1, TakesDigits, ZenonT(30)
  <1>3. Unsigned(one) = tag
    <2>1. 1 \in 1 .. Len(one) /\ 1 - 1 = 0
      BY <1>1
    <2>2. Sums(one)[0] = 0 /\ Sums(one)[1] = 256 * Sums(one)[0] + one[1]
      <3>1. Adds(Sums(one), one)
        BY <1>1, SumsGrow
      <3>2. QED
        BY <2>1, <3>1 DEF Adds
    <2>3. QED
      BY <1>1, <2>2 DEF Unsigned, Byte
  <1>4. ReadU8(one \o body) = {<<Unsigned(r[1]), r[2]>> : r \in {<<one, body>>}}
    BY <1>2 DEF ReadU8, As
  <1>5. \A a, b : {<<Unsigned(r[1]), r[2]>> : r \in {<<a, b>>}} = {<<Unsigned(a), b>>}
    OBVIOUS
  <1>6. ReadU8(one \o body) = One(tag, body)
    BY <1>3, <1>4, <1>5, Zenon DEF One
  <1>7. one \o body \in Seq(Byte)
    BY <1>1, Rejoined
  <1>8. QED
    BY <1>6, <1>7 DEF one

LEMMA ReadU8Grows ==
  ASSUME NEW raw \in Seq(Byte), NEW more \in Seq(Byte)
  PROVE  Grows(ReadU8(raw), more, ReadU8(raw \o more))
  <1>1. Grows(Take(raw, 1), more, Take(raw \o more, 1))
    BY TakeGrows
  <1>2. \A x \in ReadU8(raw) : \E r \in Take(raw, 1) :
          /\ x = <<x[1], r[2]>>
          /\ \A q \in Take(raw \o more, 1) : q[1] = r[1] => <<x[1], q[2]>> \in ReadU8(raw \o more)
    BY DEF ReadU8, As
  <1>3. QED
    BY <1>1, <1>2, MadeGrows

LEMMA BothByBoth ==
  ASSUME NEW w, NEW one, NEW a, NEW y, NEW two, NEW b, Said(w, one, a), Said(y, two, b)
  PROVE  /\ w \o y \in Seq(Byte)
         /\ \A rest \in Seq(Byte) : BothBy(one[(w \o y) \o rest], two) = One(<<a, b>>, rest)
  <1>1. w \in Seq(Byte) /\ y \in Seq(Byte) /\ w \o y \in Seq(Byte)
    BY Rejoined DEF Said
  <1>2. ASSUME NEW rest \in Seq(Byte) PROVE BothBy(one[(w \o y) \o rest], two) = One(<<a, b>>, rest)
    <2> DEFINE here == y \o rest
    <2>1. here \in Seq(Byte) /\ (w \o y) \o rest = w \o here
      BY <1>1, Rejoined
    <2>2. two[here] = One(b, rest)
      BY DEF Said
    <2> HIDE DEF here
    <2>3. one[w \o here] = One(a, here)
      BY <2>1 DEF Said
    <2>4. BothBy(One(a, here), two) = One(<<a, b>>, rest)
      BY <2>2, BothByOne
    <2>5. QED
      BY <2>1, <2>3, <2>4
  <1>3. QED
    BY <1>1, <1>2

\* What a local reader leaves.
LEMMA Leaves ==
  ASSUME NEW read, Local(read), NEW raw \in Seq(Byte)
  PROVE  \A r \in read[raw] : r = <<r[1], r[2]>> /\ r[2] \in Seq(Byte)
  <1>1. <<>> \in Seq(Byte)
    OBVIOUS
  <1>2. Grows(read[raw], <<>>, read[raw \o <<>>])
    BY <1>1 DEF Local
  <1>3. QED
    BY <1>2 DEF Grows

-----------------------------------------------------------------------------
(* The primitives *)

U32Reader == [raw \in Seq(Byte) |-> ReadU32(raw)]
I64Reader == [raw \in Seq(Byte) |-> ReadI64(raw)]
I128Reader == [raw \in Seq(Byte) |-> ReadI128(raw)]
NanosReader == [raw \in Seq(Byte) |-> ReadNanos(raw)]
DoubleReader == [raw \in Seq(Byte) |-> ReadDouble(raw)]
UuidReader == [raw \in Seq(Byte) |-> ReadUuid(raw)]
LenReader == [raw \in Seq(Byte) |-> ReadLenBytes(raw)]
TextReader == [raw \in Seq(Byte) |-> ReadText(raw)]

LEMMA U32Said ==
  ASSUME NEW n \in Int, NEW w \in U32(n)
  PROVE  Said(w, U32Reader, n)
  <1>1. w \in Seq(Byte)
    BY CodecAssumption, DigitsAreBytes DEF U32, Checked
  <1>2. ASSUME NEW rest \in Seq(Byte) PROVE U32Reader[w \o rest] = One(n, rest)
    BY <1>1, Rejoined, NumbersReadBack DEF U32Reader, One
  <1>3. QED
    BY <1>1, <1>2 DEF Said

LEMMA I64Said ==
  ASSUME NEW n \in Int, NEW w \in I64(n)
  PROVE  Said(w, I64Reader, n)
  <1>1. w \in Seq(Byte)
    BY CodecAssumption, DigitsAreBytes, FlipsFirst DEF I64, Checked
  <1>2. ASSUME NEW rest \in Seq(Byte) PROVE I64Reader[w \o rest] = One(n, rest)
    BY <1>1, Rejoined, NumbersReadBack DEF I64Reader, One
  <1>3. QED
    BY <1>1, <1>2 DEF Said

LEMMA I128Said ==
  ASSUME NEW n \in Int, NEW w \in I128(n)
  PROVE  Said(w, I128Reader, n)
  <1>1. w \in Seq(Byte)
    BY CodecAssumption, DigitsAreBytes DEF I128, Checked
  <1>2. ASSUME NEW rest \in Seq(Byte) PROVE I128Reader[w \o rest] = One(n, rest)
    BY <1>1, Rejoined, NumbersReadBack DEF I128Reader, One
  <1>3. QED
    BY <1>1, <1>2 DEF Said

LEMMA NanosSaid ==
  ASSUME NEW n \in Int, NEW w \in Nanos(n)
  PROVE  Said(w, NanosReader, n)
  <1>1. w \in Seq(Byte)
    BY CodecAssumption, DigitsAreBytes DEF Nanos, Checked
  <1>2. ASSUME NEW rest \in Seq(Byte) PROVE NanosReader[w \o rest] = One(n, rest)
    BY <1>1, Rejoined, NumbersReadBack DEF NanosReader, One
  <1>3. QED
    BY <1>1, <1>2 DEF Said

LEMMA DoubleSaid ==
  ASSUME NEW w \in Doubles
  PROVE  Said(w, DoubleReader, w)
  <1>1. w \in Seq(Byte) /\ Len(w) = W64
    BY DEF Doubles
  <1>2. ASSUME NEW rest \in Seq(Byte) PROVE DoubleReader[w \o rest] = One(w, rest)
    BY <1>1, Rejoined, TakesDigits, CodecAssumption DEF DoubleReader, ReadDouble, One
  <1>3. QED
    BY <1>1, <1>2 DEF Said

LEMMA UuidSaid ==
  ASSUME NEW u \in Seq(Byte), NEW w \in Fixed(u, W128)
  PROVE  Said(w, UuidReader, u)
  <1>1. w = u /\ Len(w) = W128 /\ w \in Seq(Byte)
    BY DEF Fixed
  <1>2. ASSUME NEW rest \in Seq(Byte) PROVE UuidReader[w \o rest] = One(u, rest)
    BY <1>1, Rejoined, TakesDigits, CodecAssumption DEF UuidReader, ReadUuid, One
  <1>3. QED
    BY <1>1, <1>2 DEF Said

LEMMA LenSaid ==
  ASSUME NEW x \in Seq(Byte), NEW w \in LenBytes(x)
  PROVE  Said(w, LenReader, x)
  <1>1. w \in Seq(Byte)
    <2>1. PICK y \in U32(Len(x)) : w = y \o x
      BY DEF LenBytes, Cat
    <2>2. Len(x) \in Int
      OBVIOUS
    <2>3. y \in Seq(Byte)
      BY <2>1, <2>2, U32Said DEF Said
    <2>4. QED
      BY <2>1, <2>3, Rejoined
  <1>2. ASSUME NEW rest \in Seq(Byte) PROVE LenReader[w \o rest] = One(x, rest)
    BY <1>1, Rejoined, TextsReadBack DEF LenReader, One
  <1>3. QED
    BY <1>1, <1>2 DEF Said

LEMMA TextSaid ==
  ASSUME NEW x \in Ascii, NEW w \in LenBytes(x)
  PROVE  Said(w, TextReader, x)
  <1>1. Said(w, LenReader, x)
    BY LenSaid, TextsAreBytes
  <1>2. w \in Seq(Byte)
    BY <1>1 DEF Said
  <1>3. IsText(x)
    <2>1. ASSUME NEW i \in DOMAIN x PROVE x[i] < 128
      <3>1. x \in Seq(0 .. 127)
        BY DEF Ascii
      <3>2. \A S, q, k : q \in Seq(S) /\ k \in DOMAIN q => q[k] \in S
        OBVIOUS
      <3>4. x[i] \in 0 .. 127
        BY <3>1, <3>2, Zenon
      <3>3. QED
        BY <3>4
    <2>2. QED
      BY <2>1 DEF IsText
  <1>4. ASSUME NEW rest \in Seq(Byte) PROVE TextReader[w \o rest] = One(x, rest)
    <2>1. w \o rest \in Seq(Byte)
      BY <1>2, Rejoined
    <2>2. ReadLenBytes(w \o rest) = {<<x, rest>>}
      BY <1>1, <2>1 DEF Said, One, LenReader
    <2>3. \A a, b : IsText(a) => {r \in {<<a, b>>} : IsText(r[1])} = {<<a, b>>}
      OBVIOUS
    <2>4. ReadText(w \o rest) = {<<x, rest>>}
      BY <1>3, <2>2, <2>3 DEF ReadText, Only
    <2>5. QED
      BY <2>1, <2>4 DEF TextReader, One
  <1>5. QED
    BY <1>2, <1>4 DEF Said

-----------------------------------------------------------------------------
(* The primitives with more bytes after them *)

\* What is made of the w first bytes.
LEMMA FixedGrows ==
  ASSUME NEW w \in Nat, NEW raw \in Seq(Byte), NEW more \in Seq(Byte), NEW made, NEW furthermade,
         \A x \in made : \E r \in Take(raw, w) :
           /\ x = <<x[1], r[2]>>
           /\ \A q \in Take(raw \o more, w) : q[1] = r[1] => <<x[1], q[2]>> \in furthermade
  PROVE  Grows(made, more, furthermade)
  <1>1. Grows(Take(raw, w), more, Take(raw \o more, w))
    BY TakeGrows
  <1>2. QED
    BY <1>1, MadeGrows

LEMMA U32Local == Local(U32Reader)
  <1>1. ASSUME NEW raw \in Seq(Byte), NEW more \in Seq(Byte)
        PROVE  Grows(U32Reader[raw], more, U32Reader[raw \o more])
    BY Rejoined, ReadU32Grows DEF U32Reader
  <1>2. QED
    BY <1>1 DEF Local

LEMMA I64Local == Local(I64Reader)
  <1>1. ASSUME NEW raw \in Seq(Byte), NEW more \in Seq(Byte)
        PROVE  Grows(I64Reader[raw], more, I64Reader[raw \o more])
    <2>1. raw \o more \in Seq(Byte)
      BY Rejoined
    <2>2. \A s : ReadI64(s) = {<<Signed(Flip(r[1])), r[2]>> : r \in Take(s, W64)}
      BY DEF ReadI64, As
    <2>3. \A x \in ReadI64(raw) : \E r \in Take(raw, W64) :
            /\ x = <<x[1], r[2]>>
            /\ \A q \in Take(raw \o more, W64) : q[1] = r[1] => <<x[1], q[2]>> \in ReadI64(raw \o more)
      BY <2>2
    <2>4. Grows(ReadI64(raw), more, ReadI64(raw \o more))
      BY <2>3, CodecAssumption, FixedGrows
    <2>5. QED
      BY <2>1, <2>4 DEF I64Reader
  <1>2. QED
    BY <1>1 DEF Local

LEMMA I128Local == Local(I128Reader)
  <1>1. ASSUME NEW raw \in Seq(Byte), NEW more \in Seq(Byte)
        PROVE  Grows(I128Reader[raw], more, I128Reader[raw \o more])
    <2>1. raw \o more \in Seq(Byte)
      BY Rejoined
    <2>2. \A s : ReadI128(s) = {<<Signed(r[1]), r[2]>> : r \in Take(s, W128)}
      BY DEF ReadI128, As
    <2>3. \A x \in ReadI128(raw) : \E r \in Take(raw, W128) :
            /\ x = <<x[1], r[2]>>
            /\ \A q \in Take(raw \o more, W128) : q[1] = r[1] => <<x[1], q[2]>> \in ReadI128(raw \o more)
      BY <2>2
    <2>4. Grows(ReadI128(raw), more, ReadI128(raw \o more))
      BY <2>3, CodecAssumption, FixedGrows
    <2>5. QED
      BY <2>1, <2>4 DEF I128Reader
  <1>2. QED
    BY <1>1 DEF Local

LEMMA NanosLocal == Local(NanosReader)
  <1>1. ASSUME NEW raw \in Seq(Byte), NEW more \in Seq(Byte)
        PROVE  Grows(NanosReader[raw], more, NanosReader[raw \o more])
    <2>1. raw \o more \in Seq(Byte)
      BY Rejoined
    <2>2. \A s : ReadNanos(s) = {r \in ReadU32(s) : r[1] < NANOS_PER_SECOND}
      BY DEF ReadNanos, Only
    <2>3. Grows(ReadU32(raw), more, ReadU32(raw \o more))
      BY ReadU32Grows
    <2>4. Grows(ReadNanos(raw), more, ReadNanos(raw \o more))
      <3> SUFFICES ASSUME NEW x \in ReadNanos(raw)
                   PROVE  /\ x = <<x[1], x[2]>> /\ x[2] \in Seq(Byte)
                          /\ <<x[1], x[2] \o more>> \in ReadNanos(raw \o more)
        BY DEF Grows
      <3>1. x \in ReadU32(raw) /\ x[1] < NANOS_PER_SECOND
        BY <2>2
      <3>2. x = <<x[1], x[2]>> /\ x[2] \in Seq(Byte) /\ <<x[1], x[2] \o more>> \in ReadU32(raw \o more)
        BY <3>1, <2>3 DEF Grows
      <3>3. <<x[1], x[2] \o more>>[1] = x[1]
        OBVIOUS
      <3>4. QED
        BY <3>1, <3>2, <3>3, <2>2
    <2>5. QED
      BY <2>1, <2>4 DEF NanosReader
  <1>2. QED
    BY <1>1 DEF Local

LEMMA DoubleLocal == Local(DoubleReader)
  <1>1. ASSUME NEW raw \in Seq(Byte), NEW more \in Seq(Byte)
        PROVE  Grows(DoubleReader[raw], more, DoubleReader[raw \o more])
    BY Rejoined, CodecAssumption, TakeGrows DEF DoubleReader, ReadDouble
  <1>2. QED
    BY <1>1 DEF Local

LEMMA UuidLocal == Local(UuidReader)
  <1>1. ASSUME NEW raw \in Seq(Byte), NEW more \in Seq(Byte)
        PROVE  Grows(UuidReader[raw], more, UuidReader[raw \o more])
    BY Rejoined, CodecAssumption, TakeGrows DEF UuidReader, ReadUuid
  <1>2. QED
    BY <1>1 DEF Local

LEMMA LenLocal == Local(LenReader)
  <1>1. ASSUME NEW raw \in Seq(Byte), NEW more \in Seq(Byte)
        PROVE  Grows(LenReader[raw], more, LenReader[raw \o more])
    <2>1. raw \o more \in Seq(Byte)
      BY Rejoined
    <2>2. \A s : ReadLenBytes(s) = UNION {Take(r[2], r[1]) : r \in ReadU32(s)}
      BY DEF ReadLenBytes, Then
    <2>3. ASSUME NEW r \in ReadU32(raw)
          PROVE  Grows(Take(r[2], r[1]), more, ReadLenBytes(raw \o more))
      <3> DEFINE s == <<r[1], r[2] \o more>>
      <3>1. r[1] \in Nat /\ r[2] \in Seq(Byte) /\ s \in ReadU32(raw \o more)
        BY ReadU32Grows DEF Grows
      <3>2. Grows(Take(r[2], r[1]), more, Take(s[2], s[1]))
        BY <3>1, TakeGrows
      <3> HIDE DEF s
      <3>3. Take(s[2], s[1]) \subseteq ReadLenBytes(raw \o more)
        BY <2>2, <3>1
      <3>4. QED
        BY <3>2, <3>3, MoreGrows
    <2> DEFINE Rs == {Take(r[2], r[1]) : r \in ReadU32(raw)}
    <2>4. \A reads \in Rs : Grows(reads, more, ReadLenBytes(raw \o more))
      BY <2>3
    <2>5. ReadLenBytes(raw) = UNION Rs
      BY <2>2
    <2> HIDE DEF Rs
    <2>6. Grows(ReadLenBytes(raw), more, ReadLenBytes(raw \o more))
      BY <2>4, <2>5, UnionGrows
    <2>7. QED
      BY <2>1, <2>6 DEF LenReader
  <1>2. QED
    BY <1>1 DEF Local

\* Of the readings that are texts.
LEMMA OnlyTextGrows ==
  ASSUME NEW reads, NEW more, NEW further, Grows(reads, more, further)
  PROVE  Grows(Only(reads, IsText), more, Only(further, IsText))
  <1>1. \A some : Only(some, IsText) = {r \in some : IsText(r[1])}
    BY DEF Only
  <1> SUFFICES ASSUME NEW x \in Only(reads, IsText)
               PROVE  /\ x = <<x[1], x[2]>> /\ x[2] \in Seq(Byte)
                      /\ <<x[1], x[2] \o more>> \in Only(further, IsText)
    BY DEF Grows
  <1>2. x \in reads /\ IsText(x[1])
    BY <1>1
  <1>3. x = <<x[1], x[2]>> /\ x[2] \in Seq(Byte) /\ <<x[1], x[2] \o more>> \in further
    BY <1>2 DEF Grows
  <1>4. <<x[1], x[2] \o more>>[1] = x[1]
    OBVIOUS
  <1> DEFINE y == <<x[1], x[2] \o more>>
  <1>5. y \in further /\ IsText(y[1])
    BY <1>2, <1>3, <1>4
  <1> HIDE DEF y
  <1>6. y \in Only(further, IsText)
    BY <1>1, <1>5
  <1>7. QED
    BY <1>3, <1>6 DEF y

LEMMA TextLocal == Local(TextReader)
  <1>1. ASSUME NEW raw \in Seq(Byte), NEW more \in Seq(Byte)
        PROVE  Grows(TextReader[raw], more, TextReader[raw \o more])
    <2>1. raw \o more \in Seq(Byte)
      BY Rejoined
    <2>2. Grows(LenReader[raw], more, LenReader[raw \o more])
      BY LenLocal DEF Local
    <2>3. Grows(ReadLenBytes(raw), more, ReadLenBytes(raw \o more))
      BY <2>1, <2>2 DEF LenReader
    <2>4. Grows(ReadText(raw), more, ReadText(raw \o more))
      BY <2>3, OnlyTextGrows DEF ReadText
    <2>5. QED
      BY <2>1, <2>4 DEF TextReader
  <1>2. QED
    BY <1>1 DEF Local

\* Where the bytes of an escaped text end: its first zero that 255 does not follow.
Final(s, i) == i \in DOMAIN s /\ s[i] = 0 /\ (i = Len(s) \/ s[i + 1] # 255)
EndsAt(s, e) == Final(s, e) /\ e < Len(s) /\ s[e + 1] = 1 /\ \A y \in DOMAIN s : Final(s, y) => e <= y

LEMMA VarBytesAre ==
  \A s : ReadVarBytes(s) = {<<FlattenSeq(Kept(s, e - 1)), SubSeq(s, e + 2, Len(s))>> :
                              e \in {x \in DOMAIN s : EndsAt(s, x)}}
  <1> TAKE s
  <1> DEFINE Zeros == {i \in DOMAIN s : s[i] = 0}
             Finals == {i \in Zeros : i = Len(s) \/ s[i + 1] # 255}
             Fits == {x \in Finals : x < Len(s) /\ s[x + 1] = 1 /\ \A y \in Finals : x <= y}
  <1>1. Finals = {i \in DOMAIN s : Final(s, i)}
    BY DEF Final
  <1>2. \A i : i \in Finals <=> i \in DOMAIN s /\ Final(s, i)
    BY <1>1
  <1>3. Fits = {x \in DOMAIN s : EndsAt(s, x)}
    <2> HIDE DEF Finals
    <2> QED
      BY <1>2 DEF EndsAt
  <1>4. ReadVarBytes(s) = {<<FlattenSeq(Kept(s, e - 1)), SubSeq(s, e + 2, Len(s))>> : e \in Fits}
    BY Zenon DEF ReadVarBytes, Kept
  <1>5. QED
    BY <1>3, <1>4, Zenon

LEMMA VarBytesGrow ==
  ASSUME NEW raw \in Seq(Byte), NEW more \in Seq(Byte)
  PROVE  Grows(ReadVarBytes(raw), more, ReadVarBytes(raw \o more))
  <1> DEFINE s == raw \o more
             n == Len(raw)
  <1>1. /\ s \in Seq(Byte) /\ n \in Nat /\ Len(more) \in Nat /\ Len(s) = n + Len(more)
        /\ \A i \in 1 .. n : s[i] = raw[i]
        /\ \A i \in 1 .. Len(s) : i > n => s[i] = more[i - n]
    BY ConcatProperties
  <1>2. DOMAIN raw = 1 .. n /\ DOMAIN s = 1 .. Len(s)
    BY <1>1
  <1> SUFFICES ASSUME NEW x \in ReadVarBytes(raw)
               PROVE  /\ x = <<x[1], x[2]>> /\ x[2] \in Seq(Byte)
                      /\ <<x[1], x[2] \o more>> \in ReadVarBytes(s)
    BY DEF Grows
  <1>3. PICK e \in DOMAIN raw : /\ EndsAt(raw, e)
                                /\ x = <<FlattenSeq(Kept(raw, e - 1)), SubSeq(raw, e + 2, n)>>
    BY VarBytesAre
  <1> HIDE DEF s, n
  <1>4. e \in 1 .. n /\ e < n /\ e + 1 \in 1 .. n /\ e \in 1 .. Len(s)
    BY <1>1, <1>2, <1>3 DEF EndsAt, n
  <1>5. \A i \in 1 .. n - 1 : Final(s, i) <=> Final(raw, i)
    <2> TAKE i \in 1 .. n - 1
    <2>1. i \in 1 .. n /\ i + 1 \in 1 .. n /\ i # n /\ i # Len(s) /\ i \in 1 .. Len(s)
      BY <1>1, SMTT(30)
    <2>2. s[i] = raw[i] /\ s[i + 1] = raw[i + 1] /\ i # Len(raw)
      BY <2>1, <1>1, SMTT(30) DEF n
    <2>3. i \in DOMAIN raw /\ i \in DOMAIN s /\ i # Len(s)
      BY <2>1, <1>2
    <2>4. QED
      BY <2>2, <2>3 DEF Final
  <1>6. EndsAt(s, e)
    <2>1. Final(s, e) /\ e < Len(s) /\ s[e + 1] = 1
      BY <1>1, <1>3, <1>4, <1>5 DEF EndsAt
    <2>2. ASSUME NEW y \in DOMAIN s, Final(s, y) PROVE e <= y
      <3>1. CASE y <= n - 1
        BY <3>1, <1>1, <1>2, <2>2, <1>3, <1>5 DEF EndsAt
      <3>2. CASE ~(y <= n - 1)
        BY <3>2, <1>1, <1>2, <1>4
      <3>3. QED
        BY <3>1, <3>2
    <2>3. QED
      BY <2>1, <2>2 DEF EndsAt
  <1>7. <<FlattenSeq(Kept(s, e - 1)), SubSeq(s, e + 2, Len(s))>> \in ReadVarBytes(s)
    BY <1>2, <1>4, <1>6, VarBytesAre
  <1>8. Kept(s, e - 1) = Kept(raw, e - 1)
    <2>1. ASSUME NEW i \in 1 .. e - 1
          PROVE  /\ i - 1 \in {j \in DOMAIN s : s[j] = 0} <=> i - 1 \in {j \in DOMAIN raw : raw[j] = 0}
                 /\ s[i] = raw[i]
      BY <1>1, <1>4, <1>2
    <2>2. QED
      BY <2>1 DEF Kept
  <1>9. SubSeq(s, e + 2, Len(s)) = SubSeq(raw, e + 2, n) \o more /\ SubSeq(raw, e + 2, n) \in Seq(Byte)
    <2> DEFINE m == e + 2
    <2>1. m \in 1 .. n + 1 /\ raw \in Seq(Byte) /\ more \in Seq(Byte) /\ n = Len(raw)
      BY <1>4, <1>1 DEF n
    <2> HIDE DEF m
    <2> DEFINE a == SubSeq(raw, m, n)
               b == SubSeq(s, m, Len(s))
    <2>2. /\ a \in Seq(Byte) /\ Len(a) = n + 1 - m
          /\ \A i \in 1 .. n + 1 - m : a[i] = raw[m - 1 + i]
      BY <2>1
    <2>3. /\ b \in Seq(Byte) /\ Len(b) = Len(s) + 1 - m
          /\ \A i \in 1 .. Len(s) + 1 - m : b[i] = s[m - 1 + i]
      BY <2>1, <1>1
    <2> HIDE DEF a, b
    <2>4. /\ a \o more \in Seq(Byte) /\ Len(a \o more) = Len(s) + 1 - m
          /\ \A i \in 1 .. Len(s) + 1 - m :
               (a \o more)[i] = IF i <= n + 1 - m THEN a[i] ELSE more[i - (n + 1 - m)]
      BY <2>1, <2>2, <1>1, ConcatProperties, SMTT(30)
    <2>5. \A i \in 1 .. Len(s) + 1 - m : (a \o more)[i] = b[i]
      <3> TAKE i \in 1 .. Len(s) + 1 - m
      <3>1. CASE i <= n + 1 - m
        <4>1. i \in 1 .. n + 1 - m /\ m - 1 + i \in 1 .. n
          BY <3>1, <2>1, <1>1
        <4>2. QED
          BY <4>1, <2>2, <2>3, <2>4, <1>1, SMTT(30)
      <3>2. CASE ~(i <= n + 1 - m)
        <4>1. m - 1 + i \in 1 .. Len(s) /\ m - 1 + i > n /\ (m - 1 + i) - n = i - (n + 1 - m)
          BY <3>2, <2>1, <1>1
        <4>2. s[m - 1 + i] = more[i - (n + 1 - m)]
          BY <4>1, <1>1
        <4>3. QED
          BY <4>2, <3>2, <2>3, <2>4
      <3>3. QED
        BY <3>1, <3>2
    <2>6. a \o more = b
      BY <2>3, <2>4, <2>5, SeqEqual
    <2>7. QED
      BY <2>2, <2>6 DEF a, b, m
  <1>10. x = <<x[1], x[2]>> /\ x[1] = FlattenSeq(Kept(raw, e - 1)) /\ x[2] = SubSeq(raw, e + 2, n)
    BY <1>3
  <1>11. QED
    BY <1>7, <1>8, <1>9, <1>10

-----------------------------------------------------------------------------
(* The ids of records *)

RecordIdReader == [raw \in Seq(Byte) |-> ReadRecordId(raw)]

LEMMA RecordIdSaid ==
  ASSUME NEW id \in Ids, NEW w \in RecordId(id)
  PROVE  Said(w, RecordIdReader, id)
  <1>1. w \in Seq(Byte)
    <2>1. PICK body \in Seq(Byte) : w = <<id[1]>> \o body
      BY KeyIsTagged
    <2>2. id[1] \in Byte
      <3>1. \A S, T, p : p \in S \X T => p[1] \in S
        OBVIOUS
      <3>2. id[1] \in {ID_INTEGER} \/ id[1] \in {ID_TEXT} \/ id[1] \in {ID_BYTES, ID_UUID}
        BY <3>1, Zenon DEF Ids
      <3>3. QED
        BY <3>2 DEF ID_INTEGER, ID_TEXT, ID_BYTES, ID_UUID, Byte
    <2>3. QED
      BY <2>1, <2>2, TagRead
  <1>2. ASSUME NEW rest \in Seq(Byte) PROVE RecordIdReader[w \o rest] = One(id, rest)
    BY <1>1, Rejoined, KeysReadBack DEF RecordIdReader, One
  <1>3. QED
    BY <1>1, <1>2 DEF Said

\* What is tagged with what was read before it.
LEMMA TagsGrow ==
  ASSUME NEW tag, NEW more, NEW reads, NEW further, Grows(reads, more, further)
  PROVE  Grows({<<<<tag, r[1]>>, r[2]>> : r \in reads}, more,
               {<<<<tag, r[1]>>, r[2]>> : r \in further})
  <1> DEFINE made == {<<<<tag, r[1]>>, r[2]>> : r \in reads}
             furthermade == {<<<<tag, r[1]>>, r[2]>> : r \in further}
  <1>1. ASSUME NEW x \in made
        PROVE  \E r \in reads :
                 /\ x = <<x[1], r[2]>>
                 /\ \A q \in further : q[1] = r[1] => <<x[1], q[2]>> \in furthermade
    <2>1. PICK r \in reads : x = <<<<tag, r[1]>>, r[2]>>
      OBVIOUS
    <2>2. \A q \in further : <<<<tag, q[1]>>, q[2]>> \in furthermade
      OBVIOUS
    <2>3. x[1] = <<tag, r[1]>>
      BY <2>1
    <2>4. QED
      BY <2>1, <2>2, <2>3
  <1> HIDE DEF made, furthermade
  <1>2. Grows(made, more, furthermade)
    BY <1>1, MadeGrows
  <1>3. QED
    BY <1>2 DEF made, furthermade

\* What is read of a byte is one, and the bytes after it.
LEMMA ReadU8Is ==
  ASSUME NEW raw \in Seq(Byte)
  PROVE  ReadU8(raw) \subseteq Nat \X Seq(Byte)
  <1> SUFFICES ASSUME NEW r \in ReadU8(raw) PROVE r \in Nat \X Seq(Byte)
    OBVIOUS
  <1>1. PICK o \in Take(raw, 1) : r = <<Unsigned(o[1]), o[2]>>
    BY DEF ReadU8, As
  <1>2. o[1] \in Seq(Byte)
    BY TakeGrows
  <1>3. o[2] \in Seq(Byte)
    BY TakeGrows DEF Grows
  <1>4. QED
    BY <1>1, <1>2, <1>3, UnsignedIsNat

\* A reader of what follows a byte that says what it is: body is what follows each.
Following(body, raw) == UNION {body[r] : r \in ReadU8(raw)}
TagReader(body) == [raw \in Seq(Byte) |-> Following(body, raw)]

LEMMA TagLocal ==
  ASSUME NEW body,
         \A tag \in Nat, rest, more \in Seq(Byte) :
           Grows(body[<<tag, rest>>], more, body[<<tag, rest \o more>>])
  PROVE  Local(TagReader(body))
  <1>1. ASSUME NEW raw \in Seq(Byte), NEW more \in Seq(Byte)
        PROVE  Grows(Following(body, raw), more, Following(body, raw \o more))
    <2>1. ASSUME NEW r \in ReadU8(raw)
          PROVE  Grows(body[r], more, Following(body, raw \o more))
      <3> DEFINE q == <<r[1], r[2] \o more>>
      <3>1. /\ q \in ReadU8(raw \o more) /\ r = <<r[1], r[2]>> /\ r[2] \in Seq(Byte)
        BY ReadU8Grows DEF Grows
      <3>2. r[1] \in Nat
        BY ReadU8Is
      <3>3. Grows(body[<<r[1], r[2]>>], more, body[<<r[1], r[2] \o more>>])
        BY <3>1, <3>2
      <3>4. Grows(body[r], more, body[q])
        BY <3>1, <3>3
      <3> HIDE DEF q
      <3>5. body[q] \subseteq Following(body, raw \o more)
        BY <3>1 DEF Following
      <3>6. QED
        BY <3>4, <3>5, MoreGrows
    <2> DEFINE Rs == {body[r] : r \in ReadU8(raw)}
    <2>2. \A reads \in Rs : Grows(reads, more, Following(body, raw \o more))
      BY <2>1
    <2>3. Following(body, raw) = UNION Rs
      BY DEF Following
    <2> HIDE DEF Rs
    <2>4. QED
      BY <2>2, <2>3, UnionGrows
  <1>2. QED
    BY <1>1, Rejoined DEF Local, TagReader

LEMMA TagSaid ==
  ASSUME NEW tag \in Byte, NEW w \in Seq(Byte), NEW body, NEW x,
         \A rest \in Seq(Byte) : body[<<tag, w \o rest>>] = One(x, rest)
  PROVE  Said(<<tag>> \o w, TagReader(body), x)
  <1>1. <<tag>> \o w \in Seq(Byte)
    BY TagRead
  <1>2. ASSUME NEW rest \in Seq(Byte) PROVE TagReader(body)[(<<tag>> \o w) \o rest] = One(x, rest)
    <2> DEFINE one == <<tag>>
               here == w \o rest
    <2>1. one \in Seq(Byte) /\ here \in Seq(Byte)
      BY Rejoined DEF Byte
    <2>2. ReadU8(one \o here) = One(tag, here)
      BY <2>1, TagRead
    <2>3. body[<<tag, here>>] = One(x, rest)
      OBVIOUS
    <2> HIDE DEF one, here
    <2>4. Following(body, one \o here) = One(x, rest)
      BY <2>2, <2>3 DEF Following, One
    <2>5. (one \o w) \o rest = one \o here /\ one \o here \in Seq(Byte)
      BY <2>1, Rejoined DEF here
    <2>6. QED
      BY <2>4, <2>5 DEF TagReader, one
  <1>3. QED
    BY <1>1, <1>2 DEF Said

\* Tagged writings are a byte and a body.
LEMMA TaggedIs ==
  ASSUME NEW tag, NEW writes, NEW w \in Tagged(tag, writes)
  PROVE  \E body \in writes : w = <<tag>> \o body
  BY DEF Tagged, Cat

\* What follows the tag of an id.
IdAfter(tag, rest) ==
  CASE tag = ID_INTEGER -> ReadI64(rest)
    [] tag = ID_TEXT -> Only(ReadVarBytes(rest), IsText)
    [] tag = ID_UUID -> ReadUuid(rest)
    [] tag = ID_BYTES -> ReadVarBytes(rest)
    [] OTHER -> {}
IdBodies == [r \in Nat \X Seq(Byte) |-> {<<<<r[1], q[1]>>, q[2]>> : q \in IdAfter(r[1], r[2])}]

LEMMA IdAfterGrows ==
  ASSUME NEW tag, NEW rest \in Seq(Byte), NEW more \in Seq(Byte)
  PROVE  Grows(IdAfter(tag, rest), more, IdAfter(tag, rest \o more))
  <1>1. rest \o more \in Seq(Byte)
    BY Rejoined
  <1>2. Grows(ReadI64(rest), more, ReadI64(rest \o more))
    BY I64Local, <1>1 DEF Local, I64Reader
  <1>3. Grows(ReadUuid(rest), more, ReadUuid(rest \o more))
    BY UuidLocal, <1>1 DEF Local, UuidReader
  <1>4. Grows(ReadVarBytes(rest), more, ReadVarBytes(rest \o more))
    BY VarBytesGrow
  <1>5. Grows(Only(ReadVarBytes(rest), IsText), more, Only(ReadVarBytes(rest \o more), IsText))
    BY <1>4, OnlyTextGrows
  <1>6. Grows({}, more, {})
    BY DEF Grows
  <1>7. CASE tag = ID_INTEGER
    BY <1>2, <1>7 DEF IdAfter, ID_INTEGER, ID_TEXT, ID_UUID, ID_BYTES
  <1>8. CASE tag = ID_TEXT
    BY <1>5, <1>8 DEF IdAfter, ID_INTEGER, ID_TEXT, ID_UUID, ID_BYTES
  <1>9. CASE tag = ID_UUID
    BY <1>3, <1>9 DEF IdAfter, ID_INTEGER, ID_TEXT, ID_UUID, ID_BYTES
  <1>10. CASE tag = ID_BYTES
    BY <1>4, <1>10 DEF IdAfter, ID_INTEGER, ID_TEXT, ID_UUID, ID_BYTES
  <1>11. CASE tag \notin {ID_INTEGER, ID_TEXT, ID_UUID, ID_BYTES}
    BY <1>6, <1>11 DEF IdAfter
  <1>12. QED
    BY <1>7, <1>8, <1>9, <1>10, <1>11

LEMMA RecordIdLocal == Local(RecordIdReader)
  <1>1. ASSUME NEW tag \in Nat, NEW rest \in Seq(Byte), NEW more \in Seq(Byte)
        PROVE  Grows(IdBodies[<<tag, rest>>], more, IdBodies[<<tag, rest \o more>>])
    <2>1. rest \o more \in Seq(Byte)
      BY Rejoined
    <2>2. Grows(IdAfter(tag, rest), more, IdAfter(tag, rest \o more))
      BY IdAfterGrows
    <2>3. \A b \in Seq(Byte) : IdBodies[<<tag, b>>] = {<<<<tag, q[1]>>, q[2]>> : q \in IdAfter(tag, b)}
      BY DEF IdBodies
    <2> DEFINE a == IdAfter(tag, rest)
               b == IdAfter(tag, rest \o more)
    <2>4. /\ IdBodies[<<tag, rest>>] = {<<<<tag, q[1]>>, q[2]>> : q \in a}
          /\ IdBodies[<<tag, rest \o more>>] = {<<<<tag, q[1]>>, q[2]>> : q \in b}
      BY <2>1, <2>3, Zenon
    <2>5. Grows(a, more, b)
      BY <2>2
    <2> HIDE DEF a, b
    <2>6. Grows({<<<<tag, q[1]>>, q[2]>> : q \in a}, more, {<<<<tag, q[1]>>, q[2]>> : q \in b})
      BY <2>5, TagsGrow
    <2>7. QED
      BY <2>4, <2>6, Zenon
  <1>2. Local(TagReader(IdBodies))
    BY <1>1, TagLocal
  <1>3. ASSUME NEW raw \in Seq(Byte) PROVE ReadRecordId(raw) = Following(IdBodies, raw)
    <2>1. \A r \in ReadU8(raw) : IdBodies[r] = {<<<<r[1], q[1]>>, q[2]>> : q \in IdAfter(r[1], r[2])}
      BY ReadU8Is DEF IdBodies
    <2>2. ReadRecordId(raw) = UNION {{<<<<r[1], q[1]>>, q[2]>> : q \in IdAfter(r[1], r[2])} : r \in ReadU8(raw)}
      BY Zenon DEF ReadRecordId, Then, As, IdAfter
    <2>3. QED
      BY <2>1, <2>2 DEF Following
  <1>4. RecordIdReader = TagReader(IdBodies)
    BY <1>3 DEF RecordIdReader, TagReader
  <1>5. QED
    BY <1>2, <1>4

-----------------------------------------------------------------------------
(* Readers of two things, of a number of things, of what is tagged *)

BothReader(one, two) == [raw \in Seq(Byte) |-> BothBy(one[raw], two)]
CountedReader(read) == [raw \in Seq(Byte) |-> CountedBy(raw, read)]
TagAll(tag, reads) == {<<<<tag, r[1]>>, r[2]>> : r \in reads}

LEMMA BothLocal ==
  ASSUME NEW one, NEW two, Local(one), Local(two)
  PROVE  Local(BothReader(one, two))
  <1>1. ASSUME NEW raw \in Seq(Byte), NEW more \in Seq(Byte)
        PROVE  Grows(BothReader(one, two)[raw], more, BothReader(one, two)[raw \o more])
    BY BothByGrows, Rejoined DEF Local, BothReader
  <1>2. QED
    BY <1>1 DEF Local

LEMMA BothSaid ==
  ASSUME NEW w, NEW one, NEW a, NEW y, NEW two, NEW b, Said(w, one, a), Said(y, two, b)
  PROVE  Said(w \o y, BothReader(one, two), <<a, b>>)
  <1>1. w \o y \in Seq(Byte)
    BY BothByBoth
  <1>2. ASSUME NEW rest \in Seq(Byte)
        PROVE  BothReader(one, two)[(w \o y) \o rest] = One(<<a, b>>, rest)
    BY BothByBoth, <1>1, Rejoined DEF BothReader
  <1>3. QED
    BY <1>1, <1>2 DEF Said

LEMMA CountedLocal ==
  ASSUME NEW read, Local(read)
  PROVE  Local(CountedReader(read))
  <1>1. ASSUME NEW raw \in Seq(Byte), NEW more \in Seq(Byte)
        PROVE  Grows(CountedReader(read)[raw], more, CountedReader(read)[raw \o more])
    BY CountedGrows, Rejoined DEF CountedReader
  <1>2. QED
    BY <1>1 DEF Local

LEMMA CountedSaid ==
  ASSUME NEW S, NEW items \in Seq(S), NEW writes, NEW read, AllSaid(writes, read, items),
         NEW w \in WriteCounted(writes)
  PROVE  Said(w, CountedReader(read), items)
  <1>1. /\ w \in Seq(Byte)
        /\ \A rest \in Seq(Byte) : CountedBy(w \o rest, read) = One(items, rest)
    BY CountedReadBack
  <1>2. \A rest \in Seq(Byte) : CountedReader(read)[w \o rest] = One(items, rest)
    BY <1>1, Rejoined DEF CountedReader
  <1>3. QED
    BY <1>1, <1>2 DEF Said

LEMMA TagAllGrows ==
  ASSUME NEW tag, NEW more, NEW reads, NEW further, Grows(reads, more, further)
  PROVE  Grows(TagAll(tag, reads), more, TagAll(tag, further))
  BY TagsGrow DEF TagAll

LEMMA TagAllOne ==
  ASSUME NEW tag, NEW x, NEW rest
  PROVE  TagAll(tag, One(x, rest)) = One(<<tag, x>>, rest)
  <1>1. {<<<<tag, r[1]>>, r[2]>> : r \in {<<x, rest>>}} = {<<<<tag, x>>, rest>>}
    OBVIOUS
  <1>2. QED
    BY <1>1 DEF TagAll, One

LEMMA NoneGrows ==
  ASSUME NEW more
  PROVE  Grows({}, more, {})
  BY DEF Grows

-----------------------------------------------------------------------------
(* Shapes *)

PositionReader == [raw \in Seq(Byte) |-> ReadPosition(raw)]
LineReader == [raw \in Seq(Byte) |-> ReadPositions(raw)]
LinesReader == CountedReader(LineReader)
PolygonReader == [raw \in Seq(Byte) |-> ReadPolygon(raw)]

LEMMA PositionReaders == PositionReader = BothReader(DoubleReader, DoubleReader)
  <1>1. ASSUME NEW raw \in Seq(Byte)
        PROVE  ReadPosition(raw) = BothBy(DoubleReader[raw], DoubleReader)
    BY DoubleLocal, Leaves DEF ReadPosition, Both, Then, As, DoubleReader, BothBy
  <1>2. QED
    BY <1>1 DEF PositionReader, BothReader

LEMMA PositionLocal == Local(PositionReader)
  BY PositionReaders, BothLocal, DoubleLocal

LEMMA PositionSaid ==
  ASSUME NEW at \in Doubles \X Doubles, NEW w \in Position(at)
  PROVE  Said(w, PositionReader, at)
  <1>1. at = <<at[1], at[2]>> /\ at[1] \in Doubles /\ at[2] \in Doubles /\ w = at[1] \o at[2]
    BY DEF Position
  <1>2. Said(at[1], DoubleReader, at[1]) /\ Said(at[2], DoubleReader, at[2])
    BY <1>1, DoubleSaid
  <1> DEFINE a == at[1]
             b == at[2]
  <1>3. Said(a, DoubleReader, a) /\ Said(b, DoubleReader, b) /\ at = <<a, b>> /\ w = a \o b
    BY <1>1, <1>2
  <1> HIDE DEF a, b
  <1>4. Said(a \o b, BothReader(DoubleReader, DoubleReader), <<a, b>>)
    BY <1>3, BothSaid
  <1>5. QED
    BY <1>3, <1>4, PositionReaders

LEMMA LineReaders == LineReader = CountedReader(PositionReader)
  BY DEF LineReader, CountedReader, ReadPositions, ReadCounted, PositionReader

LEMMA LineLocal == Local(LineReader)
  BY LineReaders, CountedLocal, PositionLocal

LEMMA LineSaid ==
  ASSUME NEW line \in Lines, NEW w \in Positions(line)
  PROVE  Said(w, LineReader, line)
  <1> DEFINE writes == [i \in DOMAIN line |-> Position(line[i])]
  <1>1. line \in Seq(Doubles \X Doubles)
    BY DEF Lines
  <1>2. DOMAIN line = 1 .. Len(line) /\ Len(writes) = Len(line)
    BY <1>1
  <1>3. ASSUME NEW i \in 1 .. Len(line), NEW v \in writes[i] PROVE Said(v, PositionReader, line[i])
    BY <1>1, <1>2, PositionSaid
  <1>4. AllSaid(writes, PositionReader, line)
    BY <1>2, <1>3 DEF AllSaid
  <1>5. w \in WriteCounted(writes)
    BY DEF Positions, Counted
  <1> HIDE DEF writes
  <1>6. QED
    BY <1>1, <1>4, <1>5, CountedSaid, LineReaders

LEMMA LinesLocal == Local(LinesReader)
  BY LineLocal, CountedLocal DEF LinesReader

LEMMA LinesSaid ==
  ASSUME NEW lines \in Seq(Lines), NEW w \in Counted(lines, Positions)
  PROVE  Said(w, LinesReader, lines)
  <1> DEFINE writes == [i \in DOMAIN lines |-> Positions(lines[i])]
  <1>1. DOMAIN lines = 1 .. Len(lines) /\ Len(writes) = Len(lines)
    OBVIOUS
  <1>2. ASSUME NEW i \in 1 .. Len(lines), NEW v \in writes[i] PROVE Said(v, LineReader, lines[i])
    BY <1>1, LineSaid
  <1>3. AllSaid(writes, LineReader, lines)
    BY <1>1, <1>2 DEF AllSaid
  <1>4. w \in WriteCounted(writes)
    BY DEF Counted
  <1> HIDE DEF writes
  <1>5. QED
    BY <1>3, <1>4, CountedSaid DEF LinesReader

LEMMA CatIs ==
  \A writes, more : \A w \in Cat(writes, more) : \E a \in writes, b \in more : w = a \o b
  BY DEF Cat

LEMMA HeadAndTail ==
  ASSUME NEW S, NEW s \in Seq(S), s # <<>>
  PROVE  Head(s) \in S /\ Tail(s) \in Seq(S) /\ s = <<Head(s)>> \o Tail(s)
  <1>1. /\ Head(s) \in S /\ Tail(s) \in Seq(S) /\ Len(Tail(s)) = Len(s) - 1 /\ Len(s) \in Nat \ {0}
        /\ Head(s) = s[1] /\ \A i \in 1 .. Len(s) - 1 : Tail(s)[i] = s[i + 1]
    OBVIOUS
  <1> DEFINE a == <<Head(s)>>
             b == Tail(s)
  <1>2. a \in Seq(S) /\ Len(a) = 1 /\ a[1] = s[1]
    BY <1>1
  <1>3. b \in Seq(S) /\ Len(b) = Len(s) - 1 /\ \A i \in 1 .. Len(s) - 1 : b[i] = s[i + 1]
    BY <1>1
  <1> HIDE DEF a, b
  <1>4. /\ a \o b \in Seq(S) /\ Len(a \o b) = Len(s)
        /\ \A i \in 1 .. Len(s) : (a \o b)[i] = IF i <= 1 THEN a[i] ELSE b[i - 1]
    <2>1. /\ a \o b \in Seq(S) /\ Len(a \o b) = Len(a) + Len(b)
          /\ \A i \in 1 .. Len(a) + Len(b) : (a \o b)[i] = IF i <= Len(a) THEN a[i] ELSE b[i - Len(a)]
      <3>1. a \in Seq(S) /\ b \in Seq(S)
        BY <1>2, <1>3
      <3>2. QED
        BY <3>1, ConcatProperties
    <2>2. Len(a) + Len(b) = Len(s)
      BY <1>1, <1>2, <1>3
    <2>3. QED
      BY <2>1, <2>2, <1>2
  <1>5. \A i \in 1 .. Len(s) : (a \o b)[i] = s[i]
    <2> TAKE i \in 1 .. Len(s)
    <2>1. CASE i = 1
      BY <2>1, <1>2, <1>4
    <2>2. CASE i # 1
      BY <2>2, <1>1, <1>3, <1>4
    <2>3. QED
      BY <2>1, <2>2
  <1>6. a \o b = s
    BY <1>4, <1>5, SeqEqual
  <1>7. QED
    BY <1>1, <1>6 DEF a, b

RingsReader == BothReader(LineReader, LinesReader)
Ringed(reads) == {<<<<r[1][1]>> \o r[1][2], r[2]>> : r \in reads}

LEMMA PolygonReaders ==
  ASSUME NEW raw \in Seq(Byte)
  PROVE  PolygonReader[raw] = Ringed(RingsReader[raw])
  <1>1. ReadPolygon(raw) =
          {<<<<r[1][1]>> \o r[1][2], r[2]>> :
            r \in UNION {{<<<<r[1], q[1]>>, q[2]>> : q \in CountedBy(r[2], LineReader)} :
                          r \in ReadPositions(raw)}}
    BY DEF ReadPolygon, Both, Then, As, ReadCounted, LineReader
  <1>2. LineReader[raw] = ReadPositions(raw)
    BY DEF LineReader
  <1>3. \A r \in ReadPositions(raw) : LinesReader[r[2]] = CountedBy(r[2], LineReader)
    BY <1>2, LineLocal, Leaves DEF LinesReader, CountedReader
  <1>4. RingsReader[raw]
          = UNION {{<<<<r[1], q[1]>>, q[2]>> : q \in CountedBy(r[2], LineReader)} : r \in ReadPositions(raw)}
    BY <1>2, <1>3 DEF RingsReader, BothReader, BothBy
  <1>5. ReadPolygon(raw) = Ringed(RingsReader[raw])
    BY <1>1, <1>4, Zenon DEF Ringed
  <1>6. QED
    BY <1>5 DEF PolygonReader

LEMMA PolygonLocal == Local(PolygonReader)
  <1>1. Local(RingsReader)
    BY LineLocal, LinesLocal, BothLocal DEF RingsReader
  <1>2. ASSUME NEW raw \in Seq(Byte), NEW more \in Seq(Byte)
        PROVE  Grows(PolygonReader[raw], more, PolygonReader[raw \o more])
    <2>1. Grows(RingsReader[raw], more, RingsReader[raw \o more])
      BY <1>1 DEF Local
    <2> DEFINE reads == RingsReader[raw]
               further == RingsReader[raw \o more]
    <2>2. PolygonReader[raw] = Ringed(reads) /\ PolygonReader[raw \o more] = Ringed(further)
      BY PolygonReaders, Rejoined
    <2>3. Grows(reads, more, further)
      BY <2>1
    <2> HIDE DEF reads, further
    <2>4. ASSUME NEW x \in Ringed(reads)
          PROVE  \E r \in reads :
                   /\ x = <<x[1], r[2]>>
                   /\ \A q \in further : q[1] = r[1] => <<x[1], q[2]>> \in Ringed(further)
      <3>1. PICK r \in reads : x = <<<<r[1][1]>> \o r[1][2], r[2]>>
        BY DEF Ringed
      <3>2. \A q \in further : <<<<q[1][1]>> \o q[1][2], q[2]>> \in Ringed(further)
        BY DEF Ringed
      <3>3. x[1] = <<r[1][1]>> \o r[1][2]
        BY <3>1
      <3>4. QED
        BY <3>1, <3>2, <3>3
    <2>5. Grows(Ringed(reads), more, Ringed(further))
      BY <2>3, <2>4, MadeGrows
    <2>6. QED
      BY <2>2, <2>5
  <1>3. QED
    BY <1>2 DEF Local

LEMMA PolygonSaid ==
  ASSUME NEW polygon \in Polygons, NEW w \in Polygon(polygon)
  PROVE  Said(w, PolygonReader, polygon)
  <1> DEFINE head == Head(polygon)
             tail == Tail(polygon)
  <1>1. head \in Lines /\ tail \in Seq(Lines) /\ polygon = <<head>> \o tail
    BY HeadAndTail DEF Polygons
  <1>2. PICK a \in Positions(head), b \in Counted(tail, Positions) : w = a \o b
    <2> DEFINE writes == Positions(head)
               more == Counted(tail, Positions)
    <2>1. w \in Cat(writes, more)
      BY DEF Polygon
    <2> HIDE DEF writes, more
    <2>2. \E a \in writes, b \in more : w = a \o b
      BY <2>1, CatIs
    <2>3. QED
      BY <2>2 DEF writes, more
  <1> HIDE DEF head, tail
  <1>3. Said(a, LineReader, head) /\ Said(b, LinesReader, tail)
    BY <1>1, LineSaid, LinesSaid
  <1>4. Said(w, RingsReader, <<head, tail>>)
    BY <1>2, <1>3, BothSaid DEF RingsReader
  <1>5. ASSUME NEW rest \in Seq(Byte) PROVE PolygonReader[w \o rest] = One(polygon, rest)
    <2>1. RingsReader[w \o rest] = {<<<<head, tail>>, rest>>} /\ w \o rest \in Seq(Byte)
      BY <1>4, Rejoined DEF Said, One
    <2>2. PolygonReader[w \o rest]
            = {<<<<r[1][1]>> \o r[1][2], r[2]>> : r \in {<<<<head, tail>>, rest>>}}
      BY <2>1, PolygonReaders DEF Ringed
    <2>3. {<<<<r[1][1]>> \o r[1][2], r[2]>> : r \in {<<<<head, tail>>, rest>>}}
            = {<<<<head>> \o tail, rest>>}
      OBVIOUS
    <2>4. QED
      BY <2>2, <2>3, <1>1 DEF One
  <1>6. QED
    BY <1>4, <1>5 DEF Said

LEMMA PolygonsSaid ==
  ASSUME NEW polygons \in Seq(Polygons), NEW w \in Counted(polygons, Polygon)
  PROVE  Said(w, CountedReader(PolygonReader), polygons)
  <1> DEFINE writes == [i \in DOMAIN polygons |-> Polygon(polygons[i])]
  <1>1. DOMAIN polygons = 1 .. Len(polygons) /\ Len(writes) = Len(polygons)
    OBVIOUS
  <1>2. ASSUME NEW i \in 1 .. Len(polygons), NEW v \in writes[i]
        PROVE  Said(v, PolygonReader, polygons[i])
    BY <1>1, PolygonSaid
  <1>3. AllSaid(writes, PolygonReader, polygons)
    BY <1>1, <1>2 DEF AllSaid
  <1>4. w \in WriteCounted(writes)
    BY DEF Counted
  <1> HIDE DEF writes
  <1>5. QED
    BY <1>3, <1>4, CountedSaid

\* A shape after its kind, read by a reader of those in it.
ShapeBodies(read) == [r \in Nat \X Seq(Byte) |-> TagAll(r[1], ReadShapeBody(r[1], r[2], read))]
ShapeReader(read) == [raw \in Seq(Byte) |-> ReadShapeOne(raw, read)]

LEMMA ShapeReaders ==
  ASSUME NEW read
  PROVE  ShapeReader(read) = TagReader(ShapeBodies(read))
  <1>1. ASSUME NEW raw \in Seq(Byte) PROVE ReadShapeOne(raw, read) = Following(ShapeBodies(read), raw)
    <2>1. \A r \in ReadU8(raw) :
            ShapeBodies(read)[r] = {<<<<r[1], q[1]>>, q[2]>> : q \in ReadShapeBody(r[1], r[2], read)}
      BY ReadU8Is DEF ShapeBodies, TagAll
    <2>2. ReadShapeOne(raw, read)
            = UNION {{<<<<r[1], q[1]>>, q[2]>> : q \in ReadShapeBody(r[1], r[2], read)} : r \in ReadU8(raw)}
      BY Zenon DEF ReadShapeOne, Then, As
    <2>3. QED
      BY <2>1, <2>2 DEF Following
  <1>2. QED
    BY <1>1 DEF ShapeReader, TagReader

\* Which reader each kind of shape has.
ShapeKind(kind, reader, read) == \A rest \in Seq(Byte) : ReadShapeBody(kind, rest, read) = reader[rest]

LEMMA ShapeKinds ==
  ASSUME NEW read
  PROVE  /\ ShapeKind(POINT, PositionReader, read)
         /\ \A kind \in {LINE, MULTIPOINT} : ShapeKind(kind, LineReader, read)
         /\ ShapeKind(POLYGON, PolygonReader, read)
         /\ ShapeKind(MULTILINE, LinesReader, read)
         /\ ShapeKind(MULTIPOLYGON, CountedReader(PolygonReader), read)
         /\ ShapeKind(COLLECTION, CountedReader(read), read)
  <1> USE DEF POINT, LINE, POLYGON, MULTIPOINT, MULTILINE, MULTIPOLYGON, COLLECTION
  <1>1. \A rest \in Seq(Byte) : ReadShapeBody(POINT, rest, read) = PositionReader[rest]
    BY DEF ReadShapeBody, PositionReader
  <1>2. \A kind \in {LINE, MULTIPOINT}, rest \in Seq(Byte) : ReadShapeBody(kind, rest, read) = LineReader[rest]
    <2>1. \A rest \in Seq(Byte) : ReadShapeBody(LINE, rest, read) = LineReader[rest]
      BY DEF ReadShapeBody, LineReader
    <2>2. \A rest \in Seq(Byte) : ReadShapeBody(MULTIPOINT, rest, read) = LineReader[rest]
      BY DEF ReadShapeBody, LineReader
    <2>3. QED
      BY <2>1, <2>2
  <1>3. \A rest \in Seq(Byte) : ReadShapeBody(POLYGON, rest, read) = PolygonReader[rest]
    BY DEF ReadShapeBody, PolygonReader
  <1>4. \A rest \in Seq(Byte) : ReadShapeBody(MULTILINE, rest, read) = LinesReader[rest]
    BY DEF ReadShapeBody, LinesReader, CountedReader, ReadCounted, LineReader
  <1>5. \A rest \in Seq(Byte) : ReadShapeBody(MULTIPOLYGON, rest, read) = CountedReader(PolygonReader)[rest]
    BY DEF ReadShapeBody, CountedReader, ReadCounted, PolygonReader
  <1>6. \A rest \in Seq(Byte) : ReadShapeBody(COLLECTION, rest, read) = CountedReader(read)[rest]
    BY DEF ReadShapeBody, CountedReader
  <1>7. QED
    BY <1>1, <1>2, <1>3, <1>4, <1>5, <1>6 DEF ShapeKind

LEMMA ShapeBodyGrows ==
  ASSUME NEW read, Local(read), NEW kind, NEW rest \in Seq(Byte), NEW more \in Seq(Byte)
  PROVE  Grows(ReadShapeBody(kind, rest, read), more, ReadShapeBody(kind, rest \o more, read))
  <1>1. ASSUME NEW reader, Local(reader), ShapeKind(kind, reader, read)
        PROVE  Grows(ReadShapeBody(kind, rest, read), more, ReadShapeBody(kind, rest \o more, read))
    BY Rejoined, <1>1, ZenonT(30) DEF Local, ShapeKind
  <1>2. CASE kind = POINT
    BY <1>1, <1>2, ShapeKinds, PositionLocal
  <1>3. CASE kind \in {LINE, MULTIPOINT}
    BY <1>1, <1>3, ShapeKinds, LineLocal
  <1>4. CASE kind = POLYGON
    BY <1>1, <1>4, ShapeKinds, PolygonLocal
  <1>5. CASE kind = MULTILINE
    BY <1>1, <1>5, ShapeKinds, LinesLocal
  <1>6. CASE kind = MULTIPOLYGON
    BY PolygonLocal, CountedLocal, <1>1, <1>6, ShapeKinds
  <1>7. CASE kind = COLLECTION
    BY CountedLocal, <1>1, <1>7, ShapeKinds
  <1>8. CASE kind \notin {POINT, LINE, MULTIPOINT, POLYGON, MULTILINE, MULTIPOLYGON, COLLECTION}
    BY <1>8, NoneGrows DEF ReadShapeBody
  <1>9. QED
    BY <1>2, <1>3, <1>4, <1>5, <1>6, <1>7, <1>8

LEMMA ShapeLocal ==
  ASSUME NEW read, Local(read)
  PROVE  Local(ShapeReader(read))
  <1> DEFINE bodies == ShapeBodies(read)
  <1>1. ASSUME NEW kind \in Nat, NEW rest \in Seq(Byte), NEW more \in Seq(Byte)
        PROVE  Grows(bodies[<<kind, rest>>], more, bodies[<<kind, rest \o more>>])
    <2>1. rest \o more \in Seq(Byte)
      BY Rejoined
    <2> DEFINE a == ReadShapeBody(kind, rest, read)
               b == ReadShapeBody(kind, rest \o more, read)
    <2>2. bodies[<<kind, rest>>] = TagAll(kind, a) /\ bodies[<<kind, rest \o more>>] = TagAll(kind, b)
      BY <2>1 DEF ShapeBodies
    <2>3. Grows(a, more, b)
      BY ShapeBodyGrows
    <2> HIDE DEF a, b, bodies
    <2>4. QED
      BY <2>2, <2>3, TagAllGrows
  <1> HIDE DEF bodies
  <1>2. Local(TagReader(bodies))
    BY <1>1, TagLocal
  <1>3. QED
    BY <1>2, ShapeReaders DEF bodies

\* A shape of one kind is read back when what is after its kind is.
LEMMA ShapeKindSaid ==
  ASSUME NEW kind \in Byte, NEW read, NEW reader, NEW x, NEW body,
         ShapeKind(kind, reader, read), Said(body, reader, x)
  PROVE  Said(<<kind>> \o body, ShapeReader(read), <<kind, x>>)
  <1> DEFINE bodies == ShapeBodies(read)
  <1>1. body \in Seq(Byte) /\ kind \in Nat
    BY DEF Said, Byte
  <1>2. ASSUME NEW rest \in Seq(Byte) PROVE bodies[<<kind, body \o rest>>] = One(<<kind, x>>, rest)
    <2> DEFINE here == body \o rest
    <2>1. here \in Seq(Byte) /\ reader[here] = One(x, rest)
      BY <1>1, Rejoined DEF Said
    <2> HIDE DEF here
    <2>2. bodies[<<kind, here>>] = TagAll(kind, ReadShapeBody(kind, here, read))
      BY <1>1, <2>1 DEF ShapeBodies
    <2>3. ReadShapeBody(kind, here, read) = One(x, rest)
      BY <2>1 DEF ShapeKind
    <2>4. bodies[<<kind, here>>] = One(<<kind, x>>, rest)
      BY <2>2, <2>3, TagAllOne
    <2>5. QED
      BY <2>4 DEF here
  <1> HIDE DEF bodies
  <1>3. Said(<<kind>> \o body, TagReader(bodies), <<kind, x>>)
    BY <1>1, <1>2, TagSaid
  <1>4. QED
    BY <1>3, ShapeReaders DEF bodies

\* The writers of the shapes in one.
WritesAll(write, read, S) == \A x \in S : \A w \in write[x] : Said(w, read, x)

LEMMA PartsSaid ==
  ASSUME NEW S, NEW items \in Seq(S), NEW write, NEW read,
         \A i \in 1 .. Len(items) : \A v \in write[items[i]] : Said(v, read, items[i]),
         NEW w \in WriteCounted([i \in DOMAIN items |-> write[items[i]]])
  PROVE  Said(w, CountedReader(read), items)
  <1> DEFINE writes == [i \in DOMAIN items |-> write[items[i]]]
  <1>1. DOMAIN items = 1 .. Len(items) /\ Len(writes) = Len(items)
    OBVIOUS
  <1>2. AllSaid(writes, read, items)
    BY <1>1 DEF AllSaid
  <1>3. w \in WriteCounted(writes)
    OBVIOUS
  <1> HIDE DEF writes
  <1>4. QED
    BY <1>2, <1>3, CountedSaid

LEMMA ShapeSaid ==
  ASSUME NEW S, NEW shape \in ShapesOf(S), NEW write, NEW read,
         shape[1] = COLLECTION =>
           \A i \in 1 .. Len(shape[2]) : \A v \in write[shape[2][i]] : Said(v, read, shape[2][i]),
         NEW w \in ShapeOne(shape, write)
  PROVE  Said(w, ShapeReader(read), shape)
  <1> DEFINE kind == shape[1]
             x == shape[2]
  <1>1. PICK body \in ShapeBody(shape, write) : w = <<kind>> \o body
    BY TaggedIs DEF ShapeOne
  <1>2. \/ shape \in {POINT} \X (Doubles \X Doubles)
        \/ shape \in {LINE, MULTIPOINT} \X Lines
        \/ shape \in {POLYGON} \X Polygons
        \/ shape \in {MULTILINE} \X Seq(Lines)
        \/ shape \in {MULTIPOLYGON} \X Seq(Polygons)
        \/ shape \in {COLLECTION} \X Seq(S)
    BY Zenon DEF ShapesOf
  <1>3. \A A, B : shape \in A \X B => shape = <<kind, x>> /\ kind \in A /\ x \in B
    OBVIOUS
  <1> HIDE DEF kind, x
  <1> USE DEF POINT, LINE, POLYGON, MULTIPOINT, MULTILINE, MULTIPOLYGON, COLLECTION
  <1>4. ASSUME NEW reader, ShapeKind(kind, reader, read), Said(body, reader, x), kind \in Byte,
               shape = <<kind, x>>
        PROVE  Said(w, ShapeReader(read), shape)
    BY <1>1, <1>4, ShapeKindSaid
  <1>5. CASE shape \in {POINT} \X (Doubles \X Doubles)
    <2>1. shape = <<kind, x>> /\ kind \in {POINT} /\ x \in Doubles \X Doubles
      BY <1>3, <1>5, Zenon
    <2>2. body \in Position(x)
      <3>1. kind = POINT
        BY <2>1
      <3>2. QED
        BY <3>1, <1>1 DEF ShapeBody, kind, x
    <2>3. Said(body, PositionReader, x) /\ ShapeKind(kind, PositionReader, read)
      BY <2>1, <2>2, PositionSaid, ShapeKinds
    <2>4. QED
      BY <2>1, <2>3, <1>4 DEF Byte
  <1>6. CASE shape \in {LINE, MULTIPOINT} \X Lines
    <2>1. shape = <<kind, x>> /\ kind \in {LINE, MULTIPOINT} /\ x \in Lines
      BY <1>3, <1>6, Zenon
    <2>2. body \in Positions(x)
      <3>1. CASE kind = LINE
        BY <3>1, <1>1 DEF ShapeBody, kind, x
      <3>2. CASE kind = MULTIPOINT
        BY <3>2, <1>1 DEF ShapeBody, kind, x
      <3>3. QED
        BY <3>1, <3>2, <2>1
    <2>3. Said(body, LineReader, x) /\ ShapeKind(kind, LineReader, read)
      BY <2>1, <2>2, LineSaid, ShapeKinds
    <2>4. QED
      BY <2>1, <2>3, <1>4 DEF Byte
  <1>7. CASE shape \in {POLYGON} \X Polygons
    <2>1. shape = <<kind, x>> /\ kind \in {POLYGON} /\ x \in Polygons
      BY <1>3, <1>7, Zenon
    <2>2. body \in Polygon(x)
      <3>1. kind = POLYGON
        BY <2>1
      <3>2. QED
        BY <3>1, <1>1 DEF ShapeBody, kind, x
    <2>3. Said(body, PolygonReader, x) /\ ShapeKind(kind, PolygonReader, read)
      BY <2>1, <2>2, PolygonSaid, ShapeKinds
    <2>4. QED
      BY <2>1, <2>3, <1>4 DEF Byte
  <1>8. CASE shape \in {MULTILINE} \X Seq(Lines)
    BY <1>3, <1>8, <1>1, LinesSaid, ShapeKinds, <1>4 DEF ShapeBody, kind, x, Byte
  <1>9. CASE shape \in {MULTIPOLYGON} \X Seq(Polygons)
    BY <1>3, <1>9, <1>1, PolygonsSaid, ShapeKinds, <1>4 DEF ShapeBody, kind, x, Byte
  <1>10. CASE shape \in {COLLECTION} \X Seq(S)
    <2>1. shape = <<kind, x>> /\ kind \in {COLLECTION} /\ x \in Seq(S)
      BY <1>3, <1>10, Zenon
    <2>2. body \in WriteCounted([i \in DOMAIN x |-> write[x[i]]])
      BY <2>1, <1>1 DEF ShapeBody, Counted, kind, x
    <2>3. \A i \in 1 .. Len(x) : \A v \in write[x[i]] : Said(v, read, x[i])
      BY <2>1 DEF kind, x
    <2>4. Said(body, CountedReader(read), x)
      BY <2>1, <2>2, <2>3, PartsSaid
    <2>5. ShapeKind(kind, CountedReader(read), read)
      BY <2>1, ShapeKinds
    <2>6. QED
      BY <2>1, <2>4, <2>5, <1>4 DEF Byte
  <1>11. QED
    BY <1>2, <1>5, <1>6, <1>7, <1>8, <1>9, <1>10, Zenon

-----------------------------------------------------------------------------
(* Shapes in shapes *)

\* The shapes that nest at most so deep.
ShapesAt(t, n) == t = [k \in 0 .. n |-> IF k = 0 THEN {} ELSE ShapesOf(t[k - 1])]

LEMMA ShapesAtThere ==
  ASSUME NEW n \in Nat
  PROVE  \E t : ShapesAt(t, n)
  <1> DEFINE T == {m \in Nat : \E t : ShapesAt(t, m)}
  <1>1. 0 \in T
    <2> DEFINE u == [k \in 0 .. 0 |-> IF k = 0 THEN {} ELSE ShapesOf({})]
    <2>1. DOMAIN u = 0 .. 0 /\ u = [k \in DOMAIN u |-> u[k]] /\ \A k \in 0 .. 0 : k = 0 /\ u[k] = IF 0 = 0 THEN {} ELSE ShapesOf({})
      OBVIOUS
    <2> HIDE DEF u
    <2>2. \A k \in 0 .. 0 : u[k] = IF k = 0 THEN {} ELSE ShapesOf(u[k - 1])
      BY <2>1
    <2>3. ShapesAt(u, 0)
      BY <2>1, <2>2, Zenon DEF ShapesAt
    <2>4. QED
      BY <2>3
  <1>2. ASSUME NEW m \in Nat, m \in T PROVE m + 1 \in T
    <2>1. PICK t : ShapesAt(t, m)
      BY <1>2
    <2> DEFINE u == [k \in 0 .. m + 1 |-> IF k = 0 THEN {} ELSE ShapesOf(t[k - 1])]
    <2>2. ASSUME NEW k \in 1 .. m + 1 PROVE u[k - 1] = t[k - 1]
      <3>1. k - 1 \in 0 .. m /\ k - 1 \in 0 .. m + 1
        OBVIOUS
      <3>2. QED
        BY <3>1, <2>1, Zenon DEF ShapesAt
    <2>3. /\ DOMAIN u = 0 .. m + 1 /\ u = [k \in DOMAIN u |-> u[k]]
          /\ \A k \in 0 .. m + 1 : u[k] = IF k = 0 THEN {} ELSE ShapesOf(t[k - 1])
      BY Zenon
    <2> HIDE DEF u
    <2>4. \A k \in 0 .. m + 1 : u[k] = IF k = 0 THEN {} ELSE ShapesOf(u[k - 1])
      <3> TAKE k \in 0 .. m + 1
      <3>1. CASE k = 0
        BY <3>1, <2>3
      <3>2. CASE k # 0
        BY <3>2, <2>2, <2>3
      <3>3. QED
        BY <3>1, <3>2
    <2>5. ShapesAt(u, m + 1)
      BY <2>3, <2>4, Zenon DEF ShapesAt
    <2>6. m + 1 \in Nat
      OBVIOUS
    <2>7. QED
      BY <2>5, <2>6, Zenon
  <1>3. n \in T
    <2> HIDE DEF T
    <2> QED
      BY <1>1, <1>2, Induct
  <1>4. QED
    BY <1>3

\* What is in a shape, and in that.
WithinShape(t, n, x) == t = [k \in 0 .. n |-> IF k = 0 THEN {x} ELSE t[k - 1] \cup UNION {Collected(part) : part \in t[k - 1]}]

LEMMA WithinShapeThere ==
  ASSUME NEW n \in Nat, NEW x
  PROVE  \E t : WithinShape(t, n, x)
  <1> DEFINE T == {m \in Nat : \E t : WithinShape(t, m, x)}
  <1>1. 0 \in T
    <2> DEFINE u == [k \in 0 .. 0 |-> IF k = 0 THEN {x} ELSE {} \cup UNION {Collected(part) : part \in {}}]
    <2>1. DOMAIN u = 0 .. 0 /\ u = [k \in DOMAIN u |-> u[k]] /\ \A k \in 0 .. 0 : k = 0 /\ u[k] = IF 0 = 0 THEN {x} ELSE {} \cup UNION {Collected(part) : part \in {}}
      OBVIOUS
    <2> HIDE DEF u
    <2>2. \A k \in 0 .. 0 : u[k] = IF k = 0 THEN {x} ELSE u[k - 1] \cup UNION {Collected(part) : part \in u[k - 1]}
      BY <2>1
    <2>3. WithinShape(u, 0, x)
      BY <2>1, <2>2, Zenon DEF WithinShape
    <2>4. QED
      BY <2>3
  <1>2. ASSUME NEW m \in Nat, m \in T PROVE m + 1 \in T
    <2>1. PICK t : WithinShape(t, m, x)
      BY <1>2
    <2> DEFINE u == [k \in 0 .. m + 1 |-> IF k = 0 THEN {x} ELSE t[k - 1] \cup UNION {Collected(part) : part \in t[k - 1]}]
    <2>2. ASSUME NEW k \in 1 .. m + 1 PROVE u[k - 1] = t[k - 1]
      <3>1. k - 1 \in 0 .. m /\ k - 1 \in 0 .. m + 1
        OBVIOUS
      <3>2. QED
        BY <3>1, <2>1, Zenon DEF WithinShape
    <2>3. /\ DOMAIN u = 0 .. m + 1 /\ u = [k \in DOMAIN u |-> u[k]]
          /\ \A k \in 0 .. m + 1 : u[k] = IF k = 0 THEN {x} ELSE t[k - 1] \cup UNION {Collected(part) : part \in t[k - 1]}
      BY Zenon
    <2> HIDE DEF u
    <2>4. \A k \in 0 .. m + 1 : u[k] = IF k = 0 THEN {x} ELSE u[k - 1] \cup UNION {Collected(part) : part \in u[k - 1]}
      <3> TAKE k \in 0 .. m + 1
      <3>1. CASE k = 0
        BY <3>1, <2>3
      <3>2. CASE k # 0
        BY <3>2, <2>2, <2>3
      <3>3. QED
        BY <3>1, <3>2
    <2>5. WithinShape(u, m + 1, x)
      BY <2>3, <2>4, Zenon DEF WithinShape
    <2>6. m + 1 \in Nat
      OBVIOUS
    <2>7. QED
      BY <2>5, <2>6, Zenon
  <1>3. n \in T
    <2> HIDE DEF T
    <2> QED
      BY <1>1, <1>2, Induct
  <1>4. QED
    BY <1>3

\* The writers of the shapes in one.
ShapeWriters(t, n, inside) == t = [k \in 0 .. n |-> [part \in inside |-> IF k = 0 THEN {} ELSE ShapeOne(part, t[k - 1])]]

LEMMA ShapeWritersThere ==
  ASSUME NEW n \in Nat, NEW inside
  PROVE  \E t : ShapeWriters(t, n, inside)
  <1> DEFINE T == {m \in Nat : \E t : ShapeWriters(t, m, inside)}
  <1>1. 0 \in T
    <2> DEFINE u == [k \in 0 .. 0 |-> [part \in inside |-> IF k = 0 THEN {} ELSE ShapeOne(part, {})]]
    <2>1. DOMAIN u = 0 .. 0 /\ u = [k \in DOMAIN u |-> u[k]] /\ \A k \in 0 .. 0 : k = 0 /\ u[k] = [part \in inside |-> IF 0 = 0 THEN {} ELSE ShapeOne(part, {})]
      OBVIOUS
    <2> HIDE DEF u
    <2>2. \A k \in 0 .. 0 : u[k] = [part \in inside |-> IF k = 0 THEN {} ELSE ShapeOne(part, u[k - 1])]
      BY <2>1
    <2>3. ShapeWriters(u, 0, inside)
      BY <2>1, <2>2, Zenon DEF ShapeWriters
    <2>4. QED
      BY <2>3
  <1>2. ASSUME NEW m \in Nat, m \in T PROVE m + 1 \in T
    <2>1. PICK t : ShapeWriters(t, m, inside)
      BY <1>2
    <2> DEFINE u == [k \in 0 .. m + 1 |-> [part \in inside |-> IF k = 0 THEN {} ELSE ShapeOne(part, t[k - 1])]]
    <2>2. ASSUME NEW k \in 1 .. m + 1 PROVE u[k - 1] = t[k - 1]
      <3>1. k - 1 \in 0 .. m /\ k - 1 \in 0 .. m + 1
        OBVIOUS
      <3>2. QED
        BY <3>1, <2>1, Zenon DEF ShapeWriters
    <2>3. /\ DOMAIN u = 0 .. m + 1 /\ u = [k \in DOMAIN u |-> u[k]]
          /\ \A k \in 0 .. m + 1 : u[k] = [part \in inside |-> IF k = 0 THEN {} ELSE ShapeOne(part, t[k - 1])]
      BY Zenon
    <2> HIDE DEF u
    <2>4. \A k \in 0 .. m + 1 : u[k] = [part \in inside |-> IF k = 0 THEN {} ELSE ShapeOne(part, u[k - 1])]
      <3> TAKE k \in 0 .. m + 1
      <3>1. CASE k = 0
        BY <3>1, <2>3
      <3>2. CASE k # 0
        BY <3>2, <2>2, <2>3
      <3>3. QED
        BY <3>1, <3>2
    <2>5. ShapeWriters(u, m + 1, inside)
      BY <2>3, <2>4, Zenon DEF ShapeWriters
    <2>6. m + 1 \in Nat
      OBVIOUS
    <2>7. QED
      BY <2>5, <2>6, Zenon
  <1>3. n \in T
    <2> HIDE DEF T
    <2> QED
      BY <1>1, <1>2, Induct
  <1>4. QED
    BY <1>3

\* The readers of shapes that nest at most so deep.
ShapeTables(t, n) == t = [k \in 0 .. n |-> [raw \in Seq(Byte) |-> IF k = 0 THEN {} ELSE ReadShapeOne(raw, t[k - 1])]]

LEMMA ShapeTablesThere ==
  ASSUME NEW n \in Nat
  PROVE  \E t : ShapeTables(t, n)
  <1> DEFINE T == {m \in Nat : \E t : ShapeTables(t, m)}
  <1>1. 0 \in T
    <2> DEFINE u == [k \in 0 .. 0 |-> [raw \in Seq(Byte) |-> IF k = 0 THEN {} ELSE ReadShapeOne(raw, {})]]
    <2>1. DOMAIN u = 0 .. 0 /\ u = [k \in DOMAIN u |-> u[k]] /\ \A k \in 0 .. 0 : k = 0 /\ u[k] = [raw \in Seq(Byte) |-> IF 0 = 0 THEN {} ELSE ReadShapeOne(raw, {})]
      OBVIOUS
    <2> HIDE DEF u
    <2>2. \A k \in 0 .. 0 : u[k] = [raw \in Seq(Byte) |-> IF k = 0 THEN {} ELSE ReadShapeOne(raw, u[k - 1])]
      BY <2>1
    <2>3. ShapeTables(u, 0)
      BY <2>1, <2>2, Zenon DEF ShapeTables
    <2>4. QED
      BY <2>3
  <1>2. ASSUME NEW m \in Nat, m \in T PROVE m + 1 \in T
    <2>1. PICK t : ShapeTables(t, m)
      BY <1>2
    <2> DEFINE u == [k \in 0 .. m + 1 |-> [raw \in Seq(Byte) |-> IF k = 0 THEN {} ELSE ReadShapeOne(raw, t[k - 1])]]
    <2>2. ASSUME NEW k \in 1 .. m + 1 PROVE u[k - 1] = t[k - 1]
      <3>1. k - 1 \in 0 .. m /\ k - 1 \in 0 .. m + 1
        OBVIOUS
      <3>2. QED
        BY <3>1, <2>1, Zenon DEF ShapeTables
    <2>3. /\ DOMAIN u = 0 .. m + 1 /\ u = [k \in DOMAIN u |-> u[k]]
          /\ \A k \in 0 .. m + 1 : u[k] = [raw \in Seq(Byte) |-> IF k = 0 THEN {} ELSE ReadShapeOne(raw, t[k - 1])]
      BY Zenon
    <2> HIDE DEF u
    <2>4. \A k \in 0 .. m + 1 : u[k] = [raw \in Seq(Byte) |-> IF k = 0 THEN {} ELSE ReadShapeOne(raw, u[k - 1])]
      <3> TAKE k \in 0 .. m + 1
      <3>1. CASE k = 0
        BY <3>1, <2>3
      <3>2. CASE k # 0
        BY <3>2, <2>2, <2>3
      <3>3. QED
        BY <3>1, <3>2
    <2>5. ShapeTables(u, m + 1)
      BY <2>3, <2>4, Zenon DEF ShapeTables
    <2>6. m + 1 \in Nat
      OBVIOUS
    <2>7. QED
      BY <2>5, <2>6, Zenon
  <1>3. n \in T
    <2> HIDE DEF T
    <2> QED
      BY <1>1, <1>2, Induct
  <1>4. QED
    BY <1>3

LEMMA ShapesAre == \E s : ShapesAt(s, NESTING) /\ ShapesTo(NESTING) = s[NESTING]
  <1>1. \E s : ShapesAt(s, NESTING)
    BY NestingAssumption, ShapesAtThere
  <1>2. QED
    BY <1>1 DEF ShapesTo, ShapesAt

LEMMA ShapeTablesAre == \E t : ShapeTables(t, NESTING) /\ \A raw : ReadShape(raw) = t[NESTING][raw]
  <1>1. \E t : ShapeTables(t, NESTING)
    BY NestingAssumption, ShapeTablesThere
  <1>2. QED
    BY <1>1 DEF ReadShape, ShapeTables

LEMMA InsideShape ==
  ASSUME NEW x
  PROVE  \E v : WithinShape(v, NESTING, x) /\ Inside(x, Collected) = v[NESTING]
  <1>1. \E v : WithinShape(v, NESTING, x)
    BY NestingAssumption, WithinShapeThere
  <1>2. QED
    BY <1>1, Zenon DEF Inside, WithinShape

LEMMA ShapeWritten ==
  ASSUME NEW x
  PROVE  \E t : ShapeWriters(t, NESTING, Inside(x, Collected)) /\ Shape(x) = t[NESTING][x]
  <1> DEFINE inside == Inside(x, Collected)
  <1>1. \E t : ShapeWriters(t, NESTING, inside)
    BY NestingAssumption, ShapeWritersThere, Zenon
  <1>2. QED
    BY <1>1, Zenon DEF Shape, ShapeWriters

\* What is inside by some depth is inside.
LEMMA WithinGrows ==
  ASSUME NEW v, \A k \in 1 .. NESTING : v[k - 1] \subseteq v[k]
  PROVE  \A k \in 0 .. NESTING : v[k] \subseteq v[NESTING]
  <1> DEFINE T == {k \in Nat : k <= NESTING => v[NESTING - k] \subseteq v[NESTING]}
  <1>1. 0 \in T
    BY NestingAssumption
  <1>2. ASSUME NEW k \in Nat, k \in T PROVE k + 1 \in T
    <2> SUFFICES ASSUME k + 1 <= NESTING PROVE v[NESTING - (k + 1)] \subseteq v[NESTING]
      OBVIOUS
    <2>1. NESTING - k \in 1 .. NESTING /\ (NESTING - k) - 1 = NESTING - (k + 1) /\ k <= NESTING
      BY NestingAssumption
    <2>2. v[NESTING - (k + 1)] \subseteq v[NESTING - k]
      BY <2>1
    <2>3. QED
      BY <1>2, <2>1, <2>2
  <1>3. \A k \in Nat : k \in T
    <2> HIDE DEF T
    <2> QED
      BY <1>1, <1>2, Induct
  <1>4. ASSUME NEW k \in 0 .. NESTING PROVE v[k] \subseteq v[NESTING]
    BY NestingAssumption, <1>3
  <1>5. QED
    BY <1>4

LEMMA ShapeTablesLocal ==
  ASSUME NEW t, ShapeTables(t, NESTING)
  PROVE  \A k \in 0 .. NESTING : Local(t[k])
  <1> DEFINE T == {k \in Nat : k <= NESTING => Local(t[k])}
  <1>1. 0 \in T
    BY NestingAssumption, Rejoined, NoneGrows DEF ShapeTables, Local
  <1>2. ASSUME NEW k \in Nat, k \in T PROVE k + 1 \in T
    <2> SUFFICES ASSUME k + 1 <= NESTING PROVE Local(t[k + 1])
      OBVIOUS
    <2>1. k + 1 \in 0 .. NESTING /\ k + 1 # 0 /\ (k + 1) - 1 = k /\ k <= NESTING
      BY NestingAssumption
    <2>2. t[k + 1] = [raw \in Seq(Byte) |-> ReadShapeOne(raw, t[k])]
      BY <2>1 DEF ShapeTables
    <2>3. QED
      BY <1>2, <2>1, <2>2, ShapeLocal DEF ShapeReader
  <1>3. \A k \in Nat : k \in T
    <2> HIDE DEF T
    <2> QED
      BY <1>1, <1>2, Induct
  <1>4. QED
    BY <1>3, NestingAssumption

GeometryReader == [raw \in Seq(Byte) |-> ReadShape(raw)]

LEMMA GeometryReaders ==
  ASSUME NEW t, ShapeTables(t, NESTING), \A raw : ReadShape(raw) = t[NESTING][raw]
  PROVE  GeometryReader = t[NESTING]
  <1>1. NESTING \in 0 .. NESTING /\ NESTING # 0
    BY NestingAssumption
  <1>2. t[NESTING] = [raw \in Seq(Byte) |-> ReadShapeOne(raw, t[NESTING - 1])]
    BY <1>1 DEF ShapeTables
  <1> DEFINE f == t[NESTING]
  <1>3. f = [raw \in Seq(Byte) |-> f[raw]]
    BY <1>2
  <1>4. \A raw : ReadShape(raw) = f[raw]
    OBVIOUS
  <1> HIDE DEF f
  <1>5. GeometryReader = f
    BY <1>3, <1>4 DEF GeometryReader
  <1>6. QED
    BY <1>5 DEF f

LEMMA GeometryLocal == Local(GeometryReader)
  <1>1. PICK t : ShapeTables(t, NESTING) /\ \A raw : ReadShape(raw) = t[NESTING][raw]
    BY ShapeTablesAre
  <1>2. NESTING \in 0 .. NESTING
    BY NestingAssumption
  <1>3. QED
    BY <1>1, <1>2, ShapeTablesLocal, GeometryReaders

\* The bytes of a shape read back as it, whatever follows them.
LEMMA GeometrySaid ==
  ASSUME NEW shape \in ShapesTo(NESTING), NEW w \in Shape(shape)
  PROVE  Said(w, GeometryReader, shape)
  <1> DEFINE inside == Inside(shape, Collected)
  <1>1. PICK s : ShapesAt(s, NESTING) /\ ShapesTo(NESTING) = s[NESTING]
    BY ShapesAre
  <1>2. PICK v : WithinShape(v, NESTING, shape) /\ inside = v[NESTING]
    BY InsideShape
  <1>3. PICK f : ShapeWriters(f, NESTING, inside) /\ Shape(shape) = f[NESTING][shape]
    BY ShapeWritten
  <1>4. PICK t : ShapeTables(t, NESTING) /\ \A raw : ReadShape(raw) = t[NESTING][raw]
    BY ShapeTablesAre
  <1> HIDE DEF inside
  <1>5. \A k \in 0 .. NESTING : v[k] \subseteq inside
    <2>1. \A k \in 1 .. NESTING : v[k - 1] \subseteq v[k]
      BY <1>2, NestingAssumption DEF WithinShape
    <2>2. QED
      BY <2>1, <1>2, WithinGrows
  <1> DEFINE T == {k \in Nat : k <= NESTING =>
                    \A x \in s[k] : x \in v[NESTING - k] => \A z \in f[k][x] : Said(z, t[k], x)}
  <1>6. 0 \in T
    BY <1>1, NestingAssumption DEF ShapesAt
  <1>7. ASSUME NEW k \in Nat, k \in T PROVE k + 1 \in T
    <2> SUFFICES ASSUME k + 1 <= NESTING, NEW x \in s[k + 1], x \in v[NESTING - (k + 1)],
                        NEW y \in f[k + 1][x]
                 PROVE  Said(y, t[k + 1], x)
      OBVIOUS
    <2> DEFINE j == NESTING - (k + 1)
    <2>1. /\ k + 1 \in 0 .. NESTING /\ k + 1 # 0 /\ (k + 1) - 1 = k /\ k <= NESTING
          /\ j \in 0 .. NESTING /\ j + 1 \in 0 .. NESTING /\ j + 1 # 0 /\ (j + 1) - 1 = j
          /\ NESTING - k = j + 1
      BY NestingAssumption
    <2>2. x \in ShapesOf(s[k])
      BY <2>1, <1>1 DEF ShapesAt
    <2>3. x \in inside
      BY <1>5, <2>1
    <2>4. y \in ShapeOne(x, f[k])
      <3>1. f[k + 1] = [part \in inside |-> ShapeOne(part, f[(k + 1) - 1])]
        BY <2>1, <1>3 DEF ShapeWriters
      <3>2. QED
        BY <3>1, <2>1, <2>3
    <2>5. t[k + 1] = ShapeReader(t[k])
      BY <2>1, <1>4 DEF ShapeTables, ShapeReader
    <2>6. ASSUME x[1] = COLLECTION, NEW i \in 1 .. Len(x[2]), NEW z \in f[k][x[2][i]]
          PROVE  Said(z, t[k], x[2][i])
      <3>1. x[2] \in Seq(s[k])
        BY <2>2, <2>6 DEF ShapesOf, POINT, LINE, POLYGON, MULTIPOINT, MULTILINE, MULTIPOLYGON, COLLECTION
      <3>2. x[2][i] \in s[k]
        BY <3>1
      <3>3. x[2][i] \in v[NESTING - k]
        <4>1. v[j + 1] = v[(j + 1) - 1] \cup UNION {Collected(part) : part \in v[(j + 1) - 1]}
          BY <2>1, <1>2 DEF WithinShape
        <4>2. x[2][i] \in Collected(x)
          BY <2>6, <3>1 DEF Collected, ToSet
        <4>3. x \in v[j]
          OBVIOUS
        <4> HIDE DEF j
        <4>4. QED
          BY <4>1, <4>2, <4>3, <2>1
      <3>4. QED
        BY <3>2, <3>3, <2>6, <2>1, <1>7
    <2>7. Said(y, ShapeReader(t[k]), x)
      BY <2>2, <2>4, <2>6, ShapeSaid
    <2>8. QED
      BY <2>5, <2>7
  <1>8. NESTING \in T
    <2> HIDE DEF T
    <2> QED
      BY <1>6, <1>7, NestingAssumption, Induct
  <1>9. shape \in s[NESTING] /\ w \in f[NESTING][shape]
    BY <1>1, <1>3
  <1>10. shape \in v[NESTING - NESTING]
    BY <1>2, NestingAssumption DEF WithinShape
  <1>11. Said(w, t[NESTING], shape)
    BY <1>8, <1>9, <1>10, NestingAssumption
  <1>12. QED
    BY <1>11, <1>4, GeometryReaders

-----------------------------------------------------------------------------
(* Names in order *)

LEMMA BytesAreInts ==
  ASSUME NEW a \in Seq(Byte), NEW i \in 1 .. Len(a)
  PROVE  a[i] \in Int
  <1>1. a[i] \in Byte
    OBVIOUS
  <1>2. Byte \subseteq Int
    BY DEF Byte
  <1>3. QED
    BY <1>1, <1>2, Zenon

\* One text is before another when it is less where they first differ, or is its
\* beginning.
Precedes(a, b, n) ==
  /\ n \in Nat /\ n <= Len(a) /\ n < Len(b) /\ \A i \in 1 .. n : a[i] = b[i]
  /\ n = Len(a) \/ a[n + 1] < b[n + 1]

LEMMA BeforeIs ==
  ASSUME NEW a \in Seq(Byte), NEW b \in Seq(Byte)
  PROVE  Before(a, b) <=> \E n : Precedes(a, b, n)
  <1>1. ASSUME NEW n \in 0 .. Len(a), n <= Len(b)
        PROVE  SubSeq(a, 1, n) = SubSeq(b, 1, n) <=> \A i \in 1 .. n : a[i] = b[i]
    <2> DEFINE x == SubSeq(a, 1, n)
               y == SubSeq(b, 1, n)
    <2>1. /\ x \in Seq(Byte) /\ Len(x) = n /\ \A i \in 1 .. n : x[i] = a[i]
          /\ y \in Seq(Byte) /\ Len(y) = n /\ \A i \in 1 .. n : y[i] = b[i]
      BY <1>1
    <2> HIDE DEF x, y
    <2>2. x = y <=> \A i \in 1 .. n : x[i] = y[i]
      BY <2>1, SeqEqual
    <2>3. QED
      BY <2>1, <2>2 DEF x, y
  <1>2. \A n : n \in 0 .. Len(a) <=> n \in Nat /\ n <= Len(a)
    OBVIOUS
  <1>3. QED
    BY <1>1, <1>2, SMTT(30) DEF Before, Precedes

LEMMA BeforeIrreflexive ==
  ASSUME NEW a \in Seq(Byte)
  PROVE  ~Before(a, a)
  <1>1. \A n : ~Precedes(a, a, n)
    <2> SUFFICES ASSUME NEW n, Precedes(a, a, n) PROVE FALSE
      OBVIOUS
    <2>1. n \in Nat /\ n < Len(a) /\ (n = Len(a) \/ a[n + 1] < a[n + 1])
      BY DEF Precedes
    <2>2. n + 1 \in 1 .. Len(a)
      BY <2>1
    <2>3. a[n + 1] \in Int
      BY <2>2, BytesAreInts
    <2>4. QED
      BY <2>1, <2>3
  <1>2. QED
    BY <1>1, BeforeIs

LEMMA BeforeTransitive ==
  ASSUME NEW a \in Seq(Byte), NEW b \in Seq(Byte), NEW c \in Seq(Byte), Before(a, b), Before(b, c)
  PROVE  Before(a, c)
  <1>1. PICK n : Precedes(a, b, n)
    BY BeforeIs
  <1>2. PICK m : Precedes(b, c, m)
    BY BeforeIs
  <1>3. /\ n \in Nat /\ n <= Len(a) /\ n < Len(b) /\ \A i \in 1 .. n : a[i] = b[i]
        /\ n = Len(a) \/ a[n + 1] < b[n + 1]
    BY <1>1 DEF Precedes
  <1>4. /\ m \in Nat /\ m <= Len(b) /\ m < Len(c) /\ \A i \in 1 .. m : b[i] = c[i]
        /\ m = Len(b) \/ b[m + 1] < c[m + 1]
    BY <1>2 DEF Precedes
  <1>5. Len(a) \in Nat /\ Len(b) \in Nat /\ Len(c) \in Nat
    OBVIOUS
  <1>6. CASE n < m
    <2>1. \A i \in 1 .. n : i \in 1 .. m
      BY <1>3, <1>4, <1>6
    <2>2. n + 1 \in 1 .. m /\ n < Len(c)
      BY <1>3, <1>4, <1>5, <1>6
    <2>3. b[n + 1] = c[n + 1]
      BY <2>2, <1>4
    <2>4. Precedes(a, c, n)
      BY <2>1, <2>2, <2>3, <1>3, <1>4 DEF Precedes
    <2>5. QED
      BY <2>4, BeforeIs
  <1>7. CASE m < n
    <2>1. \A i \in 1 .. m : i \in 1 .. n
      BY <1>3, <1>4, <1>7
    <2>2. m + 1 \in 1 .. n /\ m <= Len(a) /\ m # Len(b)
      BY <1>3, <1>4, <1>5, <1>7
    <2>3. a[m + 1] = b[m + 1]
      BY <2>2, <1>3
    <2>4. Precedes(a, c, m)
      BY <2>1, <2>2, <2>3, <1>3, <1>4 DEF Precedes
    <2>5. QED
      BY <2>4, BeforeIs
  <1>8. CASE n = m
    <2>1. n # Len(b)
      BY <1>3, <1>5
    <2>2. b[n + 1] < c[n + 1]
      BY <2>1, <1>4, <1>8
    <2>3. n = Len(a) \/ a[n + 1] < c[n + 1]
      <3> SUFFICES ASSUME n # Len(a) PROVE a[n + 1] < c[n + 1]
        OBVIOUS
      <3>1. n + 1 \in 1 .. Len(a) /\ n + 1 \in 1 .. Len(b) /\ n + 1 \in 1 .. Len(c)
        BY <1>3, <1>4, <1>5, <1>8
      <3>2. a[n + 1] \in Int /\ b[n + 1] \in Int /\ c[n + 1] \in Int
        BY <3>1, BytesAreInts
      <3>3. a[n + 1] < b[n + 1]
        BY <1>3
      <3>4. QED
        BY <3>2, <3>3, <2>2
    <2>4. Precedes(a, c, n)
      BY <2>3, <1>3, <1>4, <1>8 DEF Precedes
    <2>5. QED
      BY <2>4, BeforeIs
  <1>9. QED
    BY <1>3, <1>4, <1>6, <1>7, <1>8

LEMMA BeforeTotal ==
  ASSUME NEW a \in Seq(Byte), NEW b \in Seq(Byte), a # b
  PROVE  Before(a, b) \/ Before(b, a)
  <1> DEFINE T == {n \in Nat : n = Len(a) \/ n = Len(b) \/ a[n + 1] # b[n + 1]}
  <1>1. Len(a) \in T /\ T \in SUBSET Nat
    OBVIOUS
  <1>2. PICK n \in T : \A m \in T : n <= m
    <2> HIDE DEF T
    <2> QED
      BY <1>1, Least
  <1>3. n \in Nat /\ n <= Len(a) /\ n <= Len(b) /\ Len(a) \in Nat /\ Len(b) \in Nat
    BY <1>2
  <1>4. \A i \in 1 .. n : a[i] = b[i]
    <2> TAKE i \in 1 .. n
    <2>1. i - 1 \in Nat /\ i - 1 < n /\ (i - 1) + 1 = i
      BY <1>3
    <2>2. i - 1 \notin T
      <3> HIDE DEF T
      <3> QED
        BY <2>1, <1>2, <1>3
    <2>3. QED
      BY <2>1, <2>2
  <1>5. CASE n = Len(a) /\ n = Len(b)
    BY <1>4, <1>5, SeqEqual
  <1>6. CASE n = Len(a) /\ n # Len(b)
    BY <1>3, <1>4, <1>6, BeforeIs DEF Precedes
  <1>7. CASE n # Len(a) /\ n = Len(b)
    BY <1>3, <1>4, <1>7, BeforeIs DEF Precedes
  <1>8. CASE n # Len(a) /\ n # Len(b)
    <2>1. n + 1 \in 1 .. Len(a) /\ n + 1 \in 1 .. Len(b) /\ a[n + 1] # b[n + 1]
      BY <1>3, <1>8
    <2>2. a[n + 1] \in Int /\ b[n + 1] \in Int
      BY <2>1, BytesAreInts
    <2>3. a[n + 1] < b[n + 1] \/ b[n + 1] < a[n + 1]
      BY <2>1, <2>2
    <2>4. Precedes(a, b, n) \/ Precedes(b, a, n)
      BY <2>3, <1>3, <1>4, <1>8 DEF Precedes
    <2>5. QED
      BY <2>4, BeforeIs
  <1>9. QED
    BY <1>5, <1>6, <1>7, <1>8

\* Of finitely many names each has as many before it as its place in their order.
LEMMA NamesInOrder ==
  ASSUME NEW names, IsFiniteSet(names), names \subseteq Seq(Byte)
  PROVE  \E s \in [1 .. Cardinality(names) -> names] :
           \A i, j \in DOMAIN s : i < j => Before(s[i], s[j])
  <1> DEFINE n == Cardinality(names)
             To(x) == {y \in names : y = x \/ Before(y, x)}
             place == [x \in names |-> Cardinality(To(x))]
             s == [i \in 1 .. n |-> CHOOSE x \in names : place[x] = i]
  <1>1. n \in Nat /\ IsFiniteSet(1 .. n) /\ Cardinality(1 .. n) = n
    <2>1. n \in Nat
      BY FS_CardinalityType
    <2> HIDE DEF n
    <2>2. /\ IsFiniteSet(1 .. n) /\ Cardinality(1 .. n) = IF 1 > n THEN 0 ELSE n - 1 + 1
      BY <2>1, FS_Interval
    <2>3. QED
      BY <2>1, <2>2
  <1>2. ASSUME NEW x \in names
        PROVE  /\ x \in To(x) /\ To(x) \in SUBSET names /\ IsFiniteSet(To(x))
               /\ place[x] = Cardinality(To(x)) /\ place[x] \in 1 .. n
    <2>1. x \in To(x) /\ To(x) \in SUBSET names
      OBVIOUS
    <2> DEFINE t == To(x)
    <2>2. place[x] = Cardinality(t)
      OBVIOUS
    <2>3. x \in t /\ t \in SUBSET names
      BY <2>1
    <2> HIDE DEF t
    <2>4. IsFiniteSet(t) /\ Cardinality(t) <= n
      BY <2>3, FS_Subset
    <2>5. Cardinality(t) \in Nat /\ Cardinality(t) # 0
      BY <2>3, <2>4, FS_CardinalityType, FS_EmptySet
    <2>6. Cardinality(t) \in 1 .. n
      <3> HIDE DEF n
      <3> QED
        BY <1>1, <2>4, <2>5
    <2>7. QED
      BY <2>1, <2>2, <2>4, <2>6 DEF t
  <1>3. ASSUME NEW x \in names, NEW y \in names, Before(x, y) PROVE place[x] < place[y]
    <2>1. To(x) \subseteq To(y)
      <3> SUFFICES ASSUME NEW z \in names, z = x \/ Before(z, x) PROVE Before(z, y)
        OBVIOUS
      <3>1. QED
        BY <1>3, BeforeTransitive
    <2>2. y \notin To(x)
      <3> SUFFICES ASSUME y = x \/ Before(y, x) PROVE FALSE
        OBVIOUS
      <3>1. Before(y, y)
        BY <1>3, BeforeTransitive
      <3>2. QED
        BY <3>1, BeforeIrreflexive
    <2> DEFINE a == To(x)
               b == To(y)
    <2>3. /\ a \in SUBSET b /\ a # b /\ IsFiniteSet(a) /\ IsFiniteSet(b)
          /\ place[x] = Cardinality(a) /\ place[y] = Cardinality(b)
      BY <1>2, <2>1, <2>2
    <2> HIDE DEF a, b, place
    <2>4. Cardinality(a) <= Cardinality(b) /\ Cardinality(b) # Cardinality(a)
      BY <2>3, FS_Subset
    <2>5. Cardinality(a) \in Nat /\ Cardinality(b) \in Nat
      BY <2>3, FS_CardinalityType
    <2>6. QED
      BY <2>3, <2>4, <2>5
  <1> HIDE DEF place, n
  <1>4. place \in [names -> 1 .. n]
    BY <1>2 DEF place
  <1>5. \A x, y \in names : place[x] = place[y] => x = y
    <2> SUFFICES ASSUME NEW x \in names, NEW y \in names, x # y PROVE place[x] # place[y]
      OBVIOUS
    <2>1. Before(x, y) \/ Before(y, x)
      BY BeforeTotal
    <2>2. place[x] \in Nat /\ place[y] \in Nat
      BY <1>1, <1>4
    <2>3. QED
      BY <2>1, <2>2, <1>3
  <1>6. place \in Surjection(names, 1 .. n)
    BY <1>4, <1>5, <1>1, FS_Injection DEF Injection, IsInjective, n
  <1>7. \A i \in 1 .. n : s[i] \in names /\ place[s[i]] = i
    <2> TAKE i \in 1 .. n
    <2>1. \E x \in names : place[x] = i
      BY <1>6 DEF Surjection
    <2>2. QED
      BY <2>1
  <1>8. \A i, j \in 1 .. n : i < j => Before(s[i], s[j])
    <2> SUFFICES ASSUME NEW i \in 1 .. n, NEW j \in 1 .. n, i < j PROVE Before(s[i], s[j])
      OBVIOUS
    <2> DEFINE x == s[i]
               y == s[j]
    <2>1. x \in names /\ y \in names /\ place[x] = i /\ place[y] = j
      BY <1>7
    <2> HIDE DEF x, y
    <2>2. x # y /\ ~Before(y, x)
      BY <2>1, <1>3
    <2>3. Before(x, y)
      BY <2>1, <2>2, BeforeTotal
    <2>4. QED
      BY <2>3 DEF x, y
  <1>9. s \in [1 .. n -> names] /\ DOMAIN s = 1 .. n
    BY <1>7
  <1> HIDE DEF s
  <1>10. QED
    BY <1>8, <1>9 DEF n

-----------------------------------------------------------------------------
(* Numbers *)

NumberReader == [raw \in Seq(Byte) |-> ReadNumber(raw)]
NumberAll(kind, reads) == {<<<<TAG_NUMBER, kind, r[1]>>, r[2]>> : r \in reads}
NumberBodies == [r \in Nat \X Seq(Byte) |-> NumberAll(r[1], ReadNumberBody(r[1], r[2]))]
DecimalReader == BothReader(I128Reader, U32Reader)

LEMMA NumberAllGrows ==
  ASSUME NEW kind, NEW more, NEW reads, NEW further, Grows(reads, more, further)
  PROVE  Grows(NumberAll(kind, reads), more, NumberAll(kind, further))
  <1>1. ASSUME NEW x \in NumberAll(kind, reads)
        PROVE  \E r \in reads :
                 /\ x = <<x[1], r[2]>>
                 /\ \A q \in further : q[1] = r[1] => <<x[1], q[2]>> \in NumberAll(kind, further)
    <2>1. PICK r \in reads : x = <<<<TAG_NUMBER, kind, r[1]>>, r[2]>>
      BY DEF NumberAll
    <2>2. \A q \in further : <<<<TAG_NUMBER, kind, q[1]>>, q[2]>> \in NumberAll(kind, further)
      BY DEF NumberAll
    <2>3. x[1] = <<TAG_NUMBER, kind, r[1]>>
      BY <2>1
    <2>4. QED
      BY <2>1, <2>2, <2>3
  <1>2. QED
    BY <1>1, MadeGrows

LEMMA NumberAllOne ==
  ASSUME NEW kind, NEW x, NEW rest
  PROVE  NumberAll(kind, One(x, rest)) = One(<<TAG_NUMBER, kind, x>>, rest)
  <1>1. {<<<<TAG_NUMBER, kind, r[1]>>, r[2]>> : r \in {<<x, rest>>}} = {<<<<TAG_NUMBER, kind, x>>, rest>>}
    OBVIOUS
  <1>2. QED
    BY <1>1 DEF NumberAll, One

LEMMA NumberReaders == NumberReader = TagReader(NumberBodies)
  <1>1. ASSUME NEW raw \in Seq(Byte) PROVE ReadNumber(raw) = Following(NumberBodies, raw)
    <2>1. \A r \in ReadU8(raw) :
            NumberBodies[r] = {<<<<TAG_NUMBER, r[1], q[1]>>, q[2]>> : q \in ReadNumberBody(r[1], r[2])}
      BY ReadU8Is DEF NumberBodies, NumberAll
    <2>2. ReadNumber(raw)
            = UNION {{<<<<TAG_NUMBER, r[1], q[1]>>, q[2]>> : q \in ReadNumberBody(r[1], r[2])} : r \in ReadU8(raw)}
      BY Zenon DEF ReadNumber, Then, As
    <2>3. QED
      BY <2>1, <2>2 DEF Following
  <1>2. QED
    BY <1>1 DEF NumberReader, TagReader

LEMMA NumberKinds ==
  ASSUME NEW rest \in Seq(Byte)
  PROVE  /\ ReadNumberBody(INTEGER, rest) = I64Reader[rest]
         /\ ReadNumberBody(FLOAT, rest) = DoubleReader[rest]
         /\ ReadNumberBody(DECIMAL, rest) = DecimalReader[rest]
         /\ \A kind : kind \notin {INTEGER, FLOAT, DECIMAL} => ReadNumberBody(kind, rest) = {}
  <1>1. ReadNumberBody(INTEGER, rest) = I64Reader[rest] /\ ReadNumberBody(FLOAT, rest) = DoubleReader[rest]
    BY DEF ReadNumberBody, INTEGER, FLOAT, DECIMAL, I64Reader, DoubleReader
  <1>2. ReadNumberBody(DECIMAL, rest) = DecimalReader[rest]
    <2>1. ReadNumberBody(DECIMAL, rest) = Both(ReadI128(rest), ReadU32)
      BY DEF ReadNumberBody, INTEGER, FLOAT, DECIMAL
    <2>2. Both(ReadI128(rest), ReadU32)
            = UNION {{<<<<r[1], q[1]>>, q[2]>> : q \in ReadU32(r[2])} : r \in ReadI128(rest)}
      BY DEF Both, Then, As
    <2>3. I128Reader[rest] = ReadI128(rest)
      BY DEF I128Reader
    <2>4. \A r \in ReadI128(rest) : U32Reader[r[2]] = ReadU32(r[2])
      BY <2>3, I128Local, Leaves DEF U32Reader
    <2>5. DecimalReader[rest] = BothBy(I128Reader[rest], U32Reader)
      BY DEF DecimalReader, BothReader
    <2>6. QED
      BY <2>1, <2>2, <2>3, <2>4, <2>5 DEF BothBy
  <1>3. \A kind : kind \notin {INTEGER, FLOAT, DECIMAL} => ReadNumberBody(kind, rest) = {}
    BY DEF ReadNumberBody
  <1>4. QED
    BY <1>1, <1>2, <1>3

LEMMA NumberLocal == Local(NumberReader)
  <1>1. ASSUME NEW kind \in Nat, NEW rest \in Seq(Byte), NEW more \in Seq(Byte)
        PROVE  Grows(NumberBodies[<<kind, rest>>], more, NumberBodies[<<kind, rest \o more>>])
    <2> DEFINE here == rest \o more
               a == ReadNumberBody(kind, rest)
               b == ReadNumberBody(kind, here)
    <2>1. here \in Seq(Byte)
      BY Rejoined
    <2>2. /\ Grows(I64Reader[rest], more, I64Reader[here])
          /\ Grows(DoubleReader[rest], more, DoubleReader[here])
      BY I64Local, DoubleLocal DEF Local
    <2>3. Grows(DecimalReader[rest], more, DecimalReader[here])
      BY I128Local, U32Local, BothLocal DEF DecimalReader, Local
    <2>4. NumberBodies[<<kind, rest>>] = NumberAll(kind, a) /\ NumberBodies[<<kind, here>>] = NumberAll(kind, b)
      BY <2>1 DEF NumberBodies
    <2>5. Grows(a, more, b)
      <3> HIDE DEF here
      <3>1. CASE kind = INTEGER
        BY <3>1, <2>1, <2>2, NumberKinds
      <3>2. CASE kind = FLOAT
        BY <3>2, <2>1, <2>2, NumberKinds
      <3>3. CASE kind = DECIMAL
        BY <3>3, <2>1, <2>3, NumberKinds
      <3>4. CASE kind \notin {INTEGER, FLOAT, DECIMAL}
        BY <3>4, <2>1, NumberKinds, NoneGrows
      <3>5. QED
        BY <3>1, <3>2, <3>3, <3>4
    <2> HIDE DEF a, b
    <2>6. QED
      BY <2>4, <2>5, NumberAllGrows
  <1>2. QED
    BY <1>1, TagLocal, NumberReaders

\* A number of one kind is read back when what is after its kind is.
LEMMA NumberKindSaid ==
  ASSUME NEW kind \in Byte, NEW reader, NEW x, NEW body,
         \A rest \in Seq(Byte) : ReadNumberBody(kind, rest) = reader[rest], Said(body, reader, x)
  PROVE  Said(<<kind>> \o body, NumberReader, <<TAG_NUMBER, kind, x>>)
  <1>1. body \in Seq(Byte) /\ kind \in Nat
    BY DEF Said, Byte
  <1>2. ASSUME NEW rest \in Seq(Byte)
        PROVE  NumberBodies[<<kind, body \o rest>>] = One(<<TAG_NUMBER, kind, x>>, rest)
    <2> DEFINE here == body \o rest
    <2>1. here \in Seq(Byte) /\ reader[here] = One(x, rest)
      BY <1>1, Rejoined DEF Said
    <2> HIDE DEF here
    <2>2. NumberBodies[<<kind, here>>] = NumberAll(kind, ReadNumberBody(kind, here))
      BY <1>1, <2>1 DEF NumberBodies
    <2>3. ReadNumberBody(kind, here) = One(x, rest)
      BY <2>1
    <2>4. NumberBodies[<<kind, here>>] = One(<<TAG_NUMBER, kind, x>>, rest)
      BY <2>2, <2>3, NumberAllOne
    <2>5. QED
      BY <2>4 DEF here
  <1>3. QED
    BY <1>1, <1>2, TagSaid, NumberReaders

\* A number that fits reads back as it.
LEMMA NumberSaid ==
  ASSUME NEW kind, NEW n, NEW w \in Number(kind, n),
         \/ kind = INTEGER /\ n \in Int
         \/ kind = FLOAT /\ n \in Doubles
         \/ kind = DECIMAL /\ n \in Int \X Int
  PROVE  Said(w, NumberReader, <<TAG_NUMBER, kind, n>>)
  <1>1. PICK body \in NumberBody(kind, n) : w = <<kind>> \o body
    BY TaggedIs DEF Number
  <1>2. kind \in Byte
    BY DEF Byte, INTEGER, FLOAT, DECIMAL
  <1>3. CASE kind = INTEGER /\ n \in Int
    <2>1. body \in I64(n)
      BY <1>1, <1>3 DEF NumberBody, INTEGER, FLOAT, DECIMAL
    <2>2. Said(body, I64Reader, n) /\ \A rest \in Seq(Byte) : ReadNumberBody(kind, rest) = I64Reader[rest]
      BY <2>1, <1>3, I64Said, NumberKinds
    <2>3. QED
      BY <2>2, <1>1, <1>2, NumberKindSaid
  <1>4. CASE kind = FLOAT /\ n \in Doubles
    BY <1>1, <1>4, DoubleSaid, NumberKinds, <1>2, NumberKindSaid DEF NumberBody, INTEGER, FLOAT, DECIMAL
  <1>5. CASE kind = DECIMAL /\ n \in Int \X Int
    <2> DEFINE a == n[1]
               b == n[2]
    <2>1. body \in Cat(I128(a), U32(b)) /\ a \in Int /\ b \in Int /\ n = <<a, b>>
      BY <1>5, <1>1 DEF NumberBody, INTEGER, FLOAT, DECIMAL
    <2> HIDE DEF a, b
    <2>2. PICK y \in I128(a), z \in U32(b) : body = y \o z
      BY <2>1, CatIs
    <2>3. Said(y, I128Reader, a) /\ Said(z, U32Reader, b)
      BY <2>1, I128Said, U32Said
    <2>4. Said(body, DecimalReader, n)
      BY <2>1, <2>2, <2>3, BothSaid DEF DecimalReader
    <2>5. \A rest \in Seq(Byte) : ReadNumberBody(kind, rest) = DecimalReader[rest]
      BY <1>5, NumberKinds
    <2>6. QED
      BY <2>4, <2>5, <1>1, <1>2, NumberKindSaid
  <1>6. QED
    BY <1>3, <1>4, <1>5

-----------------------------------------------------------------------------
(* The bounds of a range *)

BoundReader(read) == [raw \in Seq(Byte) |-> ReadBound(raw, read)]
BoundBodies(read) == [r \in Nat \X Seq(Byte) |-> ReadBoundBody(r[1], r[2], read)]

LEMMA BoundReaders ==
  ASSUME NEW read
  PROVE  BoundReader(read) = TagReader(BoundBodies(read))
  <1>1. ASSUME NEW raw \in Seq(Byte) PROVE ReadBound(raw, read) = Following(BoundBodies(read), raw)
    BY ReadU8Is DEF BoundBodies, ReadBound, Then, Following
  <1>2. QED
    BY <1>1 DEF BoundReader, TagReader

LEMMA BoundKinds ==
  ASSUME NEW read, NEW rest
  PROVE  /\ ReadBoundBody(UNBOUNDED, rest, read) = One(<<UNBOUNDED>>, rest)
         /\ \A kind \in {INCLUDED, EXCLUDED} : ReadBoundBody(kind, rest, read) = TagAll(kind, read[rest])
         /\ \A kind : kind \notin {UNBOUNDED, INCLUDED, EXCLUDED} => ReadBoundBody(kind, rest, read) = {}
  <1>1. ReadBoundBody(UNBOUNDED, rest, read) = One(<<UNBOUNDED>>, rest)
    <2>1. UNBOUNDED \notin {INCLUDED, EXCLUDED}
      BY DEF UNBOUNDED, INCLUDED, EXCLUDED
    <2>2. ReadBoundBody(UNBOUNDED, rest, read) = {<<<<UNBOUNDED>>, rest>>}
      BY <2>1 DEF ReadBoundBody
    <2>3. QED
      BY <2>2 DEF One
  <1>2. ReadBoundBody(INCLUDED, rest, read) = TagAll(INCLUDED, read[rest])
    BY DEF ReadBoundBody, UNBOUNDED, INCLUDED, EXCLUDED, TagAll, As
  <1>3. ReadBoundBody(EXCLUDED, rest, read) = TagAll(EXCLUDED, read[rest])
    BY DEF ReadBoundBody, UNBOUNDED, INCLUDED, EXCLUDED, TagAll, As
  <1>4. \A kind : kind \notin {UNBOUNDED, INCLUDED, EXCLUDED} => ReadBoundBody(kind, rest, read) = {}
    BY DEF ReadBoundBody
  <1>5. QED
    BY <1>1, <1>2, <1>3, <1>4

LEMMA BoundLocal ==
  ASSUME NEW read, Local(read)
  PROVE  Local(BoundReader(read))
  <1> DEFINE bodies == BoundBodies(read)
  <1>1. ASSUME NEW kind \in Nat, NEW rest \in Seq(Byte), NEW more \in Seq(Byte)
        PROVE  Grows(bodies[<<kind, rest>>], more, bodies[<<kind, rest \o more>>])
    <2> DEFINE here == rest \o more
    <2>1. here \in Seq(Byte)
      BY Rejoined
    <2>2. bodies[<<kind, rest>>] = ReadBoundBody(kind, rest, read) /\ bodies[<<kind, here>>] = ReadBoundBody(kind, here, read)
      BY <2>1 DEF BoundBodies
    <2>3. Grows(ReadBoundBody(kind, rest, read), more, ReadBoundBody(kind, here, read))
      <3>1. CASE kind = UNBOUNDED
        BY OneGrows, <3>1, BoundKinds
      <3>2. CASE kind \in {INCLUDED, EXCLUDED}
        BY TagAllGrows, <3>2, BoundKinds DEF Local
      <3>3. CASE kind \notin {UNBOUNDED, INCLUDED, EXCLUDED}
        BY <3>3, BoundKinds, NoneGrows
      <3>4. QED
        BY <3>1, <3>2, <3>3
    <2> HIDE DEF bodies
    <2>4. QED
      BY <2>2, <2>3
  <1> HIDE DEF bodies
  <1>2. Local(TagReader(bodies))
    BY <1>1, TagLocal
  <1>3. QED
    BY <1>2, BoundReaders DEF bodies

LEMMA BoundSaid ==
  ASSUME NEW S, NEW bound \in BoundsOf(S), NEW write, NEW read,
         bound[1] # UNBOUNDED => \A z \in write[bound[2]] : Said(z, read, bound[2]),
         NEW w \in WriteBound(bound, write)
  PROVE  Said(w, BoundReader(read), bound)
  <1> DEFINE kind == bound[1]
             x == bound[2]
             bodies == BoundBodies(read)
  <1>1. PICK body \in IF kind = UNBOUNDED THEN {<<>>} ELSE write[x] : w = <<kind>> \o body
    BY TaggedIs DEF WriteBound
  <1>2. \/ bound = <<UNBOUNDED>>
        \/ bound = <<kind, x>> /\ kind \in {INCLUDED, EXCLUDED}
    BY DEF BoundsOf
  <1>3. kind \in Byte /\ kind \in Nat
    BY <1>2 DEF UNBOUNDED, INCLUDED, EXCLUDED, Byte
  <1>4. CASE bound = <<UNBOUNDED>>
    <2>1. kind = UNBOUNDED /\ body = <<>> /\ body \in Seq(Byte)
      BY <1>4, <1>1
    <2>2. ASSUME NEW rest \in Seq(Byte) PROVE bodies[<<kind, body \o rest>>] = One(bound, rest)
      BY <2>1, <1>3, <1>4, BoundKinds DEF BoundBodies
    <2> HIDE DEF bodies
    <2>3. Said(<<kind>> \o body, TagReader(bodies), bound)
      BY <1>3, <2>1, <2>2, TagSaid
    <2>4. QED
      BY <2>3, <1>1, BoundReaders DEF bodies
  <1>5. CASE bound = <<kind, x>> /\ kind \in {INCLUDED, EXCLUDED}
    <2>1. kind # UNBOUNDED
      BY <1>5 DEF UNBOUNDED, INCLUDED, EXCLUDED
    <2>2. Said(body, read, x)
      BY <2>1, <1>1
    <2>3. body \in Seq(Byte)
      BY <2>2 DEF Said
    <2>4. ASSUME NEW rest \in Seq(Byte) PROVE bodies[<<kind, body \o rest>>] = One(bound, rest)
      <3> DEFINE here == body \o rest
      <3>1. here \in Seq(Byte) /\ read[here] = One(x, rest)
        BY <2>2, <2>3, Rejoined DEF Said
      <3> HIDE DEF here
      <3>2. bodies[<<kind, here>>] = ReadBoundBody(kind, here, read)
        BY <1>3, <3>1 DEF BoundBodies
      <3>3. ReadBoundBody(kind, here, read) = TagAll(kind, One(x, rest))
        BY <3>1, <1>5, BoundKinds
      <3>4. TagAll(kind, One(x, rest)) = One(<<kind, x>>, rest)
        BY TagAllOne
      <3>5. bodies[<<kind, here>>] = One(bound, rest)
        BY <3>2, <3>3, <3>4, <1>5
      <3>6. QED
        BY <3>5 DEF here
    <2> HIDE DEF bodies, kind, x
    <2>5. Said(<<kind>> \o body, TagReader(bodies), bound)
      BY <1>3, <2>3, <2>4, TagSaid
    <2>6. QED
      BY <2>5, <1>1, BoundReaders DEF bodies
  <1>6. QED
    BY <1>2, <1>4, <1>5

-----------------------------------------------------------------------------
(* The fields of an object *)

FieldReader(read) == BothReader(TextReader, read)
FieldsReader(read) == [raw \in Seq(Byte) |-> ReadFields(raw, read)]
Gathered(reads) == {<<Fields(r[1]), r[2]>> : r \in reads}

LEMMA FieldsReaders ==
  ASSUME NEW read, NEW raw \in Seq(Byte)
  PROVE  FieldsReader(read)[raw] = Gathered(CountedReader(FieldReader(read))[raw])
  <1> DEFINE one == [rest \in Seq(Byte) |-> Both(ReadText(rest), LAMBDA more : read[more])]
  <1>1. one = FieldReader(read)
    <2>1. ASSUME NEW rest \in Seq(Byte) PROVE one[rest] = BothBy(TextReader[rest], read)
      BY DEF Both, Then, As, TextReader, BothBy
    <2>2. QED
      BY <2>1 DEF FieldReader, BothReader
  <1>2. ReadFields(raw, read) = {<<Fields(r[1]), r[2]>> : r \in CountedBy(raw, one)}
    BY Zenon DEF ReadFields, As, ReadCounted
  <1>3. CountedReader(FieldReader(read))[raw] = CountedBy(raw, FieldReader(read))
    BY DEF CountedReader
  <1> HIDE DEF one
  <1>4. QED
    BY <1>1, <1>2, <1>3 DEF FieldsReader, Gathered

LEMMA FieldsLocal ==
  ASSUME NEW read, Local(read)
  PROVE  Local(FieldsReader(read))
  <1> DEFINE pairs == CountedReader(FieldReader(read))
  <1>1. Local(pairs)
    BY TextLocal, BothLocal, CountedLocal DEF FieldReader
  <1>2. ASSUME NEW raw \in Seq(Byte), NEW more \in Seq(Byte)
        PROVE  Grows(FieldsReader(read)[raw], more, FieldsReader(read)[raw \o more])
    <2> DEFINE reads == pairs[raw]
               further == pairs[raw \o more]
    <2>1. FieldsReader(read)[raw] = Gathered(reads) /\ FieldsReader(read)[raw \o more] = Gathered(further)
      BY FieldsReaders, Rejoined
    <2> HIDE DEF pairs
    <2>2. Grows(reads, more, further)
      BY <1>1 DEF Local
    <2> HIDE DEF reads, further
    <2>3. ASSUME NEW x \in Gathered(reads)
          PROVE  \E r \in reads :
                   /\ x = <<x[1], r[2]>>
                   /\ \A q \in further : q[1] = r[1] => <<x[1], q[2]>> \in Gathered(further)
      <3>1. PICK r \in reads : x = <<Fields(r[1]), r[2]>>
        BY DEF Gathered
      <3>2. \A q \in further : <<Fields(q[1]), q[2]>> \in Gathered(further)
        BY DEF Gathered
      <3>3. x[1] = Fields(r[1])
        BY <3>1
      <3>4. QED
        BY <3>1, <3>2, <3>3
    <2>4. Grows(Gathered(reads), more, Gathered(further))
      BY <2>2, <2>3, MadeGrows
    <2>5. QED
      BY <2>1, <2>4
  <1>3. QED
    BY <1>2 DEF Local

\* Each of the names once.
Lists(s, names) ==
  /\ s \in Seq(names) /\ \A i, j \in 1 .. Len(s) : s[i] = s[j] => i = j
  /\ \A name \in names : \E i \in 1 .. Len(s) : s[i] = name

\* The names in their order are the names, each once.
LEMMA NamesOnce ==
  ASSUME NEW names, IsFiniteSet(names), names \subseteq Ascii
  PROVE  Lists(InNameOrder(names), names)
  <1> DEFINE n == Cardinality(names)
             s == InNameOrder(names)
  <1>1. n \in Nat /\ IsFiniteSet(1 .. n) /\ Cardinality(1 .. n) = n
    <2>1. n \in Nat
      BY FS_CardinalityType
    <2> HIDE DEF n
    <2>2. IsFiniteSet(1 .. n) /\ Cardinality(1 .. n) = IF 1 > n THEN 0 ELSE n - 1 + 1
      BY <2>1, FS_Interval
    <2>3. QED
      BY <2>1, <2>2
  <1>2. names \subseteq Seq(Byte)
    BY TextsAreBytes
  <1>3. s \in [1 .. n -> names] /\ \A i, j \in DOMAIN s : i < j => Before(s[i], s[j])
    <2>1. \E f \in [1 .. n -> names] : \A i, j \in DOMAIN f : i < j => Before(f[i], f[j])
      BY <1>2, NamesInOrder
    <2> HIDE DEF n
    <2>2. QED
      BY <2>1 DEF InNameOrder, n
  <1> HIDE DEF s, n
  <1>4. s \in Seq(names) /\ Len(s) = n /\ DOMAIN s = 1 .. n
    BY <1>1, <1>3
  <1>5. \A i, j \in 1 .. n : s[i] = s[j] => i = j
    <2> SUFFICES ASSUME NEW i \in 1 .. n, NEW j \in 1 .. n, i < j PROVE s[i] # s[j]
      BY <1>1
    <2>1. Before(s[i], s[j]) /\ s[i] \in Seq(Byte)
      BY <1>2, <1>3, <1>4
    <2>2. QED
      BY <2>1, BeforeIrreflexive
  <1>6. s \in Surjection(1 .. n, names)
    BY <1>3, <1>5, <1>1, FS_Injection DEF Injection, IsInjective, n
  <1>7. \A name \in names : \E i \in 1 .. n : s[i] = name
    BY <1>6 DEF Surjection
  <1>8. QED
    BY <1>4, <1>5, <1>7 DEF s, Lists

\* Fields of these names, and the pairs of a name and a field in some order.
Named(fields, names) == DOMAIN fields = names /\ fields = [name \in names |-> fields[name]]
Pairs(pairs, s, fields) == pairs = [i \in 1 .. Len(s) |-> <<s[i], fields[s[i]]>>]

\* Pairs that name each field once make the fields.
LEMMA FieldsOnce ==
  ASSUME NEW names, NEW fields, Named(fields, names), NEW s, Lists(s, names),
         NEW pairs, Pairs(pairs, s, fields)
  PROVE  Fields(pairs) = fields
  <1> USE DEF Lists, Pairs, Named
  <1> DEFINE LastOf(name) == CHOOSE i \in DOMAIN pairs :
                             pairs[i][1] = name /\ \A j \in DOMAIN pairs : pairs[j][1] = name => j <= i
  <1>1. DOMAIN pairs = 1 .. Len(s) /\ Len(s) \in Nat
    OBVIOUS
  <1>2. \A i \in 1 .. Len(s) : pairs[i][1] = s[i] /\ pairs[i][2] = fields[s[i]] /\ s[i] \in names
    OBVIOUS
  <1>3. {pairs[i][1] : i \in DOMAIN pairs} = names
    <2> HIDE DEF LastOf
    <2>1. \A i \in DOMAIN pairs : pairs[i][1] \in names
      BY <1>1, <1>2
    <2>2. \A name \in names : \E i \in DOMAIN pairs : pairs[i][1] = name
      BY <1>1, <1>2
    <2> DEFINE D == {pairs[i][1] : i \in DOMAIN pairs}
    <2>3. \A x : x \in D <=> \E i \in DOMAIN pairs : x = pairs[i][1]
      OBVIOUS
    <2>4. \A x : x \in D <=> x \in names
      <3> HIDE DEF D
      <3>1. ASSUME NEW x \in D PROVE x \in names
        BY <2>1, <2>3
      <3>2. ASSUME NEW x \in names PROVE x \in D
        <4>1. PICK i \in DOMAIN pairs : pairs[i][1] = x
          BY <2>2
        <4>2. QED
          BY <4>1, <2>3
      <3>3. QED
        BY <3>1, <3>2
    <2> HIDE DEF D
    <2>5. D = names
      BY <2>4
    <2>6. QED
      BY <2>5 DEF D
  <1>4. ASSUME NEW name \in names PROVE pairs[LastOf(name)][2] = fields[name]
    <2>1. PICK i \in 1 .. Len(s) : s[i] = name
      OBVIOUS
    <2>2. \A j \in DOMAIN pairs : pairs[j][1] = name => j = i
      BY <1>1, <1>2, <2>1
    <2>3. i \in DOMAIN pairs /\ pairs[i][1] = name
      BY <1>1, <1>2, <2>1
    <2>4. \A j \in DOMAIN pairs : pairs[j][1] = name => j <= i
      BY <2>2, <2>1, <1>1
    <2>5. LastOf(name) \in DOMAIN pairs /\ pairs[LastOf(name)][1] = name
      BY <2>3, <2>4
    <2>6. LastOf(name) = i
      BY <2>2, <2>5
    <2>7. QED
      BY <2>6, <2>1, <1>2
  <1>5. Fields(pairs) = [name \in names |-> pairs[LastOf(name)][2]]
    BY <1>3, Zenon DEF Fields
  <1>6. fields = [name \in names |-> fields[name]]
    OBVIOUS
  <1> HIDE DEF LastOf
  <1>7. QED
    BY <1>4, <1>5, <1>6, ZenonT(30)

LEMMA FieldsSaid ==
  ASSUME NEW S, NEW fields \in ObjectsOf(S), NEW write, NEW read,
         \A name \in DOMAIN fields : \A z \in write[fields[name]] : Said(z, read, fields[name]),
         NEW w \in WriteFields(fields, write)
  PROVE  Said(w, FieldsReader(read), fields)
  <1>1. PICK names : names \in SUBSET Ascii /\ IsFiniteSet(names) /\ fields \in [names -> S]
    BY DEF ObjectsOf
  <1> DEFINE s == InNameOrder(names)
             pairs == [i \in 1 .. Len(s) |-> <<s[i], fields[s[i]]>>]
             writes == [i \in DOMAIN s |-> Cat(LenBytes(s[i]), write[fields[s[i]]])]
  <1>2. DOMAIN fields = names
    BY <1>1
  <1>3. Lists(s, names)
    BY <1>1, NamesOnce
  <1>4. w \in WriteCounted(writes)
    BY <1>2 DEF WriteFields, Counted
  <1> HIDE DEF s
  <1>5. DOMAIN s = 1 .. Len(s) /\ Len(s) \in Nat /\ Len(writes) = Len(s) /\ Len(pairs) = Len(s)
    BY <1>3 DEF Lists
  <1>6. pairs \in Seq(names \X S)
    BY <1>1, <1>3, <1>5 DEF Lists
  <1>7. ASSUME NEW i \in 1 .. Len(s), NEW v \in writes[i]
        PROVE  Said(v, FieldReader(read), pairs[i])
    <2> DEFINE name == s[i]
               x == fields[name]
    <2>1. name \in names /\ pairs[i] = <<name, x>> /\ writes[i] = Cat(LenBytes(name), write[x])
      BY <1>3, <1>5 DEF Lists
    <2> HIDE DEF name, x, writes, pairs
    <2>2. PICK a \in LenBytes(name), b \in write[x] : v = a \o b
      BY <2>1, <1>7, CatIs
    <2>3. Said(a, TextReader, name)
      BY <1>1, <2>1, TextSaid
    <2>4. Said(b, read, x)
      BY <1>2, <2>1 DEF x
    <2>5. Said(a \o b, BothReader(TextReader, read), <<name, x>>)
      BY <2>3, <2>4, BothSaid
    <2>6. QED
      BY <2>1, <2>2, <2>5 DEF FieldReader
  <1>8. AllSaid(writes, FieldReader(read), pairs)
    BY <1>5, <1>7 DEF AllSaid
  <1>9. Fields(pairs) = fields
    <2>1. Pairs(pairs, s, fields) /\ Named(fields, names)
      BY <1>1 DEF Pairs, Named
    <2> HIDE DEF pairs
    <2>2. QED
      BY <1>3, <2>1, FieldsOnce
  <1> HIDE DEF pairs, writes
  <1>10. Said(w, CountedReader(FieldReader(read)), pairs)
    BY <1>4, <1>6, <1>8, CountedSaid
  <1>11. w \in Seq(Byte)
    BY <1>10 DEF Said
  <1>12. ASSUME NEW rest \in Seq(Byte) PROVE FieldsReader(read)[w \o rest] = One(fields, rest)
    <2>1. w \o rest \in Seq(Byte)
      BY <1>11, Rejoined
    <2>2. CountedReader(FieldReader(read))[w \o rest] = {<<pairs, rest>>}
      BY <1>10 DEF Said, One
    <2>3. FieldsReader(read)[w \o rest] = {<<Fields(r[1]), r[2]>> : r \in {<<pairs, rest>>}}
      BY <2>1, <2>2, FieldsReaders DEF Gathered
    <2>4. {<<Fields(r[1]), r[2]>> : r \in {<<pairs, rest>>}} = {<<Fields(pairs), rest>>}
      OBVIOUS
    <2>5. QED
      BY <2>3, <2>4, <1>9 DEF One
  <1>13. QED
    BY <1>11, <1>12 DEF Said

-----------------------------------------------------------------------------
(* Values after their tag *)

PairAll(tag, reads) == {<<<<tag>> \o r[1], r[2]>> : r \in reads}
BoolAll(tag, reads) == {<<<<tag, r[1] # 0>>, r[2]>> : r \in reads}

\* The readers of what follows a tag: none, a byte that is a boolean, one thing that is
\* put after the tag, two things that are.
NoneReader(tag) == [raw \in Seq(Byte) |-> One(<<tag>>, raw)]
BoolReader(tag) == [raw \in Seq(Byte) |-> BoolAll(tag, ReadU8(raw))]
WholeReader(tag, reader) == [raw \in Seq(Byte) |-> TagAll(tag, reader[raw])]
PairReader(tag, reader) == [raw \in Seq(Byte) |-> PairAll(tag, reader[raw])]

TimeReader == BothReader(I64Reader, NanosReader)
RefReader == BothReader(U32Reader, RecordIdReader)
RangeReader(read) == BothReader(BoundReader(read), BoundReader(read))

LEMMA NoneLocal ==
  ASSUME NEW tag
  PROVE  Local(NoneReader(tag))
  <1>1. ASSUME NEW raw \in Seq(Byte), NEW more \in Seq(Byte)
        PROVE  Grows(NoneReader(tag)[raw], more, NoneReader(tag)[raw \o more])
    <2> DEFINE x == <<tag>>
               here == raw \o more
    <2>1. NoneReader(tag)[raw] = One(x, raw) /\ NoneReader(tag)[here] = One(x, here)
      BY Rejoined DEF NoneReader
    <2> HIDE DEF x
    <2>2. Grows(One(x, raw), more, One(x, here))
      BY OneGrows
    <2>3. QED
      BY <2>1, <2>2
  <1>2. QED
    BY <1>1 DEF Local

LEMMA BoolLocal ==
  ASSUME NEW tag
  PROVE  Local(BoolReader(tag))
  <1>1. ASSUME NEW raw \in Seq(Byte), NEW more \in Seq(Byte)
        PROVE  Grows(BoolReader(tag)[raw], more, BoolReader(tag)[raw \o more])
    <2> DEFINE reads == ReadU8(raw)
               further == ReadU8(raw \o more)
    <2>1. Grows(reads, more, further)
      BY ReadU8Grows
    <2>2. BoolReader(tag)[raw] = BoolAll(tag, reads) /\ BoolReader(tag)[raw \o more] = BoolAll(tag, further)
      BY Rejoined DEF BoolReader
    <2> HIDE DEF reads, further
    <2>3. ASSUME NEW x \in BoolAll(tag, reads)
          PROVE  \E r \in reads :
                   /\ x = <<x[1], r[2]>>
                   /\ \A q \in further : q[1] = r[1] => <<x[1], q[2]>> \in BoolAll(tag, further)
      <3>1. PICK r \in reads : x = <<<<tag, r[1] # 0>>, r[2]>>
        BY DEF BoolAll
      <3>2. \A q \in further : <<<<tag, q[1] # 0>>, q[2]>> \in BoolAll(tag, further)
        BY DEF BoolAll
      <3>3. x[1] = <<tag, r[1] # 0>>
        BY <3>1
      <3>4. QED
        BY <3>1, <3>2, <3>3
    <2>4. QED
      BY <2>1, <2>2, <2>3, MadeGrows
  <1>2. QED
    BY <1>1 DEF Local

LEMMA WholeLocal ==
  ASSUME NEW tag, NEW reader, Local(reader)
  PROVE  Local(WholeReader(tag, reader))
  <1>1. ASSUME NEW raw \in Seq(Byte), NEW more \in Seq(Byte)
        PROVE  Grows(WholeReader(tag, reader)[raw], more, WholeReader(tag, reader)[raw \o more])
    BY TagAllGrows, Rejoined DEF Local, WholeReader
  <1>2. QED
    BY <1>1 DEF Local

LEMMA WholeSaid ==
  ASSUME NEW tag, NEW reader, NEW w, NEW x, Said(w, reader, x)
  PROVE  Said(w, WholeReader(tag, reader), <<tag, x>>)
  <1>1. w \in Seq(Byte)
    BY DEF Said
  <1>2. ASSUME NEW rest \in Seq(Byte) PROVE WholeReader(tag, reader)[w \o rest] = One(<<tag, x>>, rest)
    BY <1>1, Rejoined, TagAllOne DEF Said, WholeReader
  <1>3. QED
    BY <1>1, <1>2 DEF Said

LEMMA PairLocal ==
  ASSUME NEW tag, NEW reader, Local(reader)
  PROVE  Local(PairReader(tag, reader))
  <1>1. ASSUME NEW raw \in Seq(Byte), NEW more \in Seq(Byte)
        PROVE  Grows(PairReader(tag, reader)[raw], more, PairReader(tag, reader)[raw \o more])
    <2> DEFINE reads == reader[raw]
               further == reader[raw \o more]
    <2>1. Grows(reads, more, further)
      BY DEF Local
    <2>2. PairReader(tag, reader)[raw] = PairAll(tag, reads) /\ PairReader(tag, reader)[raw \o more] = PairAll(tag, further)
      BY Rejoined DEF PairReader
    <2> HIDE DEF reads, further
    <2>3. ASSUME NEW x \in PairAll(tag, reads)
          PROVE  \E r \in reads :
                   /\ x = <<x[1], r[2]>>
                   /\ \A q \in further : q[1] = r[1] => <<x[1], q[2]>> \in PairAll(tag, further)
      <3>1. PICK r \in reads : x = <<<<tag>> \o r[1], r[2]>>
        BY DEF PairAll
      <3>2. \A q \in further : <<<<tag>> \o q[1], q[2]>> \in PairAll(tag, further)
        BY DEF PairAll
      <3>3. x[1] = <<tag>> \o r[1]
        BY <3>1
      <3>4. QED
        BY <3>1, <3>2, <3>3
    <2>4. QED
      BY <2>1, <2>2, <2>3, MadeGrows
  <1>2. QED
    BY <1>1 DEF Local

LEMMA PairSaid ==
  ASSUME NEW tag, NEW reader, NEW w, NEW a, NEW b, Said(w, reader, <<a, b>>)
  PROVE  Said(w, PairReader(tag, reader), <<tag, a, b>>)
  <1>1. w \in Seq(Byte)
    BY DEF Said
  <1>2. <<tag>> \o <<a, b>> = <<tag, a, b>>
    <2> DEFINE S == {tag, a, b}
               one == <<tag>>
               two == <<a, b>>
               all == <<tag, a, b>>
    <2>1. /\ one \in Seq(S) /\ Len(one) = 1 /\ one[1] = tag
          /\ two \in Seq(S) /\ Len(two) = 2 /\ two[1] = a /\ two[2] = b
          /\ all \in Seq(S) /\ Len(all) = 3 /\ all[1] = tag /\ all[2] = a /\ all[3] = b
      OBVIOUS
    <2> HIDE DEF S, one, two, all
    <2>2. /\ one \o two \in Seq(S) /\ Len(one \o two) = Len(one) + Len(two)
          /\ \A i \in 1 .. Len(one) + Len(two) :
               (one \o two)[i] = IF i <= Len(one) THEN one[i] ELSE two[i - Len(one)]
      BY <2>1, ConcatProperties
    <2>3. Len(one \o two) = 3 /\ \A i \in 1 .. 3 : (one \o two)[i] = IF i <= 1 THEN one[i] ELSE two[i - 1]
      BY <2>1, <2>2
    <2>4. \A i \in 1 .. 3 : i = 1 \/ i = 2 \/ i = 3
      OBVIOUS
    <2>5. \A i \in 1 .. 3 : (one \o two)[i] = all[i]
      BY <2>1, <2>3, <2>4
    <2>6. one \o two = all
      BY <2>1, <2>2, <2>3, <2>5, SeqEqual
    <2>7. QED
      BY <2>6 DEF one, two, all
  <1>3. ASSUME NEW rest \in Seq(Byte) PROVE PairReader(tag, reader)[w \o rest] = One(<<tag, a, b>>, rest)
    <2> DEFINE x == <<a, b>>
    <2>1. w \o rest \in Seq(Byte) /\ reader[w \o rest] = {<<x, rest>>}
      BY <1>1, Rejoined DEF Said, One
    <2> HIDE DEF x
    <2>2. PairReader(tag, reader)[w \o rest] = {<<<<tag>> \o r[1], r[2]>> : r \in {<<x, rest>>}}
      BY <2>1 DEF PairReader, PairAll
    <2>3. {<<<<tag>> \o r[1], r[2]>> : r \in {<<x, rest>>}} = {<<<<tag>> \o x, rest>>}
      OBVIOUS
    <2>4. QED
      BY <2>2, <2>3, <1>2 DEF One, x
  <1>4. QED
    BY <1>1, <1>3 DEF Said

LEMMA NoneSaid ==
  ASSUME NEW tag
  PROVE  Said(<<>>, NoneReader(tag), <<tag>>)
  <1>1. \A rest \in Seq(Byte) : <<>> \o rest = rest
    OBVIOUS
  <1>2. <<>> \in Seq(Byte)
    OBVIOUS
  <1>3. QED
    BY <1>1, <1>2 DEF Said, NoneReader

LEMMA BoolSaid ==
  ASSUME NEW tag, NEW b \in BOOLEAN, NEW w \in U8(IF b THEN 1 ELSE 0)
  PROVE  Said(w, BoolReader(tag), <<tag, b>>)
  <1> DEFINE n == IF b THEN 1 ELSE 0
             one == <<n>>
  <1>1. n \in Byte /\ n \in 0 .. 255 /\ (n # 0) = b
    BY DEF Byte
  <1>2. w = one
    <2>1. w = Digits(n, 1)
      BY <1>1 DEF U8, Checked
    <2>2. Digits(n, 1) \in Seq(Byte) /\ Len(Digits(n, 1)) = 1
      <3>1. 1 \in Nat /\ n \in Int
        BY <1>1
      <3> HIDE DEF n
      <3>2. QED
        BY <3>1, DigitsAreBytes
    <2>3. Unsigned(Digits(n, 1)) = n
      <3>1. 1 \in Nat /\ n \in 0 .. Power(1) - 1
        BY <1>1, PowerStep, PowerZero
      <3>2. QED
        BY <3>1, UnsignedDigits
    <2> DEFINE d == Digits(n, 1)
    <2> HIDE DEF n
    <2>4. d[1] = n
      BY <2>2, SumsGrow, BytesAreInts, <2>3 DEF Adds, Unsigned
    <2>5. QED
      BY <2>1, <2>2, <2>4
  <1>3. one \in Seq(Byte)
    BY <1>1
  <1>4. ASSUME NEW rest \in Seq(Byte) PROVE BoolReader(tag)[one \o rest] = One(<<tag, b>>, rest)
    <2> HIDE DEF n
    <2>1. one \o rest \in Seq(Byte) /\ ReadU8(one \o rest) = {<<n, rest>>}
      BY <1>1, TagRead DEF One
    <2> HIDE DEF one
    <2>2. BoolReader(tag)[one \o rest] = {<<<<tag, r[1] # 0>>, r[2]>> : r \in {<<n, rest>>}}
      BY <2>1 DEF BoolReader, BoolAll
    <2>3. {<<<<tag, r[1] # 0>>, r[2]>> : r \in {<<n, rest>>}} = {<<<<tag, n # 0>>, rest>>}
      OBVIOUS
    <2>4. QED
      BY <2>2, <2>3, <1>1 DEF One
  <1> HIDE DEF one
  <1>5. QED
    BY <1>2, <1>3, <1>4 DEF Said

ValueReader(read) == [raw \in Seq(Byte) |-> ReadOne(raw, read)]
ValueBodies(read) == [r \in Nat \X Seq(Byte) |-> ReadValueBody(r[1], r[2], read)]

LEMMA ValueReaders ==
  ASSUME NEW read
  PROVE  ValueReader(read) = TagReader(ValueBodies(read))
  <1>1. ASSUME NEW raw \in Seq(Byte) PROVE ReadOne(raw, read) = Following(ValueBodies(read), raw)
    BY ReadU8Is DEF ValueBodies, ReadOne, Then, Following
  <1>2. QED
    BY <1>1 DEF ValueReader, TagReader

\* Which reader each tag has for what follows it.
ValueKind(tag, reader, read) == \A rest \in Seq(Byte) : ReadValueBody(tag, rest, read) = reader[rest]

LEMMA PairsRead ==
  ASSUME NEW read, Local(read), NEW rest \in Seq(Byte)
  PROVE  /\ Both(ReadI64(rest), ReadNanos) = TimeReader[rest]
         /\ Both(ReadU32(rest), ReadRecordId) = RefReader[rest]
         /\ Both(ReadBound(rest, read), LAMBDA r : ReadBound(r, read)) = RangeReader(read)[rest]
  <1>1. Both(ReadI64(rest), ReadNanos) = TimeReader[rest]
    <2>1. Both(ReadI64(rest), ReadNanos)
            = UNION {{<<<<r[1], q[1]>>, q[2]>> : q \in ReadNanos(r[2])} : r \in ReadI64(rest)}
      BY DEF Both, Then, As
    <2>2. I64Reader[rest] = ReadI64(rest)
      BY DEF I64Reader
    <2>3. \A r \in ReadI64(rest) : NanosReader[r[2]] = ReadNanos(r[2])
      BY <2>2, I64Local, Leaves DEF NanosReader
    <2>4. TimeReader[rest] = BothBy(I64Reader[rest], NanosReader)
      BY DEF TimeReader, BothReader
    <2>5. QED
      BY <2>1, <2>2, <2>3, <2>4 DEF BothBy
  <1>2. Both(ReadU32(rest), ReadRecordId) = RefReader[rest]
    <2>1. Both(ReadU32(rest), ReadRecordId)
            = UNION {{<<<<r[1], q[1]>>, q[2]>> : q \in ReadRecordId(r[2])} : r \in ReadU32(rest)}
      BY DEF Both, Then, As
    <2>2. U32Reader[rest] = ReadU32(rest)
      BY DEF U32Reader
    <2>3. \A r \in ReadU32(rest) : RecordIdReader[r[2]] = ReadRecordId(r[2])
      BY <2>2, U32Local, Leaves DEF RecordIdReader
    <2>4. RefReader[rest] = BothBy(U32Reader[rest], RecordIdReader)
      BY DEF RefReader, BothReader
    <2>5. QED
      BY <2>1, <2>2, <2>3, <2>4 DEF BothBy
  <1>3. Both(ReadBound(rest, read), LAMBDA r : ReadBound(r, read)) = RangeReader(read)[rest]
    <2> DEFINE reader == BoundReader(read)
    <2>1. Both(ReadBound(rest, read), LAMBDA r : ReadBound(r, read))
            = UNION {{<<<<r[1], q[1]>>, q[2]>> : q \in ReadBound(r[2], read)} : r \in ReadBound(rest, read)}
      BY DEF Both, Then, As
    <2>2. reader[rest] = ReadBound(rest, read)
      BY DEF BoundReader
    <2>3. \A r \in ReadBound(rest, read) : reader[r[2]] = ReadBound(r[2], read)
      BY <2>2, BoundLocal, Leaves DEF BoundReader
    <2>4. RangeReader(read)[rest] = BothBy(reader[rest], reader)
      BY DEF RangeReader, BothReader
    <2> DEFINE reads == ReadBound(rest, read)
               apart == UNION {{<<<<r[1], q[1]>>, q[2]>> : q \in ReadBound(r[2], read)} : r \in reads}
               alike == UNION {{<<<<r[1], q[1]>>, q[2]>> : q \in reader[r[2]]} : r \in reads}
    <2>5. BothBy(reads, reader) = alike
      BY DEF BothBy
    <2> HIDE DEF reader, reads
    <2>6. apart = alike
      BY <2>3 DEF reads
    <2>7. RangeReader(read)[rest] = BothBy(reads, reader)
      BY <2>2, <2>4 DEF reads
    <2>8. QED
      BY <2>1, <2>5, <2>6, <2>7 DEF reads
  <1>4. QED
    BY <1>1, <1>2, <1>3

LEMMA ValueKinds ==
  ASSUME NEW read, Local(read)
  PROVE  /\ ValueKind(TAG_NONE, NoneReader(TAG_NONE), read)
         /\ ValueKind(TAG_NULL, NoneReader(TAG_NULL), read)
         /\ ValueKind(TAG_BOOL, BoolReader(TAG_BOOL), read)
         /\ ValueKind(TAG_NUMBER, NumberReader, read)
         /\ ValueKind(TAG_STRING, WholeReader(TAG_STRING, TextReader), read)
         /\ ValueKind(TAG_REGEX, WholeReader(TAG_REGEX, TextReader), read)
         /\ ValueKind(TAG_BYTES, WholeReader(TAG_BYTES, LenReader), read)
         /\ ValueKind(TAG_DURATION, PairReader(TAG_DURATION, TimeReader), read)
         /\ ValueKind(TAG_DATETIME, PairReader(TAG_DATETIME, TimeReader), read)
         /\ ValueKind(TAG_UUID, WholeReader(TAG_UUID, UuidReader), read)
         /\ ValueKind(TAG_TABLE, WholeReader(TAG_TABLE, U32Reader), read)
         /\ ValueKind(TAG_RECORD, PairReader(TAG_RECORD, RefReader), read)
         /\ ValueKind(TAG_ARRAY, WholeReader(TAG_ARRAY, CountedReader(read)), read)
         /\ ValueKind(TAG_SET, WholeReader(TAG_SET, CountedReader(read)), read)
         /\ ValueKind(TAG_OBJECT, WholeReader(TAG_OBJECT, FieldsReader(read)), read)
         /\ ValueKind(TAG_RANGE, PairReader(TAG_RANGE, RangeReader(read)), read)
         /\ ValueKind(TAG_GEOMETRY, WholeReader(TAG_GEOMETRY, GeometryReader), read)
  <1> USE DEF ValueKind, ReadValueBody, As, TAG_NONE, TAG_NULL, TAG_BOOL, TAG_NUMBER, TAG_STRING, TAG_BYTES, TAG_DURATION,
          TAG_DATETIME, TAG_UUID, TAG_TABLE, TAG_RECORD, TAG_ARRAY, TAG_OBJECT, TAG_RANGE, TAG_SET, TAG_GEOMETRY, TAG_REGEX
  <1>1. ValueKind(TAG_NONE, NoneReader(TAG_NONE), read)
    BY DEF NoneReader, One
  <1>2. ValueKind(TAG_NULL, NoneReader(TAG_NULL), read)
    BY DEF NoneReader, One
  <1>3. ValueKind(TAG_BOOL, BoolReader(TAG_BOOL), read)
    BY DEF BoolReader, BoolAll
  <1>4. ValueKind(TAG_NUMBER, NumberReader, read)
    BY DEF NumberReader
  <1>5. ValueKind(TAG_STRING, WholeReader(TAG_STRING, TextReader), read)
    BY DEF WholeReader, TagAll, TextReader
  <1>6. ValueKind(TAG_REGEX, WholeReader(TAG_REGEX, TextReader), read)
    BY DEF WholeReader, TagAll, TextReader
  <1>7. ValueKind(TAG_BYTES, WholeReader(TAG_BYTES, LenReader), read)
    BY DEF WholeReader, TagAll, LenReader
  <1>8. ValueKind(TAG_DURATION, PairReader(TAG_DURATION, TimeReader), read)
    <2>1. ASSUME NEW rest \in Seq(Byte) PROVE ReadValueBody(TAG_DURATION, rest, read) = PairAll(TAG_DURATION, Both(ReadI64(rest), ReadNanos))
      BY DEF Both, Then, PairAll
    <2> HIDE DEF ReadValueBody
    <2>2. QED
      BY <2>1, PairsRead DEF PairReader
  <1>9. ValueKind(TAG_DATETIME, PairReader(TAG_DATETIME, TimeReader), read)
    <2>1. ASSUME NEW rest \in Seq(Byte) PROVE ReadValueBody(TAG_DATETIME, rest, read) = PairAll(TAG_DATETIME, Both(ReadI64(rest), ReadNanos))
      BY DEF Both, Then, PairAll
    <2> HIDE DEF ReadValueBody
    <2>2. QED
      BY <2>1, PairsRead DEF PairReader
  <1>10. ValueKind(TAG_UUID, WholeReader(TAG_UUID, UuidReader), read)
    BY DEF WholeReader, TagAll, UuidReader
  <1>11. ValueKind(TAG_TABLE, WholeReader(TAG_TABLE, U32Reader), read)
    BY DEF WholeReader, TagAll, U32Reader
  <1>12. ValueKind(TAG_RECORD, PairReader(TAG_RECORD, RefReader), read)
    <2>1. ASSUME NEW rest \in Seq(Byte) PROVE ReadValueBody(TAG_RECORD, rest, read) = PairAll(TAG_RECORD, Both(ReadU32(rest), ReadRecordId))
      BY DEF Both, Then, PairAll
    <2> HIDE DEF ReadValueBody
    <2>2. QED
      BY <2>1, PairsRead DEF PairReader
  <1>13. ValueKind(TAG_ARRAY, WholeReader(TAG_ARRAY, CountedReader(read)), read)
    BY DEF WholeReader, TagAll, CountedReader
  <1>14. ValueKind(TAG_SET, WholeReader(TAG_SET, CountedReader(read)), read)
    BY DEF WholeReader, TagAll, CountedReader
  <1>15. ValueKind(TAG_OBJECT, WholeReader(TAG_OBJECT, FieldsReader(read)), read)
    BY DEF WholeReader, TagAll, FieldsReader
  <1>16. ValueKind(TAG_RANGE, PairReader(TAG_RANGE, RangeReader(read)), read)
    <2>1. ASSUME NEW rest \in Seq(Byte) PROVE ReadValueBody(TAG_RANGE, rest, read) = PairAll(TAG_RANGE, Both(ReadBound(rest, read), LAMBDA r : ReadBound(r, read)))
      BY DEF Both, Then, PairAll
    <2> HIDE DEF ReadValueBody
    <2>2. QED
      BY <2>1, PairsRead DEF PairReader
  <1>17. ValueKind(TAG_GEOMETRY, WholeReader(TAG_GEOMETRY, GeometryReader), read)
    BY DEF WholeReader, TagAll, GeometryReader
  <1> HIDE DEF ValueKind, ReadValueBody, As
  <1>18. QED
    BY <1>1, <1>2, <1>3, <1>4, <1>5, <1>6, <1>7, <1>8, <1>9, <1>10, <1>11, <1>12, <1>13, <1>14, <1>15, <1>16, <1>17

LEMMA TimeLocal == Local(TimeReader)
  BY I64Local, NanosLocal, BothLocal DEF TimeReader

LEMMA RefLocal == Local(RefReader)
  BY U32Local, RecordIdLocal, BothLocal DEF RefReader

LEMMA RangeLocal ==
  ASSUME NEW read, Local(read)
  PROVE  Local(RangeReader(read))
  BY BoundLocal, BothLocal DEF RangeReader

LEMMA ValueBodyGrows ==
  ASSUME NEW read, Local(read), NEW tag, NEW rest \in Seq(Byte), NEW more \in Seq(Byte)
  PROVE  Grows(ReadValueBody(tag, rest, read), more, ReadValueBody(tag, rest \o more, read))
  <1>1. ASSUME NEW reader, Local(reader), ValueKind(tag, reader, read)
        PROVE  Grows(ReadValueBody(tag, rest, read), more, ReadValueBody(tag, rest \o more, read))
    BY Rejoined, <1>1 DEF Local, ValueKind
  <1>2. CASE tag \in {TAG_NONE, TAG_NULL}
    BY <1>1, <1>2, NoneLocal, ValueKinds
  <1>3. CASE tag = TAG_BOOL
    BY <1>1, <1>3, BoolLocal, ValueKinds
  <1>4. CASE tag = TAG_NUMBER
    BY <1>1, <1>4, NumberLocal, ValueKinds
  <1>5. CASE tag \in {TAG_STRING, TAG_REGEX}
    BY <1>1, <1>5, TextLocal, WholeLocal, ValueKinds
  <1>6. CASE tag = TAG_BYTES
    BY <1>1, <1>6, LenLocal, WholeLocal, ValueKinds
  <1>7. CASE tag \in {TAG_DURATION, TAG_DATETIME}
    BY <1>1, <1>7, TimeLocal, PairLocal, ValueKinds
  <1>8. CASE tag = TAG_UUID
    BY <1>1, <1>8, UuidLocal, WholeLocal, ValueKinds
  <1>9. CASE tag = TAG_TABLE
    BY <1>1, <1>9, U32Local, WholeLocal, ValueKinds
  <1>10. CASE tag = TAG_RECORD
    BY <1>1, <1>10, RefLocal, PairLocal, ValueKinds
  <1>11. CASE tag \in {TAG_ARRAY, TAG_SET}
    BY <1>1, <1>11, CountedLocal, WholeLocal, ValueKinds
  <1>12. CASE tag = TAG_OBJECT
    BY <1>1, <1>12, FieldsLocal, WholeLocal, ValueKinds
  <1>13. CASE tag = TAG_RANGE
    BY <1>1, <1>13, RangeLocal, PairLocal, ValueKinds
  <1>14. CASE tag = TAG_GEOMETRY
    BY <1>1, <1>14, GeometryLocal, WholeLocal, ValueKinds
  <1>15. CASE tag \notin {TAG_NONE, TAG_NULL, TAG_BOOL, TAG_NUMBER, TAG_STRING, TAG_REGEX, TAG_BYTES, TAG_DURATION, TAG_DATETIME, TAG_UUID, TAG_TABLE, TAG_RECORD, TAG_ARRAY, TAG_SET, TAG_OBJECT, TAG_RANGE, TAG_GEOMETRY}
    BY <1>15, NoneGrows DEF ReadValueBody, As, Both, Then
  <1>16. QED
    BY <1>2, <1>3, <1>4, <1>5, <1>6, <1>7, <1>8, <1>9, <1>10, <1>11, <1>12, <1>13, <1>14, <1>15

LEMMA ValueLocal ==
  ASSUME NEW read, Local(read)
  PROVE  Local(ValueReader(read))
  <1> DEFINE bodies == ValueBodies(read)
  <1>1. ASSUME NEW tag \in Nat, NEW rest \in Seq(Byte), NEW more \in Seq(Byte)
        PROVE  Grows(bodies[<<tag, rest>>], more, bodies[<<tag, rest \o more>>])
    <2> DEFINE here == rest \o more
    <2>1. here \in Seq(Byte)
      BY Rejoined
    <2>2. Grows(ReadValueBody(tag, rest, read), more, ReadValueBody(tag, here, read))
      BY ValueBodyGrows
    <2> HIDE DEF here
    <2>3. bodies[<<tag, rest>>] = ReadValueBody(tag, rest, read) /\ bodies[<<tag, here>>] = ReadValueBody(tag, here, read)
      BY <2>1 DEF ValueBodies
    <2> HIDE DEF bodies
    <2>4. Grows(bodies[<<tag, rest>>], more, bodies[<<tag, here>>])
      BY <2>2, <2>3
    <2>5. QED
      BY <2>4 DEF here
  <1> HIDE DEF bodies
  <1>2. Local(TagReader(bodies))
    BY <1>1, TagLocal
  <1>3. QED
    BY <1>2, ValueReaders DEF bodies

\* A value of one tag is read back when what is after its tag is.
LEMMA ValueKindSaid ==
  ASSUME NEW tag \in Byte, NEW read, NEW reader, NEW x, NEW body,
         ValueKind(tag, reader, read), Said(body, reader, x)
  PROVE  Said(<<tag>> \o body, ValueReader(read), x)
  <1> DEFINE bodies == ValueBodies(read)
  <1>1. body \in Seq(Byte) /\ tag \in Nat
    BY DEF Said, Byte
  <1>2. ASSUME NEW rest \in Seq(Byte) PROVE bodies[<<tag, body \o rest>>] = One(x, rest)
    <2> DEFINE here == body \o rest
    <2>1. here \in Seq(Byte) /\ reader[here] = One(x, rest)
      BY <1>1, Rejoined DEF Said
    <2> HIDE DEF here
    <2>2. bodies[<<tag, here>>] = ReadValueBody(tag, here, read)
      BY <1>1, <2>1 DEF ValueBodies
    <2>3. ReadValueBody(tag, here, read) = One(x, rest)
      BY <2>1 DEF ValueKind
    <2>4. QED
      BY <2>2, <2>3 DEF here
  <1> HIDE DEF bodies
  <1>3. Said(<<tag>> \o body, TagReader(bodies), x)
    BY <1>1, <1>2, TagSaid
  <1>4. QED
    BY <1>3, ValueReaders DEF bodies

\* What is written after each tag.
LEMMA EncodeKinds ==
  ASSUME NEW whole, NEW write
  PROVE  /\ whole[1] \in {TAG_NONE, TAG_NULL} => EncodeBody(whole, write) = {<<>>}
         /\ whole[1] = TAG_BOOL => EncodeBody(whole, write) = U8(IF whole[2] THEN 1 ELSE 0)
         /\ whole[1] = TAG_NUMBER => EncodeBody(whole, write) = Number(whole[2], whole[3])
         /\ whole[1] \in {TAG_STRING, TAG_BYTES, TAG_REGEX} => EncodeBody(whole, write) = LenBytes(whole[2])
         /\ whole[1] \in {TAG_DURATION, TAG_DATETIME} => EncodeBody(whole, write) = Cat(I64(whole[2]), Nanos(whole[3]))
         /\ whole[1] = TAG_UUID => EncodeBody(whole, write) = Fixed(whole[2], W128)
         /\ whole[1] = TAG_TABLE => EncodeBody(whole, write) = U32(whole[2])
         /\ whole[1] = TAG_RECORD => EncodeBody(whole, write) = Cat(U32(whole[2]), RecordId(whole[3]))
         /\ whole[1] \in {TAG_ARRAY, TAG_SET} => EncodeBody(whole, write) = WriteCounted([i \in DOMAIN whole[2] |-> write[whole[2][i]]])
         /\ whole[1] = TAG_OBJECT => EncodeBody(whole, write) = WriteFields(whole[2], write)
         /\ whole[1] = TAG_RANGE => EncodeBody(whole, write) = Cat(WriteBound(whole[2], write), WriteBound(whole[3], write))
         /\ whole[1] = TAG_GEOMETRY => EncodeBody(whole, write) = Shape(whole[2])
  <1> USE DEF EncodeBody, Counted, TAG_NONE, TAG_NULL, TAG_BOOL, TAG_NUMBER, TAG_STRING, TAG_BYTES, TAG_DURATION,
          TAG_DATETIME, TAG_UUID, TAG_TABLE, TAG_RECORD, TAG_ARRAY, TAG_OBJECT, TAG_RANGE, TAG_SET, TAG_GEOMETRY, TAG_REGEX
  <1>1. ASSUME whole[1] \in {TAG_NONE, TAG_NULL} PROVE EncodeBody(whole, write) = {<<>>}
    BY <1>1, SMTT(30)
  <1>2. ASSUME whole[1] = TAG_BOOL PROVE EncodeBody(whole, write) = U8(IF whole[2] THEN 1 ELSE 0)
    BY <1>2
  <1>3. ASSUME whole[1] = TAG_NUMBER PROVE EncodeBody(whole, write) = Number(whole[2], whole[3])
    BY <1>3
  <1>4. ASSUME whole[1] \in {TAG_STRING, TAG_BYTES, TAG_REGEX} PROVE EncodeBody(whole, write) = LenBytes(whole[2])
    BY <1>4
  <1>5. ASSUME whole[1] \in {TAG_DURATION, TAG_DATETIME} PROVE EncodeBody(whole, write) = Cat(I64(whole[2]), Nanos(whole[3]))
    BY <1>5
  <1>6. ASSUME whole[1] = TAG_UUID PROVE EncodeBody(whole, write) = Fixed(whole[2], W128)
    BY <1>6
  <1>7. ASSUME whole[1] = TAG_TABLE PROVE EncodeBody(whole, write) = U32(whole[2])
    BY <1>7
  <1>8. ASSUME whole[1] = TAG_RECORD PROVE EncodeBody(whole, write) = Cat(U32(whole[2]), RecordId(whole[3]))
    BY <1>8
  <1>9. ASSUME whole[1] \in {TAG_ARRAY, TAG_SET} PROVE EncodeBody(whole, write) = WriteCounted([i \in DOMAIN whole[2] |-> write[whole[2][i]]])
    BY <1>9
  <1>10. ASSUME whole[1] = TAG_OBJECT PROVE EncodeBody(whole, write) = WriteFields(whole[2], write)
    BY <1>10
  <1>11. ASSUME whole[1] = TAG_RANGE PROVE EncodeBody(whole, write) = Cat(WriteBound(whole[2], write), WriteBound(whole[3], write))
    BY <1>11
  <1>12. ASSUME whole[1] = TAG_GEOMETRY PROVE EncodeBody(whole, write) = Shape(whole[2])
    BY <1>12
  <1> HIDE DEF EncodeBody, Counted
  <1>13. QED
    BY <1>1, <1>2, <1>3, <1>4, <1>5, <1>6, <1>7, <1>8, <1>9, <1>10, <1>11, <1>12

\* What is in a value.
LEMMA PartsOfList ==
  ASSUME NEW whole, whole[1] \in {TAG_ARRAY, TAG_SET}
  PROVE  Parts(whole) = ToSet(whole[2])
  <1>1. CASE whole[1] = TAG_ARRAY
    BY <1>1 DEF Parts, TAG_ARRAY, TAG_SET, TAG_OBJECT, TAG_RANGE
  <1>2. CASE whole[1] = TAG_SET
    BY <1>2 DEF Parts, TAG_ARRAY, TAG_SET, TAG_OBJECT, TAG_RANGE
  <1>3. QED
    BY <1>1, <1>2

LEMMA PartsOfObject ==
  ASSUME NEW whole, whole[1] = TAG_OBJECT
  PROVE  Parts(whole) = {whole[2][name] : name \in DOMAIN whole[2]}
  BY DEF Parts, TAG_ARRAY, TAG_SET, TAG_OBJECT, TAG_RANGE

LEMMA PartsOfRange ==
  ASSUME NEW whole, whole[1] = TAG_RANGE
  PROVE  Parts(whole) = {bound[2] : bound \in {x \in {whole[2], whole[3]} : x[1] # UNBOUNDED}}
  BY DEF Parts, TAG_ARRAY, TAG_SET, TAG_OBJECT, TAG_RANGE

LEMMA TagsAreBytes ==
  /\ {TAG_NONE, TAG_NULL, TAG_BOOL, TAG_NUMBER, TAG_STRING, TAG_REGEX} \subseteq Byte
  /\ {TAG_BYTES, TAG_DURATION, TAG_DATETIME, TAG_UUID, TAG_TABLE, TAG_RECORD} \subseteq Byte
  /\ {TAG_ARRAY, TAG_SET, TAG_OBJECT, TAG_RANGE, TAG_GEOMETRY} \subseteq Byte
  BY DEF Byte, TAG_NONE, TAG_NULL, TAG_BOOL, TAG_NUMBER, TAG_STRING, TAG_BYTES, TAG_DURATION, TAG_DATETIME, TAG_UUID,
         TAG_TABLE, TAG_RECORD, TAG_ARRAY, TAG_OBJECT, TAG_RANGE, TAG_SET, TAG_GEOMETRY, TAG_REGEX

LEMMA TimeSaid ==
  ASSUME NEW a \in Int, NEW b \in Int, NEW w \in Cat(I64(a), Nanos(b))
  PROVE  Said(w, TimeReader, <<a, b>>)
  <1> DEFINE one == I64(a)
             two == Nanos(b)
  <1>1. w \in Cat(one, two)
    OBVIOUS
  <1> HIDE DEF one, two
  <1>2. PICK x \in one, y \in two : w = x \o y
    BY <1>1, CatIs
  <1>3. Said(x, I64Reader, a) /\ Said(y, NanosReader, b)
    BY <1>2, I64Said, NanosSaid DEF one, two
  <1>4. Said(x \o y, TimeReader, <<a, b>>)
    BY <1>3, BothSaid DEF TimeReader
  <1>5. QED
    BY <1>2, <1>4

LEMMA RefSaid ==
  ASSUME NEW a \in Int, NEW b \in Ids, NEW w \in Cat(U32(a), RecordId(b))
  PROVE  Said(w, RefReader, <<a, b>>)
  <1> DEFINE one == U32(a)
             two == RecordId(b)
  <1>1. w \in Cat(one, two)
    OBVIOUS
  <1> HIDE DEF one, two
  <1>2. PICK x \in one, y \in two : w = x \o y
    BY <1>1 DEF Cat
  <1>3. Said(x, U32Reader, a) /\ Said(y, RecordIdReader, b)
    BY <1>2, U32Said, RecordIdSaid DEF one, two
  <1>4. Said(x \o y, RefReader, <<a, b>>)
    BY <1>3, BothSaid DEF RefReader
  <1>5. QED
    BY <1>2, <1>4

LEMMA RangeSaid ==
  ASSUME NEW S, NEW a \in BoundsOf(S), NEW b \in BoundsOf(S), NEW write, NEW read,
         \A bound \in {a, b} : bound[1] # UNBOUNDED => \A z \in write[bound[2]] : Said(z, read, bound[2]),
         NEW w \in Cat(WriteBound(a, write), WriteBound(b, write))
  PROVE  Said(w, RangeReader(read), <<a, b>>)
  <1> DEFINE one == WriteBound(a, write)
             two == WriteBound(b, write)
  <1>1. w \in Cat(one, two)
    OBVIOUS
  <1> HIDE DEF one, two
  <1>2. PICK x \in one, y \in two : w = x \o y
    BY <1>1, CatIs
  <1>3. Said(x, BoundReader(read), a)
    BY BoundSaid DEF one
  <1>4. Said(y, BoundReader(read), b)
    BY BoundSaid DEF two
  <1>5. Said(x \o y, RangeReader(read), <<a, b>>)
    BY <1>3, <1>4, BothSaid DEF RangeReader
  <1>6. QED
    BY <1>2, <1>5

LEMMA ValueIs ==
  ASSUME NEW S, NEW v \in ValuesOf(S)
  PROVE  \/ v = <<TAG_NONE>>
         \/ v = <<TAG_NULL>>
         \/ v \in {TAG_BOOL} \X BOOLEAN
         \/ v \in {TAG_NUMBER} \X {INTEGER} \X Int
         \/ v \in {TAG_NUMBER} \X {FLOAT} \X Doubles
         \/ v \in {TAG_NUMBER} \X {DECIMAL} \X (Int \X Int)
         \/ v \in {TAG_STRING, TAG_REGEX} \X Ascii
         \/ v \in {TAG_BYTES, TAG_UUID} \X Seq(Byte)
         \/ v \in {TAG_DURATION, TAG_DATETIME} \X Int \X Int
         \/ v \in {TAG_TABLE} \X Int
         \/ v \in {TAG_RECORD} \X Int \X Ids
         \/ v \in {TAG_GEOMETRY} \X ShapesTo(NESTING)
         \/ v \in {TAG_ARRAY, TAG_SET} \X Seq(S)
         \/ v \in {TAG_OBJECT} \X ObjectsOf(S)
         \/ v \in {TAG_RANGE} \X BoundsOf(S) \X BoundsOf(S)
  BY Zenon DEF ValuesOf, Plain, ListsOf

\* A value is read back when those in it are, whatever follows it.
LEMMA ValueSaid ==
  ASSUME NEW S, NEW v \in ValuesOf(S), NEW write, NEW read, Local(read),
         \A part \in Parts(v) : \A z \in write[part] : Said(z, read, part),
         NEW w \in EncodeOne(v, write)
  PROVE  Said(w, ValueReader(read), v)
  <1> DEFINE tag == v[1]
             x == v[2]
             y == v[3]
  <1>1. PICK body \in EncodeBody(v, write) : w = <<tag>> \o body
    BY TaggedIs DEF EncodeOne
  <1>2. \A A, B : v \in A \X B => v = <<tag, x>> /\ tag \in A /\ x \in B
    OBVIOUS
  <1>3. \A A, B, C : v \in A \X B \X C => v = <<tag, x, y>> /\ tag \in A /\ x \in B /\ y \in C
    OBVIOUS
  <1>4. ASSUME NEW reader, ValueKind(tag, reader, read), Said(body, reader, v), tag \in Byte
        PROVE  Said(w, ValueReader(read), v)
    BY <1>1, <1>4, ValueKindSaid
  <1>5. CASE v = <<TAG_NONE>> \/ v = <<TAG_NULL>>
    <2>1. tag \in {TAG_NONE, TAG_NULL} /\ v = <<tag>>
      BY <1>5
    <2>2. Said(body, NoneReader(tag), v)
      BY <1>1, <2>1, EncodeKinds, NoneSaid
    <2>3. QED
      BY <2>1, <2>2, <1>4, ValueKinds, TagsAreBytes
  <1> HIDE DEF tag, x, y
  <1>6. CASE v \in {TAG_BOOL} \X BOOLEAN
    <2>1. v = <<tag, x>> /\ tag \in {TAG_BOOL} /\ x \in BOOLEAN
      BY <1>2, <1>6, Zenon
    <2>2. body \in U8(IF x THEN 1 ELSE 0)
      BY <1>1, <2>1, EncodeKinds DEF tag, x, y
    <2>3. Said(body, BoolReader(tag), v)
      BY <2>1, <2>2, BoolSaid
    <2>4. QED
      BY <2>1, <2>3, <1>4, ValueKinds, TagsAreBytes
  <1>7. CASE \/ v \in {TAG_NUMBER} \X {INTEGER} \X Int
             \/ v \in {TAG_NUMBER} \X {FLOAT} \X Doubles
             \/ v \in {TAG_NUMBER} \X {DECIMAL} \X (Int \X Int)
    <2>1. /\ v = <<tag, x, y>> /\ tag \in {TAG_NUMBER}
          /\ \/ x \in {INTEGER} /\ y \in Int
             \/ x \in {FLOAT} /\ y \in Doubles
             \/ x \in {DECIMAL} /\ y \in Int \X Int
      BY <1>3, <1>7, Zenon
    <2>2. body \in Number(x, y)
      BY <1>1, <2>1, EncodeKinds DEF tag, x, y
    <2>3. Said(body, NumberReader, v)
      BY <2>1, <2>2, NumberSaid
    <2>4. QED
      BY <2>1, <2>3, <1>4, ValueKinds, TagsAreBytes
  <1>8. CASE v \in {TAG_STRING, TAG_REGEX} \X Ascii
    <2>1. v = <<tag, x>> /\ tag \in {TAG_STRING, TAG_REGEX} /\ x \in Ascii
      BY <1>2, <1>8, Zenon
    <2>2. body \in LenBytes(x)
      BY <1>1, <2>1, EncodeKinds DEF tag, x, y
    <2>3. Said(body, TextReader, x)
      BY <2>1, <2>2, TextSaid
    <2>4. QED
      BY <2>1, <2>3, <1>4, WholeSaid, ValueKinds, TagsAreBytes
  <1>9. CASE v \in {TAG_BYTES, TAG_UUID} \X Seq(Byte)
    <2>1. v = <<tag, x>> /\ tag \in {TAG_BYTES, TAG_UUID} /\ x \in Seq(Byte)
      BY <1>2, <1>9, Zenon
    <2>2. CASE tag = TAG_BYTES
      <3>1. body \in LenBytes(x)
        BY <1>1, <2>2, EncodeKinds DEF tag, x
      <3>2. Said(body, LenReader, x)
        BY <2>1, <3>1, LenSaid
      <3>3. QED
        BY <2>1, <2>2, <3>2, WholeSaid, <1>4, ValueKinds, TagsAreBytes
    <2>3. CASE tag = TAG_UUID
      <3>1. body \in Fixed(x, W128)
        BY <1>1, <2>3, EncodeKinds DEF tag, x
      <3>2. Said(body, UuidReader, x)
        BY <2>1, <3>1, UuidSaid
      <3>3. QED
        BY <2>1, <2>3, <3>2, WholeSaid, <1>4, ValueKinds, TagsAreBytes
    <2>4. QED
      BY <2>1, <2>2, <2>3
  <1>10. CASE v \in {TAG_DURATION, TAG_DATETIME} \X Int \X Int
    <2>1. v = <<tag, x, y>> /\ tag \in {TAG_DURATION, TAG_DATETIME} /\ x \in Int /\ y \in Int
      BY <1>3, <1>10, Zenon
    <2>2. body \in Cat(I64(x), Nanos(y))
      BY <1>1, <2>1, EncodeKinds DEF tag, x, y
    <2>3. Said(body, TimeReader, <<x, y>>)
      BY <2>1, <2>2, TimeSaid
    <2>4. QED
      BY <2>1, <2>3, <1>4, PairSaid, ValueKinds, TagsAreBytes
  <1>11. CASE v \in {TAG_TABLE} \X Int
    <2>1. v = <<tag, x>> /\ tag \in {TAG_TABLE} /\ x \in Int
      BY <1>2, <1>11, Zenon
    <2>2. body \in U32(x)
      BY <1>1, <2>1, EncodeKinds DEF tag, x, y
    <2>3. Said(body, U32Reader, x)
      BY <2>1, <2>2, U32Said
    <2>4. QED
      BY <2>1, <2>3, <1>4, WholeSaid, ValueKinds, TagsAreBytes
  <1>12. CASE v \in {TAG_RECORD} \X Int \X Ids
    <2>1. v = <<tag, x, y>> /\ tag \in {TAG_RECORD} /\ x \in Int /\ y \in Ids
      BY <1>3, <1>12, Zenon
    <2>2. body \in Cat(U32(x), RecordId(y))
      BY <1>1, <2>1, EncodeKinds DEF tag, x, y
    <2>3. Said(body, RefReader, <<x, y>>)
      BY <2>1, <2>2, RefSaid
    <2>4. QED
      BY <2>1, <2>3, <1>4, PairSaid, ValueKinds, TagsAreBytes
  <1>13. CASE v \in {TAG_GEOMETRY} \X ShapesTo(NESTING)
    <2>1. v = <<tag, x>> /\ tag \in {TAG_GEOMETRY} /\ x \in ShapesTo(NESTING)
      BY <1>2, <1>13, Zenon
    <2>2. body \in Shape(x)
      BY <1>1, <2>1, EncodeKinds DEF tag, x, y
    <2>3. Said(body, GeometryReader, x)
      BY <2>1, <2>2, GeometrySaid
    <2>4. QED
      BY <2>1, <2>3, <1>4, WholeSaid, ValueKinds, TagsAreBytes
  <1>14. CASE v \in {TAG_ARRAY, TAG_SET} \X Seq(S)
    <2>1. v = <<tag, x>> /\ tag \in {TAG_ARRAY, TAG_SET} /\ x \in Seq(S)
      BY <1>2, <1>14, Zenon
    <2>2. body \in WriteCounted([i \in DOMAIN x |-> write[x[i]]])
      BY <1>1, <2>1, EncodeKinds DEF tag, x, y
    <2>3. Said(body, CountedReader(read), x)
      <3>1. \A i \in 1 .. Len(x) : x[i] \in Parts(v)
        BY <2>1, PartsOfList DEF tag, x, ToSet
      <3>2. \A i \in 1 .. Len(x) : \A z \in write[x[i]] : Said(z, read, x[i])
        BY <3>1
      <3>3. QED
        BY <2>1, <2>2, <3>2, PartsSaid
    <2>4. QED
      BY <2>1, <2>3, <1>4, WholeSaid, ValueKinds, TagsAreBytes
  <1>15. CASE v \in {TAG_OBJECT} \X ObjectsOf(S)
    <2>1. v = <<tag, x>> /\ tag \in {TAG_OBJECT} /\ x \in ObjectsOf(S)
      BY <1>2, <1>15, Zenon
    <2>2. body \in WriteFields(x, write)
      BY <1>1, <2>1, EncodeKinds DEF tag, x, y
    <2>3. Said(body, FieldsReader(read), x)
      BY <2>1, PartsOfObject, <2>2, FieldsSaid DEF tag, x
    <2>4. QED
      BY <2>1, <2>3, <1>4, WholeSaid, ValueKinds, TagsAreBytes
  <1>16. CASE v \in {TAG_RANGE} \X BoundsOf(S) \X BoundsOf(S)
    <2>1. v = <<tag, x, y>> /\ tag \in {TAG_RANGE} /\ x \in BoundsOf(S) /\ y \in BoundsOf(S)
      BY <1>3, <1>16, Zenon
    <2>2. body \in Cat(WriteBound(x, write), WriteBound(y, write))
      BY <1>1, <2>1, EncodeKinds DEF tag, x, y
    <2>3. Said(body, RangeReader(read), <<x, y>>)
      BY <2>1, PartsOfRange, <2>2, RangeSaid DEF tag, x, y
    <2>4. QED
      BY <2>1, <2>3, <1>4, PairSaid, ValueKinds, TagsAreBytes
  <1>17. QED
    BY ValueIs, <1>5, <1>6, <1>7, <1>8, <1>9, <1>10, <1>11, <1>12, <1>13, <1>14, <1>15, <1>16, Zenon

-----------------------------------------------------------------------------
(* Values in values *)

\* The values that nest at most so deep.
ValuesAt(t, n) == t = [k \in 0 .. n |-> IF k = 0 THEN {} ELSE ValuesOf(t[k - 1])]

LEMMA ValuesAtThere ==
  ASSUME NEW n \in Nat
  PROVE  \E t : ValuesAt(t, n)
  <1> DEFINE T == {m \in Nat : \E t : ValuesAt(t, m)}
  <1>1. 0 \in T
    <2> DEFINE u == [k \in 0 .. 0 |-> IF k = 0 THEN {} ELSE ValuesOf({})]
    <2>1. DOMAIN u = 0 .. 0 /\ u = [k \in DOMAIN u |-> u[k]] /\ \A k \in 0 .. 0 : k = 0 /\ u[k] = IF 0 = 0 THEN {} ELSE ValuesOf({})
      OBVIOUS
    <2> HIDE DEF u
    <2>2. \A k \in 0 .. 0 : u[k] = IF k = 0 THEN {} ELSE ValuesOf(u[k - 1])
      BY <2>1
    <2>3. ValuesAt(u, 0)
      BY <2>1, <2>2, Zenon DEF ValuesAt
    <2>4. QED
      BY <2>3
  <1>2. ASSUME NEW m \in Nat, m \in T PROVE m + 1 \in T
    <2>1. PICK t : ValuesAt(t, m)
      BY <1>2
    <2> DEFINE u == [k \in 0 .. m + 1 |-> IF k = 0 THEN {} ELSE ValuesOf(t[k - 1])]
    <2>2. ASSUME NEW k \in 1 .. m + 1 PROVE u[k - 1] = t[k - 1]
      <3>1. k - 1 \in 0 .. m /\ k - 1 \in 0 .. m + 1
        OBVIOUS
      <3>2. QED
        BY <3>1, <2>1, Zenon DEF ValuesAt
    <2>3. /\ DOMAIN u = 0 .. m + 1 /\ u = [k \in DOMAIN u |-> u[k]]
          /\ \A k \in 0 .. m + 1 : u[k] = IF k = 0 THEN {} ELSE ValuesOf(t[k - 1])
      BY Zenon
    <2> HIDE DEF u
    <2>4. \A k \in 0 .. m + 1 : u[k] = IF k = 0 THEN {} ELSE ValuesOf(u[k - 1])
      <3> TAKE k \in 0 .. m + 1
      <3>1. CASE k = 0
        BY <3>1, <2>3
      <3>2. CASE k # 0
        BY <3>2, <2>2, <2>3
      <3>3. QED
        BY <3>1, <3>2
    <2>5. ValuesAt(u, m + 1)
      BY <2>3, <2>4, Zenon DEF ValuesAt
    <2>6. m + 1 \in Nat
      OBVIOUS
    <2>7. QED
      BY <2>5, <2>6, Zenon
  <1>3. n \in T
    <2> HIDE DEF T
    <2> QED
      BY <1>1, <1>2, Induct
  <1>4. QED
    BY <1>3

\* What is in a value, and in that.
WithinValue(t, n, x) == t = [k \in 0 .. n |-> IF k = 0 THEN {x} ELSE t[k - 1] \cup UNION {Parts(part) : part \in t[k - 1]}]

LEMMA WithinValueThere ==
  ASSUME NEW n \in Nat, NEW x
  PROVE  \E t : WithinValue(t, n, x)
  <1> DEFINE T == {m \in Nat : \E t : WithinValue(t, m, x)}
  <1>1. 0 \in T
    <2> DEFINE u == [k \in 0 .. 0 |-> IF k = 0 THEN {x} ELSE {} \cup UNION {Parts(part) : part \in {}}]
    <2>1. DOMAIN u = 0 .. 0 /\ u = [k \in DOMAIN u |-> u[k]] /\ \A k \in 0 .. 0 : k = 0 /\ u[k] = IF 0 = 0 THEN {x} ELSE {} \cup UNION {Parts(part) : part \in {}}
      OBVIOUS
    <2> HIDE DEF u
    <2>2. \A k \in 0 .. 0 : u[k] = IF k = 0 THEN {x} ELSE u[k - 1] \cup UNION {Parts(part) : part \in u[k - 1]}
      BY <2>1
    <2>3. WithinValue(u, 0, x)
      BY <2>1, <2>2, Zenon DEF WithinValue
    <2>4. QED
      BY <2>3
  <1>2. ASSUME NEW m \in Nat, m \in T PROVE m + 1 \in T
    <2>1. PICK t : WithinValue(t, m, x)
      BY <1>2
    <2> DEFINE u == [k \in 0 .. m + 1 |-> IF k = 0 THEN {x} ELSE t[k - 1] \cup UNION {Parts(part) : part \in t[k - 1]}]
    <2>2. ASSUME NEW k \in 1 .. m + 1 PROVE u[k - 1] = t[k - 1]
      <3>1. k - 1 \in 0 .. m /\ k - 1 \in 0 .. m + 1
        OBVIOUS
      <3>2. QED
        BY <3>1, <2>1, Zenon DEF WithinValue
    <2>3. /\ DOMAIN u = 0 .. m + 1 /\ u = [k \in DOMAIN u |-> u[k]]
          /\ \A k \in 0 .. m + 1 : u[k] = IF k = 0 THEN {x} ELSE t[k - 1] \cup UNION {Parts(part) : part \in t[k - 1]}
      BY Zenon
    <2> HIDE DEF u
    <2>4. \A k \in 0 .. m + 1 : u[k] = IF k = 0 THEN {x} ELSE u[k - 1] \cup UNION {Parts(part) : part \in u[k - 1]}
      <3> TAKE k \in 0 .. m + 1
      <3>1. CASE k = 0
        BY <3>1, <2>3
      <3>2. CASE k # 0
        BY <3>2, <2>2, <2>3
      <3>3. QED
        BY <3>1, <3>2
    <2>5. WithinValue(u, m + 1, x)
      BY <2>3, <2>4, Zenon DEF WithinValue
    <2>6. m + 1 \in Nat
      OBVIOUS
    <2>7. QED
      BY <2>5, <2>6, Zenon
  <1>3. n \in T
    <2> HIDE DEF T
    <2> QED
      BY <1>1, <1>2, Induct
  <1>4. QED
    BY <1>3

\* The writers of the values in one.
Writers(t, n, inside) == t = [k \in 0 .. n |-> [part \in inside |-> IF k = 0 THEN {} ELSE EncodeOne(part, t[k - 1])]]

LEMMA WritersThere ==
  ASSUME NEW n \in Nat, NEW inside
  PROVE  \E t : Writers(t, n, inside)
  <1> DEFINE T == {m \in Nat : \E t : Writers(t, m, inside)}
  <1>1. 0 \in T
    <2> DEFINE u == [k \in 0 .. 0 |-> [part \in inside |-> IF k = 0 THEN {} ELSE EncodeOne(part, {})]]
    <2>1. DOMAIN u = 0 .. 0 /\ u = [k \in DOMAIN u |-> u[k]] /\ \A k \in 0 .. 0 : k = 0 /\ u[k] = [part \in inside |-> IF 0 = 0 THEN {} ELSE EncodeOne(part, {})]
      OBVIOUS
    <2> HIDE DEF u
    <2>2. \A k \in 0 .. 0 : u[k] = [part \in inside |-> IF k = 0 THEN {} ELSE EncodeOne(part, u[k - 1])]
      BY <2>1
    <2>3. Writers(u, 0, inside)
      BY <2>1, <2>2, Zenon DEF Writers
    <2>4. QED
      BY <2>3
  <1>2. ASSUME NEW m \in Nat, m \in T PROVE m + 1 \in T
    <2>1. PICK t : Writers(t, m, inside)
      BY <1>2
    <2> DEFINE u == [k \in 0 .. m + 1 |-> [part \in inside |-> IF k = 0 THEN {} ELSE EncodeOne(part, t[k - 1])]]
    <2>2. ASSUME NEW k \in 1 .. m + 1 PROVE u[k - 1] = t[k - 1]
      <3>1. k - 1 \in 0 .. m /\ k - 1 \in 0 .. m + 1
        OBVIOUS
      <3>2. QED
        BY <3>1, <2>1, Zenon DEF Writers
    <2>3. /\ DOMAIN u = 0 .. m + 1 /\ u = [k \in DOMAIN u |-> u[k]]
          /\ \A k \in 0 .. m + 1 : u[k] = [part \in inside |-> IF k = 0 THEN {} ELSE EncodeOne(part, t[k - 1])]
      BY Zenon
    <2> HIDE DEF u
    <2>4. \A k \in 0 .. m + 1 : u[k] = [part \in inside |-> IF k = 0 THEN {} ELSE EncodeOne(part, u[k - 1])]
      <3> TAKE k \in 0 .. m + 1
      <3>1. CASE k = 0
        BY <3>1, <2>3
      <3>2. CASE k # 0
        BY <3>2, <2>2, <2>3
      <3>3. QED
        BY <3>1, <3>2
    <2>5. Writers(u, m + 1, inside)
      BY <2>3, <2>4, Zenon DEF Writers
    <2>6. m + 1 \in Nat
      OBVIOUS
    <2>7. QED
      BY <2>5, <2>6, Zenon
  <1>3. n \in T
    <2> HIDE DEF T
    <2> QED
      BY <1>1, <1>2, Induct
  <1>4. QED
    BY <1>3

\* The readers of values that nest at most so deep.
Tables(t, n) == t = [k \in 0 .. n |-> [raw \in Seq(Byte) |-> IF k = 0 THEN {} ELSE ReadOne(raw, t[k - 1])]]

LEMMA TablesThere ==
  ASSUME NEW n \in Nat
  PROVE  \E t : Tables(t, n)
  <1> DEFINE T == {m \in Nat : \E t : Tables(t, m)}
  <1>1. 0 \in T
    <2> DEFINE u == [k \in 0 .. 0 |-> [raw \in Seq(Byte) |-> IF k = 0 THEN {} ELSE ReadOne(raw, {})]]
    <2>1. DOMAIN u = 0 .. 0 /\ u = [k \in DOMAIN u |-> u[k]] /\ \A k \in 0 .. 0 : k = 0 /\ u[k] = [raw \in Seq(Byte) |-> IF 0 = 0 THEN {} ELSE ReadOne(raw, {})]
      OBVIOUS
    <2> HIDE DEF u
    <2>2. \A k \in 0 .. 0 : u[k] = [raw \in Seq(Byte) |-> IF k = 0 THEN {} ELSE ReadOne(raw, u[k - 1])]
      BY <2>1
    <2>3. Tables(u, 0)
      BY <2>1, <2>2, Zenon DEF Tables
    <2>4. QED
      BY <2>3
  <1>2. ASSUME NEW m \in Nat, m \in T PROVE m + 1 \in T
    <2>1. PICK t : Tables(t, m)
      BY <1>2
    <2> DEFINE u == [k \in 0 .. m + 1 |-> [raw \in Seq(Byte) |-> IF k = 0 THEN {} ELSE ReadOne(raw, t[k - 1])]]
    <2>2. ASSUME NEW k \in 1 .. m + 1 PROVE u[k - 1] = t[k - 1]
      <3>1. k - 1 \in 0 .. m /\ k - 1 \in 0 .. m + 1
        OBVIOUS
      <3>2. QED
        BY <3>1, <2>1, Zenon DEF Tables
    <2>3. /\ DOMAIN u = 0 .. m + 1 /\ u = [k \in DOMAIN u |-> u[k]]
          /\ \A k \in 0 .. m + 1 : u[k] = [raw \in Seq(Byte) |-> IF k = 0 THEN {} ELSE ReadOne(raw, t[k - 1])]
      BY Zenon
    <2> HIDE DEF u
    <2>4. \A k \in 0 .. m + 1 : u[k] = [raw \in Seq(Byte) |-> IF k = 0 THEN {} ELSE ReadOne(raw, u[k - 1])]
      <3> TAKE k \in 0 .. m + 1
      <3>1. CASE k = 0
        BY <3>1, <2>3
      <3>2. CASE k # 0
        BY <3>2, <2>2, <2>3
      <3>3. QED
        BY <3>1, <3>2
    <2>5. Tables(u, m + 1)
      BY <2>3, <2>4, Zenon DEF Tables
    <2>6. m + 1 \in Nat
      OBVIOUS
    <2>7. QED
      BY <2>5, <2>6, Zenon
  <1>3. n \in T
    <2> HIDE DEF T
    <2> QED
      BY <1>1, <1>2, Induct
  <1>4. QED
    BY <1>3


LEMMA ValuesAre == \E s : ValuesAt(s, NESTING) /\ ValuesTo(NESTING) = s[NESTING]
  <1>1. \E s : ValuesAt(s, NESTING)
    BY NestingAssumption, ValuesAtThere
  <1>2. QED
    BY <1>1 DEF ValuesTo, ValuesAt

LEMMA TablesAre == \E t : Tables(t, NESTING) /\ \A raw : Read(raw) = t[NESTING][raw]
  <1>1. \E t : Tables(t, NESTING)
    BY NestingAssumption, TablesThere
  <1>2. QED
    BY <1>1 DEF Read, Tables

LEMMA InsideValue ==
  ASSUME NEW x
  PROVE  \E v : WithinValue(v, NESTING, x) /\ Inside(x, Parts) = v[NESTING]
  <1>1. \E v : WithinValue(v, NESTING, x)
    BY NestingAssumption, WithinValueThere
  <1>2. QED
    BY <1>1, Zenon DEF Inside, WithinValue

LEMMA ValueWritten ==
  ASSUME NEW x
  PROVE  \E t : Writers(t, NESTING, Inside(x, Parts)) /\ Encode(x) = t[NESTING][x]
  <1> DEFINE inside == Inside(x, Parts)
  <1>1. \E t : Writers(t, NESTING, inside)
    BY NestingAssumption, WritersThere, Zenon
  <1>2. QED
    BY <1>1, Zenon DEF Encode, Writers

LEMMA TablesLocal ==
  ASSUME NEW t, Tables(t, NESTING)
  PROVE  \A k \in 0 .. NESTING : Local(t[k])
  <1> DEFINE T == {k \in Nat : k <= NESTING => Local(t[k])}
  <1>1. 0 \in T
    BY NestingAssumption, Rejoined, NoneGrows DEF Tables, Local
  <1>2. ASSUME NEW k \in Nat, k \in T PROVE k + 1 \in T
    <2> SUFFICES ASSUME k + 1 <= NESTING PROVE Local(t[k + 1])
      OBVIOUS
    <2>1. k + 1 \in 0 .. NESTING /\ k + 1 # 0 /\ (k + 1) - 1 = k /\ k <= NESTING
      BY NestingAssumption
    <2>2. t[k + 1] = [raw \in Seq(Byte) |-> ReadOne(raw, t[k])]
      BY <2>1 DEF Tables
    <2>3. QED
      BY <1>2, <2>1, <2>2, ValueLocal DEF ValueReader
  <1>3. \A k \in Nat : k \in T
    <2> HIDE DEF T
    <2> QED
      BY <1>1, <1>2, Induct
  <1>4. QED
    BY <1>3, NestingAssumption

Reader == [raw \in Seq(Byte) |-> Read(raw)]

LEMMA Readers ==
  ASSUME NEW t, Tables(t, NESTING), \A raw : Read(raw) = t[NESTING][raw]
  PROVE  Reader = t[NESTING]
  <1>1. NESTING \in 0 .. NESTING /\ NESTING # 0
    BY NestingAssumption
  <1>2. t[NESTING] = [raw \in Seq(Byte) |-> ReadOne(raw, t[NESTING - 1])]
    BY <1>1 DEF Tables
  <1> DEFINE f == t[NESTING]
  <1>3. f = [raw \in Seq(Byte) |-> f[raw]]
    BY <1>2
  <1>4. \A raw : Read(raw) = f[raw]
    OBVIOUS
  <1> HIDE DEF f
  <1>5. Reader = f
    BY <1>3, <1>4 DEF Reader
  <1>6. QED
    BY <1>5 DEF f

LEMMA ReaderLocal == Local(Reader)
  <1>1. PICK t : Tables(t, NESTING) /\ \A raw : Read(raw) = t[NESTING][raw]
    BY TablesAre
  <1>2. NESTING \in 0 .. NESTING
    BY NestingAssumption
  <1>3. QED
    BY <1>1, <1>2, TablesLocal, Readers

LEMMA PartsAreIn ==
  ASSUME NEW S, NEW x \in ValuesOf(S), NEW part \in Parts(x)
  PROVE  part \in S
  <1> DEFINE y == x[2]
             z == x[3]
  <1>1. \A A, B : x \in A \X B => x[1] \in A /\ y \in B
    OBVIOUS
  <1>2. \A A, B, C : x \in A \X B \X C => x[1] \in A /\ y \in B /\ z \in C
    OBVIOUS
  <1>3. \/ x[1] \in {TAG_ARRAY, TAG_SET} /\ y \in Seq(S)
        \/ x[1] = TAG_OBJECT /\ y \in ObjectsOf(S)
        \/ x[1] = TAG_RANGE /\ y \in BoundsOf(S) /\ z \in BoundsOf(S)
        \/ x[1] \notin {TAG_ARRAY, TAG_SET, TAG_OBJECT, TAG_RANGE}
    <2> DEFINE Bare == {TAG_NONE, TAG_NULL, TAG_BOOL, TAG_NUMBER, TAG_STRING, TAG_REGEX, TAG_BYTES, TAG_UUID,
                        TAG_DURATION, TAG_DATETIME, TAG_TABLE, TAG_RECORD, TAG_GEOMETRY}
    <2>1. \A tag \in Bare : tag \notin {TAG_ARRAY, TAG_SET, TAG_OBJECT, TAG_RANGE}
      BY DEF TAG_NONE, TAG_NULL, TAG_BOOL, TAG_NUMBER, TAG_STRING, TAG_BYTES, TAG_DURATION, TAG_DATETIME, TAG_UUID,
         TAG_TABLE, TAG_RECORD, TAG_ARRAY, TAG_OBJECT, TAG_RANGE, TAG_SET, TAG_GEOMETRY, TAG_REGEX
    <2>2. /\ {TAG_NONE} \subseteq Bare /\ {TAG_NULL} \subseteq Bare /\ {TAG_BOOL} \subseteq Bare
          /\ {TAG_NUMBER} \subseteq Bare /\ {TAG_STRING, TAG_REGEX} \subseteq Bare
          /\ {TAG_BYTES, TAG_UUID} \subseteq Bare /\ {TAG_DURATION, TAG_DATETIME} \subseteq Bare
          /\ {TAG_TABLE} \subseteq Bare /\ {TAG_RECORD} \subseteq Bare /\ {TAG_GEOMETRY} \subseteq Bare
      OBVIOUS
    <2>3. \A tag : x = <<tag>> => x[1] \in {tag}
      OBVIOUS
    <2> HIDE DEF Bare, y, z
    <2>4. CASE x = <<TAG_NONE>> \/ x = <<TAG_NULL>>
      BY <2>1, <2>2, <2>3, <2>4, Zenon
    <2>5. CASE \/ x \in {TAG_BOOL} \X BOOLEAN
               \/ x \in {TAG_STRING, TAG_REGEX} \X Ascii
               \/ x \in {TAG_BYTES, TAG_UUID} \X Seq(Byte)
               \/ x \in {TAG_TABLE} \X Int
               \/ x \in {TAG_GEOMETRY} \X ShapesTo(NESTING)
      BY <2>2, <2>5, <1>1, <2>1
    <2>6. CASE \/ x \in {TAG_NUMBER} \X {INTEGER} \X Int
               \/ x \in {TAG_NUMBER} \X {FLOAT} \X Doubles
               \/ x \in {TAG_NUMBER} \X {DECIMAL} \X (Int \X Int)
               \/ x \in {TAG_DURATION, TAG_DATETIME} \X Int \X Int
               \/ x \in {TAG_RECORD} \X Int \X Ids
      BY <2>2, <2>6, <1>2, <2>1
    <2>7. CASE x \in {TAG_ARRAY, TAG_SET} \X Seq(S)
      BY <2>7, <1>1, Zenon
    <2>8. CASE x \in {TAG_OBJECT} \X ObjectsOf(S)
      BY <2>8, <1>1
    <2>9. CASE x \in {TAG_RANGE} \X BoundsOf(S) \X BoundsOf(S)
      BY <2>9, <1>2
    <2>10. QED
      BY ValueIs, <2>4, <2>5, <2>6, <2>7, <2>8, <2>9, Zenon
  <1>4. CASE x[1] \in {TAG_ARRAY, TAG_SET} /\ y \in Seq(S)
    BY <1>4, PartsOfList DEF ToSet
  <1>5. CASE x[1] = TAG_OBJECT /\ y \in ObjectsOf(S)
    <2>1. PICK name \in DOMAIN y : part = y[name]
      BY <1>5, PartsOfObject
    <2>2. PICK names : y \in [names -> S]
      BY <1>5 DEF ObjectsOf
    <2>3. QED
      BY <2>1, <2>2
  <1>6. CASE x[1] = TAG_RANGE /\ y \in BoundsOf(S) /\ z \in BoundsOf(S)
    <2>1. PICK bound \in {y, z} : bound[1] # UNBOUNDED /\ part = bound[2]
      BY <1>6, PartsOfRange
    <2>2. bound \in BoundsOf(S)
      BY <1>6, <2>1
    <2>3. bound = <<UNBOUNDED>> \/ bound \in {INCLUDED, EXCLUDED} \X S
      BY <2>2, Zenon DEF BoundsOf
    <2>4. \A A : bound \in A \X S => bound[2] \in S
      OBVIOUS
    <2>5. bound = <<UNBOUNDED>> => bound[1] = UNBOUNDED
      OBVIOUS
    <2>6. bound[2] \in S
      BY <2>1, <2>3, <2>4, <2>5, Zenon
    <2>7. QED
      BY <2>1, <2>6
  <1>7. CASE x[1] \notin {TAG_ARRAY, TAG_SET, TAG_OBJECT, TAG_RANGE}
    BY <1>7 DEF Parts
  <1> HIDE DEF y, z
  <1>8. QED
    BY <1>3, <1>4, <1>5, <1>6, <1>7

\* The bytes of a value read back as it, whatever follows them.
LEMMA ReadSaid ==
  ASSUME NEW x0 \in ValuesTo(NESTING), NEW w \in Encode(x0)
  PROVE  Said(w, Reader, x0)
  <1> DEFINE inside == Inside(x0, Parts)
  <1>1. PICK s : ValuesAt(s, NESTING) /\ ValuesTo(NESTING) = s[NESTING]
    BY ValuesAre
  <1>2. PICK v : WithinValue(v, NESTING, x0) /\ inside = v[NESTING]
    BY InsideValue
  <1>3. PICK f : Writers(f, NESTING, inside) /\ Encode(x0) = f[NESTING][x0]
    BY ValueWritten
  <1>4. PICK t : Tables(t, NESTING) /\ \A raw : Read(raw) = t[NESTING][raw]
    BY TablesAre
  <1> HIDE DEF inside
  <1>5. \A k \in 0 .. NESTING : v[k] \subseteq inside
    <2>1. \A k \in 1 .. NESTING : v[k - 1] \subseteq v[k]
      BY <1>2, NestingAssumption DEF WithinValue
    <2>2. QED
      BY <2>1, <1>2, WithinGrows
  <1> DEFINE T == {k \in Nat : k <= NESTING =>
                    \A x \in s[k] : x \in v[NESTING - k] => \A z \in f[k][x] : Said(z, t[k], x)}
  <1>6. 0 \in T
    BY <1>1, NestingAssumption DEF ValuesAt
  <1>7. ASSUME NEW k \in Nat, k \in T PROVE k + 1 \in T
    <2> SUFFICES ASSUME k + 1 <= NESTING, NEW x \in s[k + 1], x \in v[NESTING - (k + 1)],
                        NEW y \in f[k + 1][x]
                 PROVE  Said(y, t[k + 1], x)
      OBVIOUS
    <2> DEFINE j == NESTING - (k + 1)
    <2>1. /\ k + 1 \in 0 .. NESTING /\ k + 1 # 0 /\ (k + 1) - 1 = k /\ k <= NESTING
          /\ j \in 0 .. NESTING /\ j + 1 \in 0 .. NESTING /\ j + 1 # 0 /\ (j + 1) - 1 = j
          /\ NESTING - k = j + 1 /\ k \in 0 .. NESTING
      BY NestingAssumption
    <2>2. x \in ValuesOf(s[k])
      BY <2>1, <1>1 DEF ValuesAt
    <2>3. x \in inside
      BY <1>5, <2>1
    <2>4. y \in EncodeOne(x, f[k])
      <3>1. f[k + 1] = [part \in inside |-> EncodeOne(part, f[(k + 1) - 1])]
        BY <2>1, <1>3 DEF Writers
      <3>2. QED
        BY <3>1, <2>1, <2>3
    <2>5. t[k + 1] = ValueReader(t[k])
      BY <2>1, <1>4 DEF Tables, ValueReader
    <2>6. ASSUME NEW part \in Parts(x), NEW z \in f[k][part]
          PROVE  Said(z, t[k], part)
      <3>1. part \in s[k]
        BY <2>2, PartsAreIn
      <3>2. part \in v[NESTING - k]
        <4>1. v[j + 1] = v[(j + 1) - 1] \cup UNION {Parts(p) : p \in v[(j + 1) - 1]}
          BY <2>1, <1>2 DEF WithinValue
        <4>2. x \in v[j]
          OBVIOUS
        <4> HIDE DEF j
        <4>3. QED
          BY <4>1, <4>2, <2>1
      <3>3. QED
        BY <3>1, <3>2, <2>6, <2>1, <1>7
    <2>7. Local(t[k])
      BY <2>1, <1>4, TablesLocal
    <2>8. Said(y, ValueReader(t[k]), x)
      BY <2>2, <2>4, <2>6, <2>7, ValueSaid
    <2>9. QED
      BY <2>5, <2>8
  <1>8. NESTING \in T
    <2> HIDE DEF T
    <2> QED
      BY <1>6, <1>7, NestingAssumption, Induct
  <1>9. x0 \in s[NESTING] /\ w \in f[NESTING][x0]
    BY <1>1, <1>3
  <1>10. x0 \in v[NESTING - NESTING]
    BY <1>2, NestingAssumption DEF WithinValue
  <1>11. Said(w, t[NESTING], x0)
    BY <1>8, <1>9, <1>10, NestingAssumption
  <1>12. QED
    BY <1>11, <1>4, Readers

-----------------------------------------------------------------------------
(* Every value reads back *)

LEMMA ReadOfBytes ==
  ASSUME NEW raw \in Seq(Byte)
  PROVE  Reader[raw] = Read(raw)
  BY DEF Reader

\* A value with more after it reads as it, and as it alone when nothing is.
LEMMA ReadWith ==
  ASSUME NEW v \in ValuesTo(NESTING), NEW w \in Encode(v)
  PROVE  w \in Seq(Byte) /\ \A rest \in Seq(Byte) : Read(w \o rest) = One(v, rest)
  <1>1. Said(w, Reader, v)
    BY ReadSaid
  <1>2. w \in Seq(Byte) /\ \A rest \in Seq(Byte) : Reader[w \o rest] = One(v, rest)
    BY <1>1 DEF Said
  <1>3. \A rest \in Seq(Byte) : Reader[w \o rest] = Read(w \o rest)
    <2> TAKE rest \in Seq(Byte)
    <2> DEFINE x == w \o rest
    <2>1. x \in Seq(Byte)
      BY <1>2, Rejoined, SMTT(30)
    <2> HIDE DEF x
    <2>2. Reader[x] = Read(x)
      BY <2>1, ReadOfBytes, SMTT(30)
    <2>3. QED
      BY <2>2 DEF x
  <1>4. QED
    BY <1>2, <1>3

LEMMA SplitAt ==
  ASSUME NEW w \in Seq(Byte), NEW n \in 0 .. Len(w) - 1
  PROVE  /\ SubSeq(w, 1, n) \in Seq(Byte) /\ SubSeq(w, n + 1, Len(w)) \in Seq(Byte)
         /\ SubSeq(w, n + 1, Len(w)) # <<>> /\ SubSeq(w, 1, n) \o SubSeq(w, n + 1, Len(w)) = w
  <1> DEFINE p == SubSeq(w, 1, n)
             q == SubSeq(w, n + 1, Len(w))
  <1>1. /\ p \in Seq(Byte) /\ Len(p) = n /\ \A i \in 1 .. n : p[i] = w[i]
        /\ q \in Seq(Byte) /\ Len(q) = Len(w) - n /\ \A i \in 1 .. Len(w) - n : q[i] = w[n + i]
    OBVIOUS
  <1> HIDE DEF p, q
  <1>2. q # <<>>
    BY <1>1
  <1>3. /\ p \o q \in Seq(Byte) /\ Len(p \o q) = Len(p) + Len(q)
        /\ \A i \in 1 .. Len(p) + Len(q) : (p \o q)[i] = IF i <= Len(p) THEN p[i] ELSE q[i - Len(p)]
    BY <1>1, ConcatProperties
  <1>4. ASSUME NEW i \in 1 .. Len(w) PROVE (p \o q)[i] = w[i]
    <2>1. i \in 1 .. Len(p) + Len(q)
      BY <1>1
    <2>2. CASE i <= n
      BY <2>1, <2>2, <1>1, <1>3
    <2>3. CASE ~(i <= n)
      BY <2>3, <2>1, <1>1, <1>3
    <2>4. QED
      BY <2>2, <2>3
  <1>5. p \o q = w
    <2> DEFINE x == p \o q
    <2>1. x \in Seq(Byte) /\ Len(x) = Len(w) /\ \A i \in 1 .. Len(w) : x[i] = w[i]
      BY <1>1, <1>3, <1>4
    <2> HIDE DEF x
    <2>2. x = w
      BY <2>1, SeqEqual
    <2>3. QED
      BY <2>2 DEF x
  <1>6. QED
    BY <1>1, <1>2, <1>5 DEF p, q

\* Every value reads back from its bytes, as that value; cut anywhere, or with a byte
\* after them, they read as none (_bytes.py:14-19, 45-50, _decode.py:87-97).
THEOREM ValuesReadBack == \A v \in ValuesTo(NESTING) : ReadsBack(v) /\ NothingElseReads(v)
  <1> SUFFICES ASSUME NEW v \in ValuesTo(NESTING), NEW w \in Encode(v)
               PROVE  /\ Decode(w) = {v}
                      /\ \A n \in 0 .. Len(w) - 1 : Decode(SubSeq(w, 1, n)) = {}
                      /\ \A byte \in {0, 1, 255} : Decode(Append(w, byte)) = {}
    BY DEF ReadsBack, NothingElseReads
  <1>1. w \in Seq(Byte) /\ \A rest \in Seq(Byte) : Read(w \o rest) = One(v, rest)
    BY ReadWith
  <1>2. Read(w) = {<<v, <<>>>>}
    <2>1. <<>> \in Seq(Byte) /\ w \o <<>> = w
      BY <1>1
    <2>2. QED
      BY <1>1, <2>1 DEF One
  <1>3. Decode(w) = {v}
    <2>1. \A x \in Read(w) : x[1] = v /\ x[2] = <<>>
      BY <1>2
    <2>2. \E x \in Read(w) : TRUE
      BY <1>2
    <2> DEFINE reads == Read(w)
    <2> HIDE DEF reads
    <2>3. {r[1] : r \in {x \in reads : x[2] = <<>>}} = {v}
      BY <2>1, <2>2 DEF reads
    <2>4. QED
      BY <2>3 DEF Decode, reads
  <1>4. ASSUME NEW n \in 0 .. Len(w) - 1 PROVE Decode(SubSeq(w, 1, n)) = {}
    <2> DEFINE p == SubSeq(w, 1, n)
               q == SubSeq(w, n + 1, Len(w))
    <2>1. p \in Seq(Byte) /\ q \in Seq(Byte) /\ q # <<>> /\ p \o q = w
      BY <1>1, SplitAt
    <2> HIDE DEF p, q
    <2>2. ASSUME NEW r \in Read(p), r[2] = <<>> PROVE FALSE
      <3>1. Grows(Reader[p], q, Reader[w])
        BY <2>1, ReaderLocal DEF Local
      <3>2. Grows(Read(p), q, Read(w))
        BY <3>1, <2>1, <1>1, ReadOfBytes
      <3>3. <<r[1], r[2] \o q>> \in Read(w)
        BY <3>2, <2>2 DEF Grows
      <3>4. r[2] \o q = <<>>
        BY <3>3, <1>2
      <3>5. <<>> \o q = q
        BY <2>1
      <3>6. QED
        BY <3>4, <3>5, <2>1, <2>2
    <2>3. Decode(p) = {}
      BY <2>2 DEF Decode
    <2>4. QED
      BY <2>3 DEF p
  <1>5. ASSUME NEW byte \in {0, 1, 255} PROVE Decode(Append(w, byte)) = {}
    <2>1. <<byte>> \in Seq(Byte) /\ Append(w, byte) = w \o <<byte>> /\ <<byte>> # <<>>
      <3>1. byte \in Byte
        BY DEF Byte
      <3>2. QED
        BY <3>1, <1>1
    <2>2. Read(Append(w, byte)) = {<<v, <<byte>>>>}
      BY <1>1, <2>1 DEF One
    <2>3. \A x \in Read(Append(w, byte)) : x[2] # <<>>
      BY <2>1, <2>2
    <2>4. QED
      BY <2>3 DEF Decode
  <1>6. QED
    BY <1>3, <1>4, <1>5

-----------------------------------------------------------------------------
(* Values put into each other *)

\* Tables of the values that nest so deep and so much deeper agree.
LEMMA ValuesAgree ==
  ASSUME NEW n \in Nat, NEW m \in Nat, n <= m, NEW s, ValuesAt(s, n), NEW t, ValuesAt(t, m)
  PROVE  s[n] = t[n]
  <1> DEFINE T == {k \in Nat : k <= n => s[k] = t[k]}
  <1>1. 0 \in T
    BY DEF ValuesAt
  <1>2. ASSUME NEW k \in Nat, k \in T PROVE k + 1 \in T
    <2> SUFFICES ASSUME k + 1 <= n PROVE s[k + 1] = t[k + 1]
      OBVIOUS
    <2>1. k + 1 \in 0 .. n /\ k + 1 \in 0 .. m /\ k + 1 # 0 /\ (k + 1) - 1 = k /\ k <= n
      OBVIOUS
    <2>2. s[k + 1] = ValuesOf(s[(k + 1) - 1]) /\ t[k + 1] = ValuesOf(t[(k + 1) - 1])
      BY <2>1 DEF ValuesAt
    <2>3. s[k] = t[k]
      BY <1>2, <2>1
    <2>4. QED
      BY <2>1, <2>2, <2>3
  <1>3. n \in T
    <2> HIDE DEF T
    <2> QED
      BY <1>1, <1>2, Induct
  <1>4. QED
    BY <1>3

LEMMA ValuesStep ==
  ASSUME NEW n \in Nat
  PROVE  ValuesTo(n + 1) = ValuesOf(ValuesTo(n))
  <1>1. PICK s : ValuesAt(s, n) /\ ValuesTo(n) = s[n]
    BY ValuesAtThere DEF ValuesTo, ValuesAt
  <1>2. PICK t : ValuesAt(t, n + 1) /\ ValuesTo(n + 1) = t[n + 1]
    <2>1. n + 1 \in Nat
      OBVIOUS
    <2>2. \E t : ValuesAt(t, n + 1)
      BY <2>1, ValuesAtThere
    <2>3. QED
      BY <2>2 DEF ValuesTo, ValuesAt
  <1>3. s[n] = t[n]
    BY <1>1, <1>2, ValuesAgree
  <1>4. t[n + 1] = ValuesOf(t[n])
    <2>1. n + 1 \in 0 .. n + 1 /\ n + 1 # 0 /\ (n + 1) - 1 = n
      OBVIOUS
    <2>2. QED
      BY <2>1, <1>2 DEF ValuesAt
  <1>5. QED
    BY <1>1, <1>2, <1>3, <1>4

LEMMA NoValues == ValuesTo(0) = {}
  <1>1. \E s : ValuesAt(s, 0)
    BY ValuesAtThere
  <1>2. \A s : ValuesAt(s, 0) => s[0] = {}
    BY DEF ValuesAt
  <1>3. QED
    BY <1>1, <1>2 DEF ValuesTo, ValuesAt

LEMMA ValuesOfMore ==
  ASSUME NEW S, NEW R, S \subseteq R
  PROVE  ValuesOf(S) \subseteq ValuesOf(R)
  <1>1. Seq(S) \subseteq Seq(R)
    OBVIOUS
  <1>2. ListsOf(S) \subseteq ListsOf(R)
    BY <1>1 DEF ListsOf
  <1>3. ObjectsOf(S) \subseteq ObjectsOf(R)
    BY DEF ObjectsOf
  <1>4. BoundsOf(S) \subseteq BoundsOf(R)
    BY DEF BoundsOf
  <1>5. {TAG_OBJECT} \X ObjectsOf(S) \subseteq {TAG_OBJECT} \X ObjectsOf(R)
    BY <1>3
  <1>6. {TAG_RANGE} \X BoundsOf(S) \X BoundsOf(S) \subseteq {TAG_RANGE} \X BoundsOf(R) \X BoundsOf(R)
    BY <1>4
  <1>7. QED
    BY <1>2, <1>5, <1>6, Zenon DEF ValuesOf

LEMMA ValuesGrow ==
  ASSUME NEW n \in Nat
  PROVE  ValuesTo(n) \subseteq ValuesTo(n + 1)
  <1> DEFINE T == {k \in Nat : ValuesTo(k) \subseteq ValuesTo(k + 1)}
  <1>1. 0 \in T
    BY NoValues
  <1>2. ASSUME NEW k \in Nat, k \in T PROVE k + 1 \in T
    <2>1. ValuesTo(k) \subseteq ValuesTo(k + 1)
      BY <1>2
    <2>2. k + 1 \in Nat
      OBVIOUS
    <2>3. ValuesTo(k + 1) = ValuesOf(ValuesTo(k))
      BY ValuesStep
    <2>4. ValuesTo((k + 1) + 1) = ValuesOf(ValuesTo(k + 1))
      BY <2>2, ValuesStep
    <2>5. ValuesTo(k + 1) \subseteq ValuesTo((k + 1) + 1)
      BY <2>1, <2>3, <2>4, ValuesOfMore
    <2>6. QED
      BY <2>2, <2>5
  <1>3. n \in T
    <2> HIDE DEF T
    <2> QED
      BY <1>1, <1>2, Induct
  <1>4. QED
    BY <1>3

LEMMA ValuesWithin ==
  ASSUME NEW n \in 0 .. NESTING
  PROVE  ValuesTo(n) \subseteq ValuesTo(NESTING)
  <1> DEFINE T == {k \in Nat : ValuesTo(n) \subseteq ValuesTo(n + k)}
  <1>1. 0 \in T
    OBVIOUS
  <1>2. ASSUME NEW k \in Nat, k \in T PROVE k + 1 \in T
    <2>1. n + k \in Nat /\ (n + k) + 1 = n + (k + 1) /\ k + 1 \in Nat
      OBVIOUS
    <2>2. ValuesTo(n + k) \subseteq ValuesTo((n + k) + 1)
      BY <2>1, ValuesGrow
    <2>3. ValuesTo(n) \subseteq ValuesTo(n + k)
      BY <1>2
    <2>4. ValuesTo(n) \subseteq ValuesTo(n + (k + 1))
      BY <2>1, <2>2, <2>3
    <2>5. QED
      BY <2>1, <2>4
  <1>3. NESTING - n \in Nat /\ n + (NESTING - n) = NESTING
    BY NestingAssumption
  <1>4. NESTING - n \in T
    <2> DEFINE k == NESTING - n
    <2>1. k \in Nat
      BY <1>3
    <2> HIDE DEF T, k
    <2>2. k \in T
      BY <1>1, <1>2, <2>1, Induct
    <2>3. QED
      BY <2>2 DEF k
  <1>5. QED
    BY <1>3, <1>4

\* The inductive invariant: the value nests no deeper than it was put into others, and
\* an atom nests at most once.
Placed == depth \in 0 .. Depth /\ value \in ValuesTo(depth + 2)

LEMMA PlainAreValues ==
  ASSUME NEW n \in Nat
  PROVE  /\ Plain \subseteq ValuesTo(n + 1) /\ Plain \cup ListsOf(Plain) \subseteq ValuesTo(n + 2)
  <1>1. ValuesTo(n + 1) = ValuesOf(ValuesTo(n))
    BY ValuesStep
  <1>2. Plain \subseteq ValuesTo(n + 1)
    BY <1>1, Zenon DEF ValuesOf
  <1>3. n + 1 \in Nat /\ (n + 1) + 1 = n + 2
    OBVIOUS
  <1>4. ValuesTo(n + 2) = ValuesOf(ValuesTo(n + 1))
    BY <1>3, ValuesStep
  <1>5. Seq(Plain) \subseteq Seq(ValuesTo(n + 1))
    BY <1>2
  <1>6. ListsOf(Plain) \subseteq ListsOf(ValuesTo(n + 1))
    BY <1>5 DEF ListsOf
  <1>7. Plain \cup ListsOf(Plain) \subseteq ValuesTo(n + 2)
    BY <1>4, <1>6, Zenon DEF ValuesOf
  <1>8. QED
    BY <1>2, <1>7

LEMMA NestsKeepsPlaced ==
  ASSUME Placed, [Nests]_<<value, depth>>
  PROVE  Placed'
  <1>1. CASE UNCHANGED <<value, depth>>
    BY <1>1 DEF Placed
  <1>2. CASE Nests
    <2> DEFINE S == ValuesTo(depth + 2)
    <2>1. /\ depth \in Nat /\ depth' = depth + 1 /\ depth' \in 0 .. Depth
          /\ depth + 2 \in Nat /\ (depth + 2) + 1 = depth' + 2 /\ (depth + 1) + 1 = depth + 2
          /\ depth + 1 \in Nat
      BY <1>2, ValuesAssumption, NestingAssumption DEF Nests, Placed
    <2>2. ValuesTo(depth' + 2) = ValuesOf(S)
      BY <2>1, ValuesStep
    <2>3. value \in S
      BY DEF Placed
    <2>4. <<TAG_NULL>> \in S
      BY <2>1, PlainAreValues DEF Plain
    <2> HIDE DEF S
    <2>5. CASE InList
      <3>1. PICK tag \in {TAG_ARRAY, TAG_SET}, items \in {<<>>, <<value>>, <<value, <<TAG_NULL>>, value>>} :
              value' = <<tag, items>>
        BY <2>5 DEF InList
      <3>2. items \in Seq(S)
        <4> DEFINE none == <<TAG_NULL>>
        <4>1. none \in S
          BY <2>4
        <4>2. items \in {<<>>, <<value>>, <<value, none, value>>}
          BY <3>1
        <4> HIDE DEF none
        <4>3. <<>> \in Seq(S) /\ <<value>> \in Seq(S) /\ <<value, none, value>> \in Seq(S)
          BY <4>1, <2>3
        <4>4. QED
          BY <4>2, <4>3, Zenon
      <3>3. <<tag, items>> \in {TAG_ARRAY, TAG_SET} \X Seq(S)
        BY <3>1, <3>2
      <3>4. value' \in ListsOf(S)
        BY <3>1, <3>3 DEF ListsOf
      <3>5. value' \in ValuesOf(S)
        BY <3>4, Zenon DEF ValuesOf
      <3>6. QED
        BY <3>5, <2>1, <2>2 DEF Placed
    <2>6. CASE InObject
      <3>1. PICK names \in {{}, {<<>>}, {<<97, 98>>, <<97>>, <<0>>}} :
              value' = <<TAG_OBJECT, [name \in names |-> value]>>
        BY <2>6 DEF InObject
      <3>2. IsFiniteSet(names)
        <4>1. IsFiniteSet({}) /\ \A x : IsFiniteSet({x})
          BY FS_EmptySet, FS_Singleton
        <4>2. \A x, y : IsFiniteSet({x} \cup {y})
          BY <4>1, FS_Union
        <4>3. \A x, y, z : IsFiniteSet(({x} \cup {y}) \cup {z})
          BY <4>1, <4>2, FS_Union
        <4> DEFINE three == {<<97, 98>>, <<97>>, <<0>>}
        <4>4. \A x, y, z : {x, y, z} = ({x} \cup {y}) \cup {z}
          OBVIOUS
        <4>5. IsFiniteSet(three)
          <5>1. \A x, y, z : IsFiniteSet({x, y, z})
            <6> TAKE x, y, z
            <6> DEFINE apart == ({x} \cup {y}) \cup {z}
                       all == {x, y, z}
            <6>1. IsFiniteSet(apart)
              BY <4>3
            <6>2. all = apart
              BY <4>4
            <6> HIDE DEF all, apart
            <6>3. IsFiniteSet(all)
              BY <6>1, <6>2
            <6>4. QED
              BY <6>3 DEF all
          <5>2. QED
            BY <5>1
        <4> HIDE DEF three
        <4>6. names = {} \/ names = {<<>>} \/ names = three
          BY <3>1 DEF three
        <4>7. QED
          BY <4>1, <4>5, <4>6, ZenonT(30)
      <3>3. names \subseteq Ascii
        <4>1. <<>> \in Ascii /\ <<97, 98>> \in Ascii /\ <<97>> \in Ascii /\ <<0>> \in Ascii
          BY DEF Ascii
        <4>2. \A name \in names : name = <<>> \/ name = <<97, 98>> \/ name = <<97>> \/ name = <<0>>
          BY <3>1
        <4>3. QED
          BY <4>1, <4>2
      <3> DEFINE fields == [name \in names |-> value]
      <3>4. fields \in [names -> S]
        BY <2>3
      <3>5. names \in {x \in SUBSET Ascii : IsFiniteSet(x)}
        BY <3>2, <3>3
      <3> HIDE DEF fields
      <3>6. fields \in ObjectsOf(S)
        BY <3>4, <3>5 DEF ObjectsOf
      <3>7. <<TAG_OBJECT, fields>> \in {TAG_OBJECT} \X ObjectsOf(S)
        BY <3>6
      <3>8. value' \in {TAG_OBJECT} \X ObjectsOf(S)
        BY <3>1, <3>7 DEF fields
      <3>9. value' \in ValuesOf(S)
        BY <3>8, Zenon DEF ValuesOf
      <3>10. QED
        BY <3>9, <2>1, <2>2 DEF Placed
    <2>7. CASE InRange
      <3>1. PICK start \in {<<UNBOUNDED>>, <<INCLUDED, value>>} :
              value' = <<TAG_RANGE, start, <<EXCLUDED, value>>>>
        BY <2>7 DEF InRange
      <3>2. start \in BoundsOf(S) /\ <<EXCLUDED, value>> \in BoundsOf(S)
        BY <3>1, <2>3 DEF BoundsOf
      <3> DEFINE end == <<EXCLUDED, value>>
      <3>3. start \in BoundsOf(S) /\ end \in BoundsOf(S) /\ value' = <<TAG_RANGE, start, end>>
        BY <3>1, <3>2
      <3> HIDE DEF end
      <3>4. value' \in {TAG_RANGE} \X BoundsOf(S) \X BoundsOf(S)
        BY <3>3
      <3>5. value' \in ValuesOf(S)
        BY <3>4, Zenon DEF ValuesOf
      <3>6. QED
        BY <3>5, <2>1, <2>2 DEF Placed
    <2>8. QED
      BY <1>2, <2>5, <2>6, <2>7 DEF Nests
  <1>3. QED
    BY <1>1, <1>2

\* A value is one of those that nest no deeper than the interpreter's stack.
THEOREM ValuesPlaced == Nesting => []Placed
  <1>1. Starts => Placed
    <2> SUFFICES ASSUME Starts PROVE Placed
      OBVIOUS
    <2>1. 0 \in Nat /\ 0 + 2 = 2 /\ 0 \in 0 .. Depth
      BY ValuesAssumption, NestingAssumption
    <2>2. value \in Plain \cup ListsOf(Plain)
      BY ValuesAssumption DEF Starts
    <2>3. value \in ValuesTo(0 + 2)
      BY <2>1, <2>2, PlainAreValues
    <2>4. QED
      BY <2>1, <2>3 DEF Placed, Starts
  <1>2. Placed /\ [Nests]_<<value, depth>> => Placed'
    BY NestsKeepsPlaced
  <1>3. QED
    BY <1>1, <1>2, PTL DEF Nesting

LEMMA PlacedIsValue ==
  ASSUME Placed
  PROVE  value \in ValuesTo(NESTING) /\ value \in ValuesOf(ValuesTo(depth + 1))
  <1>1. depth + 2 \in 0 .. NESTING /\ depth + 1 \in Nat /\ (depth + 1) + 1 = depth + 2
    BY ValuesAssumption, NestingAssumption DEF Placed
  <1>2. ValuesTo(depth + 2) \subseteq ValuesTo(NESTING)
    BY <1>1, ValuesWithin
  <1>3. ValuesTo(depth + 2) = ValuesOf(ValuesTo(depth + 1))
    BY <1>1, ValuesStep
  <1>4. QED
    BY <1>2, <1>3 DEF Placed

\* The bytes of a value read back as it, and as nothing when they are cut or too long
\* (_bytes.py:14-19, 45-50, _decode.py:87-97).
THEOREM EveryValueReadsBack == Nesting => []ValueReadsBack
  <1>1. Placed => ValueReadsBack
    BY PlacedIsValue, ValuesReadBack DEF ValueReadsBack
  <1>2. QED
    BY <1>1, ValuesPlaced, PTL

LEMMA RecordHasId ==
  ASSUME NEW S, NEW v \in ValuesOf(S), v[1] = TAG_RECORD
  PROVE  v[3] \in Ids
  <1>1. \A A, B : v \in A \X B => TAG_RECORD \in A
    OBVIOUS
  <1>2. \A A, B, C : v \in A \X B \X C => TAG_RECORD \in A
    OBVIOUS
  <1>3. \A tag : v = <<tag>> => TAG_RECORD \in {tag}
    OBVIOUS
  <1>4. /\ TAG_RECORD \notin {TAG_NONE} /\ TAG_RECORD \notin {TAG_NULL} /\ TAG_RECORD \notin {TAG_BOOL}
        /\ TAG_RECORD \notin {TAG_NUMBER} /\ TAG_RECORD \notin {TAG_STRING, TAG_REGEX}
        /\ TAG_RECORD \notin {TAG_BYTES, TAG_UUID} /\ TAG_RECORD \notin {TAG_DURATION, TAG_DATETIME}
        /\ TAG_RECORD \notin {TAG_TABLE} /\ TAG_RECORD \notin {TAG_GEOMETRY}
        /\ TAG_RECORD \notin {TAG_ARRAY, TAG_SET} /\ TAG_RECORD \notin {TAG_OBJECT}
        /\ TAG_RECORD \notin {TAG_RANGE}
    BY DEF TAG_NONE, TAG_NULL, TAG_BOOL, TAG_NUMBER, TAG_STRING, TAG_BYTES, TAG_DURATION, TAG_DATETIME, TAG_UUID,
         TAG_TABLE, TAG_RECORD, TAG_ARRAY, TAG_OBJECT, TAG_RANGE, TAG_SET, TAG_GEOMETRY, TAG_REGEX
  <1>5. v \in {TAG_RECORD} \X Int \X Ids
    BY ValueIs, <1>1, <1>2, <1>3, <1>4, Zenon
  <1>6. QED
    BY <1>5

\* The keys of records are in the order of their ids (_bytes.py:11-14).
THEOREM EveryIdInOrder == Nesting => []IdsInOrder
  <1>1. Placed => IdsInOrder
    <2> SUFFICES ASSUME Placed, value[1] = TAG_RECORD, NEW id \in Others
                 PROVE  InOrder(value[3], id) /\ InOrder(id, value[3])
      BY DEF IdsInOrder
    <2>1. value[3] \in Ids
      BY PlacedIsValue, RecordHasId
    <2>2. id \in Ids
      BY ValuesAssumption
    <2>3. QED
      BY <2>1, <2>2, KeysInOrder
  <1>2. QED
    BY <1>1, ValuesPlaced, PTL

-----------------------------------------------------------------------------
(* The outcomes of an answer *)

\* Each of some readings, and the same bytes after it.
All(found, rest) == {<<x, rest>> : x \in found}

Appends(had, found) == {Append(h, x) : h \in had, x \in found}

LEMMA AppendsAre ==
  \A had, found, y : y \in Appends(had, found) <=> \E h \in had, x \in found : y = Append(h, x)
  BY DEF Appends

LEMMA OneMoreOfAll ==
  ASSUME NEW had, NEW raw, NEW read, NEW found, NEW rest, read[raw] = All(found, rest)
  PROVE  OneMore(All(had, raw), read) = All(Appends(had, found), rest)
  <1>1. OneMore(All(had, raw), read)
          = UNION {{<<Append(r[1], q[1]), q[2]>> : q \in read[r[2]]} : r \in All(had, raw)}
    BY DEF OneMore, Then, As
  <1> DEFINE left == OneMore(All(had, raw), read)
             right == All(Appends(had, found), rest)
  <1>2. ASSUME NEW y \in left PROVE y \in right
    <2>1. PICK r \in All(had, raw) : \E q \in read[r[2]] : y = <<Append(r[1], q[1]), q[2]>>
      BY <1>1
    <2>2. PICK h \in had : r = <<h, raw>>
      BY DEF All
    <2>3. r[1] = h /\ r[2] = raw
      BY <2>2
    <2>4. PICK q \in read[raw] : y = <<Append(h, q[1]), q[2]>>
      BY <2>1, <2>3
    <2>5. PICK x \in found : q = <<x, rest>>
      BY DEF All
    <2>6. q[1] = x /\ q[2] = rest
      BY <2>5
    <2>7. Append(h, x) \in Appends(had, found)
      BY AppendsAre
    <2>8. QED
      BY <2>4, <2>6, <2>7 DEF All
  <1>3. ASSUME NEW y \in right PROVE y \in left
    <2>1. PICK it \in Appends(had, found) : y = <<it, rest>>
      BY DEF All
    <2>2. PICK h \in had, x \in found : it = Append(h, x)
      BY AppendsAre
    <2> DEFINE r == <<h, raw>>
               q == <<x, rest>>
    <2>3. r \in All(had, raw) /\ q \in read[raw] /\ r[1] = h /\ r[2] = raw /\ q[1] = x /\ q[2] = rest
      BY DEF All
    <2> HIDE DEF r, q
    <2>4. q \in read[r[2]] /\ y = <<Append(r[1], q[1]), q[2]>>
      BY <2>1, <2>2, <2>3
    <2>5. QED
      BY <2>3, <2>4, <1>1
  <1> HIDE DEF left, right
  <1>4. left = right
    BY <1>2, <1>3
  <1>5. QED
    BY <1>4 DEF left, right

OutcomeReader == [raw \in Seq(Byte) |-> ReadOutcome(raw)]

\* An outcome's bytes after their length are all that is looked at for it.
LEMMA OutcomeAlone ==
  ASSUME NEW x \in Seq(Byte), x # <<>>, NEW w \in LenBytes(x)
  PROVE  w \in Seq(Byte) /\ \A rest \in Seq(Byte) : OutcomeReader[w \o rest] = All(Outcome(x), rest)
  <1>1. Said(w, LenReader, x)
    BY LenSaid
  <1>2. w \in Seq(Byte)
    BY <1>1 DEF Said
  <1>3. PICK y \in U32(Len(x)) : w = y \o x
    BY DEF LenBytes, Cat
  <1>4. Len(x) \in Int /\ ~(Len(x) < 1) /\ Len(x) \in Nat
    OBVIOUS
  <1>5. y \in Seq(Byte)
    BY <1>3, <1>4, U32Said DEF Said
  <1>6. ASSUME NEW rest \in Seq(Byte) PROVE OutcomeReader[w \o rest] = All(Outcome(x), rest)
    <2> DEFINE here == w \o rest
               after == x \o rest
    <2>1. here \in Seq(Byte) /\ after \in Seq(Byte) /\ here = y \o after
      BY <1>2, <1>3, <1>5, Rejoined
    <2>2. Take(after, Len(x)) = {<<x, rest>>}
      BY TakesFirst
    <2> HIDE DEF here, after
    <2>3. ReadU32(here) = {<<Len(x), after>>}
      BY <1>3, <1>4, <2>1, NumbersReadBack
    <2> DEFINE outcomes == Outcome(x)
               Further(length, more) ==
                 IF length < 1 THEN {}
                 ELSE UNION {{<<o, r[2]>> : o \in Outcome(r[1])} : r \in Take(more, length)}
    <2>4. ReadOutcome(here) = UNION {Further(r[1], r[2]) : r \in ReadU32(here)}
      BY DEF ReadOutcome, Then
    <2>5. ReadOutcome(here) = Further(Len(x), after)
      <3> DEFINE n == Len(x)
      <3> HIDE DEF Further, n
      <3>1. \A a, b : UNION {Further(r[1], r[2]) : r \in {<<a, b>>}} = Further(a, b)
        OBVIOUS
      <3>2. UNION {Further(r[1], r[2]) : r \in ReadU32(here)} = Further(n, after)
        BY <2>3, <3>1 DEF n
      <3>3. QED
        BY <2>4, <3>2 DEF n
    <2>6. Further(Len(x), after) = UNION {{<<o, r[2]>> : o \in Outcome(r[1])} : r \in {<<x, rest>>}}
      BY <1>4, <2>2
    <2>7. UNION {{<<o, r[2]>> : o \in Outcome(r[1])} : r \in {<<x, rest>>}} = {<<o, rest>> : o \in Outcome(x)}
      OBVIOUS
    <2> HIDE DEF Further
    <2>8. OutcomeReader[here] = All(Outcome(x), rest)
      BY <2>1, <2>5, <2>6, <2>7 DEF OutcomeReader, All
    <2>9. QED
      BY <2>8 DEF here
  <1>7. QED
    BY <1>2, <1>6

LEMMA Appended ==
  /\ \A x : Append(<<>>, x) = <<x>>
  /\ \A a, x : Append(<<a>>, x) = <<a, x>>
  /\ \A a, b, x : Append(<<a, b>>, x) = <<a, b, x>>
  <1>1. \A x : Append(<<>>, x) = <<x>>
    OBVIOUS
  <1>2. ASSUME NEW a, NEW x PROVE Append(<<a>>, x) = <<a, x>>
    <2> DEFINE S == {a, x}
               one == <<a>>
               two == <<a, x>>
    <2>1. /\ one \in Seq(S) /\ Len(one) = 1 /\ x \in S /\ one[1] = a
          /\ two \in Seq(S) /\ Len(two) = 2 /\ two[1] = a /\ two[2] = x
      OBVIOUS
    <2> HIDE DEF S, one, two
    <2> DEFINE more == Append(one, x)
    <2>2. more \in Seq(S) /\ Len(more) = 2 /\ more[1] = a /\ more[2] = x
      <3>0. /\ Append(one, x) \in Seq(S) /\ Len(Append(one, x)) = Len(one) + 1
            /\ \A i \in 1 .. Len(one) + 1 : Append(one, x)[i] = IF i = Len(one) + 1 THEN x ELSE one[i]
        <4>1. one \in Seq(S) /\ x \in S
          BY <2>1
        <4>2. QED
          BY <4>1, AppendProperties
      <3>1. /\ more \in Seq(S) /\ Len(more) = Len(one) + 1
            /\ \A i \in 1 .. Len(one) + 1 : more[i] = IF i = Len(one) + 1 THEN x ELSE one[i]
        BY <3>0
      <3> HIDE DEF more
      <3>2. 1 \in 1 .. Len(one) + 1 /\ 2 \in 1 .. Len(one) + 1 /\ Len(one) + 1 = 2
        BY <2>1
      <3>3. QED
        BY <2>1, <3>1, <3>2
    <2> HIDE DEF more
    <2>3. \A i \in 1 .. 2 : more[i] = two[i]
      BY <2>1, <2>2
    <2>4. more = two
      BY <2>1, <2>2, <2>3, SeqEqual
    <2>5. QED
      BY <2>4 DEF more, one, two
  <1>3. ASSUME NEW a, NEW b, NEW x PROVE Append(<<a, b>>, x) = <<a, b, x>>
    <2> DEFINE S == {a, b, x}
               two == <<a, b>>
               three == <<a, b, x>>
    <2>1. /\ two \in Seq(S) /\ Len(two) = 2 /\ x \in S /\ two[1] = a /\ two[2] = b
          /\ three \in Seq(S) /\ Len(three) = 3 /\ three[1] = a /\ three[2] = b /\ three[3] = x
      OBVIOUS
    <2> HIDE DEF S, two, three
    <2> DEFINE more == Append(two, x)
    <2>2. more \in Seq(S) /\ Len(more) = 3 /\ more[1] = a /\ more[2] = b /\ more[3] = x
      <3>0. /\ Append(two, x) \in Seq(S) /\ Len(Append(two, x)) = Len(two) + 1
            /\ \A i \in 1 .. Len(two) + 1 : Append(two, x)[i] = IF i = Len(two) + 1 THEN x ELSE two[i]
        <4>1. two \in Seq(S) /\ x \in S
          BY <2>1
        <4>2. QED
          BY <4>1, AppendProperties
      <3>1. /\ more \in Seq(S) /\ Len(more) = Len(two) + 1
            /\ \A i \in 1 .. Len(two) + 1 : more[i] = IF i = Len(two) + 1 THEN x ELSE two[i]
        BY <3>0
      <3> HIDE DEF more
      <3>2. /\ 1 \in 1 .. Len(two) + 1 /\ 2 \in 1 .. Len(two) + 1 /\ 3 \in 1 .. Len(two) + 1
            /\ Len(two) + 1 = 3
        BY <2>1
      <3>3. QED
        BY <2>1, <3>1, <3>2
    <2> HIDE DEF more
    <2>3. \A i \in 1 .. 3 : more[i] = three[i]
      BY <2>1, <2>2
    <2>4. more = three
      BY <2>1, <2>2, <2>3, SeqEqual
    <2>5. QED
      BY <2>4 DEF more, two, three
  <1>4. QED
    BY <1>1, <1>2, <1>3

Triples(A, B, C) == {<<a, b, c>> : a \in A, b \in B, c \in C}

LEMMA ThreeOf ==
  ASSUME NEW A, NEW B, NEW C
  PROVE  Appends(Appends(Appends({<<>>}, A), B), C) = Triples(A, B, C)
  <1> DEFINE none == {<<>>}
             ones == Appends(none, A)
             twos == Appends(ones, B)
             threes == Appends(twos, C)
             all == Triples(A, B, C)
  <1>0. \A h \in none : h = <<>>
    OBVIOUS
  <1>1. (\A y \in ones : \E a \in A : y = <<a>>) /\ \A a \in A : <<a>> \in ones
    <2>1. ASSUME NEW y \in ones PROVE \E a \in A : y = <<a>>
      <3> HIDE DEF none
      <3>1. \E h \in none, a \in A : y = Append(h, a)
        BY AppendsAre
      <3>2. PICK h \in none, a \in A : y = Append(h, a)
        BY <3>1
      <3>3. h = <<>>
        BY <1>0
      <3>4. QED
        BY <3>2, <3>3, Appended
    <2>2. ASSUME NEW a \in A PROVE <<a>> \in ones
      BY AppendsAre, Appended
    <2>3. QED
      BY <2>1, <2>2
  <1> HIDE DEF ones
  <1>2. (\A y \in twos : \E a \in A, b \in B : y = <<a, b>>) /\ \A a \in A, b \in B : <<a, b>> \in twos
    <2>1. ASSUME NEW y \in twos PROVE \E a \in A, b \in B : y = <<a, b>>
      <3>1. PICK h \in ones, b \in B : y = Append(h, b)
        BY AppendsAre
      <3>2. PICK a \in A : h = <<a>>
        BY <1>1
      <3>3. y = <<a, b>>
        BY <3>1, <3>2, Appended
      <3>4. QED
        BY <3>3
    <2>2. ASSUME NEW a \in A, NEW b \in B PROVE <<a, b>> \in twos
      <3>1. <<a>> \in ones
        BY <1>1
      <3>2. Append(<<a>>, b) \in Appends(ones, B)
        BY <3>1, AppendsAre
      <3>3. QED
        BY <3>2, Appended
    <2>3. QED
      BY <2>1, <2>2
  <1> HIDE DEF twos
  <1>3. ASSUME NEW y \in threes PROVE y \in all
    <2>1. PICK h \in twos, c \in C : y = Append(h, c)
      BY AppendsAre
    <2>2. PICK a \in A, b \in B : h = <<a, b>>
      BY <1>2
    <2>3. y = <<a, b, c>>
      BY <2>1, <2>2, Appended
    <2>4. QED
      BY <2>3 DEF Triples
  <1>4. ASSUME NEW y \in all PROVE y \in threes
    <2>1. PICK a \in A, b \in B, c \in C : y = <<a, b, c>>
      BY DEF Triples
    <2>2. <<a, b>> \in twos
      BY <1>2
    <2>3. Append(<<a, b>>, c) \in Appends(twos, C)
      BY <2>2, AppendsAre
    <2>4. QED
      BY <2>1, <2>3, Appended
  <1> HIDE DEF threes, all
  <1>5. threes = all
    BY <1>3, <1>4
  <1>6. QED
    BY <1>5 DEF none, ones, twos, threes, all

InThree(P, Q, R) == Cat(Cat(Cat({<<>>}, P), Q), R)
Three(w, v, g) == w \o (v \o g)

LEMMA ThreeTurns ==
  ASSUME NEW P \in SUBSET Seq(Byte), NEW Q \in SUBSET Seq(Byte), NEW R \in SUBSET Seq(Byte)
  PROVE  \A laid \in InThree(P, Q, R) : \E w \in P, v \in Q, g \in R : laid = Three(w, v, g)
  <1> DEFINE none == {<<>>}
             A == Cat(none, P)
             B == Cat(A, Q)
             C == Cat(B, R)
  <1>1. \A p \in none : p = <<>>
    OBVIOUS
  <1> HIDE DEF none
  <1>2. \A q \in A : \E p \in none, w \in P : q = p \o w
    BY CatIs
  <1> HIDE DEF A
  <1>3. \A r \in B : \E q \in A, v \in Q : r = q \o v
    BY CatIs
  <1> HIDE DEF B
  <1>4. \A laid \in C : \E r \in B, g \in R : laid = r \o g
    BY CatIs
  <1> HIDE DEF C
  <1>5. ASSUME NEW laid \in C
        PROVE  \E w \in P, v \in Q, g \in R : laid = Three(w, v, g)
    <2>1. PICK r \in B, g \in R : laid = r \o g
      BY <1>4
    <2>2. PICK q \in A, v \in Q : r = q \o v
      BY <1>3
    <2>3. PICK p \in none, w \in P : q = p \o w
      BY <1>2
    <2>4. w \in Seq(Byte) /\ v \in Seq(Byte) /\ g \in Seq(Byte)
      OBVIOUS
    <2>5. q = w
      BY <2>4, <1>1, <2>3
    <2>6. laid = (w \o v) \o g
      BY <2>1, <2>2, <2>5
    <2>7. (w \o v) \o g = w \o (v \o g)
      BY <2>4, Rejoined
    <2>8. laid = Three(w, v, g)
      BY <2>6, <2>7 DEF Three
    <2>9. QED
      BY <2>8
  <1>6. InThree(P, Q, R) = C
    BY DEF InThree, none, A, B, C
  <1>7. QED
    BY <1>5, <1>6

\* However an outcome's bytes lie about their shape, the outcomes on either side of it
\* are read as they are (_answer.py:6-14, 80-82).
THEOREM NeighboursUnharmed ==
  \A before, bytes, after \in Seq(Byte) \ {<<>>} : ReadsApart(before, bytes, after)
  <1> SUFFICES ASSUME NEW x \in Seq(Byte), x # <<>>, NEW y \in Seq(Byte), y # <<>>, NEW z \in Seq(Byte), z # <<>>,
                      NEW body \in Counted(<<x, y, z>>, LenBytes)
               PROVE  ReadAnswer(body) = {<<a, b, c>> : a \in Outcome(x), b \in Outcome(y), c \in Outcome(z)}
    BY DEF ReadsApart
  <1> DEFINE items == <<x, y, z>>
             writes == [i \in DOMAIN items |-> LenBytes(items[i])]
  <1>1. /\ Len(writes) = 3 /\ writes[1] = LenBytes(x) /\ writes[2] = LenBytes(y) /\ writes[3] = LenBytes(z)
    OBVIOUS
  <1>2. body \in WriteCounted(writes)
    BY DEF Counted
  <1> HIDE DEF items, writes
  <1>3. PICK t : Turns(t, writes) /\ InTurn(writes) = t[3]
    <2>1. Len(writes) \in Nat
      BY <1>1
    <2>2. \E t : Turns(t, writes) /\ InTurn(writes) = t[Len(writes)]
      BY <2>1, WritesInTurn
    <2>3. QED
      BY <2>2, <1>1
  <1>4. PICK n \in U32(3), laid \in InTurn(writes) : body = n \o laid
    BY <1>1, <1>2, CatIs, SMTT(30) DEF WriteCounted
  <1>5. t[0] = {<<>>} /\ t[1] = Cat(t[0], writes[1]) /\ t[2] = Cat(t[1], writes[2]) /\ t[3] = Cat(t[2], writes[3])
    <2>1. /\ 0 \in 0 .. 3 /\ 1 \in 0 .. 3 /\ 2 \in 0 .. 3 /\ 3 \in 0 .. 3
          /\ 1 - 1 = 0 /\ 2 - 1 = 1 /\ 3 - 1 = 2
      OBVIOUS
    <2>2. \A k \in 0 .. 3 : t[k] = IF k = 0 THEN {<<>>} ELSE Cat(t[k - 1], writes[k])
      BY <1>1, <1>3 DEF Turns
    <2>3. QED
      BY <2>1, <2>2
  <1> DEFINE t0 == t[0]
             t1 == t[1]
             t2 == t[2]
             P == LenBytes(x)
             Q == LenBytes(y)
             R == LenBytes(z)
  <1>21. t0 = {<<>>} /\ t1 = Cat(t0, P) /\ t2 = Cat(t1, Q) /\ laid \in Cat(t2, R)
    BY <1>1, <1>3, <1>4, <1>5
  <1> HIDE DEF t0, t1, t2, P, Q, R
  <1>6. laid \in InThree(P, Q, R)
    BY <1>21 DEF InThree
  <1>7. P \in SUBSET Seq(Byte) /\ Q \in SUBSET Seq(Byte) /\ R \in SUBSET Seq(Byte)
    BY OutcomeAlone DEF P, Q, R
  <1>8. PICK w \in P, v \in Q, g \in R : laid = Three(w, v, g)
    BY <1>6, <1>7, ThreeTurns
  <1>9. w \in Seq(Byte) /\ v \in Seq(Byte) /\ g \in Seq(Byte)
    BY <1>7
  <1>10. n \in Seq(Byte)
    BY <1>4, U32Said DEF Said
  <1> DEFINE two == v \o g
             three == w \o two
  <1>11. two \in Seq(Byte) /\ three \in Seq(Byte) /\ laid = three
    <2>1. v \o g \in Seq(Byte)
      BY <1>9, Rejoined
    <2>2. two \in Seq(Byte) /\ laid = w \o two
      BY <1>8, <2>1 DEF Three
    <2> HIDE DEF two
    <2>4. three \in Seq(Byte)
      BY <2>2, <1>9, Rejoined
    <2>5. QED
      BY <2>2, <2>4
  <1> DEFINE A == Outcome(x)
             B == Outcome(y)
             C == Outcome(z)
  <1>12. OutcomeReader[three] = All(A, two) /\ OutcomeReader[two] = All(B, g)
    BY <1>9, <1>11, OutcomeAlone DEF P, Q
  <1>13. OutcomeReader[g] = All(C, <<>>)
    <2>1. <<>> \in Seq(Byte) /\ g \o <<>> = g
      BY <1>9
    <2>2. QED
      BY <2>1, OutcomeAlone DEF R
  <1> DEFINE none == {<<>>}
             ones == Appends(none, A)
             twos == Appends(ones, B)
             threes == Appends(twos, C)
  <1> HIDE DEF two, three, A, B, C
  <1>14. Repeated(3, three, OutcomeReader) = All(threes, <<>>)
    <2>1. PICK f : Rounds(f, 3, three, OutcomeReader) /\ Repeated(3, three, OutcomeReader) = f[3]
      BY ReadsInRounds
    <2>2. /\ f[0] = {<<<<>>, three>>} /\ f[1] = OneMore(f[0], OutcomeReader)
          /\ f[2] = OneMore(f[1], OutcomeReader) /\ f[3] = OneMore(f[2], OutcomeReader)
      <3>1. /\ 0 \in 0 .. 3 /\ 1 \in 0 .. 3 /\ 2 \in 0 .. 3 /\ 3 \in 0 .. 3
            /\ 1 - 1 = 0 /\ 2 - 1 = 1 /\ 3 - 1 = 2
        OBVIOUS
      <3>2. \A k \in 0 .. 3 : f[k] = IF k = 0 THEN {<<<<>>, three>>} ELSE OneMore(f[k - 1], OutcomeReader)
        BY <2>1 DEF Rounds
      <3>3. QED
        BY <3>1, <3>2
    <2>3. f[0] = All(none, three)
      BY <2>2 DEF All
    <2> HIDE DEF none
    <2>4. f[1] = All(ones, two)
      <3>1. OneMore(All(none, three), OutcomeReader) = All(Appends(none, A), two)
        BY <1>12, OneMoreOfAll
      <3>2. QED
        BY <2>2, <2>3, <3>1
    <2> HIDE DEF ones
    <2>5. f[2] = All(twos, g)
      BY <1>12, OneMoreOfAll, <2>2, <2>4
    <2> HIDE DEF twos
    <2>6. f[3] = All(threes, <<>>)
      <3> DEFINE end == <<>>
      <3>1. OutcomeReader[g] = All(C, end)
        BY <1>13
      <3> HIDE DEF end
      <3>2. OneMore(All(twos, g), OutcomeReader) = All(Appends(twos, C), end)
        BY <3>1, OneMoreOfAll
      <3>3. QED
        BY <2>2, <2>5, <3>2 DEF end
    <2>7. QED
      BY <2>1, <2>6
  <1>15. threes = Triples(A, B, C)
    BY ThreeOf
  <1> HIDE DEF threes
  <1>16. CountedBy(body, OutcomeReader) = All(threes, <<>>)
    <2>1. ReadU32(body) = {<<3, three>>}
      BY <1>4, <1>11, NumbersReadBack
    <2>2. CountedBy(body, OutcomeReader) = UNION {Repeated(e[1], e[2], OutcomeReader) : e \in {<<3, three>>}}
      BY <2>1 DEF CountedBy, Then
    <2>3. \A a, b : UNION {Repeated(e[1], e[2], OutcomeReader) : e \in {<<a, b>>}} = Repeated(a, b, OutcomeReader)
      OBVIOUS
    <2>4. QED
      BY <2>2, <2>3, <1>14, Zenon
  <1>17. ReadCounted(body, ReadOutcome) = CountedBy(body, OutcomeReader)
    BY Zenon DEF ReadCounted, OutcomeReader
  <1>18. ReadAnswer(body) = {r2[1] : r2 \in All(threes, <<>>)}
    BY <1>16, <1>17 DEF ReadAnswer
  <1>19. {r2[1] : r2 \in All(threes, <<>>)} = threes
    <2> DEFINE firsts == {r2[1] : r2 \in All(threes, <<>>)}
    <2>1. ASSUME NEW h \in firsts PROVE h \in threes
      <3>1. PICK e \in All(threes, <<>>) : h = e[1]
        OBVIOUS
      <3>2. PICK k \in threes : e = <<k, <<>>>>
        BY DEF All
      <3>3. QED
        BY <3>1, <3>2
    <2>2. ASSUME NEW h \in threes PROVE h \in firsts
      <3>1. <<h, <<>>>> \in All(threes, <<>>) /\ <<h, <<>>>>[1] = h
        BY DEF All
      <3>2. QED
        BY <3>1
    <2> HIDE DEF firsts
    <2>3. firsts = threes
      BY <2>1, <2>2
    <2>4. QED
      BY <2>3 DEF firsts
  <1>20. ReadAnswer(body) = Triples(A, B, C)
    BY <1>15, <1>18, <1>19, Zenon
  <1>22. QED
    BY <1>20 DEF Triples, A, B, C

-----------------------------------------------------------------------------
(* What a node writes is bytes *)

BytesOnly == SUBSET Seq(Byte)

LEMMA CatBytes ==
  ASSUME NEW A \in BytesOnly, NEW B \in BytesOnly
  PROVE  Cat(A, B) \in BytesOnly
  <1>1. ASSUME NEW w \in Cat(A, B) PROVE w \in Seq(Byte)
    <2>1. PICK a \in A, b \in B : w = a \o b
      BY CatIs
    <2>2. a \in Seq(Byte) /\ b \in Seq(Byte)
      BY DEF BytesOnly
    <2>3. QED
      BY <2>1, <2>2, Rejoined
  <1>2. QED
    BY <1>1 DEF BytesOnly

LEMMA NumbersBytes ==
  ASSUME NEW n \in Int
  PROVE  U8(n) \in BytesOnly /\ U32(n) \in BytesOnly
  <1>1. 1 \in Nat /\ W32 \in Nat
    BY CodecAssumption
  <1>2. Digits(n, 1) \in Seq(Byte) /\ Digits(n, W32) \in Seq(Byte)
    BY <1>1, DigitsAreBytes
  <1>3. QED
    BY <1>2 DEF U8, U32, Checked, BytesOnly

LEMMA LenBytesBytes ==
  ASSUME NEW x \in Seq(Byte)
  PROVE  LenBytes(x) \in BytesOnly
  BY LenSaid DEF Said, BytesOnly

LEMMA TurnBytes ==
  ASSUME NEW writes, Len(writes) \in Nat, \A i \in 1 .. Len(writes) : writes[i] \in BytesOnly
  PROVE  InTurn(writes) \in BytesOnly
  <1> DEFINE n == Len(writes)
  <1>1. PICK t : Turns(t, writes) /\ InTurn(writes) = t[n]
    BY WritesInTurn
  <1> DEFINE T == {k \in Nat : k <= n => t[k] \in BytesOnly}
  <1>2. 0 \in T
    BY <1>1 DEF Turns, BytesOnly
  <1>3. ASSUME NEW k \in Nat, k \in T PROVE k + 1 \in T
    <2> SUFFICES ASSUME k + 1 <= n PROVE t[k + 1] \in BytesOnly
      OBVIOUS
    <2>1. t[k] \in BytesOnly /\ k + 1 \in 1 .. n /\ k + 1 \in 0 .. n /\ (k + 1) - 1 = k /\ k + 1 # 0
      BY <1>3
    <2>2. t[k + 1] = Cat(t[(k + 1) - 1], writes[k + 1])
      BY <2>1, <1>1 DEF Turns
    <2>3. writes[k + 1] \in BytesOnly
      BY <2>1
    <2>4. QED
      BY <2>1, <2>2, <2>3, CatBytes
  <1>4. \A k \in Nat : k \in T
    <2> HIDE DEF T
    <2> QED
      BY <1>2, <1>3, Induct
  <1>5. QED
    BY <1>1, <1>4

LEMMA CountedBytes ==
  ASSUME NEW writes, Len(writes) \in Nat, \A i \in 1 .. Len(writes) : writes[i] \in BytesOnly
  PROVE  WriteCounted(writes) \in BytesOnly
  <1>1. Len(writes) \in Int
    OBVIOUS
  <1>2. U32(Len(writes)) \in BytesOnly
    BY <1>1, NumbersBytes
  <1>3. InTurn(writes) \in BytesOnly
    BY TurnBytes
  <1>4. QED
    BY <1>2, <1>3, CatBytes DEF WriteCounted

LEMMA SetsInTurn ==
  ASSUME NEW S, IsFiniteSet(S)
  PROVE  SetToSeq(S) \in Seq(S)
  <1> DEFINE n == Cardinality(S)
             f == SetToSeq(S)
  <1>1. n \in Nat /\ ExistsBijection(1 .. n, S)
    BY FS_CardinalityType
  <1>2. \E g \in [1 .. n -> S] : IsInjective(g)
    BY <1>1 DEF ExistsBijection, Bijection, Injection
  <1>3. f \in [1 .. n -> S]
    BY <1>2 DEF SetToSeq
  <1> HIDE DEF f, n
  <1>4. f \in Seq(S)
    BY <1>1, <1>3
  <1>5. QED
    BY <1>4 DEF f

LEMMA NamesBytes == WriteNames(Names) \in BytesOnly
  <1> DEFINE S == {3, 7}
             ids == SetToSeq(S)
             writes == [i \in DOMAIN ids |-> Cat(U32(ids[i]), Text(Names[ids[i]]))]
  <1>1. DOMAIN Names = S /\ Names[3] = <<93>> /\ Names[7] = <<97>>
    BY DEF Names
  <1>2. IsFiniteSet(S)
    <2>1. IsFiniteSet({3}) /\ IsFiniteSet({7})
      BY FS_Singleton
    <2>2. IsFiniteSet({3} \cup {7})
      BY <2>1, FS_Union
    <2>3. {3} \cup {7} = S
      OBVIOUS
    <2>4. QED
      BY <2>2, <2>3
  <1> DEFINE at == 3
             to == 7
  <1>3. WriteNames(Names) = WriteCounted(writes)
    BY <1>1 DEF WriteNames, Counted
  <1>4. ASSUME NEW id \in S PROVE Cat(U32(id), Text(Names[id])) \in BytesOnly
    <2>1. id \in Int /\ Names[id] \in Seq(Byte)
      <3>1. <<93>> \in Seq(Byte) /\ <<97>> \in Seq(Byte)
        BY DEF Byte
      <3>2. (id = 3 \/ id = 7) /\ id \in Int
        OBVIOUS
      <3>3. Names[3] \in Seq(Byte) /\ Names[7] \in Seq(Byte)
        BY <1>1, <3>1, Zenon
      <3>4. Names[id] \in Seq(Byte)
        BY <3>2, <3>3, Zenon
      <3>5. QED
        BY <3>2, <3>4
    <2>2. U32(id) \in BytesOnly /\ LenBytes(Names[id]) \in BytesOnly
      BY <2>1, NumbersBytes, LenBytesBytes
    <2>3. QED
      BY <2>2, CatBytes DEF Text
  <1>5. ids \in Seq(S)
    BY <1>2, SetsInTurn
  <1> HIDE DEF S, ids
  <1>6. Len(writes) \in Nat /\ \A i \in 1 .. Len(writes) : writes[i] \in BytesOnly
    BY <1>5, <1>4
  <1> HIDE DEF writes
  <1>7. QED
    BY <1>3, <1>6, CountedBytes

LEMMA ValueBytes ==
  ASSUME Placed
  PROVE  WriteValue(value) \in BytesOnly
  <1>1. ASSUME NEW raw \in Encode(value) PROVE LenBytes(raw) \in BytesOnly
    BY PlacedIsValue, ReadWith, LenBytesBytes
  <1>2. QED
    BY <1>1 DEF WriteValue, BytesOnly

LEMMA LoneBytes ==
  ASSUME Placed
  PROVE  WriteLone(Names, value) \in BytesOnly
  <1>1. 2 \in Int
    OBVIOUS
  <1>2. U8(2) \in BytesOnly
    BY <1>1, NumbersBytes
  <1>3. Cat(WriteNames(Names), WriteValue(value)) \in BytesOnly
    BY NamesBytes, ValueBytes, CatBytes
  <1>4. QED
    BY <1>2, <1>3, CatBytes DEF WriteLone

LEMMA KeysBytes == WriteKeys(<<<<97>>, <<>>>>) \in BytesOnly
  <1> DEFINE keys == <<<<97>>, <<>>>>
             writes == [i \in DOMAIN keys |-> Text(keys[i])]
  <1>1. Len(writes) = 2 /\ writes[1] = LenBytes(<<97>>) /\ writes[2] = LenBytes(<<>>)
    BY DEF Text
  <1>2. <<97>> \in Seq(Byte) /\ <<>> \in Seq(Byte)
    BY DEF Byte
  <1>3. writes[1] \in BytesOnly /\ writes[2] \in BytesOnly
    BY <1>1, <1>2, LenBytesBytes
  <1>4. WriteKeys(keys) = Cat(U8(3), WriteCounted(writes))
    BY DEF WriteKeys, Counted
  <1> HIDE DEF writes, keys
  <1>5. Len(writes) \in Nat /\ \A i \in 1 .. Len(writes) : writes[i] \in BytesOnly
    BY <1>1, <1>3
  <1>6. WriteCounted(writes) \in BytesOnly
    BY <1>5, CountedBytes
  <1>7. 3 \in Int
    OBVIOUS
  <1>8. U8(3) \in BytesOnly
    BY <1>7, NumbersBytes
  <1>9. QED
    BY <1>4, <1>6, <1>8, CatBytes DEF keys

\* One item that is counted, when it is written as bytes.
LEMMA OneBytes ==
  ASSUME NEW writes, Len(writes) = 1, writes[1] \in BytesOnly
  PROVE  WriteCounted(writes) \in BytesOnly
  <1>1. Len(writes) \in Nat /\ \A i \in 1 .. Len(writes) : i = 1
    OBVIOUS
  <1>2. \A i \in 1 .. Len(writes) : writes[i] \in BytesOnly
    BY <1>1
  <1>3. QED
    BY <1>1, <1>2, CountedBytes

LEMMA AllInTurn ==
  ASSUME NEW s \in Seq(BytesOnly)
  PROVE  InTurn([i \in DOMAIN s |-> s[i]]) \in BytesOnly
  <1> DEFINE writes == [i \in DOMAIN s |-> s[i]]
  <1>1. Len(writes) \in Nat /\ \A i \in 1 .. Len(writes) : writes[i] \in BytesOnly
    OBVIOUS
  <1> HIDE DEF writes
  <1>2. InTurn(writes) \in BytesOnly
    BY <1>1, TurnBytes
  <1>3. QED
    BY <1>2 DEF writes

LEMMA FiveBytes ==
  ASSUME NEW a \in BytesOnly, NEW b \in BytesOnly, NEW c \in BytesOnly, NEW d \in BytesOnly, NEW e \in BytesOnly
  PROVE  Each(SubSeq(<<a, b, c, d, e>>, 1, Newest + 1), LAMBDA field : field) \in BytesOnly
  <1> DEFINE five == <<a, b, c, d, e>>
             s == SubSeq(five, 1, Newest + 1)
  <1>1. five \in Seq(BytesOnly) /\ Len(five) = 5
    OBVIOUS
  <1> HIDE DEF five
  <1>2. s \in Seq(BytesOnly)
    <2>1. SubSeq(five, 1, Len(five)) = five
      BY <1>1
    <2>2. SubSeq(five, 1, 5) \in Seq(BytesOnly)
      BY <1>1, <2>1
    <2>3. Newest + 1 = 5
      BY DEF Newest
    <2>4. QED
      BY <2>2, <2>3
  <1> HIDE DEF s
  <1>3. InTurn([i \in DOMAIN s |-> s[i]]) \in BytesOnly
    BY <1>2, AllInTurn
  <1>4. QED
    BY <1>3 DEF Each, s, five

LEMMA NoteBytes ==
  ASSUME NEW x \in Seq(Byte), NEW y \in Seq(Byte)
  PROVE  Counted(<<<<x, y>>>>, WriteNote) \in BytesOnly
  <1> DEFINE notes == <<<<x, y>>>>
             writes == [i \in DOMAIN notes |-> WriteNote(notes[i])]
  <1>1. Len(writes) = 1 /\ writes[1] = Cat(LenBytes(x), LenBytes(y))
    BY DEF WriteNote, Text
  <1>2. Cat(LenBytes(x), LenBytes(y)) \in BytesOnly
    BY LenBytesBytes, CatBytes
  <1> HIDE DEF writes
  <1>3. WriteCounted(writes) \in BytesOnly
    BY <1>1, <1>2, OneBytes
  <1>4. QED
    BY <1>3 DEF Counted, writes

LEMMA RowBytes ==
  ASSUME Placed
  PROVE  Counted(<<Row>>, LAMBDA row : Cat(Text(row[1]), WriteValue(row[2]))) \in BytesOnly
  <1> DEFINE rows == <<Row>>
             writes == [i \in DOMAIN rows |-> Cat(Text(rows[i][1]), WriteValue(rows[i][2]))]
  <1>1. Len(writes) = 1 /\ writes[1] = Cat(LenBytes(<<97>>), WriteValue(value))
    BY DEF Text, Row
  <1>2. <<97>> \in Seq(Byte)
    BY DEF Byte
  <1>3. Cat(LenBytes(<<97>>), WriteValue(value)) \in BytesOnly
    BY <1>2, LenBytesBytes, ValueBytes, CatBytes
  <1>4. Counted(rows, LAMBDA row : Cat(Text(row[1]), WriteValue(row[2]))) = WriteCounted(writes)
    BY DEF Counted
  <1> HIDE DEF writes
  <1>5. WriteCounted(writes) \in BytesOnly
    BY <1>1, <1>3, OneBytes
  <1>6. QED
    BY <1>4, <1>5

LEMMA RecIs ==
  /\ Rec.path = 1 /\ Rec.names = Names /\ Rec.rows = <<Row>> /\ Rec.notes = <<<<<<98>>, <<99>>>>>>
  /\ Rec.only = TRUE /\ Rec.exactness = <<"inexact", <<100>>>>
  /\ Rec.suggestion = <<"corrections", <<<<<<97>>, <<98>>>>>>>>
  BY DEF Rec, Blank

LEMMA RecordsBytes ==
  ASSUME Placed
  PROVE  WriteRecords(Rec, Newest) \in BytesOnly
  <1> DEFINE rows == Counted(Rec.rows, LAMBDA row : Cat(Text(row[1]), WriteValue(row[2])))
             first == Cat(U8(Rec.path), Cat(WriteNames(Rec.names), rows))
             notes == Counted(Rec.notes, WriteNote)
             only == U8(IF Rec.only THEN 1 ELSE 0)
             exactness == IF Rec.exactness = <<"exact">> THEN Cat(U8(0), Text(<<>>))
                          ELSE Cat(U8(1), Text(Rec.exactness[2]))
             suggestion == IF Rec.suggestion = <<"complete">> THEN U8(1)
                           ELSE IF Rec.suggestion = <<"not consulted">> THEN U8(0)
                           ELSE Cat(U8(2), Counted(Rec.suggestion[2], WriteNote))
  <1>1. U8(0) \in BytesOnly /\ U8(1) \in BytesOnly /\ U8(2) \in BytesOnly
    BY NumbersBytes
  <1>2. first \in BytesOnly
    <2>1. rows \in BytesOnly
      BY RecIs, RowBytes
    <2>2. U8(Rec.path) \in BytesOnly /\ WriteNames(Rec.names) \in BytesOnly
      BY <1>1, RecIs, NamesBytes
    <2> HIDE DEF rows
    <2>3. QED
      BY <2>1, <2>2, CatBytes
  <1>3. notes \in BytesOnly
    <2>1. <<98>> \in Seq(Byte) /\ <<99>> \in Seq(Byte)
      BY DEF Byte
    <2>2. Rec.notes = <<<<<<98>>, <<99>>>>>>
      BY RecIs
    <2>3. QED
      BY <2>1, <2>2, NoteBytes
  <1>4. only \in BytesOnly
    BY <1>1, RecIs
  <1>5. exactness \in BytesOnly
    <2>1. Rec.exactness[2] \in Seq(Byte)
      BY RecIs DEF Byte
    <2>2. <<>> \in Seq(Byte)
      OBVIOUS
    <2>3. LenBytes(Rec.exactness[2]) \in BytesOnly /\ LenBytes(<<>>) \in BytesOnly
      BY <2>1, <2>2, LenBytesBytes
    <2>4. Cat(U8(0), Text(<<>>)) \in BytesOnly /\ Cat(U8(1), Text(Rec.exactness[2])) \in BytesOnly
      BY <1>1, <2>3, CatBytes DEF Text
    <2>5. QED
      BY <2>4, Zenon
  <1>6. suggestion \in BytesOnly
    <2>1. <<97>> \in Seq(Byte) /\ <<98>> \in Seq(Byte)
      BY DEF Byte
    <2>2. Rec.suggestion[2] = <<<<<<97>>, <<98>>>>>>
      BY RecIs
    <2>3. Counted(Rec.suggestion[2], WriteNote) \in BytesOnly
      BY <2>1, <2>2, NoteBytes
    <2>4. Cat(U8(2), Counted(Rec.suggestion[2], WriteNote)) \in BytesOnly
      BY <1>1, <2>3, CatBytes
    <2>5. QED
      BY <1>1, <2>4, Zenon
  <1> HIDE DEF rows, first, notes, only, exactness, suggestion
  <1> DEFINE fields == Each(SubSeq(<<first, notes, only, exactness, suggestion>>, 1, Newest + 1), LAMBDA field : field)
  <1>7. fields \in BytesOnly
    BY <1>2, <1>3, <1>4, <1>5, <1>6, FiveBytes
  <1>8. WriteRecords(Rec, Newest) = Cat(U8(1), fields)
    BY DEF WriteRecords, rows, first, notes, only, exactness, suggestion
  <1> HIDE DEF fields
  <1>9. QED
    BY <1>1, <1>7, <1>8, CatBytes

\* An outcome cut anywhere leaves its neighbours as they are (_answer.py:6-14, 80-82).
THEOREM EveryOutcomeApart == Nesting => []OutcomesApart
  <1>1. Placed => OutcomesApart
    <2> SUFFICES ASSUME Placed,
                        NEW bytes \in WriteRecords(Rec, Newest) \cup WriteLone(Names, value)
                                        \cup WriteKeys(<<<< 97 >>, <<>>>>),
                        NEW n \in 1 .. Len(bytes)
                 PROVE  ReadsApart(<<0, 9>>, SubSeq(bytes, 1, n), <<99, 1>>)
      BY DEF OutcomesApart
    <2>1. bytes \in Seq(Byte)
      BY RecordsBytes, LoneBytes, KeysBytes DEF BytesOnly
    <2> DEFINE short == SubSeq(bytes, 1, n)
               before == <<0, 9>>
               after == <<99, 1>>
    <2>2. short \in Seq(Byte) /\ short # <<>>
      <3>1. short \in Seq(Byte) /\ Len(short) = n /\ n >= 1
        BY <2>1
      <3> HIDE DEF short
      <3>2. QED
        BY <3>1
    <2>3. before \in Seq(Byte) /\ before # <<>> /\ after \in Seq(Byte) /\ after # <<>>
      BY DEF Byte
    <2> HIDE DEF short, before, after
    <2>4. ReadsApart(before, short, after)
      BY <2>2, <2>3, NeighboursUnharmed
    <2>5. QED
      BY <2>4 DEF before, short, after
  <1>2. QED
    BY <1>1, ValuesPlaced, PTL

-----------------------------------------------------------------------------
(* The acts of a vault *)

LEMMA CatHas ==
  \A A, B, a, b : a \in A /\ b \in B => a \o b \in Cat(A, B)
  BY DEF Cat

LEMMA CatThere ==
  \A A, B : Cat(A, B) # {} <=> A # {} /\ B # {}
  BY CatHas, CatIs

LEMMA TurnsThere ==
  ASSUME NEW writes, Len(writes) \in Nat, \A i \in 1 .. Len(writes) : writes[i] # {}
  PROVE  InTurn(writes) # {}
  <1> DEFINE n == Len(writes)
  <1>1. PICK t : Turns(t, writes) /\ InTurn(writes) = t[n]
    BY WritesInTurn
  <1> DEFINE T == {k \in Nat : k <= n => t[k] # {}}
  <1>2. 0 \in T
    BY <1>1 DEF Turns
  <1>3. ASSUME NEW k \in Nat, k \in T PROVE k + 1 \in T
    <2> SUFFICES ASSUME k + 1 <= n PROVE t[k + 1] # {}
      OBVIOUS
    <2>1. t[k] # {} /\ k + 1 \in 1 .. n /\ k + 1 \in 0 .. n /\ (k + 1) - 1 = k /\ k + 1 # 0
      BY <1>3
    <2>2. t[k + 1] = Cat(t[(k + 1) - 1], writes[k + 1])
      BY <2>1, <1>1 DEF Turns
    <2>3. t[k + 1] = Cat(t[k], writes[k + 1]) /\ writes[k + 1] # {}
      BY <2>1, <2>2
    <2>4. QED
      BY <2>1, <2>3, CatThere
  <1>4. \A k \in Nat : k \in T
    <2> HIDE DEF T
    <2> QED
      BY <1>2, <1>3, Induct
  <1>5. QED
    BY <1>1, <1>4

LEMMA TurnsNotThere ==
  ASSUME NEW writes, Len(writes) \in Nat, NEW i \in 1 .. Len(writes), writes[i] = {}
  PROVE  InTurn(writes) = {}
  <1> DEFINE n == Len(writes)
  <1>1. PICK t : Turns(t, writes) /\ InTurn(writes) = t[n]
    BY WritesInTurn
  <1> DEFINE T == {k \in Nat : i + k <= n => t[i + k] = {}}
  <1>2. 0 \in T
    BY <1>1 DEF Turns, Cat
  <1>3. ASSUME NEW k \in Nat, k \in T PROVE k + 1 \in T
    <2> SUFFICES ASSUME i + (k + 1) <= n PROVE t[i + (k + 1)] = {}
      OBVIOUS
    <2> DEFINE j == i + k
    <2>1. t[j] = {} /\ j + 1 \in 0 .. n /\ (j + 1) - 1 = j /\ j + 1 # 0 /\ i + (k + 1) = j + 1
      BY <1>3
    <2> HIDE DEF j
    <2>2. t[j + 1] = Cat(t[(j + 1) - 1], writes[j + 1])
      BY <2>1, <1>1 DEF Turns
    <2>3. \A B : Cat({}, B) = {}
      BY DEF Cat
    <2>4. QED
      BY <2>1, <2>2, <2>3
  <1>4. n - i \in Nat /\ i + (n - i) = n
    OBVIOUS
  <1>5. n - i \in T
    <2> DEFINE k == n - i
    <2>1. k \in Nat
      BY <1>4
    <2> HIDE DEF T, k
    <2>2. k \in T
      BY <1>2, <1>3, <2>1, Induct
    <2>3. QED
      BY <2>2 DEF k
  <1>6. QED
    BY <1>1, <1>4, <1>5

\* Texts one after the other are read as many as they are.
LEMMA PhrasesSaid ==
  ASSUME NEW texts \in Seq(Ascii)
  PROVE  /\ \A w \in Each(texts, LenBytes) :
              w \in Seq(Byte) /\ \A rest \in Seq(Byte) : ReadPhrases(w \o rest, Len(texts)) = One(texts, rest)
         /\ Each(texts, LenBytes) # {} <=> Sendable(texts)
  <1> DEFINE writes == [i \in DOMAIN texts |-> LenBytes(texts[i])]
  <1>1. Each(texts, LenBytes) = InTurn(writes)
    BY DEF Each
  <1>2. AllSaid(writes, TextReader, texts)
    <2>1. Len(writes) = Len(texts)
      OBVIOUS
    <2>2. ASSUME NEW i \in 1 .. Len(texts) PROVE \A w \in writes[i] : Said(w, TextReader, texts[i])
      BY TextSaid
    <2> HIDE DEF writes
    <2>3. QED
      BY <2>1, <2>2 DEF AllSaid
  <1>3. Len(writes) = Len(texts) /\ Len(texts) \in Nat /\ DOMAIN texts = 1 .. Len(texts)
        /\ \A i \in 1 .. Len(texts) : writes[i] = LenBytes(texts[i])
    OBVIOUS
  <1> HIDE DEF writes
  <1>4. \A w \in InTurn(writes) :
          w \in Seq(Byte) /\ \A rest \in Seq(Byte) : Repeated(Len(texts), w \o rest, TextReader) = One(texts, rest)
    BY <1>2, TurnsReadBack, Zenon
  <1>5. \A raw, n : ReadPhrases(raw, n) = Repeated(n, raw, TextReader)
    BY DEF ReadPhrases, Times, TextReader
  <1>6. ASSUME Sendable(texts) PROVE InTurn(writes) # {}
    BY <1>3, <1>6, TurnsThere DEF Sendable
  <1>7. ASSUME ~Sendable(texts) PROVE InTurn(writes) = {}
    <2>1. PICK i \in DOMAIN texts : LenBytes(texts[i]) = {}
      BY <1>7 DEF Sendable
    <2>2. i \in 1 .. Len(writes) /\ writes[i] = {}
      BY <1>3, <2>1
    <2>3. QED
      BY <1>3, <2>2, TurnsNotThere
  <1>8. QED
    BY <1>1, <1>4, <1>5, <1>6, <1>7

LEMMA ByteSaid ==
  ASSUME NEW n \in Byte
  PROVE  U8(n) # {} /\ \A w \in U8(n) : w \in Seq(Byte) /\ \A rest \in Seq(Byte) : ReadU8(w \o rest) = One(n, rest)
  <1>1. n \in Int /\ n \in 0 .. 255 /\ 1 \in Nat
    BY DEF Byte
  <1>2. U8(n) = {Digits(n, 1)}
    BY <1>1 DEF U8, Checked
  <1>3. Digits(n, 1) \in Seq(Byte) /\ Len(Digits(n, 1)) = 1 /\ Digits(n, 1)[1] = Quotients(n, 1)[0] % 256
    <2>1. /\ Digits(n, 1) \in Seq(Byte) /\ Len(Digits(n, 1)) = 1
          /\ \A i \in 1 .. 1 : Digits(n, 1)[i] = Quotients(n, 1)[1 - i] % 256
      BY <1>1, DigitsAreBytes
    <2>2. 1 \in 1 .. 1 /\ 1 - 1 = 0
      OBVIOUS
    <2>3. QED
      BY <2>1, <2>2
  <1>4. Quotients(n, 1)[0] = n
    BY <1>1, QuotientsShrink DEF Shrinks
  <1>5. Digits(n, 1)[1] = n
    BY <1>1, <1>3, <1>4
  <1> DEFINE d == Digits(n, 1)
             one == <<n>>
  <1>6. d = one
    <2>1. one \in Seq(Byte) /\ Len(one) = 1 /\ one[1] = n
      OBVIOUS
    <2>2. d \in Seq(Byte) /\ Len(d) = 1 /\ d[1] = n
      BY <1>3, <1>5
    <2> HIDE DEF d, one
    <2>3. \A i \in 1 .. 1 : d[i] = one[i]
      BY <2>1, <2>2
    <2>4. QED
      BY <2>1, <2>2, <2>3, SeqEqual
  <1>7. \A rest \in Seq(Byte) : ReadU8(one \o rest) = One(n, rest)
    BY TagRead
  <1>8. QED
    BY <1>2, <1>3, <1>6, <1>7

\* Whether there are any, and the texts there are.
Flagged(texts) == IF texts = <<>> THEN U8(0) ELSE Cat(U8(1), Each(texts, LenBytes))

LEMMA FlaggedSaid ==
  ASSUME NEW texts \in Seq(Ascii), NEW k \in Nat, texts = <<>> \/ Len(texts) = k, NEW w \in Flagged(texts)
  PROVE  /\ w \in Seq(Byte)
         /\ \A rest \in Seq(Byte) : \E flag \in {0, 1} : \E more :
              ReadU8(w \o rest) = One(flag, more) /\ ReadPhrases(more, k * flag) = One(texts, rest)
  <1>0. 0 \in Byte /\ 1 \in Byte /\ k * 0 = 0 /\ k * 1 = k
    BY DEF Byte
  <1>1. CASE texts = <<>>
    <2>1. w \in U8(0)
      BY <1>1 DEF Flagged
    <2>2. w \in Seq(Byte) /\ \A rest \in Seq(Byte) : ReadU8(w \o rest) = One(0, rest)
      BY <1>0, <2>1, ByteSaid
    <2>3. ASSUME NEW rest \in Seq(Byte) PROVE ReadPhrases(rest, k * 0) = One(texts, rest)
      <3>1. ReadPhrases(rest, 0) = Repeated(0, rest, TextReader)
        BY DEF ReadPhrases, Times, TextReader
      <3>2. PICK t : Rounds(t, 0, rest, TextReader) /\ Repeated(0, rest, TextReader) = t[0]
        BY ReadsInRounds
      <3>3. t[0] = {<<<<>>, rest>>}
        BY <3>2 DEF Rounds
      <3>4. QED
        BY <1>0, <1>1, <3>1, <3>2, <3>3 DEF One
    <2>4. QED
      BY <2>2, <2>3
  <1>2. CASE texts # <<>>
    <2>1. PICK a \in U8(1), b \in Each(texts, LenBytes) : w = a \o b
      BY <1>2, CatIs DEF Flagged
    <2>2. a \in Seq(Byte) /\ \A rest \in Seq(Byte) : ReadU8(a \o rest) = One(1, rest)
      BY <1>0, ByteSaid
    <2>3. b \in Seq(Byte) /\ \A rest \in Seq(Byte) : ReadPhrases(b \o rest, k) = One(texts, rest)
      BY <1>2, PhrasesSaid
    <2>4. w \in Seq(Byte)
      BY <2>1, <2>2, <2>3, Rejoined
    <2>5. ASSUME NEW rest \in Seq(Byte)
          PROVE  ReadU8(w \o rest) = One(1, b \o rest) /\ ReadPhrases(b \o rest, k * 1) = One(texts, rest)
      BY <2>1, <2>2, <2>3, Rejoined, <1>0
    <2>6. QED
      BY <2>4, <2>5
  <1>3. QED
    BY <1>1, <1>2

LEMMA FlaggedThere ==
  ASSUME NEW texts \in Seq(Ascii)
  PROVE  Flagged(texts) # {} <=> Sendable(texts)
  <1>1. 0 \in Byte /\ 1 \in Byte
    BY DEF Byte
  <1>2. U8(0) # {} /\ U8(1) # {}
    BY <1>1, ByteSaid
  <1>3. texts = <<>> => Sendable(texts)
    BY DEF Sendable
  <1>4. Cat(U8(1), Each(texts, LenBytes)) # {} <=> Sendable(texts)
    BY <1>2, CatThere, PhrasesSaid
  <1>5. QED
    BY <1>2, <1>3, <1>4 DEF Flagged

\* A frame's parts, each read from what the part before it left.
ReadWho(body) == Then(ReadU8(body), LAMBDA byte, rest : ReadPhrases(rest, 2 * byte))
PlaceAfter(who, rest) ==
  Then(ReadU8(rest), LAMBDA byte, more : As(ReadPhrases(more, 3 * byte), LAMBDA where : <<who, where>>))
ActAfter(both, rest) ==
  Then(ReadU8(rest), LAMBDA byte, more :
    UNION {As(ReadPhrases(more, Passphrases(act)), LAMBDA phrases : both \o <<act, phrases>>) :
             act \in {a \in DOMAIN ACTS : ACTS[a] = byte}})

LEMMA FrameParts ==
  ASSUME NEW body
  PROVE  ReadFrame(body) = {r[1] : r \in {x \in UNION {ActAfter(q[1], q[2]) :
                              q \in UNION {PlaceAfter(r[1], r[2]) : r \in ReadWho(body)}} : x[2] = <<>>}}
  BY DEF ReadFrame, ActAfter, PlaceAfter, ReadWho, Then

LEMMA WhoRead ==
  ASSUME NEW body, NEW flag, NEW more, NEW who, NEW rest,
         ReadU8(body) = One(flag, more), ReadPhrases(more, 2 * flag) = One(who, rest)
  PROVE  ReadWho(body) = One(who, rest)
  <1>1. ReadWho(body) = UNION {ReadPhrases(r[2], 2 * r[1]) : r \in {<<flag, more>>}}
    BY DEF ReadWho, Then, One
  <1>2. \A a, b : UNION {ReadPhrases(r[2], 2 * r[1]) : r \in {<<a, b>>}} = ReadPhrases(b, 2 * a)
    OBVIOUS
  <1>3. QED
    BY <1>1, <1>2

LEMMA PlaceRead ==
  ASSUME NEW who, NEW raw, NEW flag, NEW more, NEW where, NEW rest,
         ReadU8(raw) = One(flag, more), ReadPhrases(more, 3 * flag) = One(where, rest)
  PROVE  PlaceAfter(who, raw) = One(<<who, where>>, rest)
  <1> DEFINE Found(a, b) == {<<<<who, q[1]>>, q[2]>> : q \in ReadPhrases(b, 3 * a)}
  <1>1. PlaceAfter(who, raw) = UNION {Found(r[1], r[2]) : r \in {<<flag, more>>}}
    BY DEF PlaceAfter, Then, As, One
  <1>2. Found(flag, more) = One(<<who, where>>, rest)
    <2>1. Found(flag, more) = {<<<<who, q[1]>>, q[2]>> : q \in {<<where, rest>>}}
      BY DEF One
    <2>2. {<<<<who, q[1]>>, q[2]>> : q \in {<<where, rest>>}} = {<<<<who, where>>, rest>>}
      OBVIOUS
    <2>3. QED
      BY <2>1, <2>2 DEF One
  <1> HIDE DEF Found
  <1>3. \A a, b : UNION {Found(r[1], r[2]) : r \in {<<a, b>>}} = Found(a, b)
    OBVIOUS
  <1>4. QED
    BY <1>1, <1>2, <1>3

LEMMA FourOf ==
  \A a, b, c, d : <<a, b>> \o <<c, d>> = <<a, b, c, d>>
  <1> TAKE a, b, c, d
  <1> DEFINE S == {a, b, c, d}
             s == <<a, b>>
             t == <<c, d>>
             four == <<a, b, c, d>>
  <1>1. /\ s \in Seq(S) /\ Len(s) = 2 /\ s[1] = a /\ s[2] = b
        /\ t \in Seq(S) /\ Len(t) = 2 /\ t[1] = c /\ t[2] = d
        /\ four \in Seq(S) /\ Len(four) = 4 /\ four[1] = a /\ four[2] = b /\ four[3] = c /\ four[4] = d
    OBVIOUS
  <1> HIDE DEF S, s, t, four
  <1>2. /\ s \o t \in Seq(S) /\ Len(s \o t) = Len(s) + Len(t)
        /\ \A i \in 1 .. Len(s) + Len(t) : (s \o t)[i] = IF i <= Len(s) THEN s[i] ELSE t[i - Len(s)]
    BY <1>1, ConcatProperties
  <1> DEFINE st == s \o t
  <1>3. /\ st \in Seq(S) /\ Len(st) = 4
        /\ \A i \in 1 .. 4 : st[i] = IF i <= 2 THEN s[i] ELSE t[i - 2]
    BY <1>1, <1>2
  <1> HIDE DEF st
  <1>4. st[1] = a /\ st[2] = b /\ st[3] = c /\ st[4] = d
    BY <1>1, <1>3
  <1>5. \A i \in 1 .. 4 : st[i] = four[i]
    BY <1>1, <1>4
  <1>6. st = four
    BY <1>1, <1>3, <1>5, SeqEqual
  <1>7. QED
    BY <1>6 DEF st, s, t, four

LEMMA ActRead ==
  ASSUME NEW who, NEW where, NEW raw, NEW act \in DOMAIN ACTS, NEW more, NEW sent, NEW rest,
         ReadU8(raw) = One(ACTS[act], more), ReadPhrases(more, Passphrases(act)) = One(sent, rest)
  PROVE  ActAfter(<<who, where>>, raw) = One(<<who, where, act, sent>>, rest)
  <1> DEFINE both == <<who, where>>
             All4 == <<who, where, act, sent>>
             Said1(a, b) == {<<both \o <<a, q[1]>>, q[2]>> : q \in ReadPhrases(b, Passphrases(a))}
             Found(n, b) == UNION {Said1(a, b) : a \in {x \in DOMAIN ACTS : ACTS[x] = n}}
             n0 == ACTS[act]
  <1>1. ActAfter(both, raw) = UNION {Found(r[1], r[2]) : r \in ReadU8(raw)}
    BY DEF ActAfter, Then, As
  <1>2. ReadU8(raw) = {<<n0, more>>}
    BY DEF One
  <1>3. both \o <<act, sent>> = All4
    BY FourOf
  <1>4. Said1(act, more) = {<<All4, rest>>}
    <2> DEFINE With4(x) == both \o <<act, x>>
    <2>1. Said1(act, more) = {<<With4(q[1]), q[2]>> : q \in {<<sent, rest>>}}
      BY DEF One
    <2>2. With4(sent) = All4
      BY <1>3
    <2> HIDE DEF both, All4, With4
    <2>3. \A a, b : {<<With4(q[1]), q[2]>> : q \in {<<a, b>>}} = {<<With4(a), b>>}
      OBVIOUS
    <2>4. QED
      BY <2>1, <2>2, <2>3
  <1> HIDE DEF Said1, both, All4
  <1>5. {x \in DOMAIN ACTS : ACTS[x] = n0} = {act}
    BY VaultAssumption
  <1>6. Found(n0, more) = {<<All4, rest>>}
    BY <1>5, <1>4
  <1> HIDE DEF Found, n0
  <1>7. \A a, b : UNION {Found(r[1], r[2]) : r \in {<<a, b>>}} = Found(a, b)
    OBVIOUS
  <1>8. ActAfter(both, raw) = {<<All4, rest>>}
    BY <1>1, <1>2, <1>6, <1>7
  <1>9. QED
    BY <1>8 DEF both, All4, One

JoinOf(A, B, w) == \E a \in A, b \in B : w = a \o b

LEMMA CatJoins ==
  \A A, B, w : w \in Cat(A, B) => JoinOf(A, B, w)
  BY CatIs DEF JoinOf

\* Credentials are two texts or none, a place three or none, and passphrases two.
Texts(sizes) == {texts \in Seq(Ascii) : Len(texts) \in sizes}
Creds == Texts({0, 2})
Places == Texts({0, 3})
Phrases == Texts({2})

LEMMA CredsAre ==
  ASSUME NEW k, NEW x \in Texts({0, k})
  PROVE  x \in Seq(Ascii) /\ (x = <<>> \/ Len(x) = k)
  <1>1. x \in Seq(Ascii) /\ (Len(x) = 0 \/ Len(x) = k)
    BY DEF Texts
  <1>2. Len(x) = 0 => x = <<>>
    BY <1>1
  <1>3. QED
    BY <1>1, <1>2

\* The passphrases of an act are as many as it has.
LEMMA SentIs ==
  ASSUME NEW phrases \in Phrases, NEW act \in DOMAIN ACTS
  PROVE  /\ SubSeq(phrases, 1, Passphrases(act)) \in Seq(Ascii)
         /\ Len(SubSeq(phrases, 1, Passphrases(act))) = Passphrases(act)
  <1>1. act \in {"status", "seal", "unseal", "declare", "change"}
    BY VaultAssumption
  <1>2. Passphrases(act) \in 0 .. 2
    BY <1>1 DEF Passphrases
  <1>3. phrases \in Seq(Ascii) /\ Len(phrases) = 2
    BY DEF Phrases, Texts
  <1> DEFINE n == Passphrases(act)
  <1> HIDE DEF n
  <1>4. n \in 0 .. 2
    BY <1>2 DEF n
  <1>5. /\ 1 \in Int /\ n \in Int /\ \A i \in 1 .. n : phrases[i] \in Ascii
    BY <1>3, <1>4
  <1>6. SubSeq(phrases, 1, n) \in Seq(Ascii) /\ Len(SubSeq(phrases, 1, n)) = IF 1 <= n THEN n - 1 + 1 ELSE 0
    BY <1>5, SubSeqProperties
  <1>7. (IF 1 <= n THEN n - 1 + 1 ELSE 0) = n
    BY <1>4
  <1>8. QED
    BY <1>6, <1>7 DEF n

\* A frame reads as what it was made for, whoever asks, of the store or of a vault
\* (_vault_frame.py:22-56).
THEOREM FramesReadBack ==
  \A credentials \in Creds, place \in Places, phrases \in Phrases, act \in DOMAIN ACTS :
    FrameReadsBack(credentials, act, place, phrases)
  <1> SUFFICES ASSUME NEW who \in Creds, NEW where \in Places, NEW phrases \in Phrases, NEW act \in DOMAIN ACTS
               PROVE  FrameReadsBack(who, act, where, phrases)
    OBVIOUS
  <1>2. who \in Seq(Ascii) /\ (who = <<>> \/ Len(who) = 2) /\ where \in Seq(Ascii) /\ (where = <<>> \/ Len(where) = 3)
    BY CredsAre DEF Creds, Places
  <1> DEFINE n == Passphrases(act)
             sent == SubSeq(phrases, 1, n)
             W == Presents(who)
             T == Target(where)
             A == U8(ACTS[act])
             P == Each(sent, LenBytes)
             bodies == FrameBody(who, act, where, phrases)
             barred == act = "declare" /\ where = <<>>
  <1>1. sent \in Seq(Ascii) /\ Len(sent) = n
    BY SentIs
  <1>3. W = Flagged(who) /\ T = Flagged(where)
    BY DEF Presents, Target, Flagged, Nobody, Store
  <1>4. bodies = IF barred THEN {} ELSE Cat(W, Cat(T, Cat(A, P)))
    BY DEF FrameBody, Store
  <1>5. ACTS[act] \in Byte
    BY VaultAssumption
  <1> HIDE DEF n, sent, W, T, A, P, bodies, barred
  <1>6. bodies # {} <=> ~barred /\ Sendable(who) /\ Sendable(where) /\ Sendable(sent)
    <2>1. W # {} <=> Sendable(who)
      BY <1>2, <1>3, FlaggedThere
    <2>2. T # {} <=> Sendable(where)
      BY <1>2, <1>3, FlaggedThere
    <2>3. A # {}
      BY <1>5, ByteSaid DEF A
    <2>4. P # {} <=> Sendable(sent)
      BY <1>1, PhrasesSaid DEF P
    <2>5. Cat(W, Cat(T, Cat(A, P))) # {} <=> W # {} /\ T # {} /\ A # {} /\ P # {}
      BY CatThere
    <2>6. QED
      BY <1>4, <2>1, <2>2, <2>3, <2>4, <2>5
  <1>7. ASSUME NEW body \in bodies PROVE ReadFrame(body) = {<<who, where, act, sent>>}
    <2>1. body \in Cat(W, Cat(T, Cat(A, P)))
      BY <1>4
    <2>2. PICK w \in W, x \in Cat(T, Cat(A, P)) : body = w \o x
      <3>1. JoinOf(W, Cat(T, Cat(A, P)), body)
        BY <2>1, CatJoins
      <3>2. QED
        BY <3>1 DEF JoinOf
    <2>3. PICK t \in T, y \in Cat(A, P) : x = t \o y
      BY CatIs, SMTT(30)
    <2>4. PICK a \in A, p \in P : y = a \o p
      <3>1. JoinOf(A, P, y)
        BY CatJoins
      <3>2. QED
        BY <3>1 DEF JoinOf
    <2>5. a \in Seq(Byte) /\ \A rest \in Seq(Byte) : ReadU8(a \o rest) = One(ACTS[act], rest)
      BY <1>5, ByteSaid DEF A
    <2>6. p \in Seq(Byte) /\ \A rest \in Seq(Byte) : ReadPhrases(p \o rest, n) = One(sent, rest)
      BY <1>1, PhrasesSaid DEF P
    <2>7. /\ t \in Seq(Byte)
          /\ \A rest \in Seq(Byte) : \E flag \in {0, 1} : \E more :
               ReadU8(t \o rest) = One(flag, more) /\ ReadPhrases(more, 3 * flag) = One(where, rest)
      BY <1>3, <1>2, FlaggedSaid
    <2>8. /\ w \in Seq(Byte)
          /\ \A rest \in Seq(Byte) : \E flag \in {0, 1} : \E more :
               ReadU8(w \o rest) = One(flag, more) /\ ReadPhrases(more, 2 * flag) = One(who, rest)
      BY <1>3, <1>2, FlaggedSaid
    <2>9. y \in Seq(Byte) /\ x \in Seq(Byte)
      BY <2>3, <2>4, <2>5, <2>6, <2>7, Rejoined
    <2>10. ReadWho(body) = One(who, x)
      <3>1. PICK flag \in {0, 1} : \E more :
              ReadU8(w \o x) = One(flag, more) /\ ReadPhrases(more, 2 * flag) = One(who, x)
        BY <2>8, <2>9
      <3>2. PICK more :
              ReadU8(w \o x) = One(flag, more) /\ ReadPhrases(more, 2 * flag) = One(who, x)
        BY <3>1
      <3>3. QED
        BY <2>2, <3>2, WhoRead
    <2>11. PlaceAfter(who, x) = One(<<who, where>>, y)
      <3>1. PICK flag \in {0, 1} : \E more :
              ReadU8(t \o y) = One(flag, more) /\ ReadPhrases(more, 3 * flag) = One(where, y)
        BY <2>7, <2>9
      <3>2. PICK more :
              ReadU8(t \o y) = One(flag, more) /\ ReadPhrases(more, 3 * flag) = One(where, y)
        BY <3>1
      <3>3. QED
        BY <2>3, <3>2, PlaceRead
    <2>12. ActAfter(<<who, where>>, y) = {<<<<who, where, act, sent>>, <<>>>>}
      <3>1. <<>> \in Seq(Byte) /\ p \o <<>> = p
        BY <2>6
      <3>2. ReadPhrases(p, n) = One(sent, <<>>)
        BY <2>6, <3>1
      <3>3. ReadU8(y) = One(ACTS[act], p)
        BY <2>4, <2>5, <2>6
      <3>4. ActAfter(<<who, where>>, y) = One(<<who, where, act, sent>>, <<>>)
        BY <3>2, <3>3, ActRead DEF n
      <3>5. QED
        BY <3>4 DEF One
    <2> DEFINE both == <<who, where>>
               all == <<who, where, act, sent>>
    <2>13. PlaceAfter(who, x) = {<<both, y>>} /\ ActAfter(both, y) = {<<all, <<>>>>} /\ ReadWho(body) = {<<who, x>>}
      BY <2>10, <2>11, <2>12 DEF One
    <2> HIDE DEF both, all
    <2>14. UNION {PlaceAfter(r[1], r[2]) : r \in ReadWho(body)} = {<<both, y>>}
      BY <2>13
    <2>15. UNION {ActAfter(r[1], r[2]) : r \in {<<both, y>>}} = {<<all, <<>>>>}
      BY <2>13
    <2>16. \A q : {r[1] : r \in {z \in {<<q, <<>>>>} : z[2] = <<>>}} = {q}
      <3>1. \A q : {z \in {<<q, <<>>>>} : z[2] = <<>>} = {<<q, <<>>>>}
        OBVIOUS
      <3>2. \A q, e : {r[1] : r \in {<<q, e>>}} = {q}
        OBVIOUS
      <3>3. QED
        BY <3>1, <3>2
    <2>17. ReadFrame(body) = {all}
      BY <2>14, <2>15, <2>16, FrameParts
    <2>18. QED
      BY <2>17 DEF all
  <1>8. QED
    BY <1>6, <1>7 DEF FrameReadsBack, n, sent, bodies, barred, Store

-----------------------------------------------------------------------------
(* The status of a vault *)

\* What of a field its kind says of it, where a status looks at it.
Formed(v) ==
  /\ v[1] = TAG_STRING => v = <<TAG_STRING, v[2]>>
  /\ v[1] = TAG_DURATION => v = <<TAG_DURATION, v[2], v[3]>> /\ v[3] \in Int
  /\ v[1] = TAG_DATETIME => v = <<TAG_DATETIME, v[2], v[3]>> /\ v[3] \in Int

\* Microseconds are all of the nanoseconds but those of the last.
LEMMA MicrosLeave ==
  ASSUME NEW n \in Int
  PROVE  \E nanos \in 0 .. NANOS - 1 : n = Micros(n) * NANOS + nanos
  <1>1. NANOS \in Int /\ NANOS > 0
    BY VaultAssumption
  <1>2. ASSUME NEW m \in Int, m > 0, NEW k \in Int
        PROVE  \E r \in 0 .. m - 1 : k = (k \div m) * m + r
    BY <1>2
  <1>3. \E r \in 0 .. NANOS - 1 : n = (n \div NANOS) * NANOS + r
    BY <1>1, <1>2
  <1>4. QED
    BY <1>3 DEF Micros

\* Of the words there are, the one that a field holds.
LEMMA WordIs ==
  ASSUME NEW fields, NEW name, Formed(fields[name]), NEW words, NEW word \in Word(fields, name, words)
  PROVE  fields[name] = <<TAG_STRING, word>> /\ word \in words
  <1>1. fields[name][1] = TAG_STRING /\ fields[name][2] \in words /\ word = fields[name][2]
    BY DEF Word
  <1>2. QED
    BY <1>1 DEF Formed

LEMMA SealsIs ==
  ASSUME NEW fields, SEALS_AT \in DOMAIN fields => Formed(fields[SEALS_AT]), NEW at \in SealsAt(fields)
  PROVE  IF at = Unsaid THEN SEALS_AT \notin DOMAIN fields \/ fields[SEALS_AT] = <<TAG_NONE>>
         ELSE \E nanos \in 0 .. NANOS - 1 :
                fields[SEALS_AT] = <<TAG_DATETIME, at[1], at[2] * NANOS + nanos>>
  <1>1. CASE SEALS_AT \notin DOMAIN fields \/ fields[SEALS_AT] = <<TAG_NONE>>
    BY <1>1 DEF SealsAt
  <1>2. CASE ~(SEALS_AT \notin DOMAIN fields \/ fields[SEALS_AT] = <<TAG_NONE>>)
    <2> DEFINE v == fields[SEALS_AT]
    <2>1. v[1] = TAG_DATETIME /\ at = <<v[2], Micros(v[3])>>
      BY <1>2 DEF SealsAt
    <2>2. Formed(v)
      BY <1>2
    <2> HIDE DEF v
    <2>3. v = <<TAG_DATETIME, v[2], v[3]>> /\ v[3] \in Int
      BY <2>1, <2>2 DEF Formed
    <2>4. at # Unsaid /\ at[1] = v[2] /\ at[2] = Micros(v[3])
      BY <2>1 DEF Unsaid
    <2>5. PICK nanos \in 0 .. NANOS - 1 : v[3] = at[2] * NANOS + nanos
      BY <2>3, <2>4, MicrosLeave
    <2>6. v = <<TAG_DATETIME, at[1], at[2] * NANOS + nanos>>
      BY <2>3, <2>4, <2>5
    <2>7. QED
      BY <2>4, <2>6 DEF v
  <1>3. QED
    BY <1>1, <1>2

\* What a status is made of.
LEMMA StatusIs ==
  ASSUME NEW fields, NEW status \in ReadStatus(<<TAG_OBJECT, fields>>)
  PROVE  /\ SEAL_STATE \in DOMAIN fields /\ UNSEAL_FOR \in DOMAIN fields
         /\ fields[UNSEAL_FOR][1] = TAG_DURATION
         /\ status.state \in Word(fields, SEAL_STATE, STATES)
         /\ status.seals_at \in SealsAt(fields)
         /\ status.unseal_for = <<fields[UNSEAL_FOR][2], Micros(fields[UNSEAL_FOR][3])>>
         /\ status.initialised <=> INITIALISED \in DOMAIN fields /\ fields[INITIALISED] = <<TAG_BOOL, TRUE>>
         /\ status.custody \in Keeper(fields)
  <1> DEFINE v == <<TAG_OBJECT, fields>>
  <1>1. v[1] = TAG_OBJECT /\ v[2] = fields /\ status \in ReadStatus(v)
    OBVIOUS
  <1> HIDE DEF v
  <1>2. {SEAL_STATE, UNSEAL_FOR} \subseteq DOMAIN fields /\ status \in Statuses(fields)
    BY <1>1 DEF ReadStatus
  <1>3. PICK state \in State(fields), at \in SealsAt(fields), custody \in Keeper(fields) :
          status = VaultStatus(fields, state, at, custody)
    BY <1>2 DEF Statuses
  <1>4. fields[UNSEAL_FOR][1] = TAG_DURATION /\ state \in Word(fields, SEAL_STATE, STATES)
    BY DEF State
  <1>5. /\ status.state = state /\ status.seals_at = at /\ status.custody = custody
        /\ status.unseal_for = <<fields[UNSEAL_FOR][2], Micros(fields[UNSEAL_FOR][3])>>
        /\ status.initialised <=> INITIALISED \in DOMAIN fields /\ fields[INITIALISED] = <<TAG_BOOL, TRUE>>
    BY <1>3 DEF VaultStatus
  <1>6. SEAL_STATE \in DOMAIN fields /\ UNSEAL_FOR \in DOMAIN fields
    BY <1>2
  <1>7. QED
    BY <1>4, <1>5, <1>6, Zenon

\* A status says what its fields do, whatever each of them holds (_vault_frame.py:96-128).
THEOREM StatusesSay ==
  \A fields : (\A name \in DOMAIN fields : Formed(fields[name])) => StatusSays(fields)
  <1> SUFFICES ASSUME NEW fields, \A name \in DOMAIN fields : Formed(fields[name]),
                      NEW status \in ReadStatus(<<TAG_OBJECT, fields>>)
               PROVE  /\ fields[SEAL_STATE] = <<TAG_STRING, status.state>> /\ status.state \in STATES
                      /\ \E nanos \in 0 .. NANOS - 1 :
                           fields[UNSEAL_FOR] = <<TAG_DURATION, status.unseal_for[1], status.unseal_for[2] * NANOS + nanos>>
                      /\ IF status.seals_at = Unsaid THEN SEALS_AT \notin DOMAIN fields \/ fields[SEALS_AT] = <<TAG_NONE>>
                         ELSE \E nanos \in 0 .. NANOS - 1 :
                                fields[SEALS_AT] = <<TAG_DATETIME, status.seals_at[1], status.seals_at[2] * NANOS + nanos>>
                      /\ status.initialised <=> INITIALISED \in DOMAIN fields /\ fields[INITIALISED] = <<TAG_BOOL, TRUE>>
                      /\ IF status.custody = Unsaid THEN CUSTODY \notin DOMAIN fields
                         ELSE fields[CUSTODY] = <<TAG_STRING, status.custody>> /\ status.custody \in CUSTODIES
    BY DEF StatusSays
  <1>1. fields[SEAL_STATE] = <<TAG_STRING, status.state>> /\ status.state \in STATES
    BY StatusIs, WordIs
  <1>2. \E nanos \in 0 .. NANOS - 1 :
          fields[UNSEAL_FOR] = <<TAG_DURATION, status.unseal_for[1], status.unseal_for[2] * NANOS + nanos>>
    <2> DEFINE v == fields[UNSEAL_FOR]
               for == status.unseal_for
    <2>1. Formed(v) /\ v[1] = TAG_DURATION /\ for = <<v[2], Micros(v[3])>>
      BY StatusIs
    <2> HIDE DEF v, for
    <2>2. v = <<TAG_DURATION, v[2], v[3]>> /\ v[3] \in Int /\ for[1] = v[2] /\ for[2] = Micros(v[3])
      BY <2>1 DEF Formed
    <2>3. PICK nanos \in 0 .. NANOS - 1 : v[3] = for[2] * NANOS + nanos
      BY <2>2, MicrosLeave
    <2>4. v = <<TAG_DURATION, for[1], for[2] * NANOS + nanos>>
      BY <2>2, <2>3
    <2>5. QED
      BY <2>4 DEF v, for
  <1>3. IF status.seals_at = Unsaid THEN SEALS_AT \notin DOMAIN fields \/ fields[SEALS_AT] = <<TAG_NONE>>
        ELSE \E nanos \in 0 .. NANOS - 1 :
               fields[SEALS_AT] = <<TAG_DATETIME, status.seals_at[1], status.seals_at[2] * NANOS + nanos>>
    <2> DEFINE at == status.seals_at
    <2>1. at \in SealsAt(fields)
      BY StatusIs
    <2> HIDE DEF at
    <2>2. IF at = Unsaid THEN SEALS_AT \notin DOMAIN fields \/ fields[SEALS_AT] = <<TAG_NONE>>
          ELSE \E nanos \in 0 .. NANOS - 1 : fields[SEALS_AT] = <<TAG_DATETIME, at[1], at[2] * NANOS + nanos>>
      BY <2>1, SealsIs
    <2>3. QED
      BY <2>2 DEF at
  <1>4. status.initialised <=> INITIALISED \in DOMAIN fields /\ fields[INITIALISED] = <<TAG_BOOL, TRUE>>
    BY StatusIs
  <1>5. IF status.custody = Unsaid THEN CUSTODY \notin DOMAIN fields
        ELSE fields[CUSTODY] = <<TAG_STRING, status.custody>> /\ status.custody \in CUSTODIES
    <2>1. CASE CUSTODY \in DOMAIN fields
      <3>1. status.custody \in Keeper(fields)
        BY StatusIs
      <3>2. Formed(fields[CUSTODY]) /\ status.custody \in Word(fields, CUSTODY, CUSTODIES)
        BY <2>1, <3>1 DEF Keeper
      <3>3. fields[CUSTODY] = <<TAG_STRING, status.custody>> /\ status.custody \in CUSTODIES
        BY <3>2, WordIs
      <3>4. status.custody # Unsaid
        BY <3>3, VaultAssumption
      <3>5. QED
        BY <3>3, <3>4
    <2>2. CASE CUSTODY \notin DOMAIN fields
      BY StatusIs, <2>2 DEF Keeper
    <2>3. QED
      BY <2>1, <2>2
  <1>6. QED
    BY <1>1, <1>2, <1>3, <1>4, <1>5

\* A value is formed as its kind says.
LEMMA StringIs ==
  ASSUME NEW S, NEW v \in ValuesOf(S), v[1] = TAG_STRING
  PROVE  v \in {TAG_STRING, TAG_REGEX} \X Ascii
  <1>1. \A A, B : v \in A \X B => TAG_STRING \in A
    OBVIOUS
  <1>2. \A A, B, C : v \in A \X B \X C => TAG_STRING \in A
    OBVIOUS
  <1>3. \A tag : v = <<tag>> => TAG_STRING \in {tag}
    OBVIOUS
  <1>4. /\ TAG_STRING \notin {TAG_NONE} /\ TAG_STRING \notin {TAG_NULL} /\ TAG_STRING \notin {TAG_BOOL}
        /\ TAG_STRING \notin {TAG_NUMBER} /\ TAG_STRING \notin {TAG_RECORD}
        /\ TAG_STRING \notin {TAG_BYTES, TAG_UUID} /\ TAG_STRING \notin {TAG_DURATION, TAG_DATETIME}
        /\ TAG_STRING \notin {TAG_TABLE} /\ TAG_STRING \notin {TAG_GEOMETRY}
        /\ TAG_STRING \notin {TAG_ARRAY, TAG_SET} /\ TAG_STRING \notin {TAG_OBJECT}
        /\ TAG_STRING \notin {TAG_RANGE}
    BY DEF TAG_NONE, TAG_NULL, TAG_BOOL, TAG_NUMBER, TAG_STRING, TAG_BYTES, TAG_DURATION, TAG_DATETIME, TAG_UUID,
         TAG_TABLE, TAG_RECORD, TAG_ARRAY, TAG_OBJECT, TAG_RANGE, TAG_SET, TAG_GEOMETRY, TAG_REGEX
  <1>5. QED
    BY ValueIs, <1>1, <1>2, <1>3, <1>4, Zenon

LEMMA TimeIs ==
  ASSUME NEW S, NEW v \in ValuesOf(S), NEW tag \in {TAG_DURATION, TAG_DATETIME}, v[1] = tag
  PROVE  v \in {TAG_DURATION, TAG_DATETIME} \X Int \X Int
  <1>1. \A A, B : v \in A \X B => tag \in A
    OBVIOUS
  <1>2. \A A, B, C : v \in A \X B \X C => tag \in A
    OBVIOUS
  <1>3. \A other : v = <<other>> => tag \in {other}
    OBVIOUS
  <1>4. /\ tag \notin {TAG_NONE} /\ tag \notin {TAG_NULL} /\ tag \notin {TAG_BOOL}
        /\ tag \notin {TAG_NUMBER} /\ tag \notin {TAG_RECORD}
        /\ tag \notin {TAG_BYTES, TAG_UUID} /\ tag \notin {TAG_STRING, TAG_REGEX}
        /\ tag \notin {TAG_TABLE} /\ tag \notin {TAG_GEOMETRY}
        /\ tag \notin {TAG_ARRAY, TAG_SET} /\ tag \notin {TAG_OBJECT}
        /\ tag \notin {TAG_RANGE}
    BY DEF TAG_NONE, TAG_NULL, TAG_BOOL, TAG_NUMBER, TAG_STRING, TAG_BYTES, TAG_DURATION, TAG_DATETIME, TAG_UUID,
         TAG_TABLE, TAG_RECORD, TAG_ARRAY, TAG_OBJECT, TAG_RANGE, TAG_SET, TAG_GEOMETRY, TAG_REGEX
  <1>5. QED
    BY ValueIs, <1>1, <1>2, <1>3, <1>4, Zenon

LEMMA ValuesAreFormed ==
  ASSUME NEW S, NEW v \in ValuesOf(S)
  PROVE  Formed(v)
  <1>1. ASSUME v[1] = TAG_STRING PROVE v = <<TAG_STRING, v[2]>>
    BY <1>1, StringIs
  <1>2. \A A : v \in A \X Int \X Int => v = <<v[1], v[2], v[3]>> /\ v[3] \in Int
    OBVIOUS
  <1>3. ASSUME v[1] = TAG_DURATION PROVE v = <<TAG_DURATION, v[2], v[3]>> /\ v[3] \in Int
    BY <1>3, TimeIs, <1>2
  <1>4. ASSUME v[1] = TAG_DATETIME PROVE v = <<TAG_DATETIME, v[2], v[3]>> /\ v[3] \in Int
    BY <1>4, TimeIs, <1>2
  <1>5. QED
    BY <1>1, <1>3, <1>4 DEF Formed

\* What a node says of a vault that is as it should be.
LEMMA WellFormedIs ==
  /\ DOMAIN WellFormed = {SEAL_STATE, UNSEAL_FOR, SEALS_AT, CUSTODY}
  /\ WellFormed[SEAL_STATE] = <<TAG_STRING, CHOOSE state \in STATES : TRUE>>
  /\ WellFormed[UNSEAL_FOR] = <<TAG_DURATION, 1, 25>>
  /\ WellFormed[SEALS_AT] = <<TAG_DATETIME, 3, 99>>
  /\ WellFormed[CUSTODY] = <<TAG_STRING, CHOOSE custody \in CUSTODIES : TRUE>>
  /\ \A name \in DOMAIN WellFormed : Formed(WellFormed[name])
  <1>1. /\ SEAL_STATE # UNSEAL_FOR /\ SEAL_STATE # SEALS_AT /\ SEAL_STATE # CUSTODY
        /\ UNSEAL_FOR # SEALS_AT /\ UNSEAL_FOR # CUSTODY /\ SEALS_AT # CUSTODY
    BY DEF SEAL_STATE, UNSEAL_FOR, SEALS_AT, CUSTODY
  <1>2. DOMAIN WellFormed = {SEAL_STATE, UNSEAL_FOR, SEALS_AT, CUSTODY}
    BY DEF WellFormed
  <1>3. WellFormed[SEAL_STATE] = <<TAG_STRING, CHOOSE state \in STATES : TRUE>>
    BY <1>1 DEF WellFormed
  <1>4. WellFormed[UNSEAL_FOR] = <<TAG_DURATION, 1, 25>>
    BY <1>1 DEF WellFormed
  <1>5. WellFormed[SEALS_AT] = <<TAG_DATETIME, 3, 99>>
    BY <1>1 DEF WellFormed
  <1>6. WellFormed[CUSTODY] = <<TAG_STRING, CHOOSE custody \in CUSTODIES : TRUE>>
    BY <1>1 DEF WellFormed
  <1>7. /\ \A word : Formed(<<TAG_STRING, word>>)
        /\ Formed(<<TAG_DURATION, 1, 25>>) /\ Formed(<<TAG_DATETIME, 3, 99>>)
    BY DEF Formed, TAG_STRING, TAG_DURATION, TAG_DATETIME
  <1>8. ASSUME NEW name \in DOMAIN WellFormed PROVE Formed(WellFormed[name])
    BY <1>2, <1>3, <1>4, <1>5, <1>6, <1>7
  <1>9. QED
    BY <1>2, <1>3, <1>4, <1>5, <1>6, <1>8, Zenon

LEMMA WellFormedIsRead == ReadStatus(<<TAG_OBJECT, WellFormed>>) # {}
  <1> DEFINE w == WellFormed
             state == CHOOSE x \in STATES : TRUE
             custody == CHOOSE x \in CUSTODIES : TRUE
             for == <<TAG_DURATION, 1, 25>>
             till == <<TAG_DATETIME, 3, 99>>
             v == <<TAG_OBJECT, w>>
  <1>1. state \in STATES /\ custody \in CUSTODIES
    BY VaultAssumption
  <1>2. DOMAIN w = {SEAL_STATE, UNSEAL_FOR, SEALS_AT, CUSTODY}
    BY WellFormedIs
  <1>3. w[SEAL_STATE] = <<TAG_STRING, state>> /\ w[CUSTODY] = <<TAG_STRING, custody>>
    BY WellFormedIs
  <1>4. w[UNSEAL_FOR] = for /\ w[SEALS_AT] = till
    BY WellFormedIs
  <1>5. for[1] = TAG_DURATION /\ till[1] = TAG_DATETIME /\ till # <<TAG_NONE>> /\ v[1] = TAG_OBJECT /\ v[2] = w
    OBVIOUS
  <1>a. for[2] \in Periods /\ till[2] \in Instants
    <2>1. 1 \in 0 .. 3 /\ 3 \in 0 .. 3 /\ for[2] = 1 /\ till[2] = 3
      OBVIOUS
    <2>2. QED
      BY <2>1, VaultAssumption
  <1> HIDE DEF w, state, custody, for, till, v
  <1>6. state \in State(w)
    BY <1>1, <1>3, <1>4, <1>5, <1>a DEF Word, State
  <1>7. custody \in Keeper(w)
    BY <1>1, <1>3, <1>2 DEF Word, Keeper
  <1>8. \E at : at \in SealsAt(w)
    BY <1>2, <1>4, <1>5, <1>a DEF SealsAt
  <1>9. PICK at : at \in SealsAt(w)
    BY <1>8
  <1>10. VaultStatus(w, state, at, custody) \in Statuses(w)
    BY <1>6, <1>7, <1>9 DEF Statuses
  <1>11. ReadStatus(v) = Statuses(w)
    BY <1>2, <1>5 DEF ReadStatus
  <1>12. ReadStatus(v) # {}
    BY <1>10, <1>11
  <1>13. QED
    BY <1>12 DEF v, w

\* The acts of a vault reach the node as they were made, and its status is read as what
\* it says, whatever one of its fields holds (_vault_frame.py:22-56, 96-128).
THEOREM EveryVaultSpeaks == Nesting => []VaultSpeaks
  <1>1. Placed => VaultSpeaks
    <2> SUFFICES ASSUME Placed, depth = 0
                 PROVE  /\ value[1] = TAG_STRING =>
                             \A who \in {Nobody, <<<<97>>, <<0, 1>>>>}, place \in {Store, <<<<97>>, <<98>>, <<>>>>},
                                act \in DOMAIN ACTS :
                               FrameReadsBack(who, act, place, <<value[2], <<98>>>>)
                        /\ ReadStatus(<<TAG_OBJECT, WellFormed>>) # {}
                        /\ \A name \in {SEAL_STATE, UNSEAL_FOR, SEALS_AT, INITIALISED, CUSTODY} :
                             /\ StatusSays(With(name, value))
                             /\ StatusSays([other \in DOMAIN WellFormed \ {name} |-> WellFormed[other]])
      BY DEF VaultSpeaks
    <2>1. PICK S : value \in ValuesOf(S)
      BY PlacedIsValue
    <2>2. ASSUME value[1] = TAG_STRING,
                 NEW who \in {Nobody, <<<< 97 >>, <<0, 1>>>>}, NEW place \in {Store, <<<< 97 >>, << 98 >>, <<>>>>},
                 NEW act \in DOMAIN ACTS
          PROVE  FrameReadsBack(who, act, place, <<value[2], <<98>>>>)
      <3> DEFINE text == value[2]
                 a == <<97>>
                 b == <<98>>
                 c == <<0, 1>>
                 none == <<>>
                 pair == <<text, b>>
                 two == <<a, c>>
                 three == <<a, b, none>>
      <3>1. text \in Ascii
        BY <2>1, <2>2, StringIs
      <3>2. a \in Ascii /\ b \in Ascii /\ c \in Ascii /\ none \in Ascii
        BY DEF Ascii
      <3>3. (who = <<>> \/ who = two) /\ (place = <<>> \/ place = three)
        BY DEF Nobody, Store
      <3> HIDE DEF text, a, b, c, none
      <3>4. /\ pair \in Seq(Ascii) /\ Len(pair) = 2
            /\ two \in Seq(Ascii) /\ Len(two) = 2
            /\ three \in Seq(Ascii) /\ Len(three) = 3
        BY <3>1, <3>2
      <3>5. <<>> \in Seq(Ascii) /\ Len(<<>>) = 0
        OBVIOUS
      <3> HIDE DEF pair, two, three
      <3>6. /\ <<>> \in Creds /\ two \in Creds
            /\ <<>> \in Places /\ three \in Places
            /\ pair \in Phrases
        BY <3>4, <3>5 DEF Creds, Places, Phrases, Texts
      <3>7. who \in Creds /\ place \in Places
        BY <3>3, <3>6, Zenon
      <3>8. FrameReadsBack(who, act, place, pair)
        BY <3>6, <3>7, FramesReadBack
      <3>9. QED
        BY <3>8 DEF pair, text, b
    <2>3. Formed(value)
      BY <2>1, ValuesAreFormed
    <2>4. ASSUME NEW name PROVE StatusSays(With(name, value))
      <3> DEFINE with == With(name, value)
      <3>1. \A other \in DOMAIN with : with[other] = value \/ (other \in DOMAIN WellFormed /\ with[other] = WellFormed[other])
        BY DEF With
      <3> HIDE DEF with
      <3>2. \A other \in DOMAIN with : Formed(with[other])
        BY <2>3, <3>1, WellFormedIs, Zenon
      <3>3. StatusSays(with)
        BY <3>2, StatusesSay
      <3>4. QED
        BY <3>3 DEF with
    <2>5. ASSUME NEW name PROVE StatusSays([other \in DOMAIN WellFormed \ {name} |-> WellFormed[other]])
      <3> DEFINE less == [other \in DOMAIN WellFormed \ {name} |-> WellFormed[other]]
      <3>1. \A other \in DOMAIN less : other \in DOMAIN WellFormed /\ less[other] = WellFormed[other]
        OBVIOUS
      <3> HIDE DEF less
      <3>2. \A other \in DOMAIN less : Formed(less[other])
        BY <3>1, WellFormedIs, Zenon
      <3>3. StatusSays(less)
        BY <3>2, StatusesSay
      <3>4. QED
        BY <3>3 DEF less
    <2>6. QED
      BY <2>2, <2>4, <2>5, WellFormedIsRead
  <1>2. QED
    BY <1>1, ValuesPlaced, PTL
=============================================================================
