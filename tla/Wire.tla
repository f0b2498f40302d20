-------------------------------- MODULE Wire --------------------------------
(***************************************************************************)
(* One wire connection and its bytes (src/src/tessaridb/_frames.py and     *)
(* connection.py; the vault's acts of vault.py): the greeting, the calls   *)
(* that send a frame and read one, each read in as many pieces as the      *)
(* socket gives, and the ends a connection can come to.  A call may be     *)
(* interrupted while it waits (an exception raised by a signal handler).   *)
(*                                                                         *)
(* The peer is outside the repository: it may be no node, speak another    *)
(* version, answer with any kind and length, and stop after any byte.      *)
(***************************************************************************)
EXTENDS Integers, Sequences, SequencesExt

CONSTANTS
  HasUser,        \* whether the connection was given a user
  Minors,         \* the minors a node may greet with
  CEILING,        \* the longest body
  Bodies,         \* the bodies a node answers with
  MaxCalls,       \* bound: calls
  MaxInterrupts   \* bound: calls interrupted

ASSUME WireAssumption ==
  /\ HasUser \in BOOLEAN
  /\ Minors \subseteq 0 .. 255 /\ Bodies \subseteq Seq(0 .. 255)
  /\ CEILING \in Nat /\ CEILING + 1 < 256 * 256   \* a length past it can be announced
  /\ \A body \in Bodies : Len(body) < 256 * 256
  /\ {MaxCalls, MaxInterrupts} \subseteq Nat

VARIABLES
  \* the peer
  wire,        \* bytes sent and not yet received, each with the call it answers
  peer,        \* whether it still sends, ended the stream or reset it
  asked,       \* calls it received and has not answered
  replies,     \* history: what it sent for each call
  presented,   \* how many frames with credentials it received
  cut,         \* history: whether it stopped inside a frame
  \* the client
  pc,
  open,        \* whether the socket is open
  owed,        \* Connection._owed
  minor,       \* Connection.minor
  took,        \* the bytes received of the greeting, or of the frame being read
  calls,
  result,      \* how the last call, or the greeting, ended
  interrupts

node == <<asked, replies, presented, cut>>
vars == <<wire, peer, node, pc, open, owed, minor, took, calls, result, interrupts>>

MAGIC == <<84, 69, 83, 83>>
MAJOR == 1
HEADER == 3   \* the kind and the length, in two bytes for the code's four
ANSWER == 2
REFUSAL == 3
CHANGE == 5
ELSEWHERE == 13
VAULT == 17   \* a kind of frame that no node sends
VAULT_MINOR == 2
DECLARE_MINOR == 6
PROGRESS == 37
FROM_NODE == {ANSWER, REFUSAL, CHANGE, ELSEWHERE, PROGRESS}

BytesOf(stream) == [i \in DOMAIN stream |-> stream[i].byte]
\* The bytes a peer sends for a call, the last of them marked.
Sent(bytes, call) ==
  [i \in DOMAIN bytes |-> [byte |-> bytes[i], call |-> call, last |-> i = Len(bytes)]]

Greetings == {MAGIC \o <<MAJOR, m>> : m \in Minors}
               \cup {MAGIC \o <<MAJOR + 1, 0>>, <<72, 84, 84, 80>>, <<84, 69, 72>>}

Init ==
  /\ \E greeting \in Greetings : wire = Sent(greeting, 0)
  /\ peer = "up" /\ asked = <<>> /\ replies = [c \in 1 .. MaxCalls |-> <<>>]
  /\ presented = 0 /\ cut = FALSE
  /\ pc = "magic" /\ open = TRUE /\ owed = HasUser /\ minor = 0
  /\ took = <<>> /\ calls = 0 /\ result = "none" /\ interrupts = 0

-----------------------------------------------------------------------------
(* The peer *)

\* It answers the calls in order, with a length that may be past the ceiling.
Answers ==
  /\ peer = "up" /\ asked # <<>>
  /\ \E kind \in FROM_NODE \cup {VAULT}, body \in Bodies :
       \E length \in {Len(body), CEILING + 1} :
         LET frame == Sent(<<kind, length \div 256, length % 256>> \o body, Head(asked)) IN
         /\ wire' = wire \o frame
         /\ replies' = [replies EXCEPT ![Head(asked)] = frame]
  /\ asked' = Tail(asked)
  /\ UNCHANGED <<peer, presented, cut, pc, open, owed, minor, took, calls, result, interrupts>>

\* It stops, after any of the bytes it was sending.
Stops ==
  /\ peer = "up"
  /\ \E n \in 0 .. Len(wire) :
       LET sent == took \o SubSeq(wire, 1, n) IN
       /\ wire' = SubSeq(wire, 1, n)
       /\ cut' = (sent # <<>> /\ ~Last(sent).last)
  /\ peer' = "ended"
  /\ UNCHANGED <<asked, replies, presented, pc, open, owed, minor, took, calls, result, interrupts>>

Resets ==
  /\ peer = "up" /\ peer' = "reset" /\ wire' = <<>>
  /\ UNCHANGED <<node, pc, open, owed, minor, took, calls, result, interrupts>>

-----------------------------------------------------------------------------
(* Reading, in pieces *)

\* How many bytes took holds when the piece being read is whole.
Wanted ==
  CASE pc = "magic" -> Len(MAGIC)
    [] pc = "version" -> Len(MAGIC) + 2
    [] pc = "first" -> 1
    [] pc = "length" -> HEADER
    [] pc = "body" -> HEADER + 256 * took[2].byte + took[3].byte

Reading == {"magic", "version", "first", "length", "body"}

Receives(n) ==
  /\ n \in 0 .. Len(wire)
  /\ took' = took \o SubSeq(wire, 1, n)
  /\ wire' = SubSeq(wire, n + 1, Len(wire))
  /\ UNCHANGED <<peer, node, owed, calls, interrupts>>

\* The piece comes whole.
Whole == Receives(Wanted - Len(took))

\* Mutant: the magic is looked at when all of it is there.
Part_Waits ==
  /\ pc \in Reading
  /\ \E n \in 1 .. Wanted - Len(took) - 1 : Receives(n)
  /\ UNCHANGED <<pc, open, minor, result>>

\* Some of it comes, and more is asked for.
Part ==
  /\ pc \in Reading
  /\ \E n \in 1 .. Wanted - Len(took) - 1 : Receives(n)
  /\ pc = "magic" => IsPrefix(BytesOf(took'), MAGIC)
  /\ UNCHANGED <<pc, open, minor, result>>

Goes(where) == pc' = where /\ UNCHANGED <<open, result>>
Returns(how) == pc' = "idle" /\ result' = how /\ UNCHANGED open
\* A failure that closes the connection, or gives none.
Closes(how) ==
  /\ pc' = IF pc \in {"magic", "version"} THEN "over" ELSE "idle"
  /\ open' = FALSE /\ result' = how

\* The magic is judged on the bytes that came.
NotMagic ==
  /\ pc = "magic"
  /\ \E n \in 1 .. Wanted - Len(took) : Receives(n)
  /\ ~IsPrefix(BytesOf(took'), MAGIC)
  /\ Closes("not this protocol") /\ UNCHANGED minor

ReadMagic ==
  /\ pc = "magic" /\ Whole
  /\ BytesOf(took') = MAGIC
  /\ Goes("version") /\ UNCHANGED minor

ReadVersion ==
  /\ pc = "version" /\ Whole
  /\ \/ took'[5].byte = MAJOR /\ minor' = took'[6].byte /\ Returns("greeted")
     \/ took'[5].byte # MAJOR /\ Closes("wrong version") /\ UNCHANGED minor

ReadFirst == pc = "first" /\ Whole /\ Goes("length") /\ UNCHANGED minor

\* Mutant: a frame past the ceiling is refused and the connection kept.
ReadLength_Keeps ==
  /\ pc = "length" /\ Whole
  /\ LET length == 256 * took'[2].byte + took'[3].byte IN
       \/ length > CEILING /\ Returns("too large")
       \/ length <= CEILING /\ took'[1].byte \notin FROM_NODE /\ Closes("unknown frame")
       \/ length <= CEILING /\ took'[1].byte \in FROM_NODE /\ Goes("body")
  /\ UNCHANGED minor

ReadLength ==
  /\ pc = "length" /\ Whole
  /\ LET length == 256 * took'[2].byte + took'[3].byte IN
       \/ length > CEILING /\ Closes("too large")
       \/ length <= CEILING /\ took'[1].byte \notin FROM_NODE /\ Closes("unknown frame")
       \/ length <= CEILING /\ took'[1].byte \in FROM_NODE /\ Goes("body")
  /\ UNCHANGED minor

\* A body that cannot be read, or is not what a vault's act is answered with,
\* is malformed; a change or a progress outside a feed is an unknown frame.
ReadBody ==
  /\ pc = "body" /\ Whole
  /\ \/ took[1].byte = ANSWER /\ (Returns("answer") \/ Returns("malformed"))
     \/ took[1].byte = REFUSAL /\ Returns("refused")
     \/ took[1].byte = ELSEWHERE /\ (Returns("redirect") \/ Returns("malformed"))
     \/ took[1].byte \in {CHANGE, PROGRESS} /\ Closes("unknown frame")
  /\ UNCHANGED minor

\* The stream ends: between frames, inside one, or before a greeting.
ReadEnd ==
  /\ pc \in Reading /\ wire = <<>> /\ peer = "ended" /\ Len(took) < Wanted
  /\ Closes(IF pc = "magic" /\ took = <<>> THEN "not this protocol"
            ELSE IF pc = "first" THEN "hung up" ELSE "truncated")
  /\ UNCHANGED <<wire, peer, node, owed, minor, took, calls, interrupts>>

ReadFails ==
  /\ pc \in Reading /\ peer = "reset" /\ Closes("io")
  /\ UNCHANGED <<wire, peer, node, owed, minor, took, calls, interrupts>>

-----------------------------------------------------------------------------
(* The calls *)

\* A frame is sent, with the credentials when they are owed.
Sends ==
  /\ pc = "idle" /\ open /\ calls < MaxCalls
  /\ calls' = calls + 1
  /\ asked' = IF peer = "up" THEN Append(asked, calls') ELSE asked
  /\ presented' = IF owed /\ peer = "up" THEN presented + 1 ELSE presented
  /\ took' = <<>> /\ Goes("first")
  /\ UNCHANGED <<wire, peer, replies, cut, minor, interrupts>>

Ask == Sends /\ owed' = FALSE

\* The least minors that know an act: the frame's, and that of the act that declares.
ActMinors == {VAULT_MINOR, DECLARE_MINOR}

\* Mutant: a vault's act leaves the credentials owed.
Act_Owes == (\E least \in ActMinors : minor >= least) /\ Sends /\ UNCHANGED owed

\* An act on a vault, sent to no node that would not know it.
Act == (\E least \in ActMinors : minor >= least) /\ Sends /\ owed' = FALSE

\* A request past the ceiling, or to a socket that fails, is not sent; the
\* credentials are spent and the connection left as it is.
AskUnsent(how) ==
  /\ pc = "idle" /\ open /\ calls < MaxCalls
  /\ how = "io" => peer # "up"
  /\ calls' = calls + 1 /\ owed' = FALSE /\ result' = how
  /\ took' = <<>>
  /\ UNCHANGED <<wire, peer, node, pc, open, minor, interrupts>>

\* An exception from outside ends a call that is waiting, and nothing is closed.
Interrupted ==
  /\ pc \in {"first", "length", "body"} /\ interrupts < MaxInterrupts
  /\ interrupts' = interrupts + 1
  /\ Returns("interrupted")
  /\ UNCHANGED <<wire, peer, node, owed, minor, took, calls>>

Next ==
  \/ Answers \/ Stops \/ Resets
  \/ Part \/ NotMagic \/ ReadMagic \/ ReadVersion \/ ReadFirst \/ ReadLength
  \/ ReadBody \/ ReadEnd \/ ReadFails
  \/ Ask \/ Act \/ AskUnsent("too large") \/ AskUnsent("io") \/ Interrupted

Spec == Init /\ [][Next]_vars

-----------------------------------------------------------------------------
(* Properties *)

Items == [byte : 0 .. 255, call : 0 .. MaxCalls, last : BOOLEAN]
Streams == Seq(Items)
Results == {"none", "greeted", "not this protocol", "wrong version", "truncated", "io",
            "hung up", "too large", "unknown frame", "answer", "malformed", "refused",
            "redirect", "interrupted"}

\* Every variable has its type (_frames.py, connection.py).
TypeOK ==
  /\ wire \in Streams /\ took \in Streams
  /\ peer \in {"up", "ended", "reset"} /\ cut \in BOOLEAN
  /\ asked \in Seq(1 .. MaxCalls) /\ replies \in [1 .. MaxCalls -> Streams]
  /\ pc \in Reading \cup {"idle", "over"} /\ result \in Results
  /\ open \in BOOLEAN /\ owed \in BOOLEAN
  /\ minor \in Nat /\ presented \in Nat
  /\ calls \in 0 .. MaxCalls /\ interrupts \in 0 .. MaxInterrupts

\* A call that comes back with what the node said came back with the frame the
\* node sent for it, byte for byte, however many pieces it came in and whatever
\* calls failed before, as long as none was interrupted (connection.py:182-189).
Paired ==
  interrupts = 0 /\ pc = "idle" /\ result \in {"answer", "refused", "redirect", "malformed"}
    => took = replies[calls]

\* What the bytes of a peer say of it, read at once.
Judged(bytes) ==
  IF bytes = <<>> \/ ~(IsPrefix(bytes, MAGIC) \/ IsPrefix(MAGIC, bytes))
  THEN "not this protocol"
  ELSE IF Len(bytes) < Len(MAGIC) + 2 THEN "truncated"
  ELSE IF bytes[5] # MAJOR THEN "wrong version" ELSE "greeted"

\* A peer is named for what it sent and not for the pieces that came in: one that
\* is not a node is never reported as a cut connection, and one that hung up
\* between frames and one cut off inside a frame are told apart
\* (_frames.py:17-20, 127-132).
NamedForWhatItSent ==
  /\ pc = "over" /\ result # "io" => result = Judged(BytesOf(took \o wire))
  /\ interrupts = 0 /\ pc = "idle" =>
       /\ result = "hung up" => ~cut
       /\ result = "truncated" => cut

\* The credentials go out once, whichever of a script and a vault's act is the
\* first to be sent (connection.py:252-263, 283-295).
PresentedOnce == presented <= 1
=============================================================================
