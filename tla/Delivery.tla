------------------------------ MODULE Delivery ------------------------------
(***************************************************************************)
(* What a change feed promises its caller: changes are delivered in the   *)
(* order they were published, none twice and none for ever left waiting.  *)
(* A whole feed skips nothing.  Any other may skip the rest of a unit it  *)
(* delivered the beginning of, and begins every unit.  There is no        *)
(* connection, no resume point and no frame here.                         *)
(***************************************************************************)
EXTENDS Integers, Sequences

VARIABLES
  published,  \* the changes the store logged, each with its unit and whether the feed wants it
  delivered,  \* the positions of the changes handed to the caller
  whole       \* whether the feed can go on from inside a unit

vars == <<published, delivered, whole>>

Init == published = <<>> /\ delivered = <<>> /\ whole \in BOOLEAN

Delivered(k) == \E d \in DOMAIN delivered : delivered[d] = k
Begun(k) == \E j \in 1 .. k - 1 : published[j].unit = published[k].unit /\ Delivered(j)

\* A commit publishes some changes at once.
Publish ==
  /\ Len(published') > Len(published)
  /\ SubSeq(published', 1, Len(published)) = published
  /\ UNCHANGED <<delivered, whole>>

Deliver(k) ==
  /\ published[k].wanted
  /\ \A j \in k .. Len(published) : ~Delivered(j)
  /\ \A j \in 1 .. k - 1 : published[j].wanted /\ ~Delivered(j) => ~whole /\ Begun(j)
  /\ delivered' = Append(delivered, k)
  /\ UNCHANGED <<published, whole>>

Next == Publish \/ \E k \in DOMAIN published : Deliver(k)

Safety == Init /\ [][Next]_vars

\* What cannot be skipped is delivered in the end.
Owed(k) == whole \/ ~Begun(k)

Spec == Safety /\ WF_vars(\E k \in DOMAIN published : Owed(k) /\ Deliver(k))
=============================================================================
