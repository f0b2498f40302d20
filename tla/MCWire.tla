------------------------------- MODULE MCWire -------------------------------
(* An instance of Wire for TLC. *)
EXTENDS Wire

\* Nothing, and what reads like an answer.
MCBodies == {<<>>, <<ANSWER, 0, 0>>}
=============================================================================
