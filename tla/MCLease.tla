------------------------------ MODULE MCLease ------------------------------
(* An instance of Lease for TLC. *)
EXTENDS Lease

\* One of them takes the lock under a name of its own.
MCNamed == [c \in Callers |-> IF c = "a" THEN {"report"} ELSE {}]
=============================================================================
