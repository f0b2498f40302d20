------------------------------ MODULE MCCache ------------------------------
(* An instance of Cache for TLC. *)
EXTENDS Cache
=============================================================================
