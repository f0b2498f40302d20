--------------------------- MODULE MCHTTPSession ---------------------------
(* Small instances of HTTPSession for TLC. *)
EXTENDS HTTPSession
=============================================================================
