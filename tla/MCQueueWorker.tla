--------------------------- MODULE MCQueueWorker ---------------------------
(* Instances of QueueWorker for TLC. *)
EXTENDS QueueWorker

\* One name for all of them, and a name for each.
MCNamings == {[w \in Workers |-> "resizer"], [w \in Workers |-> w]}
=============================================================================
