----------------------------- MODULE MCHandshake -----------------------------
(***************************************************************************)
(* Instances of Handshake for TLC.  The configurations choose the tasks,   *)
(* which operations they call and how many.                                *)
(***************************************************************************)
EXTENDS Handshake, TLC

\* The callers of the high-level API (api.rs uses only ensure_ready), beside
\* tasks that send the notification themselves.
ManagedOps == AllOps \ {"initialize", "raw_initialize"}

\* Tasks are interchangeable: no operator chooses one of them.
TaskSymmetry == Permutations(Callers)
=============================================================================
