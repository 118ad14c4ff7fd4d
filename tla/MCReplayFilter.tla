--------------------------- MODULE MCReplayFilter ---------------------------
(* Model-checking instance of ReplayFilter: a ring small enough to wrap     *)
(* several times, and more window ids than slots so slots get repurposed. *)
EXTENDS ReplayFilter
=============================================================================
