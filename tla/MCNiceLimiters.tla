--------------------------- MODULE MCNiceLimiters ---------------------------
(* Two incarnations of the pid; a process at the default nice value, or so
   far degraded by its owner that the hydrated guess would pass the limit. *)
EXTENDS NiceLimiters

MCNatives == {0, 16}
MCTiers == {5, 10}
=============================================================================
