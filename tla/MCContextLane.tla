---------------------------- MODULE MCContextLane ----------------------------
(* ContextLane for TLC.  Three long requests are one that holds the lane,  *)
(* one that waits and one that finds the queue full; the ordinary ones     *)
(* share only the counter.  The long requests are interchangeable; the     *)
(* liveness of the lane is checked without symmetry, in MCLiveness.        *)
EXTENDS ContextLane

Symmetry == Permutations(Long)
=============================================================================
