---------------------------- MODULE MCStreamPool ----------------------------
(* StreamPool for TLC.  Actors and threads are names that can be permuted.  *)
EXTENDS StreamPool, TLC

Symmetry == Permutations(Actor) \cup Permutations(Thread)
=============================================================================
