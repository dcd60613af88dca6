------------------------ MODULE MCSharedDescription ------------------------
(* Instance of SharedDescription for TLC.                                  *)
EXTENDS SharedDescription, TLC

Symmetry == Permutations(Threads) \cup Permutations(Blocks)
=============================================================================
