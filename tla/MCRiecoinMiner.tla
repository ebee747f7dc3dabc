--------------------------- MODULE MCRiecoinMiner ---------------------------
(* Small instances of RiecoinMiner for TLC. *)
EXTENDS RiecoinMiner, TLC

Symmetry == Permutations(MinerThreads)
=============================================================================
