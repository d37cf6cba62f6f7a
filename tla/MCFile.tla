------------------------------- MODULE MCFile -------------------------------
(***************************************************************************)
(* An instance of File, with a symmetric pair of threads.                  *)
(***************************************************************************)
EXTENDS File, TLC

Symmetry == Permutations(Threads) \cup Permutations(Files)
=============================================================================
