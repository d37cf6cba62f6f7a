------------------------------ MODULE MCSocket ------------------------------
(* Model-checking instances of Socket.                                     *)
EXTENDS Socket, TLC

Symmetry == Permutations(Handles) \cup Permutations(Families)
=============================================================================
