----------------------------- MODULE MCDatagram -----------------------------
(* Model-checking instances of Datagram: one socket reads, and writes to   *)
(* itself; another one, with an address of another family, writes to it.   *)
EXTENDS Datagram, TLC

CONSTANTS a, u, r1, r2, r3, w1, w2

MCOn == [x \in Calls |-> IF x = w2 THEN u ELSE a]
MCCount == r1 :> 1 @@ r2 :> 2 @@ r3 :> 5 @@ w1 :> 2 @@ w2 :> 1
=============================================================================
