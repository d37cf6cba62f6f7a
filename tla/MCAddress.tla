----------------------------- MODULE MCAddress -----------------------------
(***************************************************************************)
(* An instance of Address: bytes of one bit, numbers of two bytes.         *)
(***************************************************************************)
EXTENDS Address

Symmetry == Permutations(Objects)
MCDatas4 == {<<0, 1>>, <<1, 0>>}
MCDatas6 == {<<0, 1, 1>>, <<1, 0, 0>>}
V6(data, scope) == [type |-> "IPv6", data |-> data, scope |-> scope]
First == [type |-> "IPv4", data |-> <<0, 1>>, scope |-> 0]

\* None, none of the two families, another family between, and a scope of each kind.
MCLists == {<<>>, <<Nothing>>, <<First, Nothing, V6(<<0, 1, 1>>, 3)>>, <<V6(<<1, 0, 0>>, 1), First>>}
=============================================================================
