---------------------------- MODULE MCDirectory ----------------------------
(***************************************************************************)
(* An instance of Directory: four trees of three directories and files.    *)
(***************************************************************************)
EXTENDS Directory

CONSTANTS a, b, r, d, e

Entries(x, y) == [n \in Names |-> IF n = a THEN x ELSE y]
Tree(fr, fd, fe) == [x \in Dirs |-> IF x = r THEN fr ELSE IF x = d THEN fd ELSE fe]
Empty == Entries(None, None)

\* An empty one, two names deep, two directories, and a link back to the root.
MCTrees == {
  Tree(Empty, Empty, Empty),
  Tree(Entries(d, File), Entries(File, None), Empty),
  Tree(Entries(d, e), Entries(None, File), Empty),
  Tree(Entries(d, File), Entries(r, None), Empty) }
=============================================================================
