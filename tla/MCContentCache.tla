--------------------------- MODULE MCContentCache --------------------------
(* ContentCache on small instances.                                         *)
EXTENDS ContentCache, TLC

\* Connections are interchangeable.
Symm == Permutations(Conns)
=============================================================================
