--------------------------- MODULE MCHomeLedger ----------------------------
(* Inputs and symmetry for the runs of HomeLedger.                          *)
EXTENDS HomeLedger, TLC

\* The only index an application saves is the empty one.
MCClear == {NoHome}

\* Names and own objects are interchangeable.
Symmetry == Permutations(Names) \cup Permutations(Own)
=============================================================================
