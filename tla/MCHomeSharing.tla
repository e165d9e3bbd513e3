--------------------------- MODULE MCHomeSharing ---------------------------
(* Inputs for the runs of HomeSharing.                                      *)
EXTENDS HomeSharing

\* The only index an application saves is the empty one.
MCClear == {NoHome}
=============================================================================
