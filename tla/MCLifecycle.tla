---------------------------- MODULE MCLifecycle ----------------------------
(***************************************************************************)
(* Finite instances of Lifecycle: two graphs of one participant, which are *)
(* interchangeable.                                                        *)
(***************************************************************************)
EXTENDS Lifecycle, TLC

CONSTANTS g1, g2   \* graphs

MCSymmetry == Permutations(Graphs)
=============================================================================
