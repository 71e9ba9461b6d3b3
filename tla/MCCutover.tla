----------------------------- MODULE MCCutover ------------------------------
(***************************************************************************)
(* Small instances of the cutover.                                         *)
(***************************************************************************)
EXTENDS Cutover, TLC

CONSTANTS r1, cut, again, bind, rollback, pane

Alike == Permutations(Cutovers)
=============================================================================
