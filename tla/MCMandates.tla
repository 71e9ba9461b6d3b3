----------------------------- MODULE MCMandates -----------------------------
(***************************************************************************)
(* Small instances of the mandate store.  Identifiers are numbers, so that *)
(* the next one minted is the least unused.                                *)
(***************************************************************************)
EXTENDS Mandates, TLC

CONSTANTS agent, observer, pane, other

TheseCallers == Agents \cup Humans
TheseIds == 1..5
Alike == Permutations(Agents)
=============================================================================
