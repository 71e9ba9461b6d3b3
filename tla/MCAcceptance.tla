---------------------------- MODULE MCAcceptance ----------------------------
EXTENDS Acceptance, TLC

CONSTANTS p, q, body, value, typed

PathsAlike == Permutations(Paths)
=============================================================================
