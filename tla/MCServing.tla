------------------------------ MODULE MCServing ------------------------------
(***************************************************************************)
(* Two sessions under a cap of one, a plugin that changes twice and is     *)
(* slow to answer once.                                                    *)
(***************************************************************************)
EXTENDS Serving
=============================================================================
