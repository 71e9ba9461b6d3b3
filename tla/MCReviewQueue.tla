--------------------------- MODULE MCReviewQueue ---------------------------
(***************************************************************************)
(* One note, written in an auto-accepted class, and another call's record. *)
(***************************************************************************)
EXTENDS ReviewQueue

CONSTANTS note
=============================================================================
