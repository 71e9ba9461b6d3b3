----------------------------- MODULE MCAdmission -----------------------------
(***************************************************************************)
(* Small instances of admission over two proposals.                        *)
(***************************************************************************)
EXTENDS Admission, TLC

CONSTANTS p1, p2, click, again, group, sweep1, sweep2, undo, write1

Act(kind, members, digest, gesture) ==
    [kind |-> kind, members |-> members, digest |-> digest, gesture |-> gesture]

(* One proposal is admitted by two clicks and is in a cohort, admitted on  *)
(* the gesture of one of the clicks; it may be reverted; and a mandate     *)
(* sweeps it and the other proposal up in two cohorts.                     *)
AllActs ==
    click  :> Act("item", {p1}, "p1", "g1") @@
    again  :> Act("item", {p1}, "p1", "g2") @@
    group  :> Act("cohort", {p1, p2}, "both", "g2") @@
    sweep1 :> Act("mandate", {p1}, "swept p1", NoGesture) @@
    sweep2 :> Act("mandate", {p2}, "swept p2", NoGesture) @@
    undo   :> Act("revert", {p1}, "undo", "g3")

TheseActs == [a \in Acts |-> AllActs[a]]

(* In the first instance the clicks and the cohort race each other, or a   *)
(* click races a revert; in the second the sweeps race each other and a    *)
(* write charged to their mandate, or one of them races a revert.          *)
GestureOccasions == {{click, again, group}, {click, undo}}
MandateOccasions == {{sweep1, sweep2, write1}, {sweep1, undo}}

AllDigests == {"p1", "both", "swept p1", "swept p2", "undo"}
AllGestures == {"g1", "g2", "g3"}
=============================================================================
