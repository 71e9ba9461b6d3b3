----------------------------- MODULE MCFsIndex -----------------------------
(***************************************************************************)
(* Three notes, two of them of one id, that link to the id or to the first *)
(* note.  The third exists at the start and links to the id; the first two *)
(* may exist.                                                              *)
(***************************************************************************)
EXTENDS FsIndex, TLC

CONSTANT jd

TheseStarts ==
    {s \in UNION {[D \cup {3} -> {jd, 1}] : D \in SUBSET {1, 2}} : s[3] = jd}

TheseIds == 1 :> jd @@ 2 :> jd @@ 3 :> NoId
=============================================================================
