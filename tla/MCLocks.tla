------------------------------ MODULE MCLocks ------------------------------
(***************************************************************************)
(* Three operations, each any of: claims of two connections of which one   *)
(* scope contains the other, a third connection's claim elsewhere and its  *)
(* move of a note from there into both, a renewal and two releases.        *)
(***************************************************************************)
EXTENDS Locks

Request(kind, holder, scope, paths, of, ttl) ==
    [kind |-> kind, holder |-> holder, scope |-> scope, paths |-> paths, of |-> of, ttl |-> ttl]

TheseRequests ==
    { Request("claim", "a", << "P" >>, << >>, NoOp, 1),
      Request("claim", "b", << "P", "n" >>, << >>, NoOp, 5),
      Request("claim", "b", << "Q" >>, << >>, NoOp, 1),
      Request("claim", "c", << "Q" >>, << >>, NoOp, 0),
      Request("write", "c", << >>, << << "Q", "n" >>, << "P", "n" >> >>, NoOp, 1) }
    \cup { Request("renew", "a", << >>, << >>, o, 2) : o \in Ops }
    \cup { Request("release", h, << >>, << >>, o, 1) : h \in {"a", "b"}, o \in Ops }

Alike == Permutations(Ops)
=============================================================================
