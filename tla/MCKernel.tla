------------------------------ MODULE MCKernel ------------------------------
(***************************************************************************)
(* Small instances of the kernel.  In the first, calls on no particular    *)
(* note share two idempotency keys, with room to store one result; in the  *)
(* second, calls edit one record note under preconditions that may be      *)
(* stale, and one key is presented with and without a precondition.        *)
(***************************************************************************)
EXTENDS Kernel, TLC

CONSTANTS key1, key2, edit, append, note

Sym == Permutations(Ops)

NoPaths == [r \in Requests |-> << >>]
OneNote == [r \in Requests |-> << note >>]

KeyedAsks == {[key |-> x, req |-> edit, ifRev |-> NoRev] : x \in Keys}
GuardedAsks == {[key |-> key1, req |-> edit, ifRev |-> NoRev],
                [key |-> key1, req |-> edit, ifRev |-> 0],
                [key |-> NoKey, req |-> append, ifRev |-> 1]}
=============================================================================
