-------------------------------- MODULE Locks --------------------------------
(***************************************************************************)
(* Advisory claims (kernel/locks.ts) under the write queue: a caller       *)
(* claims a scope for a bounded time, and a write that runs inside the     *)
(* claim of another is told so.  Claims, renewals and releases are         *)
(* mutations and take the queue's slot like writes; listing is not.        *)
(*                                                                         *)
(* Expiry is lazy: a claim stays in the table after its time, and every    *)
(* method drops such claims before it does anything else.  A path is the   *)
(* sequence of its segments, and a scope covers what it is a prefix of.    *)
(* A claim is named by the operation that made it.                         *)
(***************************************************************************)
EXTENDS WriteQueue, FiniteSets, SequencesExt

CONSTANTS
    Requests,           \* what is asked for, and who asks
    LockMax,            \* live claims in the store
    LockMaxPerHolder,   \* live claims of one connection
    LockTtlMin,         \* the bounds of a claim's lifetime, in ticks
    LockTtlMax,
    MaxClock            \* bound on the clock

ASSUME LocksAssumption ==
    /\ LockTtlMin \in Nat \ {0} /\ LockTtlMax \in Nat /\ LockTtlMin <= LockTtlMax
    /\ LockMax \in Nat /\ LockMaxPerHolder \in Nat /\ MaxClock \in Nat
    /\ \A r \in Requests :
          /\ r.kind \in {"claim", "renew", "release", "write"}
          /\ r.ttl \in Nat
          /\ r.kind \in {"renew", "release"} => r.of \in Ops

VARIABLES
    clock,      \* the wall clock
    request,    \* operation -> its request, once submitted
    locks,      \* the table: the operation that claimed -> the claim
    outcome,    \* operation -> what came of its request
    told,       \* operation -> the claims of others disclosed to it
    unheard     \* history: write -> live claims of others it was not told of

lockVars == << clock, request, locks, outcome, told, unheard >>
vars == << queueVars, lockVars >>

Holder(o) == request[o].holder
Scope(o) == request[o].scope
Submitted == {o \in Ops : fn[o] # "new"}
Outcomes == {"none", "claimed", "refreshed", "holder_cap", "store_cap",
             "renewed", "released", "missed", "wrote"}

Claim == [expires : Nat]

TypeOK ==
    /\ QueueTypeOK
    /\ clock \in 0..MaxClock
    /\ request \in [Submitted -> Requests]
    /\ \E made \in SUBSET Ops : locks \in [made -> Claim]
    /\ outcome \in [Ops -> Outcomes]
    /\ told \in [Ops -> SUBSET Ops]
    /\ unheard \in [Ops -> SUBSET Ops]
    /\ \A o \in Ops : fn[o] = "returned" => outcome[o] # "none"

Init ==
    /\ QueueInit
    /\ clock = 0
    /\ request = << >>
    /\ locks = << >>
    /\ outcome = [o \in Ops |-> "none"]
    /\ told = [o \in Ops |-> {}]
    /\ unheard = [o \in Ops |-> {}]

-----------------------------------------------------------------------------
(* The store.                                                              *)

Covers(scope, path) == IsPrefix(scope, path)

(* Mutant: a claim inside another's scope is not seen to overlap it.       *)
OverlapFromAbove(a, b) == Covers(a, b)

Overlap(a, b) == Covers(a, b) \/ Covers(b, a)

Live == {l \in DOMAIN locks : locks[l].expires > clock}

Pruned == [l \in Live |-> locks[l]]

Without(table, l) == [m \in DOMAIN table \ {l} |-> table[m]]
With(table, l, claim) == [m \in DOMAIN table \cup {l} |-> IF m = l THEN claim ELSE table[m]]

Clamped(ttl) == IF ttl < LockTtlMin THEN LockTtlMin ELSE IF ttl > LockTtlMax THEN LockTtlMax ELSE ttl

Mine(table, o) == {l \in DOMAIN table : Holder(l) = Holder(o)}
Overlapping(table, o) ==
    {l \in DOMAIN table : Holder(l) # Holder(o) /\ Overlap(Scope(l), Scope(o))}
Until(o) == [expires |-> clock + Clamped(request[o].ttl)]

Answers(o, what) == outcome' = [outcome EXCEPT ![o] = what]

(* Claiming a scope one already holds refreshes that claim; a cap refuses, *)
(* and nobody's claim makes room.                                          *)
DoClaim(o) ==
    LET table == Pruned
        held == {l \in Mine(table, o) : Scope(l) = Scope(o)}
        refused ==
            IF Cardinality(Mine(table, o)) >= LockMaxPerHolder THEN "holder_cap"
            ELSE IF Cardinality(DOMAIN table) >= LockMax THEN "store_cap" ELSE "none"
    IN  IF held = {} /\ refused # "none"
          THEN /\ locks' = table
               /\ Answers(o, refused)
               /\ UNCHANGED told
          ELSE LET l == IF held = {} THEN o ELSE CHOOSE l \in held : TRUE
               IN  /\ locks' = With(table, l, Until(o))
                   /\ Answers(o, IF held = {} THEN "claimed" ELSE "refreshed")
                   /\ told' = [told EXCEPT ![o] = Overlapping(table, o)]

(* Mutant: an identifier is enough to act on a claim.                      *)
AnyoneMay(table, o, l) == l \in DOMAIN table

(* Another's claim, or one that is gone, is a miss.                        *)
May(table, o, l) == l \in Mine(table, o)

DoRenew(o) ==
    LET table == Pruned
        l == request[o].of
    IN  /\ IF May(table, o, l)
             THEN locks' = With(table, l, Until(o)) /\ Answers(o, "renewed")
             ELSE locks' = table /\ Answers(o, "missed")
        /\ UNCHANGED told

DoRelease(o) ==
    LET table == Pruned
        l == request[o].of
    IN  /\ IF May(table, o, l)
             THEN locks' = Without(table, l) /\ Answers(o, "released")
             ELSE locks' = table /\ Answers(o, "missed")
        /\ UNCHANGED told

(* The claims of others that cover any path the operation names.           *)
Foreign(table, o) ==
    {l \in DOMAIN table :
        /\ Holder(l) # Holder(o)
        /\ \E i \in DOMAIN request[o].paths : Covers(Scope(l), request[o].paths[i])}

(* What a write by o lands in, had it been told of nothing.                *)
WrittenInto(o) ==
    {l \in Live :
        Holder(l) # Holder(o) /\ \E p \in ToSet(request[o].paths) : IsPrefix(Scope(l), p)}

-----------------------------------------------------------------------------
(* The operations under the queue.                                         *)

(* An identifier is known once its claim was answered.                     *)
Submit(o, r) ==
    /\ Run(o)
    /\ r.kind \in {"renew", "release"} => outcome[r.of] = "claimed"
    /\ request' = [p \in Submitted \cup {o} |-> IF p = o THEN r ELSE request[p]]
    /\ UNCHANGED << clock, locks, outcome, told, unheard >>

(* The queued closure: the claims are consulted before the handler runs.   *)
Begin(o) ==
    /\ StartFn(o)
    /\ IF request[o].kind = "write"
         THEN /\ told' = [told EXCEPT ![o] = Foreign(Pruned, o)]
              /\ locks' = Pruned
         ELSE UNCHANGED << told, locks >>
    /\ UNCHANGED << clock, request, outcome, unheard >>

(* The handler does what was asked, at some time after it was called.      *)
Perform(o) ==
    /\ fn[o] = "running"
    /\ outcome[o] = "none"
    /\ \/ request[o].kind = "claim" /\ DoClaim(o) /\ UNCHANGED unheard
       \/ request[o].kind = "renew" /\ DoRenew(o) /\ UNCHANGED unheard
       \/ request[o].kind = "release" /\ DoRelease(o) /\ UNCHANGED unheard
       \/ /\ request[o].kind = "write"
          /\ Answers(o, "wrote")
          /\ unheard' = [unheard EXCEPT ![o] = WrittenInto(o) \ told[o]]
          /\ UNCHANGED << locks, told >>
    /\ UNCHANGED << clock, request, queueVars >>

(* The tools of the store turn every failure into a result.                *)
Settle(o) ==
    /\ fn[o] = "running"
    /\ \/ outcome[o] # "none" /\ SettleFn(o, "returned")
       \/ request[o].kind = "write" /\ SettleFn(o, "threw")
    /\ UNCHANGED lockVars

(* Listing is read-only: it takes no slot, and it prunes.                  *)
List ==
    /\ locks' = Pruned
    /\ UNCHANGED << clock, request, outcome, told, unheard, queueVars >>

TimePasses ==
    /\ clock < MaxClock
    /\ clock' = clock + 1
    /\ IF Ticking THEN Tick ELSE UNCHANGED queueVars
    /\ UNCHANGED << request, locks, outcome, told, unheard >>

QueueAlone == (Nudge \/ TimerFires \/ RunPump) /\ UNCHANGED lockVars

Next ==
    \/ \E o \in Ops, r \in Requests : Submit(o, r)
    \/ \E o \in Ops : Begin(o) \/ Perform(o) \/ Settle(o)
    \/ List
    \/ TimePasses
    \/ QueueAlone

Spec == Init /\ [][Next]_vars

-----------------------------------------------------------------------------
(* Properties.                                                             *)

(* Of two live claims of different holders that overlap, the one made      *)
(* later was told of the other, however many have come and gone.           *)
OverlapDisclosed ==
    \A l, m \in Live :
        (Holder(l) # Holder(m) /\ Overlap(Scope(l), Scope(m)))
            => l \in told[m] \/ m \in told[l]

(* The store's invariant: no claim lasts longer than the ceiling from now, *)
(* whoever claimed or renewed it with whatever lifetime.                   *)
CeilingHolds == \A l \in DOMAIN locks : locks[l].expires <= clock + LockTtlMax

(* A write that lands inside the live claim of another was told of it.     *)
(* Claims wait for the slot like writes do, so the one way around it is an *)
(* operation that was abandoned while it ran: the write or the claim.      *)
WriterIsTold ==
    \A o \in Ops : \A l \in unheard[o] : verdict[o] = "timeout" \/ verdict[l] = "timeout"

(* Whoever claims or writes where another holds a live claim is told so: a *)
(* claim stops nobody, so being told of it is all it is good for.          *)
OthersAreTold == OverlapDisclosed /\ WriterIsTold

(* A live claim is never taken from its holder: it goes when its time is   *)
(* up, or when a release of that holder's own asks for it.                 *)
NobodyLosesAClaim ==
    [][\A l \in Live :
          l \notin DOMAIN locks' =>
              \E o \in Submitted :
                  /\ outcome[o] = "none" /\ outcome'[o] = "released"
                  /\ request[o].of = l /\ Holder(o) = Holder(l)]_vars

=============================================================================
