----------------------------- MODULE LocksProofs -----------------------------
(***************************************************************************)
(* Proofs about Locks: the types, and that a claim is disclosed, bounded,  *)
(* kept, and told to whoever writes into it.                               *)
(***************************************************************************)
EXTENDS Locks, WriteQueueProofs

-----------------------------------------------------------------------------
(* The inductive invariant.                                                *)

(* A claim in the table was made by an operation that answered "claimed",  *)
(* and only what has run has an outcome.                                   *)
ClaimsWereMade ==
    /\ \A l \in DOMAIN locks : outcome[l] = "claimed"
    /\ \A o \in Ops : outcome[o] # "none" => fn[o] \in {"running", "returned", "threw"}

(* `o` was told of the claim `l`, or one of the two was abandoned.         *)
Heard(o, l) == l \in told[o] \/ verdict[o] = "timeout" \/ verdict[l] = "timeout"

(* A write between its consultation of the claims and its effect knows of  *)
(* every claim of another on its paths.                                    *)
WritersHeard ==
    \A o \in Ops :
        fn[o] = "running" /\ request[o].kind = "write" /\ outcome[o] = "none"
            => \A l \in Foreign(locks, o) : Heard(o, l)

LocksInv ==
    /\ QueueInv
    /\ TypeOK
    /\ ClaimsWereMade
    /\ OverlapDisclosed
    /\ CeilingHolds
    /\ WritersHeard
    /\ WriterIsTold

-----------------------------------------------------------------------------
(* The table.                                                              *)

IsTable(t) == \E made \in SUBSET Ops : t \in [made -> Claim]

LEMMA TableForm ==
    ASSUME NEW t, IsTable(t)
    PROVE  DOMAIN t \in SUBSET Ops /\ t \in [DOMAIN t -> Claim]
  BY DEF IsTable

(* Dropping expired claims leaves the live ones as they are.               *)
LEMMA PrunedTable ==
    ASSUME IsTable(locks)
    PROVE  /\ IsTable(Pruned) /\ DOMAIN Pruned = Live
           /\ Live \subseteq DOMAIN locks
           /\ \A l \in Live : Pruned[l] = locks[l]
<1>1. Live \subseteq DOMAIN locks
  BY DEF Live
<1>2. Pruned \in [Live -> Claim] /\ Live \in SUBSET Ops
  BY <1>1, TableForm DEF Pruned
<1> QED  BY <1>1, <1>2 DEF IsTable, Pruned

LEMMA WithTable ==
    ASSUME NEW t, IsTable(t), NEW l \in Ops, NEW c \in Claim
    PROVE  /\ IsTable(With(t, l, c)) /\ DOMAIN With(t, l, c) = DOMAIN t \cup {l}
           /\ With(t, l, c)[l] = c
           /\ \A m \in DOMAIN t \ {l} : With(t, l, c)[m] = t[m]
<1>1. With(t, l, c) \in [DOMAIN t \cup {l} -> Claim] /\ DOMAIN t \cup {l} \in SUBSET Ops
  BY TableForm DEF With
<1> QED  BY <1>1 DEF IsTable, With

LEMMA WithoutTable ==
    ASSUME NEW t, IsTable(t), NEW l
    PROVE  /\ IsTable(Without(t, l)) /\ DOMAIN Without(t, l) = DOMAIN t \ {l}
           /\ \A m \in DOMAIN t \ {l} : Without(t, l)[m] = t[m]
<1>1. Without(t, l) \in [DOMAIN t \ {l} -> Claim] /\ DOMAIN t \ {l} \in SUBSET Ops
  BY TableForm DEF Without
<1> QED  BY <1>1 DEF IsTable, Without

(* A claim or a renewal lasts no longer than the ceiling from now.         *)
LEMMA UntilBounded ==
    ASSUME TypeOK, NEW o \in Submitted
    PROVE  Until(o) \in Claim /\ Until(o).expires <= clock + LockTtlMax
<1>1. request[o].ttl \in Nat
  BY LocksAssumption DEF TypeOK
<1>2. Clamped(request[o].ttl) \in Nat /\ Clamped(request[o].ttl) <= LockTtlMax
  BY <1>1, LocksAssumption DEF Clamped
<1> QED  BY <1>2, LocksAssumption DEF Until, Claim, TypeOK

(* What the store can do for `o`: nothing but drop what has expired; give  *)
(* a live claim of o's holder, or a new one in o's name, the time o asks   *)
(* for; or drop the live claim o releases.                                 *)
Drops(o) == locks' = Pruned /\ UNCHANGED told /\ outcome'[o] # "claimed"
Extends(o) ==
    \E l \in Live : locks' = With(Pruned, l, Until(o)) /\ outcome'[o] # "claimed"
Makes(o) ==
    /\ locks' = With(Pruned, o, Until(o))
    /\ outcome'[o] = "claimed"
    /\ told'[o] = Overlapping(Pruned, o)
Releases(o) ==
    /\ request[o].of \in Mine(Pruned, o)
    /\ locks' = Without(Pruned, request[o].of)
    /\ outcome'[o] = "released"
    /\ UNCHANGED told

LEMMA StoreSteps ==
    ASSUME LocksInv, NEW o \in Ops, Perform(o), request[o].kind # "write"
    PROVE  /\ Drops(o) \/ Extends(o) \/ Makes(o) \/ Releases(o)
           /\ \E what \in Outcomes \ {"none"} : outcome' = [outcome EXCEPT ![o] = what]
           /\ told' \in [Ops -> SUBSET Ops]
           /\ \A p \in Ops \ {o} : told'[p] = told[p]
           /\ UNCHANGED unheard
<1> USE DEF LocksInv, TypeOK, Outcomes, Answers
<1>1. IsTable(Pruned) /\ DOMAIN Pruned = Live /\ Live \subseteq Ops
  BY PrunedTable, TableForm DEF IsTable
<1>2. CASE DoClaim(o) /\ UNCHANGED unheard
  <2> DEFINE held == {l \in Mine(Pruned, o) : Scope(l) = Scope(o)}
  <2>1. held \subseteq Live
    BY <1>1 DEF Mine
  <2>2. Overlapping(Pruned, o) \in SUBSET Ops
    BY <1>1 DEF Overlapping
  <2>3. CASE held = {}
    <3>1. CASE locks' = With(Pruned, o, Until(o)) /\ Answers(o, "claimed")
               /\ told' = [told EXCEPT ![o] = Overlapping(Pruned, o)]
      BY <1>2, <2>2, <3>1 DEF Makes
    <3>2. CASE /\ locks' = Pruned
               /\ Answers(o, "holder_cap") \/ Answers(o, "store_cap")
               /\ UNCHANGED told
      BY <1>2, <3>2 DEF Drops
    <3> QED  BY <1>2, <2>3, <3>1, <3>2 DEF DoClaim
  <2>4. CASE held # {}
    <3>1. PICK l \in held : locks' = With(Pruned, l, Until(o))
      <4>1. (CHOOSE l \in held : TRUE) \in held
        BY <2>4
      <4> QED  BY <1>2, <2>4, <4>1 DEF DoClaim
    <3>2. Answers(o, "refreshed") /\ told' = [told EXCEPT ![o] = Overlapping(Pruned, o)]
      BY <1>2, <2>4 DEF DoClaim
    <3> QED  BY <1>2, <2>1, <2>2, <3>1, <3>2 DEF Extends
  <2> QED  BY <2>3, <2>4
<1>3. CASE DoRenew(o) /\ UNCHANGED unheard
  BY <1>1, <1>3 DEF DoRenew, May, Mine, Extends, Drops
<1>4. CASE DoRelease(o) /\ UNCHANGED unheard
  BY <1>1, <1>4 DEF DoRelease, May, Releases, Drops
<1> QED  BY <1>2, <1>3, <1>4 DEF Perform

-----------------------------------------------------------------------------
(* The steps.                                                              *)

(* Every step is a step of the queue, or leaves it alone.                  *)
LEMMA LocksStepIsQueueStep == ASSUME [Next]_vars PROVE [QueueNext]_queueVars
  BY DEF Next, vars, Submit, Begin, Perform, Settle, List, TimePasses, QueueAlone,
         QueueNext, queueVars

(* A nudge, a pump and the clock leave the operations where they are, but  *)
(* for the one that takes the slot.                                        *)
LEMMA QueueAloneSteps ==
    ASSUME QueueInv, QueueAlone \/ TimePasses, NEW p \in Ops
    PROVE  fn'[p] = fn[p] \/ (fn[p] = "pending" /\ fn'[p] = "scheduled")
<1>1. CASE UNCHANGED queueVars
  BY <1>1 DEF queueVars
<1>2. CASE Nudge \/ TimerFires \/ RunPump \/ Tick
  BY <1>2, LineMovesUp
<1> QED  BY <1>1, <1>2 DEF QueueAlone, TimePasses

(* What the steps do to an operation and to its request.                   *)
LEMMA RequestsStay ==
    ASSUME LocksInv, Next
    PROVE  /\ Submitted \subseteq Submitted'
           /\ \A p \in Submitted : request'[p] = request[p]
           /\ request' \in [Submitted' -> Requests]
<1> USE DEF LocksInv, TypeOK, Submitted
<1>0. QueueTypeOK /\ fn \in [Ops -> FnStates]
  BY DEF QueueTypeOK
<1>1. ASSUME NEW o \in Ops, NEW r \in Requests, Submit(o, r)
      PROVE  /\ Submitted \subseteq Submitted'
             /\ \A p \in Submitted : request'[p] = request[p]
             /\ request' \in [Submitted' -> Requests]
  <2>1. Run(o) /\ fn[o] = "new"
    BY <1>1 DEF Submit, Run
  <2>2. Submitted' = Submitted \cup {o}
    <3>1. \A p \in Ops : \/ fn'[p] = fn[p]
                         \/ fn[p] = "pending" /\ fn'[p] = "scheduled"
                         \/ p = o /\ fn'[p] \in {"pending", "scheduled"}
      BY <2>1, RunMovesUp
    <3>2. fn'[o] # "new"
      BY <2>1 DEF Run, NudgeOn, Pump, Dequeue, QueueInv, QueueTypeOK, QueuePlaces, FnStates
    <3> QED  BY <2>1, <3>1, <3>2
  <2>3. request' = [p \in Submitted \cup {o} |-> IF p = o THEN r ELSE request[p]]
    BY <1>1 DEF Submit
  <2>4. o \notin Submitted
    BY <2>1
  <2> QED  BY <2>2, <2>3, <2>4
<1>2. ASSUME Submitted' = Submitted, UNCHANGED request
      PROVE  /\ Submitted \subseteq Submitted'
             /\ \A p \in Submitted : request'[p] = request[p]
             /\ request' \in [Submitted' -> Requests]
  BY <1>2
<1>3. ASSUME NEW o \in Ops, Begin(o) \/ Perform(o) \/ Settle(o)
      PROVE  Submitted' = Submitted /\ UNCHANGED request
  BY <1>3, <1>0 DEF Begin, StartFn, Perform, Settle, SettleFn, queueVars, lockVars
<1>4. CASE List
  <2>1. Submitted' = Submitted /\ UNCHANGED request
    BY <1>4 DEF List, queueVars
  <2> QED  BY <1>2, <2>1
<1>5. CASE TimePasses \/ QueueAlone
  <2>1. \A p \in Ops : fn'[p] = fn[p] \/ (fn[p] = "pending" /\ fn'[p] = "scheduled")
    BY <1>5, QueueAloneSteps
  <2>2. Submitted' = Submitted
    BY <2>1
  <2>3. UNCHANGED request
    BY <1>5 DEF TimePasses, QueueAlone, lockVars
  <2> QED  BY <1>2, <2>2, <2>3
<1>6. CASE \E o \in Ops : Begin(o) \/ Perform(o) \/ Settle(o)
  BY <1>2, <1>3, <1>6
<1>7. CASE \E o \in Ops, r \in Requests : Submit(o, r)
  BY <1>1, <1>7
<1> QED  BY <1>4, <1>5, <1>6, <1>7 DEF Next

(* A claim that is in the table after a step was there before, or is the   *)
(* one the step made.                                                      *)
LEMMA TableSteps ==
    ASSUME LocksInv, Next
    PROVE  /\ IsTable(locks')
           /\ \A l \in DOMAIN locks' : l \in DOMAIN locks \/ (Perform(l) /\ Makes(l))
           /\ \A l \in Live' : l \in Live \/ (Perform(l) /\ Makes(l))
           /\ CeilingHolds'
<1> USE DEF LocksInv, TypeOK, CeilingHolds
<1>0. /\ IsTable(locks) /\ clock \in Nat /\ LockTtlMax \in Nat
      /\ \A l \in DOMAIN locks : locks[l].expires \in Nat
  BY LocksAssumption, TableForm DEF IsTable, Claim
<1> DEFINE Good ==
             /\ IsTable(locks')
             /\ \A l \in DOMAIN locks' : l \in DOMAIN locks \/ (Perform(l) /\ Makes(l))
             /\ \A l \in Live' : l \in Live \/ (Perform(l) /\ Makes(l))
             /\ CeilingHolds'
<1>1. CASE locks' = locks /\ (clock' = clock \/ clock' = clock + 1)
  <2>1. \A l \in Live' : l \in Live
    BY <1>0, <1>1 DEF Live
  <2> QED  BY <1>0, <1>1, <2>1
<1>2. CASE locks' = Pruned /\ clock' = clock
  <2>1. \A l \in Live' : l \in Live
    BY <1>0, <1>2, PrunedTable DEF Live
  <2>2. CeilingHolds'
    BY <1>0, <1>2, PrunedTable
  <2> QED  BY <1>0, <1>2, <2>1, <2>2, PrunedTable
<1>3. ASSUME NEW o \in Ops, Perform(o) PROVE Good
  <2>1. fn[o] = "running" /\ o \in Submitted /\ clock' = clock
    BY <1>3 DEF Perform, Submitted
  <2>2. Until(o) \in Claim /\ Until(o).expires <= clock + LockTtlMax
    BY <2>1, UntilBounded
  <2>3. CASE request[o].kind = "write"
    BY <1>1, <1>3, <2>1, <2>3 DEF Perform
  <2>4. CASE request[o].kind # "write"
    <3>1. CASE Drops(o)
      BY <1>2, <2>1, <3>1 DEF Drops
    <3>2. CASE Extends(o)
      <4>1. PICK l \in Live : locks' = With(Pruned, l, Until(o))
        BY <3>2 DEF Extends
      <4>2. l \in Ops
        BY <1>0, PrunedTable, TableForm
      <4>3. /\ IsTable(locks') /\ DOMAIN locks' = Live \cup {l}
            /\ locks'[l] = Until(o)
            /\ \A m \in Live \ {l} : locks'[m] = locks[m]
        <5>1. IsTable(Pruned) /\ DOMAIN Pruned = Live /\ \A m \in Live : Pruned[m] = locks[m]
          BY <1>0, PrunedTable
        <5> HIDE DEF LocksInv, TypeOK, CeilingHolds
        <5>2. /\ IsTable(With(Pruned, l, Until(o)))
              /\ DOMAIN With(Pruned, l, Until(o)) = DOMAIN Pruned \cup {l}
              /\ With(Pruned, l, Until(o))[l] = Until(o)
              /\ \A m \in DOMAIN Pruned \ {l} : With(Pruned, l, Until(o))[m] = Pruned[m]
          BY <2>2, <4>2, <5>1, WithTable, Zenon
        <5>3. locks' = With(Pruned, l, Until(o))
          BY <4>1 DEF Makes
        <5> QED  BY <5>1, <5>2, <5>3
      <4>4. \A m \in DOMAIN locks' : m \in Live
        BY <4>3
      <4>5. CeilingHolds'
        BY <1>0, <2>1, <2>2, <4>3, PrunedTable
      <4>6. Live' \subseteq DOMAIN locks'
        BY DEF Live
      <4>7. Live \subseteq DOMAIN locks
        BY <1>0, PrunedTable
      <4>8. \A m \in DOMAIN locks' : m \in DOMAIN locks
        BY <4>4, <4>7
      <4>9. \A m \in Live' : m \in Live
        BY <4>4, <4>6
      <4> HIDE DEF LocksInv, TypeOK, CeilingHolds
      <4> QED  BY <4>3, <4>5, <4>8, <4>9, Zenon
    <3>3. CASE Makes(o)
      <4>1. /\ IsTable(locks') /\ DOMAIN locks' = Live \cup {o}
            /\ locks'[o] = Until(o)
            /\ \A m \in Live \ {o} : locks'[m] = locks[m]
        <5>1. IsTable(Pruned) /\ DOMAIN Pruned = Live /\ \A m \in Live : Pruned[m] = locks[m]
          BY <1>0, PrunedTable
        <5> HIDE DEF LocksInv, TypeOK, CeilingHolds
        <5>2. /\ IsTable(With(Pruned, o, Until(o)))
              /\ DOMAIN With(Pruned, o, Until(o)) = DOMAIN Pruned \cup {o}
              /\ With(Pruned, o, Until(o))[o] = Until(o)
              /\ \A m \in DOMAIN Pruned \ {o} : With(Pruned, o, Until(o))[m] = Pruned[m]
          BY <2>2, <1>3, <5>1, WithTable, Zenon
        <5>3. locks' = With(Pruned, o, Until(o))
          BY <3>3 DEF Makes
        <5> QED  BY <5>1, <5>2, <5>3
      <4>2. CeilingHolds'
        BY <1>0, <2>1, <2>2, <4>1, PrunedTable
      <4>3. Live' \subseteq DOMAIN locks'
        BY DEF Live
      <4>4. Live \subseteq DOMAIN locks
        BY <1>0, PrunedTable
      <4>5. \A m \in DOMAIN locks' : m \in DOMAIN locks \/ m = o
        BY <4>1, <4>4
      <4>6. \A m \in Live' : m \in Live \/ m = o
        BY <4>1, <4>3
      <4> HIDE DEF LocksInv, TypeOK, CeilingHolds
      <4> QED  BY <1>3, <3>3, <4>1, <4>2, <4>5, <4>6, Zenon
    <3>4. CASE Releases(o)
      <4>1. /\ IsTable(locks') /\ DOMAIN locks' \subseteq Live
            /\ \A m \in DOMAIN locks' : locks'[m] = locks[m]
        <5>1. PICK l : locks' = Without(Pruned, l)
          BY <3>4 DEF Releases
        <5>2. /\ IsTable(Without(Pruned, l)) /\ DOMAIN Without(Pruned, l) = DOMAIN Pruned \ {l}
              /\ \A m \in DOMAIN Pruned \ {l} : Without(Pruned, l)[m] = Pruned[m]
          BY <1>0, PrunedTable, WithoutTable
        <5> QED  BY <1>0, <5>1, <5>2, PrunedTable
      <4>2. CeilingHolds'
        BY <1>0, <2>1, <4>1, PrunedTable
      <4>3. Live' \subseteq DOMAIN locks'
        BY DEF Live
      <4> QED  BY <1>0, <4>1, <4>2, <4>3, PrunedTable
    <3> QED  BY <1>3, <2>4, <3>1, <3>2, <3>3, <3>4, StoreSteps
  <2> QED  BY <2>3, <2>4
<1>4. ASSUME NEW o \in Ops, Begin(o) \/ Settle(o) PROVE Good
  BY <1>1, <1>2, <1>4 DEF Begin, Settle, lockVars
<1>5. ASSUME NEW o \in Ops, NEW r \in Requests, Submit(o, r) PROVE Good
  BY <1>1, <1>5 DEF Submit
<1>6. CASE List
  BY <1>2, <1>6 DEF List
<1>7. CASE TimePasses \/ QueueAlone
  BY <1>1, <1>7 DEF TimePasses, QueueAlone, lockVars
<1> QED  BY <1>3, <1>4, <1>5, <1>6, <1>7 DEF Next

LEMMA TypeStep ==
    ASSUME LocksInv, Next, QueueTypeOK'
    PROVE  TypeOK'
<1>0. /\ QueueInv /\ fn \in [Ops -> FnStates] /\ IsTable(locks)
      /\ clock \in 0..MaxClock /\ MaxClock \in Nat
      /\ outcome \in [Ops -> Outcomes]
      /\ told \in [Ops -> SUBSET Ops]
      /\ unheard \in [Ops -> SUBSET Ops]
      /\ \A p \in Ops : fn[p] = "returned" => outcome[p] # "none"
  BY LocksAssumption DEF LocksInv, TypeOK, IsTable, QueueTypeOK
<1>1. IsTable(locks') /\ request' \in [Submitted' -> Requests]
  BY TableSteps, RequestsStay
<1> DEFINE Rest == /\ clock' \in 0..MaxClock
                   /\ outcome' \in [Ops -> Outcomes]
                   /\ told' \in [Ops -> SUBSET Ops]
                   /\ unheard' \in [Ops -> SUBSET Ops]
                   /\ \A p \in Ops : fn'[p] = "returned" => outcome'[p] # "none"
<1>2. ASSUME NEW o \in Ops, NEW r \in Requests, Submit(o, r) PROVE Rest
  <2>1. Run(o) /\ UNCHANGED << clock, outcome, told, unheard >>
    BY <1>2 DEF Submit
  <2>2. \A p \in Ops : fn'[p] = "returned" => fn[p] = "returned"
    BY <1>0, <2>1, RunMovesUp
  <2> QED  BY <1>0, <2>1, <2>2
<1>3. ASSUME NEW o \in Ops, Begin(o) PROVE Rest
  <2>1. Foreign(Pruned, o) \in SUBSET Ops
    BY <1>0, PrunedTable, TableForm DEF Foreign
  <2>2. /\ told' \in [Ops -> SUBSET Ops] /\ UNCHANGED << clock, outcome, unheard >>
        /\ fn' = [fn EXCEPT ![o] = "running"]
    BY <1>0, <1>3, <2>1 DEF Begin, StartFn
  <2> QED  BY <1>0, <2>2
<1>4. ASSUME NEW o \in Ops, Perform(o) PROVE Rest
  <2>1. UNCHANGED << clock, queueVars >>
    BY <1>4 DEF Perform
  <2>2. CASE request[o].kind = "write"
    <3>1. WrittenInto(o) \in SUBSET Ops
      BY <1>0, PrunedTable, TableForm DEF WrittenInto
    <3>2. /\ outcome' = [outcome EXCEPT ![o] = "wrote"] /\ told' = told
          /\ unheard' = [unheard EXCEPT ![o] = WrittenInto(o) \ told[o]]
      BY <1>4, <2>2 DEF Perform, Answers
    <3> QED  BY <1>0, <2>1, <3>1, <3>2 DEF queueVars, Outcomes
  <2>3. CASE request[o].kind # "write"
    <3>1. PICK what \in Outcomes \ {"none"} : outcome' = [outcome EXCEPT ![o] = what]
      BY <1>4, <2>3, StoreSteps
    <3>2. told' \in [Ops -> SUBSET Ops] /\ unheard' = unheard
      BY <1>4, <2>3, StoreSteps
    <3> QED  BY <1>0, <2>1, <3>1, <3>2 DEF queueVars
  <2> QED  BY <2>2, <2>3
<1>5. ASSUME NEW o \in Ops, Settle(o) PROVE Rest
  BY <1>0, <1>5 DEF Settle, SettleFn, lockVars
<1>6. ASSUME List PROVE Rest
  <2>1. UNCHANGED << fn, clock, outcome, told, unheard >>
    BY <1>6 DEF List, queueVars
  <2> QED  BY <1>0, <2>1
<1>7. ASSUME TimePasses \/ QueueAlone PROVE Rest
  <2>1. \A p \in Ops : fn'[p] = "returned" => fn[p] = "returned"
    BY <1>0, <1>7, QueueAloneSteps
  <2>2. clock' \in 0..MaxClock /\ UNCHANGED << outcome, told, unheard >>
    BY <1>0, <1>7 DEF TimePasses, QueueAlone, lockVars
  <2> QED  BY <1>0, <2>1, <2>2
<1>8. Rest
  BY <1>2, <1>3, <1>4, <1>5, <1>6, <1>7 DEF Next
<1> QED  BY <1>1, <1>8 DEF TypeOK, IsTable

(* Only what has run has an outcome, and an outcome stays.                 *)
LEMMA OutcomesStay ==
    ASSUME LocksInv, Next, QueueTypeOK'
    PROVE  /\ \A o \in Ops : outcome'[o] # "none" => fn'[o] \in {"running", "returned", "threw"}
           /\ \A o \in Ops : outcome[o] # "none" => outcome'[o] = outcome[o]
<1>0. /\ QueueInv /\ fn \in [Ops -> FnStates] /\ DOMAIN locks \subseteq Ops
      /\ outcome \in [Ops -> Outcomes] /\ ClaimsWereMade
  BY TableForm DEF LocksInv, TypeOK, QueueTypeOK, IsTable
<1> USE DEF ClaimsWereMade
<1> DEFINE Ran(states) == \A o \in Ops : outcome'[o] # "none" => states[o] \in {"running", "returned", "threw"}
           Kept == \A o \in Ops : outcome[o] # "none" => outcome'[o] = outcome[o]
<1>1. ASSUME UNCHANGED outcome,
             \A p \in Ops : fn[p] \in {"running", "returned", "threw"}
                               => fn'[p] \in {"running", "returned", "threw"}
      PROVE  Ran(fn') /\ Kept
  BY <1>0, <1>1
<1>2. ASSUME NEW o \in Ops, NEW r \in Requests, Submit(o, r) PROVE Ran(fn') /\ Kept
  <2>1. Run(o) /\ UNCHANGED outcome /\ fn[o] = "new"
    BY <1>2 DEF Submit, Run
  <2>2. \A p \in Ops : fn[p] \in {"running", "returned", "threw"} => fn'[p] = fn[p]
    BY <1>0, <2>1, RunMovesUp
  <2> QED  BY <1>1, <2>1, <2>2
<1>3. ASSUME NEW o \in Ops, Begin(o) \/ Settle(o) PROVE Ran(fn') /\ Kept
  BY <1>0, <1>3 DEF Begin, StartFn, Settle, SettleFn, lockVars
<1>4. ASSUME NEW o \in Ops, Perform(o) PROVE Ran(fn') /\ Kept
  <2>1. fn' = fn /\ fn[o] = "running" /\ outcome[o] = "none"
    BY <1>4 DEF Perform, queueVars
  <2>2. \E what : outcome' = [outcome EXCEPT ![o] = what]
    <3>1. CASE request[o].kind = "write"
      BY <1>4, <3>1 DEF Perform, Answers
    <3>2. CASE request[o].kind # "write"
      BY <1>4, <3>2, StoreSteps
    <3> QED  BY <3>1, <3>2
  <2> QED  BY <1>0, <2>1, <2>2
<1>5. ASSUME List PROVE Ran(fn') /\ Kept
  <2>1. UNCHANGED << fn, outcome >>
    BY <1>5 DEF List, queueVars
  <2> QED  BY <1>1, <2>1
<1>6. ASSUME TimePasses \/ QueueAlone PROVE Ran(fn') /\ Kept
  <2>1. \A p \in Ops : fn[p] \in {"running", "returned", "threw"} => fn'[p] = fn[p]
    BY <1>0, <1>6, QueueAloneSteps
  <2>2. UNCHANGED outcome
    BY <1>6 DEF TimePasses, QueueAlone, lockVars
  <2> QED  BY <1>1, <2>1, <2>2
<1> QED  BY <1>2, <1>3, <1>4, <1>5, <1>6 DEF Next

LEMMA MadeStep ==
    ASSUME LocksInv, Next, QueueTypeOK'
    PROVE  ClaimsWereMade'
<1>1. ASSUME NEW l \in DOMAIN locks' PROVE outcome'[l] = "claimed"
  <2>1. l \in DOMAIN locks \/ (Perform(l) /\ Makes(l))
    BY TableSteps
  <2>2. CASE l \in DOMAIN locks
    <3>1. l \in Ops /\ outcome[l] = "claimed"
      BY <2>2, TableForm DEF LocksInv, TypeOK, IsTable, ClaimsWereMade
    <3> QED  BY <3>1, OutcomesStay
  <2> QED  BY <2>1, <2>2 DEF Makes
<1> QED  BY <1>1, OutcomesStay DEF ClaimsWereMade

(* What an operation was told stays, once it needs no more than that.      *)
LEMMA ToldStays ==
    ASSUME LocksInv, Next, NEW p \in Ops, fn[p] \in {"running", "returned", "threw"},
           outcome[p] # "none" \/ request[p].kind = "write"
    PROVE  told'[p] = told[p]
<1>0. told \in [Ops -> SUBSET Ops]
  BY DEF LocksInv, TypeOK
<1>1. ASSUME NEW o \in Ops, Begin(o) PROVE told'[p] = told[p]
  <2>1. o # p
    BY <1>1 DEF Begin, StartFn
  <2> QED  BY <1>0, <1>1, <2>1 DEF Begin
<1>2. ASSUME NEW o \in Ops, Perform(o) PROVE told'[p] = told[p]
  <2>1. CASE request[o].kind = "write"
    BY <1>2, <2>1 DEF Perform
  <2>2. CASE request[o].kind # "write"
    <3>1. o # p
      BY <1>2, <2>2 DEF Perform
    <3> QED  BY <1>2, <2>2, <3>1, StoreSteps
  <2> QED  BY <2>1, <2>2
<1>3. ASSUME NEW o \in Ops, NEW r \in Requests, Submit(o, r) PROVE told'[p] = told[p]
  BY <1>3 DEF Submit
<1>4. ASSUME NEW o \in Ops, Settle(o) PROVE told'[p] = told[p]
  BY <1>4 DEF Settle, lockVars
<1>5. CASE List \/ TimePasses \/ QueueAlone
  BY <1>5 DEF List, TimePasses, QueueAlone, lockVars
<1> QED  BY <1>1, <1>2, <1>3, <1>4, <1>5 DEF Next

(* Whoever has a claim in the table, or makes one, has submitted it.       *)
LEMMA ClaimantsSubmitted ==
    ASSUME LocksInv, Next, NEW l \in DOMAIN locks'
    PROVE  l \in Submitted /\ request'[l] = request[l]
<1>1. CASE l \in DOMAIN locks
  BY <1>1, TableForm, RequestsStay DEF LocksInv, TypeOK, IsTable, ClaimsWereMade, Submitted
<1>2. CASE Perform(l) /\ Makes(l)
  <2>1. l \in Ops
    BY TableSteps, TableForm
  <2> QED  BY <1>2, <2>1, RequestsStay DEF Perform, Submitted
<1> QED  BY <1>1, <1>2, TableSteps

(* One step makes one claim.                                               *)
LEMMA OneClaimAStep ==
    ASSUME LocksInv, NEW l \in Ops, NEW m \in Ops, Perform(l), Makes(l), Perform(m), Makes(m)
    PROVE  l = m
<1>1. outcome'[m] = "claimed" /\ outcome[m] = "none"
  BY DEF Perform, Makes
<1>2. PICK what : outcome' = [outcome EXCEPT ![l] = what]
  <2>1. CASE request[l].kind = "write"
    BY <2>1 DEF Perform, Answers
  <2>2. CASE request[l].kind # "write"
    BY <2>2, StoreSteps
  <2> QED  BY <2>1, <2>2
<1> QED  BY <1>1, <1>2 DEF LocksInv, TypeOK

LEMMA DisclosedStep ==
    ASSUME LocksInv, Next
    PROVE  OverlapDisclosed'
<1>1. ASSUME NEW l \in Live', NEW m \in Live', Holder(l)' # Holder(m)',
             Overlap(Scope(l)', Scope(m)')
      PROVE  l \in told'[m] \/ m \in told'[l]
  <2>1. l \in DOMAIN locks' /\ m \in DOMAIN locks'
    BY DEF Live
  <2>2. /\ l \in Ops /\ m \in Ops
        /\ request'[l] = request[l] /\ request'[m] = request[m]
    BY <2>1, ClaimantsSubmitted, TableSteps, TableForm
  <2>3. Holder(l) # Holder(m) /\ Overlap(Scope(l), Scope(m)) /\ Overlap(Scope(m), Scope(l))
    BY <1>1, <2>2 DEF Holder, Scope, Overlap
  <2>4. ASSUME NEW x \in Live PROVE x \in Ops /\ told'[x] = told[x]
    <3>1. x \in DOMAIN locks
      BY DEF Live
    <3>2. x \in Ops /\ outcome[x] = "claimed"
      BY <3>1, TableForm DEF LocksInv, TypeOK, IsTable, ClaimsWereMade
    <3>3. fn[x] \in {"running", "returned", "threw"}
      BY <3>2 DEF LocksInv, ClaimsWereMade
    <3> QED  BY <3>2, <3>3, ToldStays
  <2>5. CASE l \in Live /\ m \in Live
    BY <2>3, <2>4, <2>5 DEF LocksInv, OverlapDisclosed
  <2>6. ASSUME NEW x \in Ops, NEW y \in Live, Makes(x), Holder(x) # Holder(y), Overlap(Scope(y), Scope(x))
        PROVE  y \in told'[x]
    <3>1. DOMAIN Pruned = Live
      BY PrunedTable DEF LocksInv, TypeOK, IsTable
    <3> QED  BY <2>6, <3>1 DEF Makes, Overlapping
  <2>7. CASE Perform(l) /\ Makes(l) /\ m \in Live
    BY <2>2, <2>3, <2>6, <2>7
  <2>8. CASE Perform(m) /\ Makes(m) /\ l \in Live
    BY <2>2, <2>3, <2>6, <2>8
  <2>9. CASE Perform(l) /\ Makes(l) /\ Perform(m) /\ Makes(m)
    BY <2>2, <2>3, <2>9, OneClaimAStep
  <2> QED  BY <2>5, <2>7, <2>8, <2>9, TableSteps
<1> QED  BY <1>1 DEF OverlapDisclosed

(* An operation that runs ran before, or is called by the step.            *)
LEMMA Started ==
    ASSUME LocksInv, Next, NEW o \in Ops, fn'[o] = "running"
    PROVE  fn[o] = "running" \/ Begin(o)
<1>0. QueueInv /\ fn \in [Ops -> FnStates]
  BY DEF LocksInv, TypeOK, QueueTypeOK
<1>1. ASSUME NEW p \in Ops, NEW r \in Requests, Submit(p, r) PROVE fn[o] = "running"
  BY <1>0, <1>1, RunMovesUp DEF Submit
<1>2. ASSUME NEW p \in Ops, Begin(p) PROVE fn[o] = "running" \/ Begin(o)
  <2>1. CASE p # o
    BY <1>0, <1>2, <2>1 DEF Begin, StartFn
  <2> QED  BY <1>2, <2>1
<1>3. ASSUME NEW p \in Ops, Perform(p) \/ Settle(p) PROVE fn[o] = "running"
  BY <1>0, <1>3 DEF Perform, Settle, SettleFn, queueVars
<1>4. CASE List
  BY <1>4 DEF List, queueVars
<1>5. ASSUME TimePasses \/ QueueAlone PROVE fn[o] = "running"
  BY <1>0, <1>5, QueueAloneSteps
<1> QED  BY <1>1, <1>2, <1>3, <1>4, <1>5 DEF Next

(* A verdict of a timeout is for good.                                     *)
LEMMA AbandonedForGood ==
    ASSUME LocksInv, Next, NEW o \in Ops, verdict[o] = "timeout"
    PROVE  verdict'[o] = "timeout"
<1>1. QueueInv /\ [QueueNext]_queueVars
  BY LocksStepIsQueueStep DEF LocksInv
<1> QED  BY <1>1, VerdictFinal

LEMMA WritersStep ==
    ASSUME LocksInv, Next, QueueTypeOK'
    PROVE  WritersHeard'
<1>1. SUFFICES ASSUME NEW o \in Ops, fn'[o] = "running", request'[o].kind = "write",
                      outcome'[o] = "none", NEW l \in Foreign(locks, o)'
               PROVE  Heard(o, l)'
  BY DEF WritersHeard
<1>2. l \in DOMAIN locks' /\ l \in Ops /\ request'[l] = request[l]
  <2>1. l \in DOMAIN locks'
    BY DEF Foreign
  <2> QED  BY <2>1, ClaimantsSubmitted, TableSteps, TableForm
<1>3. CASE fn[o] = "running"
  <2>1. request'[o] = request[o] /\ outcome[o] = "none"
    BY <1>1, <1>3, RequestsStay, OutcomesStay DEF Submitted
  <2>2. told'[o] = told[o]
    BY <1>1, <1>3, <2>1, ToldStays
  <2>3. CASE l \in DOMAIN locks
    <3>1. l \in Foreign(locks, o)
      BY <1>1, <1>2, <2>1, <2>3 DEF Foreign, Holder, Scope
    <3>2. Heard(o, l)
      BY <1>1, <1>3, <2>1, <3>1 DEF LocksInv, WritersHeard
    <3> QED  BY <1>2, <2>2, <3>2, AbandonedForGood DEF Heard
  <2>4. CASE Perform(l) /\ Makes(l)
    <3>1. l # o /\ fn[l] = "running"
      BY <1>1, <2>4 DEF Makes, Perform
    <3>2. verdict[o] = "timeout" \/ verdict[l] = "timeout"
      BY <1>2, <1>3, <3>1, InFlightAbandoned DEF LocksInv
    <3> QED  BY <1>2, <3>2, AbandonedForGood DEF Heard
  <2> QED  BY <1>2, <2>3, <2>4, TableSteps
<1>4. CASE Begin(o)
  <2>1. request[o].kind = "write" /\ request' = request
    BY <1>1, <1>4 DEF Begin
  <2>2. told' = [told EXCEPT ![o] = Foreign(Pruned, o)] /\ locks' = Pruned
    BY <1>4, <2>1 DEF Begin
  <2>3. l \in Foreign(Pruned, o)
    BY <1>1, <2>1, <2>2 DEF Foreign, Holder, Scope
  <2> QED  BY <2>2, <2>3 DEF Heard, LocksInv, TypeOK
<1> QED  BY <1>1, <1>3, <1>4, Started

(* What a write lands in is what covers a path of it.                      *)
LEMMA WrittenIntoIsForeign ==
    ASSUME NEW o \in Ops
    PROVE  WrittenInto(o) \subseteq Foreign(locks, o)
  BY DEF WrittenInto, Foreign, Live, ToSet, Covers

LEMMA ToldStep ==
    ASSUME LocksInv, Next
    PROVE  WriterIsTold'
<1>0. unheard \in [Ops -> SUBSET Ops] /\ WriterIsTold
  BY DEF LocksInv, TypeOK
<1>1. SUFFICES ASSUME NEW o \in Ops, NEW l \in unheard'[o]
               PROVE  verdict'[o] = "timeout" \/ verdict'[l] = "timeout"
  BY DEF WriterIsTold
<1>2. CASE unheard'[o] = unheard[o]
  <2>1. l \in Ops /\ (verdict[o] = "timeout" \/ verdict[l] = "timeout")
    BY <1>0, <1>2 DEF WriterIsTold
  <2> QED  BY <2>1, AbandonedForGood
<1>3. CASE Perform(o) /\ request[o].kind = "write"
  <2>1. /\ fn[o] = "running" /\ outcome[o] = "none"
        /\ unheard' = [unheard EXCEPT ![o] = WrittenInto(o) \ told[o]]
    BY <1>3 DEF Perform
  <2>2. l \in WrittenInto(o) /\ l \notin told[o]
    BY <1>0, <2>1
  <2>3. l \in Foreign(locks, o)
    BY <2>2, WrittenIntoIsForeign
  <2>4. Heard(o, l)
    BY <1>3, <2>1, <2>3 DEF LocksInv, WritersHeard
  <2>5. l \in Ops
    BY <2>3, TableForm DEF Foreign, LocksInv, TypeOK, IsTable
  <2> QED  BY <2>2, <2>4, <2>5, AbandonedForGood DEF Heard
<1>4. unheard'[o] = unheard[o] \/ (Perform(o) /\ request[o].kind = "write")
  <2>1. ASSUME NEW p \in Ops, Perform(p), request[p].kind # "write" PROVE unheard' = unheard
    BY <2>1, StoreSteps
  <2>2. ASSUME NEW p \in Ops, Perform(p), p # o PROVE unheard'[o] = unheard[o]
    <3>1. CASE request[p].kind = "write"
      BY <1>0, <2>2, <3>1 DEF Perform
    <3> QED  BY <2>1, <2>2, <3>1
  <2>3. ASSUME NEW p \in Ops, Begin(p) \/ Settle(p) PROVE unheard' = unheard
    BY <2>3 DEF Begin, Settle, lockVars
  <2>4. ASSUME NEW p \in Ops, NEW r \in Requests, Submit(p, r) PROVE unheard' = unheard
    BY <2>4 DEF Submit
  <2>5. ASSUME List \/ TimePasses \/ QueueAlone PROVE unheard' = unheard
    BY <2>5 DEF List, TimePasses, QueueAlone, lockVars
  <2> QED  BY <2>1, <2>2, <2>3, <2>4, <2>5 DEF Next
<1> QED  BY <1>2, <1>3, <1>4

(* Only a release of the holder's own takes a live claim from the table.   *)
LEMMA KeptStep ==
    ASSUME LocksInv, Next, NEW l \in Live, l \notin DOMAIN locks'
    PROVE  \E o \in Submitted :
              /\ outcome[o] = "none" /\ outcome'[o] = "released"
              /\ request[o].of = l /\ Holder(o) = Holder(l)
<1>0. IsTable(locks) /\ Live \subseteq DOMAIN locks /\ DOMAIN Pruned = Live /\ IsTable(Pruned)
  BY PrunedTable DEF LocksInv, TypeOK, IsTable
<1>1. ASSUME NEW o \in Ops, NEW r \in Requests, Submit(o, r) PROVE locks' = locks
  BY <1>1 DEF Submit
<1>2. ASSUME NEW o \in Ops, Begin(o) \/ Settle(o) PROVE locks' \in {locks, Pruned}
  BY <1>2 DEF Begin, Settle, lockVars
<1>3. ASSUME List \/ TimePasses \/ QueueAlone PROVE locks' \in {locks, Pruned}
  BY <1>3 DEF List, TimePasses, QueueAlone, lockVars
<1>4. PICK o \in Ops : Perform(o) /\ request[o].kind # "write"
  <2>1. ASSUME NEW o \in Ops, Perform(o), request[o].kind = "write" PROVE locks' = locks
    BY <2>1 DEF Perform
  <2> QED  BY <1>0, <1>1, <1>2, <1>3, <2>1 DEF Next
<1>5. o \in Submitted /\ outcome[o] = "none"
  BY <1>4 DEF Perform, Submitted
<1>6. Until(o) \in Claim
  BY <1>5, UntilBounded DEF LocksInv
<1>7. ~ Drops(o)
  BY <1>0 DEF Drops
<1>8. ~ Extends(o)
  <2>1. ASSUME NEW m \in Live PROVE l \in DOMAIN With(Pruned, m, Until(o))
    BY <1>0 DEF With
  <2> QED  BY <2>1 DEF Extends
<1>9. ~ Makes(o)
  BY <1>0 DEF Makes, With
<1>10. Releases(o)
  BY <1>4, <1>7, <1>8, <1>9, StoreSteps
<1>11. request[o].of = l
  BY <1>0, <1>10 DEF Releases, Without
<1> QED  BY <1>5, <1>10, <1>11 DEF Releases, Mine

-----------------------------------------------------------------------------
(* The theorems.                                                           *)

LEMMA LocksInvInductive ==
    /\ Init => LocksInv
    /\ LocksInv /\ [Next]_vars => LocksInv'
<1>1. ASSUME Init PROVE LocksInv
  <2>1. QueueInv /\ QueueTypeOK
    BY <1>1, QueueInvInductive DEF Init, QueueInv
  <2>2. Submitted = {}
    BY <1>1 DEF Init, QueueInit, Submitted
  <2>3. DOMAIN locks = {} /\ DOMAIN request = {}
    BY <1>1 DEF Init
  <2>4. locks \in [{} -> Claim] /\ request \in [Submitted -> Requests]
    BY <1>1, <2>2 DEF Init
  <2>5. TypeOK
    BY <1>1, <2>1, <2>4, LocksAssumption DEF Init, QueueInit, TypeOK, Outcomes
  <2> QED  BY <1>1, <2>1, <2>3, <2>5
           DEF Init, QueueInit, LocksInv, ClaimsWereMade, OverlapDisclosed, Live, CeilingHolds,
               WritersHeard, WriterIsTold
<1>2. ASSUME LocksInv, Next PROVE LocksInv'
  <2>1. QueueInv'
    BY <1>2, LocksStepIsQueueStep, QueueInvInductive DEF LocksInv
  <2>2. QueueTypeOK'
    BY <2>1 DEF QueueInv
  <2> QED  BY <1>2, <2>1, <2>2, TypeStep, MadeStep, DisclosedStep, TableSteps, WritersStep, ToldStep
           DEF LocksInv
<1>3. ASSUME LocksInv, UNCHANGED vars PROVE LocksInv'
  BY <1>3 DEF vars, queueVars, lockVars, LocksInv, QueueInv, QueueTypeOK, SlotIsTheUnsettledOp,
              Unsettled, NoLostWakeup, LateExactlyAbandoned, QueuePlaces, TypeOK, Submitted,
              ClaimsWereMade, OverlapDisclosed, Live, Holder, Scope, CeilingHolds, WritersHeard,
              Foreign, Heard, WriterIsTold
<1> QED  BY <1>1, <1>2, <1>3

(* The store under the queue keeps its invariant.                          *)
THEOREM LocksInvariant == Spec => []LocksInv
  BY LocksInvInductive, PTL DEF Spec

(* The store's operations are operations of the write queue, so whatever   *)
(* holds of the queue holds here.                                          *)
THEOREM LocksUseQueue == Spec => QueueSpec
<1>1. Init => QueueInit
  BY DEF Init
<1> QED  BY <1>1, LocksStepIsQueueStep, PTL DEF Spec, QueueSpec

(* The variables have their types in every reachable state.                *)
THEOREM LocksTypeCorrect == Spec => []TypeOK
  BY LocksInvariant, PTL DEF LocksInv

(* Of two live overlapping claims of different holders the later one was   *)
(* told of the other, for any number of claims, holders and scopes.        *)
THEOREM OverlapIsDisclosed == Spec => []OverlapDisclosed
  BY LocksInvariant, PTL DEF LocksInv

(* No claim outlasts the ceiling from now.                                 *)
THEOREM CeilingIsKept == Spec => []CeilingHolds
  BY LocksInvariant, PTL DEF LocksInv

(* A write into the live claim of another was told of it, or it or the     *)
(* claim was abandoned while it ran.                                       *)
THEOREM WriterLearnsOfClaims == Spec => []WriterIsTold
  BY LocksInvariant, PTL DEF LocksInv

(* Whoever claims or writes in the live claim of another is told of it.    *)
THEOREM OthersToldAlways == Spec => []OthersAreTold
<1>1. OverlapDisclosed /\ WriterIsTold => OthersAreTold
  BY DEF OthersAreTold
<1> QED  BY <1>1, OverlapIsDisclosed, WriterLearnsOfClaims, PTL

(* Nobody's live claim is taken from them.                                 *)
THEOREM ClaimsAreKept == Spec => NobodyLosesAClaim
<1>1. ASSUME LocksInv, [Next]_vars, NEW l \in Live, l \notin DOMAIN locks'
      PROVE  \E o \in Submitted :
                /\ outcome[o] = "none" /\ outcome'[o] = "released"
                /\ request[o].of = l /\ Holder(o) = Holder(l)
  <2>1. Next
    BY <1>1 DEF vars, lockVars, Live
  <2> QED  BY <1>1, <2>1, KeptStep
<1>2. LocksInv /\ [Next]_vars =>
        [\A l \in Live :
            l \notin DOMAIN locks' =>
                \E o \in Submitted :
                    /\ outcome[o] = "none" /\ outcome'[o] = "released"
                    /\ request[o].of = l /\ Holder(o) = Holder(l)]_vars
  BY <1>1
<1> QED  BY <1>2, LocksInvariant, PTL DEF Spec, NobodyLosesAClaim

=============================================================================
