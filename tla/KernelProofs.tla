----------------------------- MODULE KernelProofs -----------------------------
(***************************************************************************)
(* Proofs about the kernel, for any calls, keys, requests and bounds: it   *)
(* uses its queue as the queue is meant to be used, so that whatever holds *)
(* of the queue holds in the kernel; calls are isolated from one another;  *)
(* a call that waits for another's outcome is never left waiting; a key    *)
(* runs once; and the journal tells of every call what became of it.       *)
(***************************************************************************)
EXTENDS Kernel, WriteQueueProofs, FiniteSetTheorems

(* Every step of the kernel is one step of its queue, or none.             *)
LEMMA KernelStepIsQueueStep == [Next]_vars => [QueueNext]_queueVars
<1> SUFFICES ASSUME [Next]_vars PROVE [QueueNext]_queueVars
  OBVIOUS
<1>1. ASSUME NEW o \in Ops, NEW c \in Asks, Submit(o, c) PROVE [QueueNext]_queueVars
  BY <1>1 DEF Submit, PresentReserved, PresentStored, PresentFresh, RefuseMismatch, Enqueue,
              QueueNext, queueVars
<1>2. ASSUME NEW o \in Ops, NEW d \in Decisions, Closure(o, d) PROVE [QueueNext]_queueVars
  BY <1>2 DEF Closure, QueueNext
<1>3. ASSUME NEW o \in Ops, HandlerWrites(o) PROVE [QueueNext]_queueVars
  BY <1>3 DEF HandlerWrites
<1>4. ASSUME NEW o \in Ops, NEW env \in {"none", "ok", "error"}, HandlerSettles(o, env)
      PROVE  [QueueNext]_queueVars
  BY <1>4 DEF HandlerSettles, QueueNext
<1>5. ASSUME NEW o \in Ops, Finish(o) PROVE [QueueNext]_queueVars
  BY <1>5 DEF Finish
<1>6. ASSUME NEW o \in Ops, Wake(o) PROVE [QueueNext]_queueVars
  BY <1>6 DEF Wake
<1>7. CASE JournalLands
  BY <1>7 DEF JournalLands, QueueNext
<1>8. ASSUME NEW p \in Paths, OutsideEdit(p) PROVE [QueueNext]_queueVars
  BY <1>8 DEF OutsideEdit
<1>9. CASE ClockTicks
  BY <1>9 DEF ClockTicks, QueueNext
<1>10. CASE QueueAlone
  BY <1>10 DEF QueueAlone, QueueNext
<1>11. CASE UNCHANGED vars
  BY <1>11 DEF vars
<1> QED  BY <1>1, <1>2, <1>3, <1>4, <1>5, <1>6, <1>7, <1>8, <1>9, <1>10, <1>11 DEF Next

(* Every step keeps calls isolated.                                        *)
LEMMA IsolationStep ==
    ASSUME KernelInv, [Next]_vars
    PROVE  IsolatedUnlessAbandoned'
<1>1. QueueInv /\ [QueueNext]_queueVars /\ intruders \in [Ops -> SUBSET Ops]
  BY KernelStepIsQueueStep DEF KernelInv, CallsTypeOK
<1>2. \A o \in Ops : verdict[o] = "timeout" => verdict'[o] = "timeout"
  BY <1>1, VerdictFinal
<1>3. CASE UNCHANGED intruders
  BY <1>1, <1>2, <1>3 DEF KernelInv, IsolatedUnlessAbandoned
<1>4. ASSUME NEW o \in Ops, HandlerWrites(o) PROVE IsolatedUnlessAbandoned'
  <2>1. \A q \in Ops : \A p \in intruders'[q] :
            \/ p \in intruders[q]
            \/ p = o /\ q # o /\ fn[q] = "running" /\ fn[o] = "running"
    <3>1. PICK path : intruders' = [q \in Ops |->
             IF q # o /\ InHandler(q) /\ q \notin wrote /\ Target(q) # << >> /\ Head(Target(q)) = path
             THEN intruders[q] \cup {o}
             ELSE intruders[q]]
      BY <1>4 DEF HandlerWrites
    <3>2. fn[o] = "running"
      BY <1>4 DEF HandlerWrites, InHandler
    <3> QED  BY <3>1, <3>2 DEF InHandler
  <2>2. \A q \in Ops : \A p \in intruders'[q] : p \in Ops
    BY <1>1, <2>1
  <2>3. \A q \in Ops : \A p \in intruders'[q] : verdict[q] = "timeout" \/ verdict[p] = "timeout"
    BY <1>1, <2>1, InFlightAbandoned DEF KernelInv, IsolatedUnlessAbandoned
  <2> QED  BY <1>2, <2>2, <2>3 DEF IsolatedUnlessAbandoned
<1> QED  BY <1>3, <1>4 DEF Next, Submit, PresentReserved, PresentStored, PresentFresh, Enqueue,
            RefuseMismatch, runVars, Closure, HandlerSettles, Finish, Wake, JournalLands,
            kernelVars, OutsideEdit, ClockTicks, QueueAlone, vars

(* A step that leaves calls, keys and what they wait for alone.            *)
callVars == << stage, call, reservations, adopts >>

(* Every step keeps each reserved key with the queued call that owns it,   *)
(* and each waiting call behind such a one.                                *)
LEMMA OwnersStep ==
    ASSUME KernelInv, [Next]_vars
    PROVE  KeysHeldByQueued' /\ WaiterHasOwner'
<1> USE NoOpAssumption, KeyAssumption, AsksAssumption DEF KernelInv, CallsTypeOK
<1>1. ASSUME UNCHANGED callVars PROVE KeysHeldByQueued' /\ WaiterHasOwner'
  BY <1>1 DEF KeysHeldByQueued, WaiterHasOwner, callVars
<1>2. ASSUME NEW o \in Ops, NEW c \in Asks, Submit(o, c)
      PROVE  KeysHeldByQueued' /\ WaiterHasOwner'
  <2>1. /\ stage[o] = "new"
        /\ call' = [call EXCEPT ![o] = c]
        /\ c.key \in Keys \cup {NoKey}
    BY <1>2 DEF Submit
  <2>1a. c \in Calls
    BY DEF Calls, Revs
  <2>2. \A p \in Ops : p # o => call'[p] = call[p]
    BY <2>1
  <2>2a. call'[o] = c
    BY <2>1
  <2>3. CASE c.key = NoKey /\ Enqueue(o, c) /\ UNCHANGED reservations
    <3>1. stage' = [stage EXCEPT ![o] = "queued"] /\ adopts' = [adopts EXCEPT ![o] = o]
      BY <2>3 DEF Enqueue
    <3> QED  BY <2>1, <2>2, <2>2a, <2>3, <3>1 DEF KeysHeldByQueued, WaiterHasOwner
  <2>4. CASE c.key # NoKey /\ PresentFresh(o, c)
    <3>1. /\ reservations[c.key] = NoOp
          /\ reservations' = [reservations EXCEPT ![c.key] = o]
          /\ stage' = [stage EXCEPT ![o] = "queued"]
          /\ adopts' = [adopts EXCEPT ![o] = o]
      BY <2>4 DEF PresentFresh, Enqueue
    <3> QED  BY <2>1, <2>2, <2>2a, <2>4, <3>1 DEF KeysHeldByQueued, WaiterHasOwner
  <2>5. CASE c.key # NoKey /\ PresentReserved(o, c)
    <3>1. UNCHANGED reservations
      BY <2>5 DEF PresentReserved, RefuseMismatch
    <3>2. CASE stage' = [stage EXCEPT ![o] = "refused"] /\ UNCHANGED adopts
      BY <2>1, <2>2, <3>1, <3>2 DEF KeysHeldByQueued, WaiterHasOwner
    <3>3. CASE /\ reservations[c.key] # NoOp
               /\ stage' = [stage EXCEPT ![o] = "waiting"]
               /\ adopts' = [adopts EXCEPT ![o] = reservations[c.key]]
      BY <2>1, <2>2, <2>2a, <2>5, <3>1, <3>3 DEF KeysHeldByQueued, WaiterHasOwner
    <3> QED  BY <2>5, <3>2, <3>3 DEF PresentReserved, RefuseMismatch
  <2>6. CASE c.key # NoKey /\ PresentStored(o, c)
    <3>1. /\ UNCHANGED reservations
          /\ \E s \in {"refused", "done"} : stage' = [stage EXCEPT ![o] = s]
          /\ \A p \in Ops : p # o => adopts'[p] = adopts[p]
      BY <2>6 DEF PresentStored, RefuseMismatch
    <3> QED  BY <2>1, <2>2, <3>1 DEF KeysHeldByQueued, WaiterHasOwner
  <2> QED  BY <1>2, <2>3, <2>4, <2>5, <2>6 DEF Submit
<1>3. ASSUME NEW o \in Ops, Finish(o) PROVE KeysHeldByQueued' /\ WaiterHasOwner'
  <2>1. /\ stage[o] = "queued"
        /\ stage' = [stage EXCEPT ![o] = "done"]
        /\ UNCHANGED << call, adopts >>
        /\ call[o].key \in Keys \cup {NoKey}
    BY <1>3 DEF Finish, Calls
  <2>2. reservations' = IF call[o].key = NoKey THEN reservations
                        ELSE [reservations EXCEPT ![call[o].key] = NoOp]
    BY <1>3, <2>1 DEF Finish, SettleKey, KeysHeldByQueued
  <2>3. KeysHeldByQueued'
    BY <2>1, <2>2 DEF KeysHeldByQueued
  <2>4. WaiterHasOwner'
    BY <2>1, <2>2 DEF KeysHeldByQueued, WaiterHasOwner
  <2> QED  BY <2>3, <2>4
<1>4. ASSUME NEW o \in Ops, Wake(o) PROVE KeysHeldByQueued' /\ WaiterHasOwner'
  BY <1>4 DEF Wake, KeysHeldByQueued, WaiterHasOwner
<1> QED  BY <1>1, <1>2, <1>3, <1>4 DEF Next, callVars, Closure, HandlerWrites, HandlerSettles,
            JournalLands, kernelVars, OutsideEdit, ClockTicks, QueueAlone, vars

(* Every step keeps the types the other parts of the invariant need.       *)
LEMMA CallsTypeStep ==
    ASSUME KernelInv, [Next]_vars
    PROVE  CallsTypeOK'
<1> USE DEF KernelInv, CallsTypeOK, Stages, Decisions
<1>1. CASE UNCHANGED vars
  BY <1>1 DEF vars, kernelVars
<1>2. ASSUME NEW o \in Ops, NEW c \in Asks, Submit(o, c) PROVE CallsTypeOK'
  <2>1. c \in Calls
    BY AsksAssumption DEF Calls, Revs
  <2>2. call' \in [Ops -> Calls]
    BY <1>2, <2>1 DEF Submit
  <2>3. c.key # NoKey => c.key \in Keys
    BY AsksAssumption
  <2>4. stage' \in [Ops -> Stages]
    BY <1>2 DEF Submit, PresentReserved, PresentStored, PresentFresh, Enqueue, RefuseMismatch
  <2>5. reservations' \in [Keys -> Ops \cup {NoOp}]
    BY <1>2 DEF Submit, PresentReserved, PresentStored, PresentFresh, RefuseMismatch
  <2>6. UNCHANGED << decision, intruders >>
    BY <1>2 DEF Submit, PresentReserved, PresentStored, PresentFresh, Enqueue, RefuseMismatch, runVars
  <2>7. adopts' = [p \in Ops |-> adopts'[p]] /\ \A p \in Ops : p # o => adopts'[p] = adopts[p]
    BY <1>2 DEF Submit, PresentReserved, PresentStored, PresentFresh, RefuseMismatch, Enqueue
  <2>8. \A p \in Ops : p # o => stage'[p] = stage[p]
    BY <1>2 DEF Submit, PresentReserved, PresentStored, PresentFresh, RefuseMismatch, Enqueue
  <2>9. stage'[o] = "waiting" => adopts'[o] \in Ops
    <3>1. CASE c.key # NoKey /\ PresentReserved(o, c)
      BY <3>1, <2>3, NoOpAssumption DEF PresentReserved, RefuseMismatch
    <3>2. CASE ~ (c.key # NoKey /\ PresentReserved(o, c))
      BY <1>2, <3>2 DEF Submit, PresentStored, PresentFresh, RefuseMismatch, Enqueue
    <3> QED  BY <3>1, <3>2
  <2> QED  BY <2>2, <2>4, <2>5, <2>6, <2>7, <2>8, <2>9
<1>3. ASSUME NEW o \in Ops, NEW d \in Decisions, Closure(o, d) PROVE CallsTypeOK'
  BY <1>3 DEF Closure
<1>4. ASSUME NEW o \in Ops, HandlerWrites(o) PROVE CallsTypeOK'
  BY <1>4 DEF HandlerWrites
<1>5. ASSUME NEW o \in Ops, Finish(o) PROVE CallsTypeOK'
  BY <1>5 DEF Finish, SettleKey, runVars
<1>6. ASSUME NEW o \in Ops, Wake(o) PROVE CallsTypeOK'
  BY <1>6 DEF Wake, runVars
<1> QED  BY <1>1, <1>2, <1>3, <1>4, <1>5, <1>6 DEF Next, HandlerSettles,
            JournalLands, kernelVars, OutsideEdit, ClockTicks, QueueAlone

-----------------------------------------------------------------------------
(* What the results and the records rest on.                               *)

(* A call runs itself, waits for another or replays another's result; what *)
(* ran was dequeued, and has an outcome that fits how its handler ended.   *)
CallPlaces ==
    \A o \in Ops :
        /\ fn[o] = "new" <=> adopts[o] # o
        /\ stage[o] = "queued" => adopts[o] = o
        /\ stage[o] = "waiting" => adopts[o] # o
        /\ stage[o] = "done" /\ adopts[o] = o => verdict[o] # "none"
        /\ stage[o] \in {"new", "refused"} <=> adopts[o] = NoOp
        /\ decision[o] # "none" => fn[o] # "new"
        /\ verdict[o] = "resolved" => fn[o] = "returned"
        /\ verdict[o] = "rejected" => fn[o] = "threw"
        /\ envelope[o] # "none" <=> fn[o] = "returned"

DistinctKeys(seq) == \A i, j \in 1..Len(seq) : seq[i].key = seq[j].key => i = j

(* A stored result is of a call that ran under its key and returned, and   *)
(* nobody has reserved the key; such a call's result is stored until it is *)
(* forgotten.                                                              *)
HoldsResult(o, k) ==
    /\ stage[o] = "done" /\ adopts[o] = o /\ verdict[o] = "resolved"
    /\ call[o].key = k /\ reservations[k] = NoOp

StoreInv ==
    /\ DistinctKeys(entries)
    /\ \A e \in ToSet(entries) : HoldsResult(e.by, e.key)
    /\ \A o \in Ops :
          (stage[o] = "done" /\ adopts[o] = o /\ verdict[o] = "resolved" /\ call[o].key # NoKey)
              => o \in OwnersOf(entries) \cup forgotten

EndKinds == RunKinds \cup {"deduped", "mismatch"}
LateKind(o) == IF envelope[o] = "ok" THEN "late-ok" ELSE "late-error"

(* A record of a call's end is the only one, and tells what became of it;  *)
(* so does the record of a late settlement.                                *)
RecordFits(r) ==
    IF r.kind \in LateKinds THEN r.op \in late /\ r.kind = LateKind(r.op)
    ELSE /\ stage[r.op] \in {"done", "refused"}
         /\ adopts[r.op] = r.op => r.kind = RunKind(r.op)
         /\ adopts[r.op] # r.op => r.kind \in {"deduped", "mismatch"}

JournalInv ==
    /\ \A i \in 1..Len(journal) : RecordFits(journal[i])
    /\ \A i, j \in 1..Len(journal) :
          (journal[i].op = journal[j].op
           /\ (journal[i].kind \in LateKinds <=> journal[j].kind \in LateKinds)) => i = j
    /\ \A o \in Ops : stage[o] \in {"done", "refused"} => RecordsOf(o, EndKinds) # {}
    /\ \A o \in late : RecordsOf(o, LateKinds) # {}

ResultsInv ==
    /\ KernelInv /\ TypeOK
    /\ CallPlaces /\ AdoptedOutcomeIsOwn
    /\ StoreInv
    /\ JournalInv /\ JournalRefersBack

-----------------------------------------------------------------------------
(* The store, as the set of its entries.                                   *)

IsStore(seq) == seq \in Seq(Entries) /\ DistinctKeys(seq)

LEMMA RemoveAtFacts ==
    ASSUME NEW S, NEW s \in Seq(S), NEW at \in 1..Len(s)
    PROVE  /\ RemoveAt(s, at) \in Seq(S)
           /\ Len(RemoveAt(s, at)) = Len(s) - 1
           /\ \A i \in 1..(Len(s) - 1) : RemoveAt(s, at)[i] = s[IF i < at THEN i ELSE i + 1]
<1> DEFINE l == SubSeq(s, 1, at - 1)
           r == SubSeq(s, at + 1, Len(s))
<1>1. Len(s) \in Nat /\ \A i \in 1..Len(s) : s[i] \in S
  OBVIOUS
<1>2. l \in Seq(S) /\ Len(l) = at - 1 /\ \A i \in 1..(at - 1) : l[i] = s[i]
  BY <1>1, SubSeqProperties
<1>3. r \in Seq(S) /\ Len(r) = Len(s) - at /\ \A i \in 1..(Len(s) - at) : r[i] = s[at + i]
  <2>1. \A i \in (at + 1)..Len(s) : s[i] \in S
    BY <1>1
  <2>2. /\ r \in Seq(S)
        /\ Len(r) = IF at + 1 <= Len(s) THEN Len(s) - (at + 1) + 1 ELSE 0
        /\ \A i \in 1..(Len(s) - (at + 1) + 1) : r[i] = s[at + 1 + i - 1]
    BY <1>1, <2>1, SubSeqProperties
  <2> QED  BY <1>1, <2>2
<1> HIDE DEF l, r
<1>4. /\ l \o r \in Seq(S) /\ Len(l \o r) = Len(l) + Len(r)
      /\ \A i \in 1..(Len(l) + Len(r)) : (l \o r)[i] = IF i <= Len(l) THEN l[i] ELSE r[i - Len(l)]
  BY <1>2, <1>3, ConcatProperties
<1>5. ASSUME NEW i \in 1..(Len(s) - 1) PROVE (l \o r)[i] = s[IF i < at THEN i ELSE i + 1]
  BY <1>1, <1>2, <1>3, <1>4
<1>6. RemoveAt(s, at) = l \o r
  BY DEF RemoveAt, l, r
<1>7. Len(l \o r) = Len(s) - 1
  BY <1>1, <1>2, <1>3, <1>4
<1> QED  BY <1>4, <1>5, <1>6, <1>7

(* Deleting a key leaves a store without it and with all the rest.         *)
LEMMA OthersFacts ==
    ASSUME IsStore(entries), NEW k
    PROVE  /\ IsStore(Others(k))
           /\ ToSet(Others(k)) = {e \in ToSet(entries) : e.key # k}
           /\ Len(Others(k)) <= Len(entries)
<1> USE DEF IsStore, DistinctKeys, ToSet
<1>1. CASE Stored(k) = {}
  BY <1>1 DEF Others, Stored
<1>2. CASE Stored(k) # {}
  <2> DEFINE at == CHOOSE i \in Stored(k) : TRUE
             rest == RemoveAt(entries, at)
  <2>1. at \in 1..Len(entries) /\ entries[at].key = k /\ Others(k) = rest
    BY <1>2 DEF Stored, Others
  <2> HIDE DEF at
  <2>2. /\ rest \in Seq(Entries) /\ Len(rest) = Len(entries) - 1 /\ Len(entries) \in Nat
        /\ \A i \in 1..(Len(entries) - 1) : rest[i] = entries[IF i < at THEN i ELSE i + 1]
    BY <2>1, RemoveAtFacts
  <2> HIDE DEF rest
  <2>3. DistinctKeys(rest)
    BY <2>1, <2>2
  <2>4. \A i \in 1..Len(rest) : rest[i].key # k /\ \E j \in 1..Len(entries) : rest[i] = entries[j]
    BY <2>1, <2>2
  <2>5. ASSUME NEW j \in 1..Len(entries), entries[j].key # k
        PROVE  \E i \in 1..Len(rest) : rest[i] = entries[j]
    <3>1. CASE j < at
      <4>1. j \in 1..Len(rest) /\ rest[j] = entries[j]
        BY <2>1, <2>2, <3>1
      <4> QED  BY <4>1
    <3>2. CASE j > at
      <4>1. j - 1 \in 1..Len(rest) /\ rest[j - 1] = entries[j]
        BY <2>1, <2>2, <3>2
      <4> QED  BY <4>1
    <3> QED  BY <2>1, <2>5, <3>1, <3>2
  <2>6. DOMAIN rest = 1..Len(rest) /\ DOMAIN entries = 1..Len(entries)
    BY <2>2
  <2>7. ToSet(rest) = {e \in ToSet(entries) : e.key # k}
    <3>1. \A e \in ToSet(rest) : e \in ToSet(entries) /\ e.key # k
      BY <2>4, <2>6
    <3>2. \A e \in ToSet(entries) : e.key # k => e \in ToSet(rest)
      BY <2>5, <2>6
    <3> QED  BY <3>1, <3>2
  <2> QED  BY <2>1, <2>2, <2>3, <2>7
<1> QED  BY <1>1, <1>2

LEMMA AppendFacts ==
    ASSUME NEW s, IsStore(s), NEW e \in Entries, \A f \in ToSet(s) : f.key # e.key
    PROVE  /\ IsStore(Append(s, e))
           /\ ToSet(Append(s, e)) = ToSet(s) \cup {e}
<1> USE DEF IsStore, DistinctKeys, ToSet
<1>1. /\ Append(s, e) \in Seq(Entries) /\ Len(Append(s, e)) = Len(s) + 1 /\ Len(s) \in Nat
      /\ \A i \in 1..Len(s) : Append(s, e)[i] = s[i]
      /\ Append(s, e)[Len(s) + 1] = e
      /\ DOMAIN s = 1..Len(s)
  OBVIOUS
<1>1a. DOMAIN Append(s, e) = 1..(Len(s) + 1)
  BY <1>1
<1>2. DistinctKeys(Append(s, e))
  BY <1>1
<1>3. ToSet(Append(s, e)) = ToSet(s) \cup {e}
  BY <1>1, <1>1a
<1> QED  BY <1>1, <1>2, <1>3

LEMMA TailEntries ==
    ASSUME NEW s, IsStore(s), Len(s) > 1
    PROVE  IsStore(Tail(s)) /\ ToSet(Tail(s)) \subseteq ToSet(s) /\ s[Len(s)] \in ToSet(Tail(s))
<1> USE DEF IsStore, DistinctKeys, ToSet
<1>1. /\ Tail(s) \in Seq(Entries) /\ Len(Tail(s)) = Len(s) - 1 /\ Len(s) \in Nat
      /\ \A i \in 1..(Len(s) - 1) : Tail(s)[i] = s[i + 1]
      /\ DOMAIN s = 1..Len(s) /\ DOMAIN Tail(s) = 1..Len(Tail(s))
  BY HeadTailProperties
<1>2. DistinctKeys(Tail(s))
  BY <1>1
<1>3. ToSet(Tail(s)) \subseteq ToSet(s)
  BY <1>1
<1>4. Len(s) - 1 \in DOMAIN Tail(s) /\ Tail(s)[Len(s) - 1] = s[Len(s)]
  BY <1>1
<1> QED  BY <1>1, <1>2, <1>3, <1>4

(* get() drops the key's result if it has expired, and nothing else.       *)
LEMMA GetFacts ==
    ASSUME IsStore(entries), NEW k \in Keys
    PROVE  /\ IsStore(AfterGet(k))
           /\ ToSet(AfterGet(k)) = IF Hit(k) = {} THEN {e \in ToSet(entries) : e.key # k}
                                   ELSE ToSet(entries)
           /\ Hit(k) = {} \/ \E e \in ToSet(entries) : Hit(k) = {e} /\ e.key = k
<1>1. /\ IsStore(Others(k))
      /\ ToSet(Others(k)) = {e \in ToSet(entries) : e.key # k}
  BY OthersFacts
<1>2. CASE Hit(k) = {}
  BY <1>1, <1>2 DEF AfterGet
<1>3. CASE Hit(k) # {}
  <2>1. PICK i \in 1..Len(entries) : entries[i].key = k /\ entries[i] \in Hit(k)
    BY <1>3 DEF Hit, Stored
  <2>2. Hit(k) = {entries[i]} /\ entries[i] \in Entries /\ entries[i] \in ToSet(entries)
    BY <2>1 DEF Hit, Stored, IsStore, DistinctKeys, ToSet
  <2>3. \A e \in ToSet(entries) : e.key = k => e = entries[i]
    BY <2>1 DEF IsStore, DistinctKeys, ToSet
  <2>4. (CHOOSE e \in Hit(k) : TRUE) = entries[i]
    BY <2>2
  <2>5. AfterGet(k) = Append(Others(k), entries[i])
    BY <1>3, <2>4 DEF AfterGet
  <2>6. /\ IsStore(AfterGet(k))
        /\ ToSet(AfterGet(k)) = ToSet(Others(k)) \cup {entries[i]}
    BY <1>1, <2>1, <2>2, <2>5, AppendFacts
  <2> QED  BY <1>1, <1>3, <2>1, <2>2, <2>3, <2>6
<1> QED  BY <1>2, <1>3

(* set() stores the new result and keeps nothing else of the key.          *)
LEMMA SetFacts ==
    ASSUME IsStore(entries), NEW k \in Keys, NEW o \in Ops
    PROVE  LET e == [key |-> k, by |-> o, age |-> 0]
           IN  /\ IsStore(AfterSet(k, o))
               /\ ToSet(AfterSet(k, o)) \subseteq {f \in ToSet(entries) : f.key # k} \cup {e}
               /\ e \in ToSet(AfterSet(k, o))
<1> DEFINE e == [key |-> k, by |-> o, age |-> 0]
           grown == Append(Others(k), e)
<1>1. /\ IsStore(Others(k))
      /\ ToSet(Others(k)) = {f \in ToSet(entries) : f.key # k}
  BY OthersFacts
<1>2. e \in Entries /\ e.key = k
  BY StoreAssumption DEF Entries
<1> HIDE DEF e
<1>3. IsStore(grown) /\ ToSet(grown) = ToSet(Others(k)) \cup {e}
  BY <1>1, <1>2, AppendFacts
<1>4. Others(k) \in Seq(Entries) /\ Len(Others(k)) \in Nat
  BY <1>1 DEF IsStore
<1>5. Len(grown) = Len(Others(k)) + 1 /\ grown[Len(grown)] = e
  BY <1>2, <1>4
<1>6. AfterSet(k, o) = IF Len(grown) > MaxEntries THEN Tail(grown) ELSE grown
  BY DEF AfterSet, e
<1> HIDE DEF grown
<1>7. CASE Len(grown) > MaxEntries
  <2>1. Len(grown) > 1
    BY <1>4, <1>5, <1>7, StoreAssumption
  <2> QED  BY <1>1, <1>3, <1>5, <1>6, <1>7, <2>1, TailEntries DEF e
<1>8. CASE ~ (Len(grown) > MaxEntries)
  BY <1>1, <1>3, <1>6, <1>8 DEF e
<1> QED  BY <1>7, <1>8

(* Time changes no result's key and no result's call.                      *)
LEMMA GrowFacts ==
    ASSUME IsStore(entries)
    PROVE  LET grown == [i \in 1..Len(entries) |-> Grow(entries[i])]
           IN  /\ IsStore(grown)
               /\ \A e \in ToSet(grown) : \E f \in ToSet(entries) : e.by = f.by /\ e.key = f.key
               /\ OwnersOf(grown) = OwnersOf(entries)
<1> DEFINE grown == [i \in 1..Len(entries) |-> Grow(entries[i])]
<1>1. entries \in Seq(Entries) /\ Len(entries) \in Nat /\ DOMAIN entries = 1..Len(entries)
  BY DEF IsStore
<1>2. \A i \in 1..Len(entries) :
         /\ Grow(entries[i]) \in Entries
         /\ Grow(entries[i]).by = entries[i].by /\ Grow(entries[i]).key = entries[i].key
  <2> SUFFICES ASSUME NEW i \in 1..Len(entries)
               PROVE  /\ Grow(entries[i]) \in Entries
                      /\ Grow(entries[i]).by = entries[i].by /\ Grow(entries[i]).key = entries[i].key
    OBVIOUS
  <2>1. entries[i] \in Entries
    BY <1>1
  <2>2. /\ Grow(entries[i]) = [entries[i] EXCEPT !.age = IF entries[i].age < Ttl
                                               THEN entries[i].age + 1 ELSE entries[i].age]
    BY DEF Grow
  <2> QED  BY <2>1, <2>2, StoreAssumption DEF Entries
<1>3. grown \in Seq(Entries) /\ Len(grown) = Len(entries) /\ DOMAIN grown = 1..Len(entries)
  BY <1>1, <1>2
<1>4. \A i \in 1..Len(entries) : grown[i].by = entries[i].by /\ grown[i].key = entries[i].key
  BY <1>2
<1> HIDE DEF grown
<1>5. IsStore(grown)
  BY <1>3, <1>4 DEF IsStore, DistinctKeys
<1>6. \A e \in ToSet(grown) : \E f \in ToSet(entries) : e.by = f.by /\ e.key = f.key
  BY <1>1, <1>3, <1>4 DEF ToSet
<1>7. OwnersOf(grown) = OwnersOf(entries)
  BY <1>3, <1>4 DEF OwnersOf
<1> QED  BY <1>5, <1>6, <1>7 DEF grown

LEMMA OwnersAreHolders ==
    ASSUME NEW s \in Seq(Entries)
    PROVE  OwnersOf(s) = {e.by : e \in ToSet(s)}
  BY DEF OwnersOf, ToSet

-----------------------------------------------------------------------------
(* The steps, by what they do to calls.                                    *)

(* A step in which no call moves by itself.                                *)
Quiet ==
    /\ UNCHANGED << stage, call, reservations, adopts, decision, envelope, journal, forgotten >>
    /\ UNCHANGED queueVars \/ Nudge \/ TimerFires \/ RunPump \/ Tick
    /\ \/ UNCHANGED entries
       \/ entries' = [i \in 1..Len(entries) |-> Grow(entries[i])]

LEMMA Steps ==
    ASSUME [Next]_vars
    PROVE  \/ Quiet
           \/ \E o \in Ops, c \in Asks : Submit(o, c)
           \/ \E o \in Ops, d \in Decisions : Closure(o, d)
           \/ \E o \in Ops, env \in {"none", "ok", "error"} : HandlerSettles(o, env)
           \/ \E o \in Ops : Finish(o)
           \/ \E o \in Ops : Wake(o)
<1>1. ASSUME NEW o \in Ops, HandlerWrites(o) PROVE Quiet
  BY <1>1 DEF HandlerWrites, Quiet
<1>2. ASSUME NEW p \in Paths, OutsideEdit(p) PROVE Quiet
  BY <1>2 DEF OutsideEdit, Quiet
<1>3. CASE JournalLands
  BY <1>3 DEF JournalLands, kernelVars, Quiet
<1>4. CASE ClockTicks
  BY <1>4 DEF ClockTicks, Quiet
<1>5. CASE QueueAlone
  BY <1>5 DEF QueueAlone, kernelVars, Quiet
<1>6. CASE UNCHANGED vars
  BY <1>6 DEF vars, kernelVars, Quiet
<1> QED  BY <1>1, <1>2, <1>3, <1>4, <1>5, <1>6 DEF Next

(* Meanwhile what waits may be scheduled, and what hangs abandoned.        *)
LEMMA QuietMoves ==
    ASSUME QueueInv, Quiet, NEW o \in Ops
    PROVE  /\ fn'[o] = fn[o] \/ (fn[o] = "pending" /\ fn'[o] = "scheduled")
           /\ verdict'[o] = verdict[o] \/ (verdict[o] = "none" /\ verdict'[o] = "timeout")
           /\ late' = late
<1>1. fn'[o] = fn[o] \/ (fn[o] = "pending" /\ fn'[o] = "scheduled")
  BY LineMovesUp DEF Quiet, queueVars
<1>2. /\ verdict \in [Ops -> Verdicts]
      /\ current # NoOp => current \in Ops /\ verdict[current] = "none"
  BY DEF QueueInv, QueueTypeOK, SlotIsTheUnsettledOp, Unsettled
<1> QED  BY <1>1, <1>2 DEF Quiet, queueVars, Nudge, NudgeOn, TimerFires, RunPump, Tick, Overdue

LEMMA RunMoves ==
    ASSUME QueueInv, NEW o \in Ops, Run(o), NEW p \in Ops
    PROVE  /\ \/ fn'[p] = fn[p]
              \/ fn[p] = "pending" /\ fn'[p] = "scheduled"
              \/ p = o /\ fn'[p] \in {"pending", "scheduled"}
           /\ fn[o] = "new" /\ fn'[o] # "new"
           /\ verdict'[p] = verdict[p] \/ (verdict[p] = "none" /\ verdict'[p] = "timeout")
           /\ late' = late
<1>1. \/ fn'[p] = fn[p]
      \/ fn[p] = "pending" /\ fn'[p] = "scheduled"
      \/ p = o /\ fn'[p] \in {"pending", "scheduled"}
  BY RunMovesUp
<1>2. /\ verdict \in [Ops -> Verdicts]
      /\ current # NoOp => current \in Ops /\ verdict[current] = "none"
  BY DEF QueueInv, QueueTypeOK, SlotIsTheUnsettledOp, Unsettled
<1>3. verdict'[p] = verdict[p] \/ (verdict[p] = "none" /\ verdict'[p] = "timeout")
  BY <1>2 DEF Run, NudgeOn, Overdue
<1>4. fn'[o] # "new"
  <2> DEFINE l == Append(pending, o)
             f == [fn EXCEPT ![o] = "pending"]
  <2>1. \E holder : Pump(l, holder, f)
    BY DEF Run, NudgeOn
  <2>2. f \in [Ops -> FnStates] /\ f[o] = "pending"
    BY DEF QueueInv, QueueTypeOK, FnStates
  <2>3. Head(l) \in Ops \/ l = << >>
    <3>1. l \in Seq(Ops)
      BY DEF QueueInv, QueueTypeOK
    <3> QED  BY <3>1, HeadTailProperties
  <2> HIDE DEF l, f
  <2> QED  BY <2>1, <2>2, <2>3 DEF Pump, Dequeue
<1> QED  BY <1>1, <1>3, <1>4 DEF Run

LEMMA SettleMoves ==
    ASSUME QueueInv, NEW o \in Ops, NEW how \in {"returned", "threw"}, SettleFn(o, how)
    PROVE  /\ fn[o] = "running" /\ fn' = [fn EXCEPT ![o] = how]
           /\ \/ /\ verdict[o] = "none"
                 /\ verdict' = [verdict EXCEPT ![o] = IF how = "returned" THEN "resolved" ELSE "rejected"]
                 /\ late' = late
              \/ /\ verdict[o] = "timeout"
                 /\ verdict' = verdict
                 /\ late' = late \cup {o}
<1>1. verdict[o] \in {"none", "timeout"}
  BY DEF SettleFn, QueueInv, QueueTypeOK, Verdicts, QueuePlaces
<1> QED  BY <1>1 DEF SettleFn, ClaimSlot, SettleLate

LEMMA SameCall ==
    ASSUME NEW x \in Calls, NEW y \in Calls, x.key = y.key, x.req = y.req, x.ifRev = y.ifRev
    PROVE  x = y
  BY DEF Calls

(* The call p is one whose outcome o may be given.                         *)
OutcomeFor(o, c, p) == p \in Ops /\ p # o /\ adopts[p] = p /\ call[p] = c

Joins(o, c) ==
    /\ Run(o)
    /\ stage' = [stage EXCEPT ![o] = "queued"]
    /\ adopts' = [adopts EXCEPT ![o] = o]
    /\ UNCHANGED journal
    /\ \/ c.key = NoKey /\ UNCHANGED << reservations, entries, forgotten >>
       \/ /\ c.key \in Keys /\ reservations[c.key] = NoOp /\ Hit(c.key) = {}
          /\ reservations' = [reservations EXCEPT ![c.key] = o]
          /\ entries' = AfterGet(c.key)
          /\ forgotten' = forgotten \cup {entries[i].by : i \in Stored(c.key)}

StaysOut(o, c, s, p) ==
    /\ stage' = [stage EXCEPT ![o] = s]
    /\ adopts' = [adopts EXCEPT ![o] = p]
    /\ \/ s = "refused" /\ p = NoOp /\ Note(o, "mismatch", NoOp)
       \/ s = "waiting" /\ stage[p] = "queued" /\ OutcomeFor(o, c, p) /\ UNCHANGED journal
       \/ s = "done" /\ stage[p] = "done" /\ OutcomeFor(o, c, p) /\ Note(o, "deduped", p)
    /\ UNCHANGED << queueVars, reservations, forgotten >>
    /\ c.key \in Keys
    /\ UNCHANGED entries \/ (Hit(c.key) # {} /\ entries' = AfterGet(c.key))

(* A call that is presented joins the queue, or stays out of it.           *)
LEMMA SubmitForms ==
    ASSUME ResultsInv, NEW o \in Ops, NEW c \in Asks, Submit(o, c)
    PROVE  /\ stage[o] = "new" /\ adopts[o] = NoOp /\ fn[o] = "new"
           /\ c \in Calls /\ call' = [call EXCEPT ![o] = c]
           /\ UNCHANGED << decision, envelope, wrote, rev, intruders >>
           /\ Joins(o, c) \/ \E s \in Stages, p \in Ops \cup {NoOp} : StaysOut(o, c, s, p)
<1> USE NoOpAssumption
<1>1. /\ stage[o] = "new" /\ call' = [call EXCEPT ![o] = c]
      /\ UNCHANGED << decision, envelope, wrote, rev, intruders >>
  BY DEF Submit, PresentReserved, PresentStored, PresentFresh, Enqueue, RefuseMismatch, runVars
<1>2. adopts[o] = NoOp /\ fn[o] = "new" /\ adopts \in [Ops -> Ops \cup {NoOp}]
  BY <1>1 DEF ResultsInv, CallPlaces, TypeOK
<1>2a. UNCHANGED adopts => adopts' = [adopts EXCEPT ![o] = NoOp]
  BY <1>2
<1>3. c \in Calls /\ (c.key # NoKey => c.key \in Keys)
  BY AsksAssumption DEF Calls, Revs
<1>4. CASE c.key = NoKey /\ Enqueue(o, c) /\ UNCHANGED << reservations, entries, forgotten >>
  BY <1>1, <1>2, <1>3, <1>4 DEF Enqueue, Joins
<1>5. CASE c.key # NoKey /\ PresentFresh(o, c)
  BY <1>1, <1>2, <1>3, <1>5 DEF Enqueue, PresentFresh, Joins
<1>6. ASSUME c.key # NoKey, PresentReserved(o, c)
      PROVE  \E s \in Stages, p \in Ops \cup {NoOp} : StaysOut(o, c, s, p)
  <2> DEFINE own == reservations[c.key]
  <2>1. own \in Ops /\ stage[own] = "queued" /\ call[own].key = c.key /\ call[own] \in Calls
    BY <1>3, <1>6 DEF PresentReserved, ResultsInv, KernelInv, CallsTypeOK, KeysHeldByQueued
  <2>2. own # o /\ adopts[own] = own
    BY <1>1, <2>1 DEF ResultsInv, CallPlaces
  <2> HIDE DEF own
  <2>3. CASE RefuseMismatch(o)
    <3>1. StaysOut(o, c, "refused", NoOp)
      BY <1>2a, <1>3, <1>6, <2>3 DEF PresentReserved, RefuseMismatch, StaysOut
    <3> QED  BY <3>1 DEF Stages
  <2>4. CASE SameAsk(c, own) /\ stage' = [stage EXCEPT ![o] = "waiting"]
             /\ adopts' = [adopts EXCEPT ![o] = own] /\ UNCHANGED << queueVars, reservations, journal >>
    <3>1. call[own] = c
      BY <1>3, <2>1, <2>4, SameCall DEF SameAsk
    <3>2. StaysOut(o, c, "waiting", own)
      BY <1>3, <1>6, <2>1, <2>2, <2>4, <3>1 DEF PresentReserved, StaysOut, OutcomeFor
    <3> QED  BY <2>1, <3>2 DEF Stages
  <2> QED  BY <1>6, <2>3, <2>4 DEF PresentReserved, own
<1>7. ASSUME c.key # NoKey, PresentStored(o, c)
      PROVE  \E s \in Stages, p \in Ops \cup {NoOp} : StaysOut(o, c, s, p)
  <2>1. PICK e \in Hit(c.key) :
          \/ ~ SameAsk(c, e.by) /\ RefuseMismatch(o)
          \/ /\ SameAsk(c, e.by)
             /\ stage' = [stage EXCEPT ![o] = "done"]
             /\ adopts' = [adopts EXCEPT ![o] = e.by]
             /\ Note(o, "deduped", e.by)
             /\ UNCHANGED << queueVars, reservations, runVars >>
    BY <1>7 DEF PresentStored
  <2>2. e \in ToSet(entries) /\ e.key = c.key /\ e.by \in Ops
    <3>1. entries \in Seq(Entries)
      BY DEF ResultsInv, TypeOK
    <3>2. PICK i \in 1..Len(entries) : e = entries[i] /\ entries[i].key = c.key
      BY <2>1 DEF Hit, Stored
    <3>3. DOMAIN entries = 1..Len(entries) /\ entries[i] \in Entries
      BY <3>1
    <3>4. e \in ToSet(entries)
      BY <3>2, <3>3 DEF ToSet
    <3> QED  BY <3>2, <3>3, <3>4 DEF Entries
  <2>3. HoldsResult(e.by, c.key) /\ call[e.by] \in Calls
    BY <2>2 DEF ResultsInv, StoreInv, KernelInv, CallsTypeOK
  <2>4. e.by # o /\ adopts[e.by] = e.by /\ stage[e.by] = "done" /\ call[e.by].key = c.key
    BY <1>1, <2>3 DEF HoldsResult
  <2>5. Hit(c.key) # {} /\ entries' = AfterGet(c.key) /\ UNCHANGED forgotten
    BY <1>7, <2>1 DEF PresentStored
  <2>6. CASE RefuseMismatch(o)
    <3>1. StaysOut(o, c, "refused", NoOp)
      BY <1>2a, <1>3, <1>7, <2>5, <2>6 DEF RefuseMismatch, StaysOut
    <3> QED  BY <3>1 DEF Stages
  <2>7. CASE SameAsk(c, e.by) /\ ~ RefuseMismatch(o)
    <3>1. call[e.by] = c
      BY <1>3, <2>3, <2>4, <2>7, SameCall DEF SameAsk
    <3>2. StaysOut(o, c, "done", e.by)
      BY <1>3, <1>7, <2>1, <2>2, <2>4, <2>5, <2>7, <3>1 DEF StaysOut, OutcomeFor
    <3> QED  BY <2>2, <3>2 DEF Stages
  <2> QED  BY <2>1, <2>6, <2>7
<1> QED  BY <1>1, <1>2, <1>3, <1>4, <1>5, <1>6, <1>7 DEF Submit

-----------------------------------------------------------------------------
(* Every step keeps the parts of the invariant.                            *)

LEMMA PlacesStep ==
    ASSUME ResultsInv, [Next]_vars
    PROVE  CallPlaces'
<1> USE NoOpAssumption DEF CallPlaces
<1>1. /\ QueueInv /\ CallPlaces /\ fn \in [Ops -> FnStates] /\ verdict \in [Ops -> Verdicts]
      /\ stage \in [Ops -> Stages] /\ adopts \in [Ops -> Ops \cup {NoOp}]
      /\ decision \in [Ops -> Decisions] /\ envelope \in [Ops -> {"none", "ok", "error"}]
  BY DEF ResultsInv, KernelInv, TypeOK, QueueTypeOK
<1>2. CASE Quiet
  <2>1. \A o \in Ops :
          /\ fn'[o] = fn[o] \/ (fn[o] = "pending" /\ fn'[o] = "scheduled")
          /\ verdict'[o] = verdict[o] \/ (verdict[o] = "none" /\ verdict'[o] = "timeout")
    BY <1>1, <1>2, QuietMoves
  <2> QED  BY <1>1, <1>2, <2>1 DEF Quiet
<1>3. ASSUME NEW o \in Ops, NEW c \in Asks, Submit(o, c) PROVE CallPlaces'
  <2>1. /\ stage[o] = "new" /\ adopts[o] = NoOp /\ fn[o] = "new"
        /\ UNCHANGED << decision, envelope >>
        /\ Joins(o, c) \/ \E s \in Stages, p \in Ops \cup {NoOp} : StaysOut(o, c, s, p)
    BY <1>3, SubmitForms
  <2>2. CASE Joins(o, c)
    <3>1. Run(o) /\ stage' = [stage EXCEPT ![o] = "queued"] /\ adopts' = [adopts EXCEPT ![o] = o]
      BY <2>2 DEF Joins
    <3>2. \A q \in Ops :
            /\ \/ fn'[q] = fn[q]
               \/ fn[q] = "pending" /\ fn'[q] = "scheduled"
               \/ q = o /\ fn'[q] \in {"pending", "scheduled"}
            /\ fn'[o] # "new"
            /\ verdict'[q] = verdict[q] \/ (verdict[q] = "none" /\ verdict'[q] = "timeout")
      BY <1>1, <3>1, RunMoves
    <3> QED  BY <1>1, <2>1, <3>1, <3>2
  <2>3. ASSUME NEW s \in Stages, NEW p \in Ops \cup {NoOp}, StaysOut(o, c, s, p) PROVE CallPlaces'
    <3>1. /\ stage' = [stage EXCEPT ![o] = s] /\ adopts' = [adopts EXCEPT ![o] = p]
          /\ p # o
          /\ (s = "refused" /\ p = NoOp) \/ (s \in {"waiting", "done"} /\ p \in Ops)
          /\ UNCHANGED << fn, verdict >>
      BY <2>3 DEF StaysOut, OutcomeFor, queueVars
    <3> QED  BY <1>1, <2>1, <3>1
  <2> QED  BY <2>1, <2>2, <2>3
<1>4. ASSUME NEW o \in Ops, NEW d \in Decisions, Closure(o, d) PROVE CallPlaces'
  BY <1>1, <1>4 DEF Closure, StartFn
<1>5. ASSUME NEW o \in Ops, NEW env \in {"none", "ok", "error"}, HandlerSettles(o, env)
      PROVE  CallPlaces'
  <2> DEFINE how == IF env = "none" THEN "threw" ELSE "returned"
  <2>1. how \in {"returned", "threw"} /\ SettleFn(o, how)
    BY <1>5 DEF HandlerSettles
  <2>2. /\ fn[o] = "running" /\ fn' = [fn EXCEPT ![o] = how]
        /\ \/ /\ verdict[o] = "none"
              /\ verdict' = [verdict EXCEPT ![o] = IF how = "returned" THEN "resolved" ELSE "rejected"]
           \/ verdict[o] = "timeout" /\ verdict' = verdict
    BY <1>1, <2>1, SettleMoves
  <2>3. envelope' = [envelope EXCEPT ![o] = env] /\ UNCHANGED << stage, adopts, decision >>
    BY <1>5 DEF HandlerSettles
  <2> QED  BY <1>1, <2>2, <2>3
<1>6. ASSUME NEW o \in Ops, Finish(o) PROVE CallPlaces'
  BY <1>1, <1>6 DEF Finish, queueVars, runVars
<1>7. ASSUME NEW o \in Ops, Wake(o) PROVE CallPlaces'
  BY <1>1, <1>7 DEF Wake, queueVars, runVars
<1> QED  BY <1>2, <1>3, <1>4, <1>5, <1>6, <1>7, Steps

LEMMA AdoptionStep ==
    ASSUME ResultsInv, [Next]_vars
    PROVE  AdoptedOutcomeIsOwn'
<1> USE NoOpAssumption DEF AdoptedOutcomeIsOwn
<1>1. /\ AdoptedOutcomeIsOwn /\ adopts \in [Ops -> Ops \cup {NoOp}] /\ call \in [Ops -> Calls]
  BY DEF ResultsInv, TypeOK
<1>2. CASE UNCHANGED << call, adopts >>
  BY <1>1, <1>2
<1>3. ASSUME NEW o \in Ops, NEW c \in Asks, Submit(o, c) PROVE AdoptedOutcomeIsOwn'
  <2>1. /\ adopts[o] = NoOp /\ call' = [call EXCEPT ![o] = c]
        /\ Joins(o, c) \/ \E s \in Stages, p \in Ops \cup {NoOp} : StaysOut(o, c, s, p)
    BY <1>3, SubmitForms
  <2>2. CASE adopts' = [adopts EXCEPT ![o] = o]
    BY <1>1, <2>1, <2>2
  <2>3. ASSUME NEW p \in Ops \cup {NoOp}, adopts' = [adopts EXCEPT ![o] = p],
               p = NoOp \/ (OutcomeFor(o, c, p) /\ c.key \in Keys)
        PROVE  AdoptedOutcomeIsOwn'
    BY <1>1, <2>1, <2>3, KeyAssumption DEF OutcomeFor
  <2> QED  BY <2>1, <2>2, <2>3 DEF Joins, StaysOut
<1>4. CASE Quiet
  BY <1>2, <1>4 DEF Quiet
<1> QED  BY <1>2, <1>3, <1>4, Steps DEF Closure, HandlerSettles, Finish, Wake

LEMMA StoreStep ==
    ASSUME ResultsInv, [Next]_vars
    PROVE  IsStore(entries') /\ StoreInv'
<1> USE NoOpAssumption, KeyAssumption
<1>1. /\ QueueInv /\ CallPlaces /\ StoreInv /\ IsStore(entries)
      /\ stage \in [Ops -> Stages] /\ adopts \in [Ops -> Ops \cup {NoOp}]
      /\ call \in [Ops -> Calls] /\ reservations \in [Keys -> Ops \cup {NoOp}]
      /\ verdict \in [Ops -> Verdicts]
  BY DEF ResultsInv, KernelInv, TypeOK, QueueTypeOK, StoreInv, IsStore
<1>1a. /\ entries \in Seq(Entries) /\ OwnersOf(entries) = {e.by : e \in ToSet(entries)}
       /\ \A e \in ToSet(entries) : e \in Entries /\ e.by \in Ops /\ e.key \in Keys
  <2>1. entries \in Seq(Entries)
    BY <1>1 DEF IsStore
  <2>2. \A e \in ToSet(entries) : e \in Entries
    BY <2>1 DEF ToSet
  <2> QED  BY <2>1, <2>2, OwnersAreHolders DEF Entries
<1>2. CASE Quiet
  <2>1. \A o \in Ops :
          verdict'[o] = verdict[o] \/ (verdict[o] = "none" /\ verdict'[o] = "timeout")
    BY <1>1, <1>2, QuietMoves
  <2>2. /\ IsStore(entries') /\ OwnersOf(entries') = OwnersOf(entries)
        /\ \A e \in ToSet(entries') : \E f \in ToSet(entries) : e.by = f.by /\ e.key = f.key
    BY <1>1, <1>2, GrowFacts DEF Quiet
  <2>3. \A e \in ToSet(entries') : HoldsResult(e.by, e.key)'
    <3> SUFFICES ASSUME NEW e \in ToSet(entries') PROVE HoldsResult(e.by, e.key)'
      OBVIOUS
    <3>1. PICK f \in ToSet(entries) : e.by = f.by /\ e.key = f.key
      BY <2>2
    <3>2. HoldsResult(f.by, f.key)
      BY <1>1 DEF StoreInv
    <3> QED  BY <1>2, <1>1a, <2>1, <3>1, <3>2 DEF Quiet, HoldsResult
  <2> QED  BY <1>1, <1>2, <2>1, <2>2, <2>3 DEF Quiet, StoreInv, IsStore
<1>3. ASSUME NEW o \in Ops, NEW c \in Asks, Submit(o, c) PROVE IsStore(entries') /\ StoreInv'
  <2>1. /\ stage[o] = "new" /\ adopts[o] = NoOp /\ call' = [call EXCEPT ![o] = c]
        /\ Joins(o, c) \/ \E s \in Stages, p \in Ops \cup {NoOp} : StaysOut(o, c, s, p)
    BY <1>3, SubmitForms
  <2>2. \A p \in Ops : \A k \in Keys : HoldsResult(p, k) => p # o
    BY <2>1 DEF HoldsResult
  <2>3. ASSUME NEW s \in Stages, NEW p \in Ops \cup {NoOp}, StaysOut(o, c, s, p)
        PROVE  IsStore(entries') /\ StoreInv'
    <3>1. /\ stage' = [stage EXCEPT ![o] = s] /\ adopts' = [adopts EXCEPT ![o] = p] /\ p # o
          /\ UNCHANGED << verdict, reservations, forgotten >> /\ c.key \in Keys
      BY <2>3 DEF StaysOut, OutcomeFor, queueVars
    <3>2. IsStore(entries') /\ ToSet(entries') = ToSet(entries)
      BY <1>1, <2>3, <3>1, GetFacts DEF StaysOut
    <3>3. \A e \in ToSet(entries') : HoldsResult(e.by, e.key)'
      BY <1>1, <1>1a, <2>1, <2>2, <3>1, <3>2 DEF HoldsResult, StoreInv
    <3>4. OwnersOf(entries') = OwnersOf(entries)
      BY <1>1a, <3>2, OwnersAreHolders DEF IsStore
    <3> QED  BY <1>1, <2>1, <3>1, <3>2, <3>3, <3>4 DEF StoreInv, IsStore
  <2>4. CASE Joins(o, c)
    <3>1. /\ stage' = [stage EXCEPT ![o] = "queued"] /\ adopts' = [adopts EXCEPT ![o] = o]
          /\ \A p \in Ops : verdict'[p] = verdict[p] \/ (verdict[p] = "none" /\ verdict'[p] = "timeout")
      BY <1>1, <2>4, RunMoves DEF Joins
    <3>2. CASE UNCHANGED << reservations, entries, forgotten >>
      <4>1. \A e \in ToSet(entries) : HoldsResult(e.by, e.key)'
        BY <1>1, <1>1a, <2>1, <2>2, <3>1, <3>2 DEF HoldsResult, StoreInv
      <4> QED  BY <1>1, <2>1, <3>1, <3>2, <4>1 DEF StoreInv, IsStore
    <3>3. CASE /\ c.key \in Keys /\ reservations[c.key] = NoOp /\ Hit(c.key) = {}
               /\ reservations' = [reservations EXCEPT ![c.key] = o]
               /\ entries' = AfterGet(c.key)
               /\ forgotten' = forgotten \cup {entries[i].by : i \in Stored(c.key)}
      <4>1. IsStore(entries') /\ ToSet(entries') = {e \in ToSet(entries) : e.key # c.key}
        BY <1>1, <3>3, GetFacts
      <4>2. \A e \in ToSet(entries') : HoldsResult(e.by, e.key)'
        BY <1>1, <1>1a, <2>1, <2>2, <3>1, <3>3, <4>1 DEF HoldsResult, StoreInv
      <4>3. \A e \in ToSet(entries) : e.key = c.key => e.by \in forgotten'
        BY <1>1a, <3>3 DEF Stored, ToSet
      <4>4. OwnersOf(entries') = {e.by : e \in ToSet(entries')}
        BY <4>1, OwnersAreHolders DEF IsStore
      <4>5. OwnersOf(entries) \subseteq OwnersOf(entries') \cup forgotten'
        BY <1>1a, <4>1, <4>3, <4>4
      <4> QED  BY <1>1, <2>1, <3>1, <3>3, <4>1, <4>2, <4>5 DEF StoreInv, IsStore
    <3> QED  BY <2>4, <3>2, <3>3 DEF Joins
  <2> QED  BY <2>1, <2>3, <2>4
<1>4. ASSUME NEW o \in Ops, NEW d \in Decisions, Closure(o, d) PROVE IsStore(entries') /\ StoreInv'
  BY <1>1, <1>4 DEF Closure, StartFn, StoreInv, HoldsResult
<1>5. ASSUME NEW o \in Ops, NEW env \in {"none", "ok", "error"}, HandlerSettles(o, env)
      PROVE  IsStore(entries') /\ StoreInv'
  <2>1. UNCHANGED << stage, adopts, call, reservations, entries, forgotten >>
    BY <1>5 DEF HandlerSettles
  <2>2. verdict' = verdict \/ (verdict[o] = "none" /\ \A p \in Ops : p # o => verdict'[p] = verdict[p])
    BY <1>5, <1>1 DEF HandlerSettles, SettleFn, ClaimSlot, SettleLate
  <2>3. \A e \in ToSet(entries) : HoldsResult(e.by, e.key)'
    BY <1>1, <1>1a, <2>1, <2>2 DEF HoldsResult, StoreInv
  <2> QED  BY <1>1, <2>1, <2>2, <2>3 DEF StoreInv, CallPlaces
<1>6. ASSUME NEW o \in Ops, Finish(o) PROVE IsStore(entries') /\ StoreInv'
  <2>1. /\ stage[o] = "queued" /\ verdict[o] # "none" /\ adopts[o] = o
        /\ stage' = [stage EXCEPT ![o] = "done"]
        /\ UNCHANGED << verdict, call, adopts >> /\ SettleKey(o)
    BY <1>1, <1>6 DEF Finish, queueVars, CallPlaces
  <2>2. \A p \in Ops : \A k \in Keys : HoldsResult(p, k) => p # o
    BY <2>1 DEF HoldsResult
  <2> DEFINE k == call[o].key
  <2>3. k # NoKey => k \in Keys /\ reservations[k] = o
    BY <1>1, <2>1 DEF ResultsInv, KernelInv, KeysHeldByQueued, Calls
  <2>4. CASE k = NoKey
    <3>1. UNCHANGED << reservations, entries, forgotten >>
      BY <2>1, <2>4 DEF SettleKey
    <3>2. \A e \in ToSet(entries) : HoldsResult(e.by, e.key)'
      BY <1>1, <1>1a, <2>1, <2>2, <3>1 DEF HoldsResult, StoreInv
    <3> QED  BY <1>1, <2>1, <2>4, <3>1, <3>2 DEF StoreInv, IsStore
  <2>5. CASE k # NoKey
    <3>1. reservations' = [reservations EXCEPT ![k] = NoOp] /\ k \in Keys
      BY <2>1, <2>3, <2>5 DEF SettleKey
    <3>2. \A e \in ToSet(entries) : HoldsResult(e.by, e.key)'
      BY <1>1, <1>1a, <2>1, <2>2, <3>1 DEF HoldsResult, StoreInv
    <3>3. CASE verdict[o] # "resolved"
      <4>1. UNCHANGED << entries, forgotten >>
        BY <2>1, <2>3, <2>5, <3>3 DEF SettleKey
      <4> QED  BY <1>1, <2>1, <3>2, <3>3, <4>1 DEF StoreInv, IsStore
    <3>4. CASE verdict[o] = "resolved"
      <4> DEFINE new == [key |-> k, by |-> o, age |-> 0]
      <4>1. /\ entries' = AfterSet(k, o)
            /\ forgotten' = forgotten \cup (OwnersOf(entries) \ OwnersOf(entries'))
        BY <2>1, <2>3, <2>5, <3>4 DEF SettleKey
      <4>2. /\ IsStore(entries')
            /\ ToSet(entries') \subseteq {f \in ToSet(entries) : f.key # k} \cup {new}
            /\ new \in ToSet(entries')
        BY <1>1, <2>3, <2>5, <4>1, SetFacts
      <4>3. ASSUME NEW e, e = new PROVE HoldsResult(e.by, e.key)'
        <5>1. e.by = o /\ e.key = k
          BY <4>3
        <5> QED  BY <1>1, <2>1, <3>1, <3>4, <5>1 DEF HoldsResult
      <4>4. \A e \in ToSet(entries') : HoldsResult(e.by, e.key)'
        BY <3>2, <4>2, <4>3
      <4>5. OwnersOf(entries') = {e.by : e \in ToSet(entries')}
        BY <4>2, OwnersAreHolders DEF IsStore
      <4>6. o \in OwnersOf(entries')
        BY <4>2, <4>5
      <4>7. OwnersOf(entries) \subseteq OwnersOf(entries') \cup forgotten'
        BY <4>1
      <4> QED  BY <1>1, <2>1, <4>1, <4>2, <4>4, <4>6, <4>7 DEF StoreInv, IsStore
    <3> QED  BY <3>3, <3>4
  <2> QED  BY <2>4, <2>5
<1>7. ASSUME NEW o \in Ops, Wake(o) PROVE IsStore(entries') /\ StoreInv'
  <2>1. /\ stage[o] = "waiting" /\ adopts[o] # o /\ stage' = [stage EXCEPT ![o] = "done"]
        /\ UNCHANGED << verdict, call, reservations, entries, adopts, forgotten >>
    BY <1>1, <1>7 DEF Wake, queueVars, CallPlaces
  <2>2. \A e \in ToSet(entries) : HoldsResult(e.by, e.key)'
    BY <1>1, <1>1a, <2>1 DEF HoldsResult, StoreInv
  <2> QED  BY <1>1, <2>1, <2>2 DEF StoreInv, IsStore
<1> QED  BY <1>2, <1>3, <1>4, <1>5, <1>6, <1>7, Steps

(* How a call that was answered goes on record.                            *)
LEMMA RunKindFacts ==
    ASSUME ResultsInv, NEW o \in Ops, verdict[o] # "none"
    PROVE  /\ RunKind(o) \in RunKinds
           /\ verdict[o] = "timeout" => RunKind(o) = "error"
           /\ RunKind(o) = "ok" <=> verdict[o] = "resolved" /\ envelope[o] = "ok"
<1>1. /\ verdict[o] \in Verdicts /\ envelope[o] \in {"none", "ok", "error"}
      /\ verdict[o] = "resolved" => envelope[o] # "none"
  BY DEF ResultsInv, TypeOK, QueueTypeOK, CallPlaces
<1> QED  BY <1>1 DEF RunKind, RunKinds, Verdicts

(* What is on record of a call stays true of it.                           *)
LEMMA EndedStays ==
    ASSUME ResultsInv, [Next]_vars, NEW o \in Ops
    PROVE  /\ o \in late => o \in late' /\ envelope'[o] = envelope[o]
           /\ stage[o] \in {"done", "refused"} =>
                /\ stage'[o] = stage[o] /\ adopts'[o] = adopts[o]
                /\ adopts[o] = o => RunKind(o)' = RunKind(o)
<1>1. /\ QueueInv /\ CallPlaces /\ fn \in [Ops -> FnStates] /\ verdict \in [Ops -> Verdicts]
      /\ stage \in [Ops -> Stages] /\ adopts \in [Ops -> Ops \cup {NoOp}]
      /\ decision \in [Ops -> Decisions] /\ envelope \in [Ops -> {"none", "ok", "error"}]
      /\ LateExactlyAbandoned
  BY DEF ResultsInv, KernelInv, TypeOK, QueueTypeOK, QueueInv
<1>2. stage[o] = "done" /\ adopts[o] = o => verdict[o] # "none"
  BY <1>1 DEF CallPlaces
<1>2a. stage[o] = "refused" => adopts[o] # o
  BY <1>1, NoOpAssumption DEF CallPlaces
<1>2b. stage[o] \in {"done", "refused"} /\ adopts[o] # o => fn[o] = "new"
  BY <1>1 DEF CallPlaces
<1>3. CASE Quiet
  <2>1. /\ verdict'[o] = verdict[o] \/ (verdict[o] = "none" /\ verdict'[o] = "timeout")
        /\ late' = late
    BY <1>1, <1>3, QuietMoves
  <2> QED  BY <1>2, <1>2a, <1>3, <2>1 DEF Quiet, RunKind
<1>4. ASSUME NEW q \in Ops, NEW c \in Asks, Submit(q, c)
      PROVE  /\ o \in late => o \in late' /\ envelope'[o] = envelope[o]
             /\ stage[o] \in {"done", "refused"} =>
                  /\ stage'[o] = stage[o] /\ adopts'[o] = adopts[o]
                  /\ adopts[o] = o => RunKind(o)' = RunKind(o)
  <2>1. /\ stage[q] = "new" /\ UNCHANGED << decision, envelope >>
        /\ Joins(q, c) \/ \E s \in Stages, p \in Ops \cup {NoOp} : StaysOut(q, c, s, p)
    BY <1>4, SubmitForms
  <2>2. CASE Joins(q, c)
    <3>1. /\ Run(q) /\ stage' = [stage EXCEPT ![q] = "queued"]
          /\ adopts' = [adopts EXCEPT ![q] = q]
      BY <2>2 DEF Joins
    <3>2. /\ verdict'[o] = verdict[o] \/ (verdict[o] = "none" /\ verdict'[o] = "timeout")
          /\ late' = late
      BY <1>1, <3>1, RunMoves
    <3> QED  BY <1>1, <1>2, <1>2a, <2>1, <3>1, <3>2 DEF RunKind
  <2>3. ASSUME NEW s \in Stages, NEW p \in Ops \cup {NoOp}, StaysOut(q, c, s, p)
        PROVE  /\ o \in late => o \in late' /\ envelope'[o] = envelope[o]
               /\ stage[o] \in {"done", "refused"} =>
                    /\ stage'[o] = stage[o] /\ adopts'[o] = adopts[o]
                    /\ adopts[o] = o => RunKind(o)' = RunKind(o)
    <3>1. /\ stage' = [stage EXCEPT ![q] = s] /\ adopts' = [adopts EXCEPT ![q] = p]
          /\ UNCHANGED << late, verdict >>
      BY <2>3 DEF StaysOut, queueVars
    <3> QED  BY <1>1, <2>1, <3>1 DEF RunKind
  <2> QED  BY <2>1, <2>2, <2>3
<1>5. ASSUME NEW q \in Ops, NEW d \in Decisions, Closure(q, d)
      PROVE  /\ o \in late => o \in late' /\ envelope'[o] = envelope[o]
             /\ stage[o] \in {"done", "refused"} =>
                  /\ stage'[o] = stage[o] /\ adopts'[o] = adopts[o]
                  /\ adopts[o] = o => RunKind(o)' = RunKind(o)
  <2>1. /\ fn[q] = "scheduled" /\ decision' = [decision EXCEPT ![q] = d]
        /\ UNCHANGED << stage, adopts, envelope, verdict, late >>
    BY <1>5 DEF Closure, StartFn
  <2>2. verdict[q] \notin {"resolved", "rejected"}
    BY <1>1, <2>1 DEF CallPlaces
  <2>3. RunKind(o)' = RunKind(o)
    BY <1>1, <2>1, <2>2 DEF RunKind
  <2> QED  BY <2>1, <2>3
<1>6. ASSUME NEW q \in Ops, NEW env \in {"none", "ok", "error"}, HandlerSettles(q, env)
      PROVE  /\ o \in late => o \in late' /\ envelope'[o] = envelope[o]
             /\ stage[o] \in {"done", "refused"} =>
                  /\ stage'[o] = stage[o] /\ adopts'[o] = adopts[o]
                  /\ adopts[o] = o => RunKind(o)' = RunKind(o)
  <2> DEFINE how == IF env = "none" THEN "threw" ELSE "returned"
  <2>1. how \in {"returned", "threw"} /\ SettleFn(q, how)
    BY <1>6 DEF HandlerSettles
  <2>2. /\ fn[q] = "running"
        /\ \/ /\ verdict[q] = "none" /\ late' = late
              /\ \A p \in Ops : p # q => verdict'[p] = verdict[p]
           \/ verdict[q] = "timeout" /\ verdict' = verdict /\ late' = late \cup {q}
    BY <1>1, <2>1, SettleMoves
  <2>3. envelope' = [envelope EXCEPT ![q] = env] /\ UNCHANGED << stage, adopts, decision >>
    BY <1>6 DEF HandlerSettles
  <2>4. q \notin late
    BY <1>1, <2>2 DEF LateExactlyAbandoned
  <2>5. CASE q # o
    BY <1>1, <2>2, <2>3, <2>5 DEF RunKind
  <2>6. CASE q = o
    <3>1. stage[o] \in {"done", "refused"} /\ adopts[o] = o => verdict[o] = "timeout" /\ verdict' = verdict
      BY <1>2, <1>2a, <2>2, <2>6
    <3> QED  BY <2>3, <2>4, <2>6, <3>1 DEF RunKind
  <2> QED  BY <2>5, <2>6
<1>7. ASSUME NEW q \in Ops, Finish(q) \/ Wake(q)
      PROVE  /\ o \in late => o \in late' /\ envelope'[o] = envelope[o]
             /\ stage[o] \in {"done", "refused"} =>
                  /\ stage'[o] = stage[o] /\ adopts'[o] = adopts[o]
                  /\ adopts[o] = o => RunKind(o)' = RunKind(o)
  <2>1. /\ stage[q] \in {"queued", "waiting"} /\ stage' = [stage EXCEPT ![q] = "done"]
        /\ UNCHANGED << adopts, envelope, decision, verdict, late >>
    BY <1>7 DEF Finish, Wake, queueVars, runVars
  <2> QED  BY <1>1, <2>1 DEF RunKind
<1> QED  BY <1>3, <1>4, <1>5, <1>6, <1>7, Steps

-----------------------------------------------------------------------------
(* The journal.                                                            *)

LEMMA FitsStay ==
    ASSUME ResultsInv, [Next]_vars, NEW r \in JournalRecords, RecordFits(r)
    PROVE  RecordFits(r)'
<1>1. r.op \in Ops
  BY DEF JournalRecords
<1> QED  BY <1>1, EndedStays DEF RecordFits, LateKind

LEMMA NoteFacts ==
    ASSUME journal \in Seq(JournalRecords), NEW r \in JournalRecords, journal' = Append(journal, r)
    PROVE  /\ journal' \in Seq(JournalRecords)
           /\ Len(journal) \in Nat /\ Len(journal') = Len(journal) + 1
           /\ \A i \in 1..Len(journal) : journal[i] \in JournalRecords /\ journal'[i] = journal[i]
           /\ journal'[Len(journal) + 1] = r
  OBVIOUS

(* A step that writes no record and ends no call.                          *)
LEMMA NothingOnRecord ==
    ASSUME ResultsInv, [Next]_vars, UNCHANGED << journal, late >>,
           \A o \in Ops : stage'[o] \in {"done", "refused"} => stage[o] \in {"done", "refused"}
    PROVE  JournalInv' /\ JournalRefersBack'
<1>1. journal \in Seq(JournalRecords) /\ JournalInv /\ JournalRefersBack
  BY DEF ResultsInv, TypeOK
<1>2. \A r \in JournalRecords : RecordFits(r) => RecordFits(r)'
  BY FitsStay
<1>2a. \A i \in 1..Len(journal) : journal[i] \in JournalRecords
  BY <1>1
<1>3. (\A i \in 1..Len(journal) : RecordFits(journal[i]))'
  BY <1>1, <1>2, <1>2a DEF JournalInv, RecordFits, LateKind, RunKind
<1> QED  BY <1>1, <1>3 DEF JournalInv, JournalRefersBack, RecordsOf

(* A step that writes one record, of a call that had none of its sort.     *)
LEMMA OneOnRecord ==
    ASSUME ResultsInv, [Next]_vars, NEW r \in JournalRecords, journal' = Append(journal, r),
           RecordFits(r)',
           \A q \in Ops : stage'[q] \in {"done", "refused"} =>
               stage[q] \in {"done", "refused"} \/ (q = r.op /\ r.kind \in EndKinds),
           \A q \in late' : q \in late \/ (q = r.op /\ r.kind \in LateKinds),
           r.kind \in LateKinds => r.op \notin late,
           r.kind \in EndKinds => stage[r.op] \notin {"done", "refused"}
    PROVE  JournalInv'
<1>1. /\ journal \in Seq(JournalRecords) /\ JournalInv
      /\ r.op \in Ops /\ r.kind \in EndKinds \cup LateKinds
  BY DEF ResultsInv, TypeOK, JournalRecords, EndKinds
<1> DEFINE n == Len(journal)
<1>2. /\ n \in Nat /\ Len(journal') = n + 1
      /\ \A i \in 1..n : journal[i] \in JournalRecords /\ journal'[i] = journal[i]
      /\ journal'[n + 1] = r
  BY <1>1, NoteFacts
<1>3. \A i \in 1..Len(journal') : i \in 1..n \/ i = n + 1
  BY <1>2
<1>4. \A i \in 1..n : RecordFits(journal[i])
  BY <1>1 DEF JournalInv
<1>4a. \A f \in JournalRecords : RecordFits(f) => RecordFits(f)'
  BY FitsStay
<1>5. (\A i \in 1..Len(journal) : RecordFits(journal[i]))'
  BY <1>1, <1>2, <1>3, <1>4, <1>4a DEF RecordFits, LateKind, RunKind
<1>6. \A i \in 1..n : journal[i].op = r.op =>
         ~ (journal[i].kind \in LateKinds <=> r.kind \in LateKinds)
  BY <1>1, <1>4 DEF RecordFits
<1>7. \A i, j \in 1..Len(journal') :
         (journal'[i].op = journal'[j].op
           /\ (journal'[i].kind \in LateKinds <=> journal'[j].kind \in LateKinds)) => i = j
  <2> HIDE DEF n
  <2> QED  BY <1>1, <1>2, <1>3, <1>6 DEF JournalInv, n
<1>8. \A q \in Ops : \A kinds \in {EndKinds, LateKinds} :
         RecordsOf(q, kinds) # {} \/ (q = r.op /\ r.kind \in kinds) => RecordsOf(q, kinds)' # {}
  <2> SUFFICES ASSUME NEW q \in Ops, NEW kinds \in {EndKinds, LateKinds},
                      RecordsOf(q, kinds) # {} \/ (q = r.op /\ r.kind \in kinds)
               PROVE  \E i \in 1..Len(journal') : journal'[i].op = q /\ journal'[i].kind \in kinds
    BY DEF RecordsOf, EndKinds, LateKinds, RunKinds
  <2>1. CASE RecordsOf(q, kinds) # {}
    <3>1. PICK i \in 1..n : journal[i].op = q /\ journal[i].kind \in kinds
      BY <2>1 DEF RecordsOf
    <3> QED  BY <1>2, <3>1
  <2>2. CASE q = r.op /\ r.kind \in kinds
    BY <1>2, <2>2
  <2> QED  BY <2>1, <2>2
<1>9. \A q \in Ops : stage'[q] \in {"done", "refused"} => RecordsOf(q, EndKinds)' # {}
  BY <1>1, <1>8 DEF JournalInv
<1>10. \A q \in late' : RecordsOf(q, LateKinds)' # {}
  <2>1. late \subseteq Ops
    BY DEF ResultsInv, TypeOK, QueueTypeOK
  <2> QED  BY <1>1, <1>8, <2>1 DEF JournalInv
<1> QED  BY <1>5, <1>7, <1>9, <1>10 DEF JournalInv

(* A call that ran and is done is on record with how its run ended.        *)
LEMMA RunsOnRecord ==
    ASSUME ResultsInv, NEW o \in Ops, stage[o] = "done", adopts[o] = o
    PROVE  \E j \in 1..Len(journal) : journal[j].op = o /\ journal[j].kind = RunKind(o)
                                      /\ journal[j].kind \in RunKinds
<1>1. PICK j \in 1..Len(journal) : journal[j].op = o /\ journal[j].kind \in EndKinds
  BY DEF ResultsInv, JournalInv, RecordsOf
<1>2. RecordFits(journal[j]) /\ journal[j].kind \notin LateKinds
  BY <1>1 DEF ResultsInv, JournalInv, EndKinds, RunKinds, LateKinds
<1>3. verdict[o] # "none"
  BY DEF ResultsInv, CallPlaces
<1> QED  BY <1>1, <1>2, <1>3, RunKindFacts DEF RecordFits

(* A record of a run is of a call that ran and is done.                    *)
LEMMA RunRecords ==
    ASSUME ResultsInv, NEW j \in 1..Len(journal), journal[j].kind \in RunKinds
    PROVE  /\ journal[j].op \in Ops /\ stage[journal[j].op] = "done"
           /\ adopts[journal[j].op] = journal[j].op
           /\ journal[j].kind = RunKind(journal[j].op)
<1>1. journal[j].op \in Ops
  <2>1. journal[j] \in JournalRecords
    BY DEF ResultsInv, TypeOK
  <2> QED  BY <2>1 DEF JournalRecords
<1>2. RecordFits(journal[j])
  BY DEF ResultsInv, JournalInv
<1>3. /\ stage[journal[j].op] \in {"done", "refused"}
      /\ adopts[journal[j].op] = journal[j].op
      /\ journal[j].kind = RunKind(journal[j].op)
  BY <1>2 DEF RecordFits, RunKinds, LateKinds
<1> QED  BY <1>1, <1>3, NoOpAssumption DEF ResultsInv, CallPlaces

(* The record of a call that was given another's outcome.                  *)
LEMMA DedupedOnRecord ==
    ASSUME ResultsInv, [Next]_vars, NEW o \in Ops, NEW p \in Ops,
           stage[p] = "done", adopts[p] = p, stage[o] \notin {"done", "refused"},
           stage' = [stage EXCEPT ![o] = "done"], adopts' = [adopts EXCEPT ![o] = p], p # o,
           UNCHANGED late, Note(o, "deduped", p)
    PROVE  JournalInv' /\ JournalRefersBack'
<1> DEFINE r == [op |-> o, kind |-> "deduped", of |-> p]
           n == Len(journal)
<1>1. /\ journal \in Seq(JournalRecords) /\ JournalRefersBack
      /\ stage \in [Ops -> Stages] /\ adopts \in [Ops -> Ops \cup {NoOp}]
  BY DEF ResultsInv, TypeOK
<1>2. r \in JournalRecords /\ journal' = Append(journal, r) /\ r.op = o /\ r.kind = "deduped" /\ r.of = p
  BY DEF JournalRecords, Note
<1> HIDE DEF r
<1>3. RecordFits(r)'
  BY <1>1, <1>2 DEF RecordFits, LateKinds
<1>4. JournalInv'
  BY <1>1, <1>2, <1>3, OneOnRecord DEF EndKinds, LateKinds
<1>5. /\ n \in Nat /\ Len(journal') = n + 1
      /\ \A i \in 1..n : journal[i] \in JournalRecords /\ journal'[i] = journal[i]
      /\ journal'[n + 1] = r
  BY <1>1, <1>2, NoteFacts
<1>6. PICK j \in 1..n : journal[j].op = p /\ journal[j].kind \in RunKinds
  BY RunsOnRecord
<1> HIDE DEF n
<1>7. JournalRefersBack'
  <2>1. ASSUME NEW i \in 1..(n + 1), journal'[i].kind = "deduped"
        PROVE  \E k \in 1..(i - 1) : journal'[k].op = journal'[i].of /\ journal'[k].kind \in RunKinds
    <3>1. CASE i \in 1..n
      <4>1. PICK k \in 1..(i - 1) : journal[k].op = journal[i].of /\ journal[k].kind \in RunKinds
        BY <1>1, <1>5, <2>1, <3>1 DEF JournalRefersBack, n
      <4>2. k \in 1..n
        BY <1>5
      <4> QED  BY <1>5, <3>1, <4>1, <4>2
    <3>2. CASE i = n + 1
      BY <1>2, <1>5, <1>6, <3>2
    <3> QED  BY <1>5, <3>1, <3>2
  <2>2. ASSUME NEW i \in 1..(n + 1), NEW k \in 1..(n + 1), journal'[i].kind \in LateKinds,
               journal'[k].op = journal'[i].op, journal'[k].kind \in RunKinds
        PROVE  journal'[k].kind = "error" /\ (k < i => journal'[i].of = journal'[i].op)
    <3>1. i \in 1..n /\ k \in 1..n
      BY <1>2, <1>5, <2>2 DEF LateKinds, RunKinds
    <3> QED  BY <1>1, <1>5, <2>2, <3>1 DEF JournalRefersBack, RecordsOf, n
  <2> QED  BY <1>5, <2>1, <2>2 DEF JournalRefersBack, RecordsOf
<1> QED  BY <1>4, <1>7

(* A record that refers to no other leaves the references as they are, if  *)
(* it says "error" of a call whose late settlement is on record.           *)
LEMMA PlainRecord ==
    ASSUME JournalRefersBack, journal \in Seq(JournalRecords), NEW r \in JournalRecords,
           journal' = Append(journal, r), r.kind \notin {"deduped"} \cup LateKinds,
           \A i \in 1..Len(journal) :
               (journal[i].op = r.op /\ journal[i].kind \in LateKinds /\ r.kind \in RunKinds)
                   => r.kind = "error"
    PROVE  JournalRefersBack'
<1> DEFINE n == Len(journal)
<1>1. /\ n \in Nat /\ Len(journal') = n + 1
      /\ \A i \in 1..n : journal[i] \in JournalRecords /\ journal'[i] = journal[i]
      /\ journal'[n + 1] = r
  BY NoteFacts
<1> HIDE DEF n
<1>2. ASSUME NEW i \in 1..(n + 1), journal'[i].kind = "deduped"
      PROVE  \E k \in 1..(i - 1) : journal'[k].op = journal'[i].of /\ journal'[k].kind \in RunKinds
  <2>1. i \in 1..n
    BY <1>1, <1>2
  <2>2. PICK k \in 1..(i - 1) : journal[k].op = journal[i].of /\ journal[k].kind \in RunKinds
    BY <1>1, <1>2, <2>1 DEF JournalRefersBack, n
  <2>3. k \in 1..n
    BY <1>1
  <2> QED  BY <1>1, <2>1, <2>2, <2>3
<1>3. ASSUME NEW i \in 1..(n + 1), NEW k \in 1..(n + 1), journal'[i].kind \in LateKinds,
             journal'[k].op = journal'[i].op, journal'[k].kind \in RunKinds
      PROVE  journal'[k].kind = "error" /\ (k < i => journal'[i].of = journal'[i].op)
  <2>1. i \in 1..n
    BY <1>1, <1>3
  <2>2. CASE k \in 1..n
    BY <1>1, <1>3, <2>1, <2>2 DEF JournalRefersBack, RecordsOf, n
  <2>3. CASE k = n + 1
    BY <1>1, <1>3, <2>1, <2>3 DEF n
  <2> QED  BY <1>1, <2>2, <2>3
<1> QED  BY <1>1, <1>2, <1>3 DEF JournalRefersBack, RecordsOf

LEMMA JournalStep ==
    ASSUME ResultsInv, [Next]_vars, LateExactlyAbandoned'
    PROVE  JournalInv' /\ JournalRefersBack'
<1> USE NoOpAssumption
<1>1. /\ QueueInv /\ CallPlaces /\ JournalInv /\ JournalRefersBack
      /\ journal \in Seq(JournalRecords) /\ late \subseteq Ops
      /\ fn \in [Ops -> FnStates] /\ verdict \in [Ops -> Verdicts]
      /\ stage \in [Ops -> Stages] /\ adopts \in [Ops -> Ops \cup {NoOp}]
      /\ envelope \in [Ops -> {"none", "ok", "error"}]
      /\ LateExactlyAbandoned
  BY DEF ResultsInv, KernelInv, TypeOK, QueueTypeOK, QueueInv
<1>2. CASE Quiet
  <2>1. \A o \in Ops : late' = late
    BY <1>1, <1>2, QuietMoves
  <2>2. UNCHANGED << journal, stage >> /\ (Ops # {} => late' = late)
    BY <1>2, <2>1 DEF Quiet
  <2>3. UNCHANGED late
    BY <1>2, <2>2 DEF Quiet, queueVars, Nudge, TimerFires, RunPump, Tick
  <2> QED  BY <2>2, <2>3, NothingOnRecord
<1>3. ASSUME NEW o \in Ops, NEW c \in Asks, Submit(o, c) PROVE JournalInv' /\ JournalRefersBack'
  <2>1. /\ stage[o] = "new" /\ adopts[o] = NoOp /\ fn[o] = "new"
        /\ Joins(o, c) \/ \E s \in Stages, p \in Ops \cup {NoOp} : StaysOut(o, c, s, p)
    BY <1>3, SubmitForms
  <2>2. CASE Joins(o, c)
    BY <1>1, <2>2, NothingOnRecord DEF Joins, Run
  <2>3. ASSUME NEW s \in Stages, NEW p \in Ops \cup {NoOp}, StaysOut(o, c, s, p)
        PROVE  JournalInv' /\ JournalRefersBack'
    <3>1. /\ stage' = [stage EXCEPT ![o] = s] /\ adopts' = [adopts EXCEPT ![o] = p]
          /\ UNCHANGED late
      BY <2>3 DEF StaysOut, queueVars
    <3>2. CASE s = "waiting" /\ UNCHANGED journal
      BY <1>1, <3>1, <3>2, NothingOnRecord
    <3>3. CASE s = "done" /\ stage[p] = "done" /\ OutcomeFor(o, c, p) /\ Note(o, "deduped", p)
      BY <2>1, <3>1, <3>3, DedupedOnRecord DEF OutcomeFor
    <3>4. CASE s = "refused" /\ p = NoOp /\ Note(o, "mismatch", NoOp)
      <4> DEFINE r == [op |-> o, kind |-> "mismatch", of |-> NoOp]
      <4>1. /\ r \in JournalRecords /\ journal' = Append(journal, r)
            /\ r.op = o /\ r.kind = "mismatch"
        BY <3>4 DEF JournalRecords, Note
      <4> HIDE DEF r
      <4>2. RecordFits(r)'
        BY <1>1, <3>1, <3>4, <4>1 DEF RecordFits, LateKinds
      <4>3. JournalInv'
        BY <1>1, <2>1, <3>1, <3>4, <4>1, <4>2, OneOnRecord DEF EndKinds, LateKinds
      <4>4. JournalRefersBack'
        BY <1>1, <4>1, PlainRecord DEF LateKinds, RunKinds
      <4> QED  BY <4>3, <4>4
    <3> QED  BY <2>3, <3>2, <3>3, <3>4 DEF StaysOut
  <2> QED  BY <2>1, <2>2, <2>3
<1>4. ASSUME NEW o \in Ops, NEW d \in Decisions, Closure(o, d)
      PROVE  JournalInv' /\ JournalRefersBack'
  BY <1>4, NothingOnRecord DEF Closure, StartFn
<1>5. ASSUME NEW o \in Ops, NEW env \in {"none", "ok", "error"}, HandlerSettles(o, env)
      PROVE  JournalInv' /\ JournalRefersBack'
  <2> DEFINE how == IF env = "none" THEN "threw" ELSE "returned"
  <2>1. how \in {"returned", "threw"} /\ SettleFn(o, how)
    BY <1>5 DEF HandlerSettles
  <2>2. /\ fn[o] = "running"
        /\ \/ verdict[o] = "none" /\ late' = late
           \/ verdict[o] = "timeout" /\ verdict' = verdict /\ late' = late \cup {o}
    BY <1>1, <2>1, SettleMoves
  <2>3. /\ envelope' = [envelope EXCEPT ![o] = env] /\ UNCHANGED << stage, adopts >>
        /\ verdict[o] = "none" => UNCHANGED journal
        /\ verdict[o] # "none" => NoteLate(o, IF env = "ok" THEN "late-ok" ELSE "late-error")
    BY <1>5 DEF HandlerSettles
  <2>4. CASE verdict[o] = "none"
    BY <2>2, <2>3, <2>4, NothingOnRecord
  <2>5. CASE verdict[o] = "timeout"
    <3> DEFINE kind == IF env = "ok" THEN "late-ok" ELSE "late-error"
               of == IF stage[o] = "done" THEN o ELSE NoOp
               n == Len(journal)
    <3>1. PICK r \in JournalRecords :
             /\ journal' = Append(journal, r)
             /\ r.op = o /\ r.kind = kind /\ r.of = of /\ kind \in LateKinds
      <4>1. [op |-> o, kind |-> kind, of |-> of] \in JournalRecords /\ kind \in LateKinds
        BY DEF JournalRecords, LateKinds
      <4> QED  BY <2>3, <2>5, <4>1 DEF Note, NoteLate
    <3>2. o \notin late /\ late' = late \cup {o} /\ verdict' = verdict
      BY <1>1, <2>2, <2>5 DEF LateExactlyAbandoned
    <3>3. kind = LateKind(o)'
      BY <1>1, <2>3 DEF LateKind
    <3> HIDE DEF of, kind
    <3>4. RecordFits(r)'
      BY <3>1, <3>2, <3>3 DEF RecordFits
    <3>5. JournalInv'
      BY <1>1, <2>3, <3>1, <3>2, <3>4, OneOnRecord DEF EndKinds, RunKinds, LateKinds
    <3>6. /\ n \in Nat /\ Len(journal') = n + 1
          /\ \A i \in 1..n : journal[i] \in JournalRecords /\ journal'[i] = journal[i]
          /\ journal'[n + 1] = r
      BY <1>1, <3>1, NoteFacts
    <3>7. \A j \in 1..n : journal[j].op = o /\ journal[j].kind \in RunKinds =>
            journal[j].kind = "error" /\ of = o
      BY <2>5, RunRecords, RunKindFacts DEF of
    <3> HIDE DEF n
    <3>8. ASSUME NEW i \in 1..(n + 1), journal'[i].kind = "deduped"
          PROVE  \E k \in 1..(i - 1) : journal'[k].op = journal'[i].of /\ journal'[k].kind \in RunKinds
      <4>1. i \in 1..n
        BY <3>1, <3>6, <3>8 DEF LateKinds
      <4>2. PICK k \in 1..(i - 1) : journal[k].op = journal[i].of /\ journal[k].kind \in RunKinds
        BY <1>1, <3>6, <3>8, <4>1 DEF JournalRefersBack, n
      <4>3. k \in 1..n
        BY <3>6
      <4> QED  BY <3>6, <4>1, <4>2, <4>3
    <3>9. ASSUME NEW i \in 1..(n + 1), NEW k \in 1..(n + 1), journal'[i].kind \in LateKinds,
                 journal'[k].op = journal'[i].op, journal'[k].kind \in RunKinds
          PROVE  journal'[k].kind = "error" /\ (k < i => journal'[i].of = journal'[i].op)
      <4>1. k \in 1..n
        BY <3>1, <3>6, <3>9 DEF LateKinds, RunKinds
      <4>2. CASE i \in 1..n
        BY <1>1, <3>6, <3>9, <4>1, <4>2 DEF JournalRefersBack, RecordsOf, n
      <4>3. CASE i = n + 1
        BY <3>1, <3>6, <3>7, <3>9, <4>1, <4>3
      <4> QED  BY <3>6, <4>2, <4>3
    <3>10. JournalRefersBack'
      BY <3>6, <3>8, <3>9 DEF JournalRefersBack, RecordsOf
    <3> QED  BY <3>5, <3>10
  <2> QED  BY <2>2, <2>4, <2>5
<1>6. ASSUME NEW o \in Ops, Finish(o) PROVE JournalInv' /\ JournalRefersBack'
  <2>1. /\ stage[o] = "queued" /\ verdict[o] # "none" /\ adopts[o] = o
        /\ stage' = [stage EXCEPT ![o] = "done"]
        /\ UNCHANGED << verdict, decision, envelope, adopts, late >>
        /\ Note(o, RunKind(o), NoOp)
    BY <1>1, <1>6 DEF Finish, queueVars, runVars, CallPlaces
  <2>2. RunKind(o) \in RunKinds /\ (verdict[o] = "timeout" => RunKind(o) = "error")
    BY <2>1, RunKindFacts
  <2>3. PICK r \in JournalRecords : journal' = Append(journal, r) /\ r.op = o /\ r.kind = RunKind(o)
    <3>1. [op |-> o, kind |-> RunKind(o), of |-> NoOp] \in JournalRecords
      BY <2>2 DEF JournalRecords
    <3> QED  BY <2>1, <3>1 DEF Note
  <2>4. RunKind(o)' = RunKind(o)
    BY <2>1 DEF RunKind
  <2>5. RecordFits(r)'
    BY <1>1, <2>1, <2>2, <2>3, <2>4 DEF RecordFits, RunKinds, LateKinds
  <2>6. JournalInv'
    BY <1>1, <2>1, <2>2, <2>3, <2>5, OneOnRecord DEF EndKinds, RunKinds, LateKinds
  <2>7. \A i \in 1..Len(journal) :
          (journal[i].op = o /\ journal[i].kind \in LateKinds) => r.kind = "error"
    BY <1>1, <2>2, <2>3 DEF JournalInv, RecordFits, LateExactlyAbandoned
  <2>8. JournalRefersBack'
    BY <1>1, <2>2, <2>3, <2>7, PlainRecord DEF RunKinds, LateKinds
  <2> QED  BY <2>6, <2>8
<1>7. ASSUME NEW o \in Ops, Wake(o) PROVE JournalInv' /\ JournalRefersBack'
  <2>1. /\ stage[o] = "waiting" /\ stage[adopts[o]] = "done" /\ adopts[o] # o
        /\ stage' = [stage EXCEPT ![o] = "done"]
        /\ UNCHANGED << adopts, late >> /\ Note(o, "deduped", adopts[o])
    BY <1>1, <1>7 DEF Wake, queueVars, CallPlaces
  <2>2. adopts[o] \in Ops /\ adopts[adopts[o]] = adopts[o]
    BY <1>1, <2>1 DEF CallPlaces, ResultsInv, AdoptedOutcomeIsOwn
  <2>3. adopts' = [adopts EXCEPT ![o] = adopts[o]]
    BY <1>1, <2>1
  <2> QED  BY <2>1, <2>2, <2>3, DedupedOnRecord
<1> QED  BY <1>2, <1>3, <1>4, <1>5, <1>6, <1>7, Steps

(* Every step keeps the types.                                             *)
LEMMA TypeStep ==
    ASSUME ResultsInv, [Next]_vars
    PROVE  TypeOK'
<1> USE NoOpAssumption, RevAssumption
<1>1. /\ QueueInv /\ TypeOK /\ entries \in Seq(Entries) /\ journal \in Seq(JournalRecords)
      /\ stage \in [Ops -> Stages] /\ adopts \in [Ops -> Ops \cup {NoOp}]
      /\ envelope \in [Ops -> {"none", "ok", "error"}] /\ rev \in [Paths -> Revs]
      /\ wrote \in SUBSET Ops /\ forgotten \in SUBSET Ops /\ verdict \in [Ops -> Verdicts]
  BY DEF ResultsInv, KernelInv, TypeOK, QueueTypeOK
<1>2. QueueTypeOK'
  BY <1>1, KernelStepIsQueueStep, QueueInvInductive DEF QueueInv
<1>3. CallsTypeOK'
  BY CallsTypeStep DEF ResultsInv
<1>4. entries' \in Seq(Entries)
  BY StoreStep DEF IsStore
<1>4a. OwnersOf(entries) \subseteq Ops
  <2>1. \A i \in 1..Len(entries) : entries[i] \in Entries
    BY <1>1
  <2> QED  BY <2>1 DEF OwnersOf, Entries
<1> DEFINE Rest == /\ adopts \in [Ops -> Ops \cup {NoOp}]
                   /\ envelope \in [Ops -> {"none", "ok", "error"}]
                   /\ wrote \in SUBSET Ops
                   /\ rev \in [Paths -> Revs]
                   /\ journal \in Seq(JournalRecords)
                   /\ forgotten \in SUBSET Ops
<1>5. ASSUME NEW r \in JournalRecords, journal' = Append(journal, r) PROVE journal' \in Seq(JournalRecords)
  BY <1>1, <1>5
<1>6. ASSUME NEW o \in Ops, NEW c \in Asks, Submit(o, c) PROVE Rest'
  <2>1. /\ UNCHANGED << envelope, wrote, rev >>
        /\ Joins(o, c) \/ \E s \in Stages, p \in Ops \cup {NoOp} : StaysOut(o, c, s, p)
    BY <1>6, SubmitForms
  <2>2. CASE Joins(o, c)
    <3>1. \A k : {entries[i].by : i \in Stored(k)} \subseteq Ops
      BY <1>4a DEF OwnersOf, Stored
    <3> QED  BY <1>1, <2>1, <2>2, <3>1 DEF Joins
  <2>3. ASSUME NEW s \in Stages, NEW p \in Ops \cup {NoOp}, StaysOut(o, c, s, p) PROVE Rest'
    <3>1. /\ [op |-> o, kind |-> "mismatch", of |-> NoOp] \in JournalRecords
          /\ p \in Ops => [op |-> o, kind |-> "deduped", of |-> p] \in JournalRecords
      BY DEF JournalRecords
    <3>2. journal' \in Seq(JournalRecords)
      BY <1>1, <1>5, <2>3, <3>1 DEF StaysOut, Note, OutcomeFor
    <3> QED  BY <1>1, <2>1, <2>3, <3>2 DEF StaysOut
  <2> QED  BY <2>1, <2>2, <2>3
<1>7. ASSUME NEW o \in Ops, HandlerWrites(o) PROVE Rest'
  <2>1. PICK p : rev[p] < MaxRev /\ rev' = [rev EXCEPT ![p] = @ + 1]
    BY <1>7 DEF HandlerWrites
  <2>2. rev' \in [Paths -> Revs]
    <3>1. CASE p \in Paths
      <4>1. rev[p] + 1 \in Revs
        BY <1>1, <2>1, <3>1 DEF Revs
      <4> QED  BY <1>1, <2>1, <4>1
    <3>2. CASE p \notin Paths
      BY <1>1, <2>1, <3>2
    <3> QED  BY <3>1, <3>2
  <2> QED  BY <1>1, <1>7, <2>2 DEF HandlerWrites
<1>8. ASSUME NEW p \in Paths, OutsideEdit(p) PROVE Rest'
  <2>1. rev' \in [Paths -> Revs]
    BY <1>1, <1>8 DEF OutsideEdit, Revs
  <2> QED  BY <1>1, <1>8, <2>1 DEF OutsideEdit
<1>9. ASSUME NEW o \in Ops, NEW env \in {"none", "ok", "error"}, HandlerSettles(o, env) PROVE Rest'
  <2> DEFINE kind == IF env = "ok" THEN "late-ok" ELSE "late-error"
             of == IF stage[o] = "done" THEN o ELSE NoOp
  <2>1. [op |-> o, kind |-> kind, of |-> of] \in JournalRecords
    BY DEF JournalRecords, LateKinds
  <2>2. journal' = journal \/ journal' = Append(journal, [op |-> o, kind |-> kind, of |-> of])
    BY <1>9 DEF HandlerSettles, NoteLate, Note
  <2> HIDE DEF kind, of
  <2>3. journal' \in Seq(JournalRecords)
    <3>1. CASE journal' = journal
      BY <1>1, <3>1
    <3>2. CASE journal' # journal
      BY <1>5, <2>1, <2>2, <3>2
    <3> QED  BY <3>1, <3>2
  <2> QED  BY <1>1, <1>9, <2>3 DEF HandlerSettles
<1>10. ASSUME NEW o \in Ops, Finish(o) PROVE Rest'
  <2>1. RunKind(o) \in RunKinds
    BY <1>10, RunKindFacts DEF Finish
  <2>2. [op |-> o, kind |-> RunKind(o), of |-> NoOp] \in JournalRecords
    BY <2>1 DEF JournalRecords
  <2>3. journal' \in Seq(JournalRecords)
    BY <1>1, <1>10, <2>2 DEF Finish, Note
  <2>4. forgotten' \in SUBSET Ops
    BY <1>1, <1>4a, <1>10 DEF Finish, SettleKey
  <2> QED  BY <1>1, <1>10, <2>3, <2>4 DEF Finish, runVars
<1>11. ASSUME NEW o \in Ops, Wake(o) PROVE Rest'
  <2>1. adopts[o] \in Ops
    BY <1>1, <1>11 DEF Wake, ResultsInv, KernelInv, CallsTypeOK
  <2>2. [op |-> o, kind |-> "deduped", of |-> adopts[o]] \in JournalRecords
    BY <2>1 DEF JournalRecords
  <2>3. journal' \in Seq(JournalRecords)
    BY <1>1, <1>11, <2>2 DEF Wake, Note
  <2> QED  BY <1>1, <1>11, <2>3 DEF Wake, runVars
<1>12. ASSUME UNCHANGED << adopts, envelope, wrote, rev, journal, forgotten >> PROVE Rest'
  BY <1>1, <1>12
<1>13. Rest'
  BY <1>6, <1>7, <1>8, <1>9, <1>10, <1>11, <1>12
     DEF Next, Closure, JournalLands, kernelVars, ClockTicks, QueueAlone, vars
<1> QED  BY <1>2, <1>3, <1>4, <1>13 DEF TypeOK, CallsTypeOK

-----------------------------------------------------------------------------
(* The theorems.                                                           *)

(* The kernel uses its queue only through the queue's own operations.      *)
THEOREM KernelUsesQueue == Spec => QueueSpec
<1>1. Init => QueueInit
  BY DEF Init
<1>2. [Next]_vars => [QueueNext]_queueVars
  BY KernelStepIsQueueStep
<1> QED  BY <1>1, <1>2, PTL DEF Spec, QueueSpec

(* The kernel serves writes one at a time, in the order they arrived, and  *)
(* answers each once.                                                      *)
THEOREM KernelServesSerially == Spec => ImplementsSerialWrites
  BY KernelUsesQueue, QueueRefinesSerialWrites

(* The inductive invariant holds of every behaviour of the kernel.         *)
THEOREM KernelInvariant == Spec => []KernelInv
<1>1. Init => KernelInv
  <2> SUFFICES ASSUME Init PROVE KernelInv
    OBVIOUS
  <2>1. QueueInv
    BY QueueInvInductive DEF Init
  <2>2. CallsTypeOK
    BY DEF Init, CallsTypeOK, Stages, Decisions, Calls, NoCall
  <2>3. KeysHeldByQueued /\ WaiterHasOwner /\ IsolatedUnlessAbandoned
    BY DEF Init, KeysHeldByQueued, WaiterHasOwner, IsolatedUnlessAbandoned
  <2> QED  BY <2>1, <2>2, <2>3 DEF KernelInv
<1>2. KernelInv /\ [Next]_vars => KernelInv'
  <2> SUFFICES ASSUME KernelInv, [Next]_vars PROVE KernelInv'
    OBVIOUS
  <2>1. QueueInv'
    BY KernelStepIsQueueStep, QueueInvInductive DEF KernelInv
  <2> QED  BY <2>1, CallsTypeStep, OwnersStep, IsolationStep DEF KernelInv
<1> QED  BY <1>1, <1>2, PTL DEF Spec

(* No other call of the kernel writes a note between a call's if_rev check *)
(* and its write, unless one of the two was abandoned.                     *)
THEOREM KernelIsolation == Spec => []IsolatedUnlessAbandoned
<1>1. KernelInv => IsolatedUnlessAbandoned
  BY DEF KernelInv
<1> QED  BY <1>1, KernelInvariant, PTL

(* A write that waits for a free slot has a pump on its way, and a call    *)
(* that waits on a key waits for one that is in the queue under it, or has *)
(* come to its end.                                                        *)
THEOREM NobodyForgotten == Spec => []NobodyIsForgotten
<1>1. KernelInv => NobodyIsForgotten
  BY DEF KernelInv, QueueInv, NobodyIsForgotten
<1> QED  BY <1>1, KernelInvariant, PTL

(* The invariant about results and records holds of every behaviour.       *)
THEOREM ResultsInvariant == Spec => []ResultsInv
<1>1. Init /\ KernelInv => ResultsInv
  <2> SUFFICES ASSUME Init, KernelInv PROVE ResultsInv
    OBVIOUS
  <2> USE NoOpAssumption DEF Init, QueueInit
  <2>1. TypeOK
    BY RevAssumption DEF KernelInv, CallsTypeOK, QueueInv, TypeOK, Revs
  <2>2. CallPlaces /\ AdoptedOutcomeIsOwn
    BY DEF CallPlaces, AdoptedOutcomeIsOwn
  <2>3. StoreInv
    BY DEF StoreInv, DistinctKeys, ToSet
  <2>4. JournalInv /\ JournalRefersBack
    BY DEF JournalInv, JournalRefersBack, RecordsOf
  <2> QED  BY <2>1, <2>2, <2>3, <2>4 DEF ResultsInv
<1>2. ResultsInv /\ KernelInv' /\ [Next]_vars => ResultsInv'
  <2> SUFFICES ASSUME ResultsInv, KernelInv', [Next]_vars PROVE ResultsInv'
    OBVIOUS
  <2>1. LateExactlyAbandoned'
    BY DEF KernelInv, QueueInv
  <2> QED  BY <2>1, TypeStep, PlacesStep, AdoptionStep, StoreStep, JournalStep DEF ResultsInv
<1> QED  BY <1>1, <1>2, KernelInvariant, PTL DEF Spec

(* Every variable of the kernel keeps its type.                            *)
THEOREM KernelTypeCorrect == Spec => []TypeOK
<1>1. ResultsInv => TypeOK
  BY DEF ResultsInv
<1> QED  BY <1>1, ResultsInvariant, PTL

(* A call is only ever given the outcome of the same call, and at first    *)
(* hand.                                                                   *)
THEOREM OutcomesAreOwn == Spec => []AdoptedOutcomeIsOwn
<1>1. ResultsInv => AdoptedOutcomeIsOwn
  BY DEF ResultsInv
<1> QED  BY <1>1, ResultsInvariant, PTL

(* Two calls under one key both run only if the outcome of one no longer   *)
(* protects the key: a call that was dequeued has joined the queue, where  *)
(* it holds the key, or is done, and then its result is stored or it is    *)
(* released.                                                               *)
THEOREM OneRunPerKey == Spec => []AtMostOncePerKey
<1>1. ResultsInv => AtMostOncePerKey
  <2> SUFFICES ASSUME ResultsInv, NEW o \in Ops, NEW p \in Ops, o # p, SameKey(o, p),
                      Ran(o), Ran(p), ~ Released(o), ~ Released(p)
               PROVE  FALSE
    BY DEF AtMostOncePerKey
  <2> DEFINE k == call[o].key
  <2>1. /\ k \in Keys /\ call[p].key = k
        /\ stage \in [Ops -> Stages] /\ verdict \in [Ops -> Verdicts]
        /\ entries \in Seq(Entries)
    BY DEF ResultsInv, TypeOK, QueueTypeOK, Calls, SameKey
  <2>2. ASSUME NEW q \in {o, p}
        PROVE  \/ stage[q] = "queued" /\ reservations[k] = q
               \/ /\ reservations[k] = NoOp
                  /\ \E i \in 1..Len(entries) : entries[i].by = q /\ entries[i].key = k
    <3>1. q \in Ops /\ call[q].key = k /\ Ran(q) /\ ~ Released(q)
      BY <2>1
    <3>2. adopts[q] = q
      BY <3>1 DEF Ran, ResultsInv, CallPlaces
    <3>3. stage[q] \in {"queued", "done"}
      BY <2>1, <3>1, <3>2, NoOpAssumption DEF Stages, ResultsInv, CallPlaces
    <3>4. CASE stage[q] = "queued"
      BY <2>1, <3>1, <3>4, KeyAssumption DEF ResultsInv, KernelInv, KeysHeldByQueued
    <3>5. CASE stage[q] = "done"
      <4>1. verdict[q] = "resolved" /\ q \notin forgotten
        BY <2>1, <3>1, <3>2, <3>5 DEF Released, Verdicts, ResultsInv, CallPlaces
      <4>2. q \in OwnersOf(entries)
        BY <2>1, <3>1, <3>2, <3>5, <4>1, KeyAssumption DEF ResultsInv, StoreInv
      <4>3. PICK i \in 1..Len(entries) : entries[i].by = q
        BY <4>2 DEF OwnersOf
      <4>4. entries[i] \in ToSet(entries)
        BY <2>1 DEF ToSet
      <4>5. HoldsResult(q, entries[i].key)
        BY <4>3, <4>4 DEF ResultsInv, StoreInv
      <4> QED  BY <3>1, <4>3, <4>5 DEF HoldsResult
    <3> QED  BY <3>3, <3>4, <3>5
  <2>3. o # NoOp /\ p # NoOp
    BY NoOpAssumption
  <2>4. reservations[k] = NoOp
    BY <2>2, <2>3
  <2>5. PICK i \in 1..Len(entries) : entries[i].by = o /\ entries[i].key = k
    BY <2>2, <2>3, <2>4
  <2>6. PICK j \in 1..Len(entries) : entries[j].by = p /\ entries[j].key = k
    BY <2>2, <2>3, <2>4
  <2> QED  BY <2>5, <2>6 DEF ResultsInv, StoreInv, DistinctKeys
<1> QED  BY <1>1, ResultsInvariant, PTL

LEMMA ExactlyOne ==
    ASSUME NEW S, S # {}, \A x, y \in S : x = y
    PROVE  Cardinality(S) = 1
<1>1. PICK x \in S : S = {x}
  OBVIOUS
<1> QED  BY <1>1, FS_Singleton

(* The journal tells of every call what became of it, once.                *)
THEOREM JournalIsTruthful == Spec => []JournalTellsTheOutcome
<1>1. ResultsInv => JournalTellsTheOutcome
  <2> SUFFICES ASSUME ResultsInv, NEW o \in Ops
               PROVE  /\ Cardinality(RecordsOf(o, EndKinds))
                            = IF stage[o] \in {"done", "refused"} THEN 1 ELSE 0
                      /\ Cardinality(RecordsOf(o, LateKinds)) = IF o \in late THEN 1 ELSE 0
                      /\ RecordsOf(o, {"ok", "late-ok"}) # {} => envelope[o] = "ok"
                      /\ (envelope[o] = "ok" /\ stage[o] = "done")
                            => RecordsOf(o, {"ok", "late-ok"}) # {}
    BY DEF JournalTellsTheOutcome, EndKinds
  <2> DEFINE ended == RecordsOf(o, EndKinds)
             afterwards == RecordsOf(o, LateKinds)
  <2>1. /\ JournalInv /\ CallPlaces /\ QueueInv
        /\ verdict \in [Ops -> Verdicts] /\ envelope[o] \in {"none", "ok", "error"}
    BY DEF ResultsInv, KernelInv, TypeOK, QueueTypeOK
  <2>2. \A i \in ended : ~ (journal[i].kind \in LateKinds)
    BY DEF RecordsOf, EndKinds, RunKinds, LateKinds
  <2>3. Cardinality(ended) = IF stage[o] \in {"done", "refused"} THEN 1 ELSE 0
    <3>1. \A i, j \in ended : i = j
      BY <2>1, <2>2 DEF JournalInv, RecordsOf
    <3>2. CASE stage[o] \in {"done", "refused"}
      BY <2>1, <3>1, <3>2, ExactlyOne DEF JournalInv
    <3>3. CASE stage[o] \notin {"done", "refused"}
      <4>1. ended = {}
        BY <2>1, <2>2, <3>3 DEF JournalInv, RecordFits, RecordsOf
      <4> QED  BY <3>3, <4>1, FS_EmptySet
    <3> QED  BY <3>2, <3>3
  <2>4. Cardinality(afterwards) = IF o \in late THEN 1 ELSE 0
    <3>1. \A i, j \in afterwards : i = j
      BY <2>1 DEF JournalInv, RecordsOf
    <3>2. CASE o \in late
      BY <2>1, <3>1, <3>2, ExactlyOne DEF JournalInv
    <3>3. CASE o \notin late
      <4>1. afterwards = {}
        BY <2>1, <3>3 DEF JournalInv, RecordFits, RecordsOf
      <4> QED  BY <3>3, <4>1, FS_EmptySet
    <3> QED  BY <3>2, <3>3
  <2>5. ASSUME NEW i \in RecordsOf(o, {"ok", "late-ok"}) PROVE envelope[o] = "ok"
    <3>1. /\ i \in 1..Len(journal) /\ journal[i].op = o /\ journal[i].kind \in {"ok", "late-ok"}
          /\ RecordFits(journal[i])
      BY <2>1 DEF RecordsOf, JournalInv
    <3>2. CASE journal[i].kind = "ok"
      <4>1. stage[o] = "done" /\ adopts[o] = o /\ RunKind(o) = "ok"
        BY <3>1, <3>2, RunRecords DEF RunKinds
      <4>2. verdict[o] # "none"
        BY <2>1, <4>1 DEF CallPlaces
      <4> QED  BY <4>1, <4>2, RunKindFacts
    <3>3. CASE journal[i].kind = "late-ok"
      BY <3>1, <3>3 DEF RecordFits, LateKinds, LateKind
    <3> QED  BY <3>1, <3>2, <3>3
  <2>6. ASSUME envelope[o] = "ok", stage[o] = "done"
        PROVE  RecordsOf(o, {"ok", "late-ok"}) # {}
    <3>1. fn[o] = "returned" /\ adopts[o] = o /\ verdict[o] \in {"resolved", "timeout"}
      BY <2>1, <2>6 DEF CallPlaces, Verdicts
    <3>2. CASE verdict[o] = "resolved"
      <4>1. RunKind(o) = "ok"
        BY <2>6, <3>2, RunKindFacts
      <4> QED  BY <2>6, <3>1, <4>1, RunsOnRecord DEF RecordsOf
    <3>3. CASE verdict[o] = "timeout"
      <4>1. o \in late
        BY <2>1, <3>1, <3>3 DEF QueueInv, LateExactlyAbandoned
      <4>2. PICK i \in 1..Len(journal) : journal[i].op = o /\ journal[i].kind \in LateKinds
        BY <2>1, <4>1 DEF JournalInv, RecordsOf
      <4>3. journal[i].kind = "late-ok"
        BY <2>1, <2>6, <4>2 DEF JournalInv, RecordFits, LateKind
      <4> QED  BY <4>2, <4>3 DEF RecordsOf
    <3> QED  BY <3>1, <3>2, <3>3
  <2> QED  BY <2>3, <2>4, <2>5, <2>6
<1> QED  BY <1>1, ResultsInvariant, PTL

(* What a record refers to is on record before it.                         *)
THEOREM JournalRefers == Spec => []JournalRefersBack
<1>1. ResultsInv => JournalRefersBack
  BY DEF ResultsInv
<1> QED  BY <1>1, ResultsInvariant, PTL

(* The journal tells how every call ended, and what its records refer to   *)
(* is before them.                                                         *)
THEOREM JournalSound == Spec => []JournalIsSound
<1>1. JournalTellsTheOutcome /\ JournalRefersBack => JournalIsSound
  BY DEF JournalIsSound
<1> QED  BY <1>1, JournalIsTruthful, JournalRefers, PTL
===============================================================================
