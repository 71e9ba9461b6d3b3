-------------------------- MODULE WriteQueueProofs --------------------------
(***************************************************************************)
(* Proofs about the write queue, for every number of operations and every  *)
(* timeout.                                                                *)
(***************************************************************************)
EXTENDS WriteQueue, SequenceTheorems, TLAPS

(* What a queue `line`, a slot holder, the operations' states and their    *)
(* verdicts have to satisfy for pump() to re-establish the invariant.      *)
PumpReady(line, holder, states, vd, lt) ==
    /\ line \in Seq(Ops)
    /\ holder \in Ops \cup {NoOp}
    /\ states \in [Ops -> FnStates]
    /\ vd \in [Ops -> Verdicts]
    /\ lt \in SUBSET Ops
    /\ \A o \in Ops : o = holder <=>
            states[o] \in {"scheduled", "running"} /\ vd[o] = "none"
    /\ \A o \in Ops :
            o \in lt <=> vd[o] = "timeout" /\ states[o] \in {"returned", "threw"}
    /\ \A i \in 1..Len(line) : states[line[i]] = "pending"
    /\ \A i, j \in 1..Len(line) : line[i] = line[j] => i = j
    /\ \A i \in 1..Len(dequeued) : states[dequeued[i]] \notin {"new", "pending"}
    /\ \A o \in Ops : states[o] \in {"new", "pending"} => vd[o] = "none"
    /\ \A o \in Ops : states[o] \in {"returned", "threw"} => vd[o] # "none"
    /\ \A o \in Ops : vd[o] \in {"resolved", "rejected"} => states[o] \in {"returned", "threw"}
    /\ holder # NoOp => dequeued # << >> /\ holder = dequeued[Len(dequeued)]

(* pump() establishes the invariant whatever the slot and the line were:   *)
(* afterwards the slot is held or nobody waits.                            *)
LEMMA PumpEstablishesInv ==
    ASSUME QueueTypeOK,
           NEW STATE line, NEW STATE holder, NEW STATE states,
           PumpReady(line, holder, states, verdict', late'),
           Pump(line, holder, states),
           pumps' \in Nat
    PROVE  QueueInv'
<1> USE NoOpAssumption, TimeoutAssumption
<1>1. CASE holder = NoOp /\ line # << >>
  <2> DEFINE h == Head(line)
  <2>1. /\ h \in Ops /\ h = line[1] /\ Len(line) \in Nat \ {0}
        /\ Tail(line) \in Seq(Ops) /\ Len(Tail(line)) = Len(line) - 1
        /\ \A i \in 1..Len(Tail(line)) : Tail(line)[i] = line[i+1]
    BY <1>1, HeadTailProperties, LenProperties, ElementOfSeq, EmptySeq DEF PumpReady
  <2>2. /\ pending' = Tail(line) /\ current' = h /\ age' = 0
        /\ dequeued' = Append(dequeued, h)
        /\ fn' = [states EXCEPT ![h] = "scheduled"]
    BY <1>1 DEF Pump, Dequeue
  <2>3. /\ dequeued' \in Seq(Ops) /\ dequeued' # << >>
        /\ Len(dequeued') = Len(dequeued) + 1
        /\ dequeued'[Len(dequeued')] = h
        /\ Len(dequeued) \in Nat
        /\ \A i \in 1..Len(dequeued) : dequeued'[i] = dequeued[i]
    <3>1. /\ Append(dequeued, h) \in Seq(Ops) /\ Append(dequeued, h) # << >>
          /\ Len(Append(dequeued, h)) = Len(dequeued) + 1
          /\ Append(dequeued, h)[Len(dequeued) + 1] = h
          /\ \A i \in 1..Len(dequeued) : Append(dequeued, h)[i] = dequeued[i]
      BY <2>1, AppendProperties DEF QueueTypeOK
    <3>2. Len(dequeued) \in Nat
      BY LenProperties DEF QueueTypeOK
    <3> QED BY <2>2, <3>1, <3>2
  <2>4. states[h] = "pending" /\ verdict'[h] = "none"
    BY <2>1 DEF PumpReady
  <2>5. QueueTypeOK'
    BY <2>1, <2>2, <2>3 DEF QueueTypeOK, PumpReady, FnStates
  <2>6. SlotIsTheUnsettledOp'
    BY <1>1, <2>1, <2>2, <2>4 DEF SlotIsTheUnsettledOp, Unsettled, PumpReady
  <2>7. NoLostWakeup'
    BY <2>1, <2>2 DEF NoLostWakeup
  <2>8. LateExactlyAbandoned'
    BY <2>1, <2>2, <2>4 DEF LateExactlyAbandoned, PumpReady
  <2>9. QueuePlaces'
    <3>1. \A i \in 1..Len(pending') : fn'[pending'[i]] = "pending"
      <4> SUFFICES ASSUME NEW i \in 1..Len(pending') PROVE fn'[pending'[i]] = "pending"
        OBVIOUS
      <4>1. i + 1 \in 1..Len(line) /\ pending'[i] = line[i+1] /\ i + 1 # 1
        BY <2>1, <2>2
      <4>2. line[i+1] # h /\ line[i+1] \in Ops
        BY <2>1, <4>1, ElementOfSeq DEF PumpReady
      <4> QED BY <4>1, <4>2, <2>2 DEF PumpReady
    <3>2. \A i, j \in 1..Len(pending') : pending'[i] = pending'[j] => i = j
      BY <2>1, <2>2 DEF PumpReady
    <3>3. \A i \in 1..Len(dequeued') : fn'[dequeued'[i]] \notin {"new", "pending"}
      <4> SUFFICES ASSUME NEW i \in 1..Len(dequeued')
                   PROVE fn'[dequeued'[i]] \notin {"new", "pending"}
        OBVIOUS
      <4>1. CASE i = Len(dequeued')
        BY <4>1, <2>1, <2>2, <2>3 DEF PumpReady
      <4>2. CASE i # Len(dequeued')
        <5>1. i \in 1..Len(dequeued) /\ dequeued'[i] = dequeued[i] /\ dequeued[i] \in Ops
          BY <4>2, <2>3, ElementOfSeq DEF QueueTypeOK
        <5> QED BY <5>1, <2>1, <2>2 DEF PumpReady
      <4> QED BY <4>1, <4>2
    <3>4. \A o \in Ops : fn'[o] \in {"new", "pending"} => verdict'[o] = "none"
      BY <2>1, <2>2 DEF PumpReady
    <3>5. \A o \in Ops : fn'[o] \in {"returned", "threw"} => verdict'[o] # "none"
      BY <2>1, <2>2 DEF PumpReady
    <3>6. \A o \in Ops : verdict'[o] \in {"resolved", "rejected"} => fn'[o] \in {"returned", "threw"}
      BY <2>1, <2>2, <2>4 DEF PumpReady
    <3> QED BY <3>1, <3>2, <3>3, <3>4, <3>5, <3>6, <2>2, <2>3 DEF QueuePlaces
  <2> QED BY <2>5, <2>6, <2>7, <2>8, <2>9 DEF QueueInv
<1>2. CASE ~ (holder = NoOp /\ line # << >>)
  <2>1. /\ pending' = line /\ current' = holder /\ fn' = states
        /\ dequeued' = dequeued
        /\ age' = IF holder = NoOp THEN 0 ELSE age
    BY <1>2 DEF Pump
  <2>2. QueueTypeOK'
    BY <2>1 DEF QueueTypeOK, PumpReady
  <2>3. SlotIsTheUnsettledOp' /\ LateExactlyAbandoned'
    BY <2>1 DEF SlotIsTheUnsettledOp, LateExactlyAbandoned, Unsettled, PumpReady
  <2>4. NoLostWakeup'
    BY <1>2, <2>1 DEF NoLostWakeup
  <2>5. QueuePlaces'
    BY <2>1 DEF QueuePlaces, PumpReady
  <2> QED BY <2>2, <2>3, <2>4, <2>5 DEF QueueInv
<1> QED BY <1>1, <1>2

(* nudge() preserves the invariant, on the queue as it is or with a fresh  *)
(* operation at its end.                                                   *)
LEMMA NudgePreservesInv ==
    ASSUME QueueInv, UNCHANGED late,
           NEW STATE line, NEW STATE states,
           PumpReady(line, current, states, verdict, late),
           NudgeOn(line, states)
    PROVE  QueueInv'
<1> USE NoOpAssumption, TimeoutAssumption
<1>1. CASE Overdue
  <2>1. /\ verdict' = [verdict EXCEPT ![current] = "timeout"]
        /\ pumps' = pumps + 1 /\ Pump(line, NoOp, states) /\ current \in Ops
    BY <1>1 DEF NudgeOn, Overdue, QueueInv, QueueTypeOK
  <2>2. PumpReady(line, NoOp, states, verdict', late')
    <3>1. states[current] \in {"scheduled", "running"}
      BY <2>1 DEF PumpReady
    <3>2. \A o \in Ops : ~ (states[o] \in {"scheduled", "running"} /\ verdict'[o] = "none")
      BY <2>1 DEF PumpReady
    <3>3. \A o \in Ops :
            o \in late' <=> verdict'[o] = "timeout" /\ states[o] \in {"returned", "threw"}
      BY <2>1, <3>1 DEF PumpReady
    <3>4. \A o \in Ops : /\ states[o] \in {"new", "pending"} => verdict'[o] = "none"
                         /\ states[o] \in {"returned", "threw"} => verdict'[o] # "none"
                         /\ verdict'[o] \in {"resolved", "rejected"} => states[o] \in {"returned", "threw"}
      BY <2>1, <3>1 DEF PumpReady
    <3>5. verdict' \in [Ops -> Verdicts]
      BY <2>1 DEF PumpReady, Verdicts
    <3> QED BY <3>2, <3>3, <3>4, <3>5 DEF PumpReady
  <2>3. pumps' \in Nat
    BY <2>1 DEF QueueInv, QueueTypeOK
  <2> QED BY <2>1, <2>2, <2>3, PumpEstablishesInv DEF QueueInv
<1>2. CASE ~ Overdue
  BY <1>2, PumpEstablishesInv DEF NudgeOn, QueueInv, QueueTypeOK
<1> QED BY <1>1, <1>2

(* The queue as it stands is ready to be pumped.                           *)
LEMMA InvPumpReady == QueueInv => PumpReady(pending, current, fn, verdict, late)
BY DEF QueueInv, QueueTypeOK, SlotIsTheUnsettledOp, Unsettled, LateExactlyAbandoned,
       QueuePlaces, PumpReady

(* So is the queue with a fresh operation at its end.                      *)
LEMMA RunPumpReady ==
    ASSUME QueueInv, NEW o \in Ops, fn[o] = "new"
    PROVE  PumpReady(Append(pending, o), current, [fn EXCEPT ![o] = "pending"], verdict, late)
<1> DEFINE line == Append(pending, o)
           states == [fn EXCEPT ![o] = "pending"]
<1>1. /\ line \in Seq(Ops) /\ Len(line) = Len(pending) + 1 /\ Len(pending) \in Nat
      /\ \A i \in 1..Len(pending) : line[i] = pending[i]
      /\ line[Len(line)] = o
  BY AppendProperties, LenProperties DEF QueueInv, QueueTypeOK
<1>2. \A i \in 1..Len(pending) : pending[i] \in Ops /\ pending[i] # o /\ fn[pending[i]] = "pending"
  BY ElementOfSeq DEF QueueInv, QueueTypeOK, QueuePlaces
<1>3. \A i \in 1..Len(line) : states[line[i]] = "pending"
  <2> SUFFICES ASSUME NEW i \in 1..Len(line) PROVE states[line[i]] = "pending"
    OBVIOUS
  <2>1. CASE i = Len(line)
    BY <2>1, <1>1 DEF QueueInv, QueueTypeOK
  <2>2. CASE i # Len(line)
    <3>1. i \in 1..Len(pending)
      BY <2>2, <1>1
    <3> QED BY <3>1, <1>1, <1>2 DEF QueueInv, QueueTypeOK
  <2> QED BY <2>1, <2>2
<1>4. \A i, j \in 1..Len(line) : line[i] = line[j] => i = j
  <2> SUFFICES ASSUME NEW i \in 1..Len(line), NEW j \in 1..Len(line), line[i] = line[j]
               PROVE i = j
    OBVIOUS
  <2>1. CASE i = Len(line) /\ j # Len(line)
    <3>1. j \in 1..Len(pending)
      BY <2>1, <1>1
    <3> QED BY <3>1, <2>1, <1>1, <1>2
  <2>2. CASE i # Len(line) /\ j = Len(line)
    <3>1. i \in 1..Len(pending)
      BY <2>2, <1>1
    <3> QED BY <3>1, <2>2, <1>1, <1>2
  <2>3. CASE i # Len(line) /\ j # Len(line)
    <3>1. i \in 1..Len(pending) /\ j \in 1..Len(pending)
      BY <2>3, <1>1
    <3> QED BY <3>1, <1>1 DEF QueueInv, QueuePlaces
  <2> QED BY <2>1, <2>2, <2>3
<1>5. \A i \in 1..Len(dequeued) : states[dequeued[i]] \notin {"new", "pending"}
  <2>1. \A i \in 1..Len(dequeued) : dequeued[i] \in Ops /\ dequeued[i] # o
    BY ElementOfSeq DEF QueueInv, QueueTypeOK, QueuePlaces
  <2> QED BY <2>1 DEF QueueInv, QueueTypeOK, QueuePlaces
<1>6. states \in [Ops -> FnStates]
  BY DEF QueueInv, QueueTypeOK, FnStates
<1>7. \A p \in Ops : /\ p = current <=> states[p] \in {"scheduled", "running"} /\ verdict[p] = "none"
                     /\ p \in late <=> verdict[p] = "timeout" /\ states[p] \in {"returned", "threw"}
                     /\ states[p] \in {"new", "pending"} => verdict[p] = "none"
                     /\ states[p] \in {"returned", "threw"} => verdict[p] # "none"
                     /\ verdict[p] \in {"resolved", "rejected"} => states[p] \in {"returned", "threw"}
  BY DEF QueueInv, QueueTypeOK, QueuePlaces, SlotIsTheUnsettledOp, Unsettled, LateExactlyAbandoned
<1> QED
  BY <1>1, <1>3, <1>4, <1>5, <1>6, <1>7 DEF PumpReady, QueueInv, QueueTypeOK, QueuePlaces

(* An operation's function starts: only where the operation is changes.    *)
LEMMA StartFnPreservesInv ==
    ASSUME QueueInv, NEW o \in Ops, StartFn(o)
    PROVE  QueueInv'
<1> USE NoOpAssumption DEF StartFn
<1>1. QueueTypeOK'
  BY DEF QueueInv, QueueTypeOK, FnStates
<1>2. SlotIsTheUnsettledOp' /\ LateExactlyAbandoned' /\ NoLostWakeup'
  BY DEF QueueInv, QueueTypeOK, SlotIsTheUnsettledOp, Unsettled, LateExactlyAbandoned, NoLostWakeup
<1>3. QueuePlaces'
  BY ElementOfSeq DEF QueueInv, QueueTypeOK, QueuePlaces
<1> QED BY <1>1, <1>2, <1>3 DEF QueueInv

(* An operation settles: by releasing the slot, which is its own, or late. *)
LEMMA SettleFnPreservesInv ==
    ASSUME QueueInv, NEW o \in Ops, NEW how \in {"returned", "threw"}, SettleFn(o, how)
    PROVE  QueueInv'
<1> USE NoOpAssumption, TimeoutAssumption
<1>1. fn[o] = "running" /\ fn' = [fn EXCEPT ![o] = how] /\ UNCHANGED << pending, dequeued >>
  BY DEF SettleFn
<1>2. \A i \in 1..Len(pending') : fn'[pending'[i]] = "pending"
  BY <1>1, ElementOfSeq DEF QueueInv, QueueTypeOK, QueuePlaces
<1>3. \A i \in 1..Len(dequeued') : fn'[dequeued'[i]] \notin {"new", "pending"}
  BY <1>1, ElementOfSeq DEF QueueInv, QueueTypeOK, QueuePlaces
<1>4. CASE \E v \in {"resolved", "rejected"} : ClaimSlot(o, v)
  <2> PICK v \in {"resolved", "rejected"} : ClaimSlot(o, v)
    BY <1>4
  <2>1. QueueTypeOK'
    BY <1>1 DEF QueueInv, QueueTypeOK, ClaimSlot, FnStates, Verdicts
  <2>2. SlotIsTheUnsettledOp' /\ LateExactlyAbandoned' /\ NoLostWakeup'
    BY <1>1 DEF QueueInv, QueueTypeOK, ClaimSlot, SlotIsTheUnsettledOp, Unsettled,
                LateExactlyAbandoned, NoLostWakeup
  <2>3. QueuePlaces'
    BY <1>1, <1>2, <1>3 DEF QueueInv, QueueTypeOK, QueuePlaces, ClaimSlot
  <2> QED BY <2>1, <2>2, <2>3 DEF QueueInv
<1>5. CASE SettleLate(o)
  <2>0. verdict[o] = "timeout"
    BY <1>1, <1>5 DEF QueueInv, QueueTypeOK, SettleLate, LateExactlyAbandoned, QueuePlaces, Verdicts
  <2>1. QueueTypeOK'
    BY <1>1, <1>5 DEF QueueInv, QueueTypeOK, SettleLate, FnStates
  <2>2. SlotIsTheUnsettledOp' /\ LateExactlyAbandoned' /\ NoLostWakeup'
    BY <1>1, <1>5, <2>0 DEF QueueInv, QueueTypeOK, SettleLate, SlotIsTheUnsettledOp, Unsettled,
                LateExactlyAbandoned, NoLostWakeup
  <2>3. QueuePlaces'
    BY <1>1, <1>2, <1>3, <1>5 DEF QueueInv, QueueTypeOK, QueuePlaces, SettleLate
  <2> QED BY <2>1, <2>2, <2>3 DEF QueueInv
<1> QED BY <1>4, <1>5 DEF SettleFn

(* The timer abandons the holder: the slot is freed and a pump scheduled.  *)
LEMMA TimerPreservesInv == QueueInv /\ TimerFires => QueueInv'
<1> SUFFICES ASSUME QueueInv, TimerFires PROVE QueueInv'
  OBVIOUS
<1> USE NoOpAssumption, TimeoutAssumption DEF TimerFires, Overdue
<1>1. QueueTypeOK' /\ current \in Ops
  BY DEF QueueInv, QueueTypeOK, Verdicts
<1>2. SlotIsTheUnsettledOp' /\ LateExactlyAbandoned' /\ NoLostWakeup'
  BY <1>1 DEF QueueInv, QueueTypeOK, SlotIsTheUnsettledOp, Unsettled,
              LateExactlyAbandoned, NoLostWakeup
<1>3. QueuePlaces'
  BY <1>1 DEF QueueInv, QueueTypeOK, QueuePlaces, SlotIsTheUnsettledOp, Unsettled
<1> QED BY <1>1, <1>2, <1>3 DEF QueueInv

(* The invariant holds initially and every step of the queue preserves it. *)
LEMMA QueueInvInductive ==
    /\ QueueInit => QueueInv
    /\ QueueInv /\ [QueueNext]_queueVars => QueueInv'
<1> USE NoOpAssumption, TimeoutAssumption
<1>1. QueueInit => QueueInv
  <2> SUFFICES ASSUME QueueInit PROVE QueueInv
    OBVIOUS
  <2>1. QueueTypeOK
    BY EmptySeq DEF QueueInit, QueueTypeOK, FnStates, Verdicts
  <2>2. Len(pending) = 0 /\ Len(dequeued) = 0
    BY EmptySeq DEF QueueInit
  <2> QED BY <2>1, <2>2 DEF QueueInit, QueueInv, SlotIsTheUnsettledOp, Unsettled,
                             NoLostWakeup, LateExactlyAbandoned, QueuePlaces
<1>2. ASSUME QueueInv, [QueueNext]_queueVars PROVE QueueInv'
  <2> USE <1>2
  <2>1. ASSUME NEW o \in Ops, Run(o) PROVE QueueInv'
    BY <2>1, RunPumpReady, NudgePreservesInv DEF Run
  <2>2. CASE Nudge
    BY <2>2, InvPumpReady, NudgePreservesInv DEF Nudge
  <2>3. CASE TimerFires
    BY <2>3, TimerPreservesInv
  <2>4. CASE RunPump
    <3>1. pumps' \in Nat
      BY <2>4 DEF RunPump, QueueInv, QueueTypeOK
    <3>2. PumpReady(pending, current, fn, verdict', late')
      BY <2>4, InvPumpReady DEF RunPump
    <3> QED BY <2>4, <3>1, <3>2, PumpEstablishesInv DEF RunPump, QueueInv
  <2>5. ASSUME NEW o \in Ops, StartFn(o) PROVE QueueInv'
    BY <2>5, StartFnPreservesInv
  <2>6. ASSUME NEW o \in Ops, NEW how \in {"returned", "threw"}, SettleFn(o, how)
        PROVE  QueueInv'
    BY <2>6, SettleFnPreservesInv
  <2>7. CASE Tick
    BY <2>7 DEF Tick, Ticking, QueueInv, QueueTypeOK, SlotIsTheUnsettledOp, Unsettled,
                NoLostWakeup, LateExactlyAbandoned, QueuePlaces
  <2>8. CASE UNCHANGED queueVars
    BY <2>8 DEF queueVars, QueueInv, QueueTypeOK, SlotIsTheUnsettledOp, Unsettled,
                NoLostWakeup, LateExactlyAbandoned, QueuePlaces
  <2> QED BY <2>1, <2>2, <2>3, <2>4, <2>5, <2>6, <2>7, <2>8 DEF QueueNext
<1> QED BY <1>1, <1>2

(* The queue always satisfies its inductive invariant.                     *)
THEOREM QueueInvariant == QueueSpec => []QueueInv
BY QueueInvInductive, PTL DEF QueueSpec

(* Every variable of the queue keeps its type.                             *)
THEOREM QueueTypeCorrect == QueueSpec => []QueueTypeOK
<1>1. QueueInv => QueueTypeOK
  BY DEF QueueInv
<1> QED BY <1>1, QueueInvariant, PTL

(* claim() only ever releases the claimant's own slot.                     *)
THEOREM SlotSafety == QueueSpec => []SlotIsTheUnsettledOp
<1>1. QueueInv => SlotIsTheUnsettledOp
  BY DEF QueueInv
<1> QED BY <1>1, QueueInvariant, PTL

(* Operations in flight together are all but one abandoned.                *)
THEOREM OverlapSafety == QueueSpec => []OverlapOnlyWithAbandoned
<1>1. QueueInv => OverlapOnlyWithAbandoned
  BY DEF QueueInv, QueueTypeOK, Verdicts, SlotIsTheUnsettledOp, Unsettled, QueuePlaces,
         OverlapOnlyWithAbandoned
<1> QED BY <1>1, QueueInvariant, PTL

(* No wakeup of a waiting write is ever lost.                              *)
THEOREM WakeupSafety == QueueSpec => []NoLostWakeup
<1>1. QueueInv => NoLostWakeup
  BY DEF QueueInv
<1> QED BY <1>1, QueueInvariant, PTL

(* Late settlements are reported for abandoned operations and only those.  *)
THEOREM LateSafety == QueueSpec => []LateExactlyAbandoned
<1>1. QueueInv => LateExactlyAbandoned
  BY DEF QueueInv
<1> QED BY <1>1, QueueInvariant, PTL

-----------------------------------------------------------------------------
(* What whoever uses the queue may rely on.                                *)

(* An answer of the queue is final.                                        *)
LEMMA VerdictFinal ==
    ASSUME QueueInv, [QueueNext]_queueVars, NEW o \in Ops, verdict[o] = "timeout"
    PROVE  verdict'[o] = "timeout"
<1>1. current # o
  BY DEF QueueInv, SlotIsTheUnsettledOp, Unsettled
<1>2. verdict \in [Ops -> Verdicts]
  BY DEF QueueInv, QueueTypeOK
<1> QED  BY <1>1, <1>2 DEF QueueNext, queueVars, Run, Nudge, NudgeOn, TimerFires, RunPump,
            StartFn, SettleFn, ClaimSlot, SettleLate, Tick

(* Of two operations in flight one was abandoned.                          *)
LEMMA InFlightAbandoned ==
    ASSUME QueueInv, NEW o \in Ops, NEW p \in Ops, o # p, fn[o] = "running", fn[p] = "running"
    PROVE  verdict[o] = "timeout" \/ verdict[p] = "timeout"
  BY DEF QueueInv, QueueTypeOK, Verdicts, SlotIsTheUnsettledOp, Unsettled, QueuePlaces

(* A pump schedules the head of the line at most.                          *)
LEMMA PumpMovesUp ==
    ASSUME NEW l \in Seq(Ops), NEW holder, NEW f \in [Ops -> FnStates],
           \A i \in 1..Len(l) : f[l[i]] = "pending", Pump(l, holder, f), NEW p \in Ops
    PROVE  fn'[p] = f[p] \/ (f[p] = "pending" /\ fn'[p] = "scheduled")
<1>1. CASE holder = NoOp /\ l # << >>
  <2>1. Head(l) = l[1] /\ 1 \in 1..Len(l)
    BY <1>1
  <2> QED  BY <1>1, <2>1 DEF Pump, Dequeue
<1>2. CASE ~ (holder = NoOp /\ l # << >>)
  BY <1>2 DEF Pump
<1> QED  BY <1>1, <1>2

(* What waits in line only moves up; nobody else notices.                  *)
LEMMA LineMovesUp ==
    ASSUME QueueInv, Nudge \/ TimerFires \/ RunPump \/ Tick, NEW p \in Ops
    PROVE  fn'[p] = fn[p] \/ (fn[p] = "pending" /\ fn'[p] = "scheduled")
<1>1. CASE Nudge \/ RunPump
  <2>1. PICK holder : Pump(pending, holder, fn)
    BY <1>1 DEF Nudge, NudgeOn, RunPump
  <2>2. /\ pending \in Seq(Ops) /\ fn \in [Ops -> FnStates]
        /\ \A i \in 1..Len(pending) : fn[pending[i]] = "pending"
    BY DEF QueueInv, QueueTypeOK, QueuePlaces
  <2>3. \A q \in Ops : fn'[q] = fn[q] \/ (fn[q] = "pending" /\ fn'[q] = "scheduled")
    BY <2>1, <2>2, PumpMovesUp
  <2> QED  BY <2>3
<1> QED  BY <1>1 DEF TimerFires, Tick

(* An operation that joins moves the line up too.                          *)
LEMMA RunMovesUp ==
    ASSUME QueueInv, NEW o \in Ops, Run(o), NEW p \in Ops
    PROVE  \/ fn'[p] = fn[p]
           \/ fn[p] = "pending" /\ fn'[p] = "scheduled"
           \/ p = o /\ fn'[p] \in {"pending", "scheduled"}
<1> USE DEF QueueInv, QueueTypeOK, QueuePlaces, FnStates
<1> DEFINE l == Append(pending, o)
           f == [fn EXCEPT ![o] = "pending"]
<1>1. l \in Seq(Ops) /\ f \in [Ops -> FnStates]
  OBVIOUS
<1>2. ASSUME NEW i \in 1..Len(l)
      PROVE  f[l[i]] = "pending"
  <2>1. pending \in Seq(Ops) /\ fn \in [Ops -> FnStates] /\ Len(pending) \in Nat
    BY LenProperties
  <2>2. Len(l) = Len(pending) + 1
    BY <2>1
  <2>3. CASE i = Len(pending) + 1
    <3>1. l[i] = o
      BY <2>1, <2>3
    <3> QED  BY <2>1, <3>1
  <2>4. CASE i # Len(pending) + 1
    <3>1. i \in 1..Len(pending)
      BY <2>1, <2>2, <2>4
    <3>2. l[i] = pending[i] /\ pending[i] \in Ops
      BY <2>1, <3>1, ElementOfSeq
    <3>3. fn[pending[i]] = "pending"
      BY <3>1
    <3> QED  BY <2>1, <3>2, <3>3
  <2> QED  BY <2>3, <2>4
<1>3. PICK holder : Pump(l, holder, f)
  BY DEF Run, NudgeOn
<1>4. fn'[p] = f[p] \/ (f[p] = "pending" /\ fn'[p] = "scheduled")
  <2>1. \A i \in 1..Len(l) : f[l[i]] = "pending"
    BY <1>2
  <2> HIDE DEF l, f
  <2> QED  BY <1>1, <1>3, <2>1, PumpMovesUp, SMTT(30)
<1> QED  BY <1>4

-----------------------------------------------------------------------------
(* The refinement of SerialWrites.                                         *)

(* Moving the head of the line to the end of the served leaves the whole   *)
(* line as it was.                                                         *)
LEMMA MoveHead ==
    ASSUME NEW d \in Seq(Ops), NEW l \in Seq(Ops), l # << >>
    PROVE  Append(d, Head(l)) \o Tail(l) = d \o l
<1> DEFINE dh == Append(d, Head(l))
           t == Tail(l)
<1>1. /\ Head(l) \in Ops /\ Head(l) = l[1] /\ t \in Seq(Ops)
      /\ Len(l) \in Nat \ {0} /\ Len(t) = Len(l) - 1
      /\ \A i \in 1..Len(t) : t[i] = l[i+1]
  BY HeadTailProperties, LenProperties, ElementOfSeq, EmptySeq
<1>2. /\ dh \in Seq(Ops) /\ Len(dh) = Len(d) + 1 /\ Len(d) \in Nat
      /\ \A i \in 1..Len(d) : dh[i] = d[i]
      /\ dh[Len(d) + 1] = l[1]
  BY <1>1, AppendProperties, LenProperties
<1>3. /\ dh \o t \in Seq(Ops) /\ Len(dh \o t) = Len(d) + Len(l)
      /\ \A i \in 1..(Len(dh) + Len(t)) : (dh \o t)[i] = IF i <= Len(dh) THEN dh[i] ELSE t[i - Len(dh)]
  <2> HIDE DEF dh, t
  <2>1. dh \in Seq(Ops) /\ t \in Seq(Ops)
    BY <1>1, <1>2
  <2>2. /\ dh \o t \in Seq(Ops) /\ Len(dh \o t) = Len(dh) + Len(t)
        /\ \A i \in 1..(Len(dh) + Len(t)) : (dh \o t)[i] = IF i <= Len(dh) THEN dh[i] ELSE t[i - Len(dh)]
    BY <2>1, ConcatProperties
  <2>3. Len(dh) + Len(t) = Len(d) + Len(l)
    BY <1>1, <1>2
  <2> QED BY <2>2, <2>3
<1>4. /\ d \o l \in Seq(Ops) /\ Len(d \o l) = Len(d) + Len(l)
      /\ \A i \in 1..(Len(d) + Len(l)) : (d \o l)[i] = IF i <= Len(d) THEN d[i] ELSE l[i - Len(d)]
  BY ConcatProperties
<1>5. ASSUME NEW i \in 1..(Len(d) + Len(l)) PROVE (dh \o t)[i] = (d \o l)[i]
  <2> HIDE DEF dh, t
  <2>1. i \in 1..(Len(dh) + Len(t))
    BY <1>1, <1>2
  <2>2. CASE i <= Len(d)
    BY <2>1, <2>2, <1>1, <1>2, <1>3, <1>4
  <2>3. CASE i = Len(d) + 1
    BY <2>1, <2>3, <1>1, <1>2, <1>3, <1>4
  <2>4. CASE i > Len(d) + 1
    <3>1. i - (Len(d) + 1) \in 1..Len(t) /\ i - (Len(d) + 1) + 1 = i - Len(d)
      BY <2>1, <2>4, <1>1, <1>2
    <3>2. t[i - (Len(d) + 1)] = l[i - Len(d)]
      BY <3>1, <1>1
    <3>3. (dh \o t)[i] = t[i - (Len(d) + 1)] /\ (d \o l)[i] = l[i - Len(d)]
      BY <2>1, <2>4, <1>1, <1>2, <1>3, <1>4
    <3> QED BY <3>2, <3>3
  <2> QED BY <2>2, <2>3, <2>4, <1>1, <1>2
<1> HIDE DEF dh, t
<1>6. dh \o t = d \o l
  BY <1>3, <1>4, <1>5, SeqEqual
<1> QED BY <1>6 DEF dh, t

(* What pump() does to the whole line: nothing.  It serves one more write  *)
(* exactly when the slot is free and somebody waits.                       *)
LEMMA PumpSteps ==
    ASSUME QueueTypeOK, NEW STATE line, NEW STATE holder, NEW STATE states,
           line \in Seq(Ops), Pump(line, holder, states)
    PROVE  /\ dequeued' \o pending' = dequeued \o line
           /\ \/ Len(dequeued') = Len(dequeued)
              \/ /\ Len(dequeued') = Len(dequeued) + 1
                 /\ Len(dequeued) < Len(dequeued \o line)
                 /\ holder = NoOp
<1>1. CASE holder = NoOp /\ line # << >>
  <2>1. dequeued' = Append(dequeued, Head(line)) /\ pending' = Tail(line)
    BY <1>1 DEF Pump, Dequeue
  <2>2. Head(line) \in Ops /\ Len(line) \in Nat \ {0}
    BY <1>1, HeadTailProperties, LenProperties, EmptySeq
  <2>3. Len(Append(dequeued, Head(line))) = Len(dequeued) + 1 /\ Len(dequeued) \in Nat
    BY <2>2, AppendProperties, LenProperties DEF QueueTypeOK
  <2>4. Len(dequeued \o line) = Len(dequeued) + Len(line)
    BY ConcatProperties DEF QueueTypeOK
  <2>5. Append(dequeued, Head(line)) \o Tail(line) = dequeued \o line
    BY <1>1, MoveHead DEF QueueTypeOK
  <2> QED BY <1>1, <2>1, <2>2, <2>3, <2>4, <2>5
<1>2. CASE ~ (holder = NoOp /\ line # << >>)
  BY <1>2 DEF Pump
<1> QED BY <1>1, <1>2

(* The last write served is the last of the served part of the line.       *)
LEMMA LastServed ==
    ASSUME QueueInv
    PROVE  /\ Len(dequeued) \in Nat
           /\ Len(dequeued) # 0 =>
                /\ (dequeued \o pending)[Len(dequeued)] = dequeued[Len(dequeued)]
                /\ dequeued[Len(dequeued)] \in Ops
                /\ current = NoOp => verdict[dequeued[Len(dequeued)]] # "none"
           /\ current # NoOp =>
                /\ current \in Ops
                /\ Len(dequeued) # 0
                /\ current = dequeued[Len(dequeued)]
                /\ verdict[current] = "none"
<1>1. Len(dequeued) \in Nat /\ Len(pending) \in Nat
  BY LenProperties DEF QueueInv, QueueTypeOK
<1>2. ASSUME Len(dequeued) # 0
      PROVE  /\ (dequeued \o pending)[Len(dequeued)] = dequeued[Len(dequeued)]
             /\ dequeued[Len(dequeued)] \in Ops
             /\ current = NoOp => verdict[dequeued[Len(dequeued)]] # "none"
  <2>1. Len(dequeued) \in 1..Len(dequeued) /\ Len(dequeued) \in 1..(Len(dequeued) + Len(pending))
    BY <1>1, <1>2
  <2>2. (dequeued \o pending)[Len(dequeued)] = dequeued[Len(dequeued)]
    BY <2>1, <1>1, ConcatProperties DEF QueueInv, QueueTypeOK
  <2>3. dequeued[Len(dequeued)] \in Ops
    BY <2>1, ElementOfSeq DEF QueueInv, QueueTypeOK
  <2> DEFINE l == dequeued[Len(dequeued)]
  <2>4. fn[l] \in FnStates \ {"new", "pending"}
    BY <2>1, <2>3 DEF QueueInv, QueueTypeOK, QueuePlaces
  <2>5. current = NoOp => ~ Unsettled(l)
    BY <2>3, NoOpAssumption DEF QueueInv, SlotIsTheUnsettledOp
  <2>6. current = NoOp => verdict[l] # "none"
    BY <2>3, <2>4, <2>5 DEF QueueInv, QueuePlaces, Unsettled, FnStates
  <2> QED BY <2>2, <2>3, <2>6
<1>3. ASSUME current # NoOp
      PROVE  /\ current \in Ops /\ Len(dequeued) # 0
             /\ current = dequeued[Len(dequeued)] /\ verdict[current] = "none"
  BY <1>1, <1>3, EmptySeq DEF QueueInv, QueueTypeOK, QueuePlaces, SlotIsTheUnsettledOp, Unsettled
<1> QED BY <1>1, <1>2, <1>3

(* Every step of the queue is a step of SerialWrites, or invisible to it.  *)
LEMMA QueueStepSimulation ==
    QueueInv /\ [QueueNext]_queueVars => [Serial!SerialNext]_(Serial!serialVars)
<1> SUFFICES ASSUME QueueInv, [QueueNext]_queueVars
             PROVE  [Serial!SerialNext]_(Serial!serialVars)
  OBVIOUS
<1> DEFINE whole == dequeued \o pending
<1>0. QueueTypeOK /\ pending \in Seq(Ops) /\ dequeued \in Seq(Ops)
  BY DEF QueueInv, QueueTypeOK
<1>1. ASSUME NEW STATE line, line \in Seq(Ops), NEW STATE states, NudgeOn(line, states),
             \/ line = pending
             \/ \E o \in Ops : line = Append(pending, o) /\ fn[o] = "new"
      PROVE  Serial!SerialNext
  <2>1. Serial!Arrive
    <3>1. dequeued' \o pending' = dequeued \o line
      BY <1>0, <1>1, PumpSteps DEF NudgeOn
    <3>2. CASE line = pending
      BY <3>1, <3>2 DEF Serial!Arrive
    <3>3. ASSUME NEW o \in Ops, line = Append(pending, o), fn[o] = "new"
          PROVE  Serial!Arrive
      <4>1. << o >> \in Seq(Ops)
        BY IsASeq
      <4>2. dequeued \o Append(pending, o) = Append(dequeued \o pending, o)
        <5>1. Append(pending, o) = pending \o << o >>
          BY <1>0, AppendIsConcat
        <5>2. dequeued \o pending \in Seq(Ops)
          BY <1>0, ConcatProperties
        <5>3. Append(dequeued \o pending, o) = (dequeued \o pending) \o << o >>
          BY <5>2, AppendIsConcat
        <5>4. (dequeued \o pending) \o << o >> = dequeued \o (pending \o << o >>)
          BY <1>0, <4>1, ConcatAssociative
        <5> QED BY <5>1, <5>3, <5>4
      <4>3. o \notin {whole[i] : i \in 1..Len(whole)}
        <5> SUFFICES ASSUME NEW i \in 1..Len(whole) PROVE whole[i] # o
          OBVIOUS
        <5>1. /\ Len(dequeued) \in Nat /\ Len(pending) \in Nat
              /\ Len(whole) = Len(dequeued) + Len(pending)
              /\ whole[i] = IF i <= Len(dequeued) THEN dequeued[i] ELSE pending[i - Len(dequeued)]
          BY <1>0, ConcatProperties, LenProperties
        <5>2. CASE i <= Len(dequeued)
          BY <5>1, <5>2, <3>3 DEF QueueInv, QueuePlaces
        <5>3. CASE ~ (i <= Len(dequeued))
          <6>1. i - Len(dequeued) \in 1..Len(pending)
            BY <5>1, <5>3
          <6> QED BY <5>1, <5>3, <6>1, <3>3 DEF QueueInv, QueuePlaces
        <5> QED BY <5>2, <5>3
      <4> QED BY <3>1, <3>3, <4>2, <4>3 DEF Serial!Arrive
    <3> QED BY <1>1, <3>2, <3>3
  <2>2. Serial!Answer
    BY <1>1, LastServed DEF NudgeOn, Overdue, Serial!Answer, Serial!SlotFree
  <2>3. Serial!Serve
    <3>1. CASE Overdue
      <4>1. verdict' = [verdict EXCEPT ![current] = "timeout"] /\ Pump(line, NoOp, states)
            /\ current \in Ops
        BY <3>1, <1>1, <1>0 DEF NudgeOn, Overdue, QueueTypeOK
      <4>2. Serial!SlotFree(verdict')
        BY <3>1, <4>1, <1>0, LastServed DEF Serial!SlotFree, Overdue, QueueTypeOK
      <4> QED BY <4>1, <4>2, <1>0, <1>1, PumpSteps DEF Serial!Serve
    <3>2. CASE ~ Overdue
      <4>1. verdict' = verdict /\ Pump(line, current, states)
        BY <3>2, <1>1 DEF NudgeOn
      <4>2. current = NoOp => Serial!SlotFree(verdict')
        BY <4>1, LastServed DEF Serial!SlotFree
      <4> QED BY <4>1, <4>2, <1>0, <1>1, PumpSteps DEF Serial!Serve
    <3> QED BY <3>1, <3>2
  <2> QED BY <2>1, <2>2, <2>3 DEF Serial!SerialNext
<1>2. ASSUME NEW o \in Ops, Run(o) PROVE Serial!SerialNext
  <2>1. Append(pending, o) \in Seq(Ops)
    BY <1>0, AppendProperties
  <2> QED BY <1>1, <1>2, <2>1 DEF Run
<1>3. CASE Nudge
  BY <1>0, <1>1, <1>3 DEF Nudge
<1>4. CASE TimerFires
  BY <1>4, LastServed DEF TimerFires, Overdue, Serial!SerialNext, Serial!Arrive, Serial!Answer,
                          Serial!Serve, Serial!SlotFree
<1>5. CASE RunPump
  <2>1. UNCHANGED verdict /\ Pump(pending, current, fn)
    BY <1>5 DEF RunPump
  <2>2. current = NoOp => Serial!SlotFree(verdict')
    BY <2>1, LastServed DEF Serial!SlotFree
  <2>3. Serial!Arrive /\ Serial!Serve
    BY <2>1, <2>2, <1>0, PumpSteps, SMTT(30) DEF Serial!Arrive, Serial!Serve
  <2> QED BY <2>1, <2>3 DEF Serial!SerialNext, Serial!Answer
<1>6. ASSUME NEW o \in Ops, StartFn(o) PROVE UNCHANGED Serial!serialVars
  BY <1>6 DEF StartFn, Serial!serialVars
<1>7. ASSUME NEW o \in Ops, NEW how \in {"returned", "threw"}, SettleFn(o, how)
      PROVE  [Serial!SerialNext]_(Serial!serialVars)
  <2>1. UNCHANGED << pending, dequeued >> /\ fn[o] = "running"
    BY <1>7 DEF SettleFn
  <2>2. CASE SettleLate(o)
    BY <2>1, <2>2 DEF SettleLate, Serial!serialVars
  <2>3. ASSUME NEW v \in {"resolved", "rejected"}, ClaimSlot(o, v)
        PROVE  Serial!SerialNext
    <3>1. o = current
      BY <2>1, <2>3 DEF QueueInv, SlotIsTheUnsettledOp, Unsettled, ClaimSlot
    <3>2. Serial!Answer
      BY <2>3, <3>1, LastServed, NoOpAssumption DEF ClaimSlot, Serial!Answer, Serial!SlotFree
    <3> QED BY <2>1, <3>2 DEF Serial!SerialNext, Serial!Arrive, Serial!Serve
  <2> QED BY <1>7, <2>2, <2>3 DEF SettleFn
<1>8. CASE Tick
  BY <1>8 DEF Tick, Serial!serialVars
<1>9. CASE UNCHANGED queueVars
  BY <1>9 DEF queueVars, Serial!serialVars
<1> QED BY <1>2, <1>3, <1>4, <1>5, <1>6, <1>7, <1>8, <1>9 DEF QueueNext

(* The write queue implements SerialWrites.                                *)
THEOREM QueueRefinesSerialWrites == QueueSpec => ImplementsSerialWrites
<1>1. QueueInit => Serial!SerialInit
  <2>1. << >> \o << >> = << >> /\ Len(<< >>) = 0
    BY EmptySeq, ConcatEmptySeq
  <2> QED BY <2>1 DEF QueueInit, Serial!SerialInit
<1> QED BY <1>1, QueueStepSimulation, QueueInvariant, PTL
        DEF QueueSpec, ImplementsSerialWrites, Serial!SerialSpec

=============================================================================
