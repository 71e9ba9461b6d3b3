----------------------------- MODULE WriteQueue -----------------------------
(***************************************************************************)
(* The one FIFO write queue of a plugin instance                           *)
(* (packages/plugin/src/kernel/write-queue.ts).                            *)
(*                                                                         *)
(* The plugin is a single JavaScript thread: every step below is one       *)
(* macrotask or microtask and is atomic, and steps of different operations *)
(* interleave at every await.  An operation is one call of run().  What    *)
(* the code calls abandonment does not stop an operation: the slot is      *)
(* released and the caller rejected, and the operation goes on beside its  *)
(* successors.                                                             *)
(*                                                                         *)
(* The wall clock is abstracted to the age of the operation that holds the *)
(* slot, saturated at the timeout: now() - startedAt is only ever compared *)
(* with timeoutMs.                                                         *)
(***************************************************************************)
EXTENDS Naturals, Sequences

CONSTANTS
    Ops,        \* the run() calls, each an operation of its own
    NoOp,       \* `current === null`
    Timeout     \* timeoutMs, in ticks of the wall clock

ASSUME NoOpAssumption == NoOp \notin Ops
ASSUME TimeoutAssumption == Timeout \in Nat \ {0}

VARIABLES
    pending,    \* `pending`: operations waiting for the slot
    current,    \* `current`: the operation holding the slot, or NoOp
    age,        \* now() - current.startedAt, saturated at Timeout
    pumps,      \* queueMicrotask(() => this.pump()) callbacks not yet run
    fn,         \* how far the operation's own code has come
    verdict,    \* how the promise returned by run() settled
    late,       \* operations whose onLate callback was called
    dequeued    \* history: operations in the order they took the slot

queueVars == << pending, current, age, pumps, fn, verdict, late, dequeued >>

FnStates == {"new", "pending", "scheduled", "running", "returned", "threw"}
Verdicts == {"none", "resolved", "rejected", "timeout"}

QueueTypeOK ==
    /\ pending \in Seq(Ops)
    /\ current \in Ops \cup {NoOp}
    /\ age \in 0..Timeout
    /\ pumps \in Nat
    /\ fn \in [Ops -> FnStates]
    /\ verdict \in [Ops -> Verdicts]
    /\ late \in SUBSET Ops
    /\ dequeued \in Seq(Ops)

QueueInit ==
    /\ pending = << >>
    /\ current = NoOp
    /\ age = 0
    /\ pumps = 0
    /\ fn = [o \in Ops |-> "new"]
    /\ verdict = [o \in Ops |-> "none"]
    /\ late = {}
    /\ dequeued = << >>

-----------------------------------------------------------------------------

(* The wall-clock deadline of the operation holding the slot is spent.     *)
Overdue == current # NoOp /\ age = Timeout

(* Mutant: the newest operation is served first.                           *)
DequeueNewest(line, states) ==
    /\ pending' = SubSeq(line, 1, Len(line) - 1)
    /\ current' = line[Len(line)]
    /\ age' = 0
    /\ dequeued' = Append(dequeued, line[Len(line)])
    /\ fn' = [states EXCEPT ![line[Len(line)]] = "scheduled"]

(* pump() with the slot free: the head of `line` takes the slot, its clock *)
(* starts, and its function is left to a later microtask.                  *)
Dequeue(line, states) ==
    /\ pending' = Tail(line)
    /\ current' = Head(line)
    /\ age' = 0
    /\ dequeued' = Append(dequeued, Head(line))
    /\ fn' = [states EXCEPT ![Head(line)] = "scheduled"]

(* Mutant: the pump does not look whether the slot is held.                *)
PumpRegardless(line, holder, states) ==
    IF line # << >>
    THEN Dequeue(line, states)
    ELSE /\ pending' = line
         /\ current' = holder
         /\ age' = IF holder = NoOp THEN 0 ELSE age
         /\ fn' = states
         /\ UNCHANGED dequeued

(* pump() on the queue `line`, with the slot held by `holder`: nothing     *)
(* while it is held or nobody waits.                                       *)
Pump(line, holder, states) ==
    IF holder = NoOp /\ line # << >>
    THEN Dequeue(line, states)
    ELSE /\ pending' = line
         /\ current' = holder
         /\ age' = IF holder = NoOp THEN 0 ELSE age
         /\ fn' = states
         /\ UNCHANGED dequeued

(* nudge() on the queue `line`: an overdue holder is abandoned - which     *)
(* releases the slot, schedules a pump and rejects its caller - and then   *)
(* the queue is pumped.                                                    *)
NudgeOn(line, states) ==
    IF Overdue
    THEN /\ verdict' = [verdict EXCEPT ![current] = "timeout"]
         /\ pumps' = pumps + 1
         /\ Pump(line, NoOp, states)
    ELSE /\ UNCHANGED << verdict, pumps >>
         /\ Pump(line, current, states)

-----------------------------------------------------------------------------
(* run(): the operation joins the queue, and the enqueue nudges it.        *)
Run(o) ==
    /\ fn[o] = "new"
    /\ NudgeOn(Append(pending, o), [fn EXCEPT ![o] = "pending"])
    /\ UNCHANGED late

(* nudge() from outside the queue: a journal append completed.             *)
Nudge ==
    /\ NudgeOn(pending, fn)
    /\ UNCHANGED late

(* The per-operation setTimeout fires: abandon(), and no pump of its own.  *)
TimerFires ==
    /\ Overdue
    /\ verdict' = [verdict EXCEPT ![current] = "timeout"]
    /\ current' = NoOp
    /\ age' = 0
    /\ pumps' = pumps + 1
    /\ UNCHANGED << pending, fn, late, dequeued >>

(* A pump scheduled by a release runs.                                     *)
RunPump ==
    /\ pumps > 0
    /\ pumps' = pumps - 1
    /\ Pump(pending, current, fn)
    /\ UNCHANGED << verdict, late >>

(* The microtask that calls the operation's function.                      *)
StartFn(o) ==
    /\ fn[o] = "scheduled"
    /\ fn' = [fn EXCEPT ![o] = "running"]
    /\ UNCHANGED << pending, current, age, pumps, verdict, late, dequeued >>

(* Mutant: the slot is released and nobody is told.                        *)
ClaimSlotWithoutPump(o, v) ==
    /\ verdict[o] = "none"
    /\ verdict' = [verdict EXCEPT ![o] = v]
    /\ current' = NoOp
    /\ age' = 0
    /\ UNCHANGED << pumps, late >>

(* claim() by the operation's own settlement: the first to claim owns the  *)
(* outcome, releases the slot and schedules a pump.                        *)
ClaimSlot(o, v) ==
    /\ verdict[o] = "none"
    /\ verdict' = [verdict EXCEPT ![o] = v]
    /\ current' = NoOp
    /\ age' = 0
    /\ pumps' = pumps + 1
    /\ UNCHANGED late

(* The claim is lost - the operation was abandoned - and the settlement    *)
(* goes to onLate.                                                         *)
SettleLate(o) ==
    /\ verdict[o] # "none"
    /\ late' = late \cup {o}
    /\ UNCHANGED << verdict, current, age, pumps >>

(* The promise of the operation's function settles.                        *)
SettleFn(o, how) ==
    /\ fn[o] = "running"
    /\ fn' = [fn EXCEPT ![o] = how]
    /\ \/ ClaimSlot(o, IF how = "returned" THEN "resolved" ELSE "rejected")
       \/ SettleLate(o)
    /\ UNCHANGED << pending, dequeued >>

(* The wall clock advances.  It does so whether or not timers run.         *)
Ticking == current # NoOp /\ age < Timeout
Tick ==
    /\ Ticking
    /\ age' = age + 1
    /\ UNCHANGED << pending, current, pumps, fn, verdict, late, dequeued >>

QueueNext ==
    \/ \E o \in Ops : Run(o)
    \/ Nudge
    \/ TimerFires
    \/ RunPump
    \/ \E o \in Ops : StartFn(o)
    \/ \E o \in Ops, how \in {"returned", "threw"} : SettleFn(o, how)
    \/ Tick

QueueSpec == QueueInit /\ [][QueueNext]_queueVars

-----------------------------------------------------------------------------
(* Properties.                                                             *)

Unsettled(o) == fn[o] \in {"scheduled", "running"} /\ verdict[o] = "none"

(* claim() sets `current` to null without looking at whose slot it is: it  *)
(* is right to because the operation holding the slot is exactly the one   *)
(* dequeued operation that has not been answered, so a settlement never    *)
(* releases the slot of another.                                           *)
SlotIsTheUnsettledOp == \A o \in Ops : o = current <=> Unsettled(o)

(* Two operations are in flight together only when all but the holder of   *)
(* the slot were abandoned on timeout.                                     *)
OverlapOnlyWithAbandoned ==
    \A o, p \in Ops :
        (o # p /\ fn[o] = "running" /\ fn[p] = "running")
            => verdict[o] = "timeout" \/ verdict[p] = "timeout"

(* A free slot with writes waiting always has a pump on its way, although  *)
(* pump() does nothing while the slot is held and a release is the only    *)
(* other thing that schedules one.                                         *)
NoLostWakeup == (current = NoOp /\ pending # << >>) => pumps > 0

(* onLate is called for exactly the operations that were abandoned and     *)
(* settled afterwards.                                                     *)
LateExactlyAbandoned ==
    \A o \in Ops :
        o \in late <=> verdict[o] = "timeout" /\ fn[o] \in {"returned", "threw"}

(* Where an operation is in its life determines where it is in the queue;  *)
(* it is answered only once it has left the line, and before it settles    *)
(* only with a timeout.                                                    *)
QueuePlaces ==
    /\ \A i \in 1..Len(pending) : fn[pending[i]] = "pending"
    /\ \A i, j \in 1..Len(pending) : pending[i] = pending[j] => i = j
    /\ \A i \in 1..Len(dequeued) : fn[dequeued[i]] \notin {"new", "pending"}
    /\ \A o \in Ops : fn[o] \in {"new", "pending"} => verdict[o] = "none"
    /\ \A o \in Ops : fn[o] \in {"returned", "threw"} => verdict[o] # "none"
    /\ \A o \in Ops : verdict[o] \in {"resolved", "rejected"} => fn[o] \in {"returned", "threw"}
    /\ current # NoOp => dequeued # << >> /\ current = dequeued[Len(dequeued)]

(* The inductive invariant behind the theorems.                            *)
QueueInv ==
    /\ QueueTypeOK
    /\ SlotIsTheUnsettledOp
    /\ NoLostWakeup
    /\ LateExactlyAbandoned
    /\ QueuePlaces

(* The queue implements SerialWrites: FIFO service, one at a time, one     *)
(* final answer per caller.                                                *)
Serial == INSTANCE SerialWrites
            WITH line <- dequeued \o pending,
                 served <- Len(dequeued),
                 answer <- verdict
ImplementsSerialWrites == Serial!SerialSpec

=============================================================================
