------------------------------- MODULE Kernel -------------------------------
(***************************************************************************)
(* Kernel.runMutation (packages/plugin/src/kernel/index.ts): every vault   *)
(* mutation of every connection passes through one idempotency store, one  *)
(* write queue and one journal.                                            *)
(*                                                                         *)
(* An operation of the queue is one call of runMutation.  The synchronous  *)
(* pieces of the call are the actions: the claim of its idempotency key    *)
(* with the enqueue (Submit), the dequeue checks (Closure), the handler's  *)
(* effect and its settlement, which may come after the queue has given up  *)
(* (HandlerWrites, HandlerSettles), the `finally` that journals the result *)
(* and settles the key (Finish), and the wake-up of a call that waited on  *)
(* another's key (Wake).  Vault content is a revision number per path.     *)
(***************************************************************************)
EXTENDS WriteQueue, FiniteSets, SequencesExt

CONSTANTS
    Keys, NoKey,    \* idempotency keys, and a call without one
    Requests,       \* fingerprints of tool name and arguments
    PathsOf,        \* the paths a request names; the first is its target
    Paths,
    Records,        \* paths whose note is flagged `record: true`
    AppendRequests, \* requests of the exempt append tool
    NoRev,          \* no if_rev
    Ttl,            \* lifetime of a stored result, in ticks
    MaxEntries,     \* stored results kept
    MaxRev,         \* bound on a path's revisions
    Asks            \* what calls may present: key, request and if_rev

ASSUME KeyAssumption == NoKey \notin Keys
ASSUME PathsAssumption == PathsOf \in [Requests -> Seq(Paths)]
ASSUME RevAssumption == NoRev \notin Nat /\ MaxRev \in Nat
ASSUME AsksAssumption ==
    Asks \subseteq [key : Keys \cup {NoKey}, req : Requests, ifRev : 0..MaxRev \cup {NoRev}]
ASSUME StoreAssumption == Ttl \in Nat \ {0} /\ MaxEntries \in Nat \ {0}

VARIABLES
    stage,          \* where each call is: new, waiting, queued, done, refused
    call,           \* the key, request and if_rev each call presented
    reservations,   \* the call that has reserved each key, or NoOp
    entries,        \* stored results, least recently used first
    adopts,         \* the call whose outcome this call was given
    decision,       \* what the dequeue checks decided
    envelope,       \* the kind of envelope the handler returned
    wrote,          \* calls whose handler has written to the vault
    rev,            \* revision of each path
    journal,        \* records, in the order append() was called
    forgotten,      \* history: calls whose stored result expired or was evicted
    intruders       \* history: calls that wrote between a call's dequeue
                    \* checks and its own write

kernelVars == << stage, call, reservations, entries, adopts, decision, envelope,
                 wrote, rev, journal, forgotten, intruders >>
vars == << queueVars, kernelVars >>

Stages == {"new", "waiting", "queued", "done", "refused"}
Decisions == {"none", "handler", "refused", "conflict"}
Revs == 0..MaxRev
Calls == [key : Keys \cup {NoKey}, req : Requests \cup {NoKey}, ifRev : Revs \cup {NoRev}]
RunKinds == {"ok", "error", "conflict"}
LateKinds == {"late-ok", "late-error"}
JournalRecords == [op : Ops, kind : RunKinds \cup LateKinds \cup {"deduped", "mismatch"},
                   of : Ops \cup {NoOp}]
Entries == [key : Keys, by : Ops, age : 0..Ttl]

TypeOK ==
    /\ QueueTypeOK
    /\ stage \in [Ops -> Stages]
    /\ call \in [Ops -> Calls]
    /\ reservations \in [Keys -> Ops \cup {NoOp}]
    /\ entries \in Seq(Entries)
    /\ adopts \in [Ops -> Ops \cup {NoOp}]
    /\ decision \in [Ops -> Decisions]
    /\ envelope \in [Ops -> {"none", "ok", "error"}]
    /\ wrote \in SUBSET Ops
    /\ rev \in [Paths -> Revs]
    /\ journal \in Seq(JournalRecords)
    /\ forgotten \in SUBSET Ops
    /\ intruders \in [Ops -> SUBSET Ops]

NoCall == [key |-> NoKey, req |-> NoKey, ifRev |-> NoRev]

Init ==
    /\ QueueInit
    /\ stage = [o \in Ops |-> "new"]
    /\ call = [o \in Ops |-> NoCall]
    /\ reservations = [k \in Keys |-> NoOp]
    /\ entries = << >>
    /\ adopts = [o \in Ops |-> NoOp]
    /\ decision = [o \in Ops |-> "none"]
    /\ envelope = [o \in Ops |-> "none"]
    /\ wrote = {}
    /\ rev = [p \in Paths |-> 0]
    /\ journal = << >>
    /\ forgotten = {}
    /\ intruders = [o \in Ops |-> {}]

-----------------------------------------------------------------------------
(* The idempotency store (kernel/idempotency.ts).                          *)

Stored(k) == {i \in 1..Len(entries) : entries[i].key = k}

(* The store is a map: a key has one entry, and deleting it leaves the     *)
(* rest in order.                                                          *)
Others(k) ==
    IF Stored(k) = {} THEN entries ELSE RemoveAt(entries, CHOOSE i \in Stored(k) : TRUE)
OwnersOf(seq) == {seq[i].by : i \in 1..Len(seq)}

(* get(): an entry past its TTL is dropped, any other becomes the most     *)
(* recently used without living longer.                                    *)
Expired(k) == \E i \in Stored(k) : entries[i].age = Ttl
Hit(k) == IF Expired(k) THEN {} ELSE {entries[i] : i \in Stored(k)}
AfterGet(k) ==
    IF Hit(k) = {} THEN Others(k) ELSE Append(Others(k), CHOOSE e \in Hit(k) : TRUE)

(* Mutant: the fingerprint leaves the precondition out.                    *)
SameAskOfAnyRev(c, o) == call[o].req = c.req

(* A key is good for one request under one precondition.                   *)
SameAsk(c, o) == call[o].req = c.req /\ call[o].ifRev = c.ifRev

(* set(): the newest entry is the most recently used; past the limit the   *)
(* least recently used goes.                                               *)
AfterSet(k, o) ==
    LET grown == Append(Others(k), [key |-> k, by |-> o, age |-> 0])
    IN  IF Len(grown) > MaxEntries THEN Tail(grown) ELSE grown

-----------------------------------------------------------------------------
(* The journal (kernel/journal.ts): append() calls are chained in order.   *)

Note(o, kind, of) == journal' = Append(journal, [op |-> o, kind |-> kind, of |-> of])

(* Calls that have not reached the queue leave these alone.                *)
runVars == << decision, envelope, wrote, rev, intruders >>

(* claim(), when the key is reserved or its result is stored but for a     *)
(* different request or precondition: refused, and the refusal journaled.  *)
RefuseMismatch(o) ==
    /\ stage' = [stage EXCEPT ![o] = "refused"]
    /\ Note(o, "mismatch", NoOp)
    /\ UNCHANGED << queueVars, reservations, adopts, runVars >>

(* Mutant: a second claim of a reserved key takes the reservation over.    *)
PresentReservedTakesOver(o, c) ==
    LET owner == reservations[c.key] IN
    /\ owner # NoOp
    /\ SameAsk(c, owner)
    /\ stage' = [stage EXCEPT ![o] = "waiting"]
    /\ adopts' = [adopts EXCEPT ![o] = owner]
    /\ reservations' = [reservations EXCEPT ![c.key] = o]
    /\ UNCHANGED << queueVars, journal, runVars, entries, forgotten >>

(* claim() on a key somebody has reserved.                                 *)
PresentReserved(o, c) ==
    LET owner == reservations[c.key] IN
    /\ owner # NoOp
    /\ \/ ~ SameAsk(c, owner) /\ RefuseMismatch(o)
       \/ /\ SameAsk(c, owner)
          /\ stage' = [stage EXCEPT ![o] = "waiting"]
          /\ adopts' = [adopts EXCEPT ![o] = owner]
          /\ UNCHANGED << queueVars, reservations, journal, runVars >>
    /\ UNCHANGED << entries, forgotten >>

(* claim() on a key whose result is stored and still fresh: replayed.      *)
PresentStored(o, c) ==
    /\ reservations[c.key] = NoOp
    /\ \E e \in Hit(c.key) :
          \/ ~ SameAsk(c, e.by) /\ RefuseMismatch(o)
          \/ /\ SameAsk(c, e.by)
             /\ stage' = [stage EXCEPT ![o] = "done"]
             /\ adopts' = [adopts EXCEPT ![o] = e.by]
             /\ Note(o, "deduped", e.by)
             /\ UNCHANGED << queueVars, reservations, runVars >>
    /\ entries' = AfterGet(c.key)
    /\ UNCHANGED forgotten

(* The call runs: it has no key, or it now owns its key.                   *)
Enqueue(o, c) ==
    /\ stage' = [stage EXCEPT ![o] = "queued"]
    /\ adopts' = [adopts EXCEPT ![o] = o]
    /\ Run(o)
    /\ UNCHANGED << journal, runVars >>

(* Mutant: the key is looked up but not reserved until the result is in.   *)
PresentFreshUnreserved(o, c) ==
    /\ Hit(c.key) = {}
    /\ entries' = AfterGet(c.key)
    /\ forgotten' = forgotten \cup {entries[i].by : i \in Stored(c.key)}
    /\ UNCHANGED reservations
    /\ Enqueue(o, c)

PresentFresh(o, c) ==
    /\ reservations[c.key] = NoOp
    /\ Hit(c.key) = {}
    /\ reservations' = [reservations EXCEPT ![c.key] = o]
    /\ entries' = AfterGet(c.key)
    /\ forgotten' = forgotten \cup {entries[i].by : i \in Stored(c.key)}
    /\ Enqueue(o, c)

(* runMutation up to its first await: the claim and the enqueue are one    *)
(* step.  The if_rev a client presents is one it may have read earlier.    *)
Submit(o, c) ==
    /\ stage[o] = "new"
    /\ call' = [call EXCEPT ![o] = c]
    /\ \/ /\ c.key = NoKey
          /\ Enqueue(o, c)
          /\ UNCHANGED << reservations, entries, forgotten >>
       \/ /\ c.key # NoKey
          /\ \/ PresentReserved(o, c)
             \/ PresentStored(o, c)
             \/ PresentFresh(o, c)

-----------------------------------------------------------------------------
(* The queued closure.                                                     *)

Target(o) == PathsOf[call[o].req]
RevBefore(o) == IF Target(o) = << >> THEN NoRev ELSE rev[Head(Target(o))]

(* What the checks at dequeue may decide, in the order they are made: the  *)
(* probe throws; a record refuses everything but the append tool, unless   *)
(* its flag cannot be read (the guard fails open); the revision found is   *)
(* not the one the caller named; or the handler runs.                      *)
MayDecide(o, d) ==
    \/ d = "refused" /\ Target(o) # << >>
    \/ /\ d = "refused"
       /\ call[o].req \notin AppendRequests
       /\ \E i \in 1..Len(Target(o)) : Target(o)[i] \in Records
    \/ d = "conflict" /\ call[o].ifRev \notin {NoRev, RevBefore(o)}
    \/ d = "handler" /\ call[o].ifRev \in {NoRev, RevBefore(o)}

Closure(o, d) ==
    /\ StartFn(o)
    /\ MayDecide(o, d)
    /\ decision' = [decision EXCEPT ![o] = d]
    /\ UNCHANGED << stage, call, reservations, entries, adopts, envelope, wrote, rev,
                    journal, forgotten, intruders >>

InHandler(o) == fn[o] = "running" /\ decision[o] = "handler"

(* The handler writes: the target's revision moves.  Nothing stops it if   *)
(* the queue has abandoned it in the meantime.                             *)
HandlerWrites(o) ==
    /\ InHandler(o)
    /\ o \notin wrote
    /\ Target(o) # << >>
    /\ LET p == Head(Target(o)) IN
          /\ rev[p] < MaxRev
          /\ rev' = [rev EXCEPT ![p] = @ + 1]
          /\ intruders' = [q \in Ops |->
                IF q # o /\ InHandler(q) /\ q \notin wrote /\ Target(q) # << >> /\ Head(Target(q)) = p
                THEN intruders[q] \cup {o}
                ELSE intruders[q]]
    /\ wrote' = wrote \cup {o}
    /\ UNCHANGED << queueVars, stage, call, reservations, entries, adopts, decision, envelope,
                    journal, forgotten >>

(* Mutant: late settlements are not journaled.                             *)
NoteLateNot(o, kind) == UNCHANGED journal

(* The corrective record of a late settlement names the record it corrects *)
(* if that has been written.                                               *)
NoteLate(o, kind) == Note(o, kind, IF stage[o] = "done" THEN o ELSE NoOp)

(* The closure's promise settles: with an envelope if the handler ran and  *)
(* returned, by throwing otherwise.  After an abandonment the settlement   *)
(* goes to the late handler, which only journals it.                       *)
HandlerSettles(o, env) ==
    /\ SettleFn(o, IF env = "none" THEN "threw" ELSE "returned")
    /\ env # "none" => decision[o] = "handler"
    /\ envelope' = [envelope EXCEPT ![o] = env]
    /\ IF verdict[o] = "none" THEN UNCHANGED journal
       ELSE NoteLate(o, IF env = "ok" THEN "late-ok" ELSE "late-error")
    /\ UNCHANGED << stage, call, reservations, entries, adopts, decision, wrote, rev,
                    forgotten, intruders >>

-----------------------------------------------------------------------------

RunKind(o) ==
    CASE verdict[o] = "resolved" -> envelope[o]
      [] verdict[o] = "rejected" /\ decision[o] = "conflict" -> "conflict"
      [] OTHER -> "error"

(* settle(): the owner's reservation ends; an envelope is stored for       *)
(* replay, a throw frees the key.                                          *)
SettleKey(o) ==
    LET k == call[o].key IN
    IF k = NoKey \/ reservations[k] # o
    THEN UNCHANGED << reservations, entries, forgotten >>
    ELSE /\ reservations' = [reservations EXCEPT ![k] = NoOp]
         /\ IF verdict[o] = "resolved"
            THEN /\ entries' = AfterSet(k, o)
                 /\ forgotten' = forgotten \cup (OwnersOf(entries) \ OwnersOf(AfterSet(k, o)))
            ELSE UNCHANGED << entries, forgotten >>

(* runMutation after the queue has answered: the record is appended before *)
(* the key is settled.                                                     *)
Finish(o) ==
    /\ stage[o] = "queued"
    /\ verdict[o] # "none"
    /\ stage' = [stage EXCEPT ![o] = "done"]
    /\ Note(o, RunKind(o), NoOp)
    /\ SettleKey(o)
    /\ UNCHANGED << queueVars, call, adopts, runVars >>

(* A call that waited on another's key adopts its outcome, return or throw *)
(* alike.                                                                  *)
Wake(o) ==
    /\ stage[o] = "waiting"
    /\ stage[adopts[o]] = "done"
    /\ stage' = [stage EXCEPT ![o] = "done"]
    /\ Note(o, "deduped", adopts[o])
    /\ UNCHANGED << queueVars, call, reservations, entries, adopts, forgotten, runVars >>

-----------------------------------------------------------------------------
(* The write of a journal record has been attempted, successfully or not;  *)
(* main.ts makes it nudge the queue.  Which record it was is not tracked.  *)
JournalLands ==
    /\ journal # << >>
    /\ Nudge
    /\ UNCHANGED kernelVars

(* Somebody edits a note outside the kernel: the user, sync, a plugin.     *)
OutsideEdit(p) ==
    /\ rev[p] < MaxRev
    /\ rev' = [rev EXCEPT ![p] = @ + 1]
    /\ UNCHANGED << queueVars, stage, call, reservations, entries, adopts, decision, envelope,
                    wrote, journal, forgotten, intruders >>

(* The wall clock advances, for the slot's deadline and the stored results.*)
Grow(e) == [e EXCEPT !.age = IF @ < Ttl THEN @ + 1 ELSE @]
ClockTicks ==
    /\ \/ Tick
       \/ ~ Ticking /\ UNCHANGED queueVars
    /\ entries' = [i \in 1..Len(entries) |-> Grow(entries[i])]
    /\ UNCHANGED << stage, call, reservations, adopts, decision, envelope, wrote, rev,
                    journal, forgotten, intruders >>

(* The queue's own steps that the kernel does not take part in.            *)
QueueAlone == (TimerFires \/ RunPump) /\ UNCHANGED kernelVars

Next ==
    \/ \E o \in Ops, c \in Asks : Submit(o, c)
    \/ \E o \in Ops, d \in Decisions : Closure(o, d)
    \/ \E o \in Ops : HandlerWrites(o)
    \/ \E o \in Ops, env \in {"none", "ok", "error"} : HandlerSettles(o, env)
    \/ \E o \in Ops : Finish(o)
    \/ \E o \in Ops : Wake(o)
    \/ JournalLands
    \/ \E p \in Paths : OutsideEdit(p)
    \/ ClockTicks
    \/ QueueAlone

Spec == Init /\ [][Next]_vars

(* In the foreground timers fire.  Microtasks run and time passes; a       *)
(* handler need never settle and the journal's disk need never answer.     *)
Fairness ==
    /\ \A o \in Ops : WF_vars(\E d \in Decisions : Closure(o, d))
    /\ \A o \in Ops : WF_vars(Finish(o))
    /\ \A o \in Ops : WF_vars(Wake(o))
    /\ WF_vars(RunPump /\ UNCHANGED kernelVars)
    /\ WF_vars(TimerFires /\ UNCHANGED kernelVars)
    /\ WF_vars(ClockTicks)

FairSpec == Spec /\ Fairness

-----------------------------------------------------------------------------
(* Properties.                                                             *)

Ran(o) == decision[o] = "handler"
SameKey(o, p) == call[o].key = call[p].key /\ call[o].key # NoKey

(* The outcome of the call no longer protects its key: it threw, or its    *)
(* stored result is gone.                                                  *)
Released(o) ==
    /\ stage[o] = "done"
    /\ verdict[o] \in {"rejected", "timeout"} \/ o \in forgotten

(* One key, one run: the handlers of two calls under one key both run only *)
(* if the outcome of one of them no longer protects the key - also when    *)
(* the calls are presented at once, or while the first is in the queue.    *)
AtMostOncePerKey ==
    \A o, p \in Ops :
        (o # p /\ SameKey(o, p) /\ Ran(o) /\ Ran(p)) => Released(o) \/ Released(p)

(* A call is given another's outcome only if it asked the same thing under *)
(* the same precondition and the same key, and the outcome is of a call    *)
(* that ran: nobody adopts what was itself adopted.                        *)
AdoptedOutcomeIsOwn ==
    \A o \in Ops : adopts[o] \notin {o, NoOp} =>
        /\ call[o] = call[adopts[o]] /\ call[o].key # NoKey
        /\ adopts[adopts[o]] = adopts[o]

(* A call waiting on a key is never orphaned: the call it waits for holds  *)
(* the key until it is done, and is not itself waiting.                    *)
WaiterHasOwner ==
    \A o \in Ops : stage[o] = "waiting" =>
        \/ stage[adopts[o]] = "done"
        \/ stage[adopts[o]] = "queued" /\ reservations[call[o].key] = adopts[o]

(* Nobody is forgotten: writes that wait for the queue's slot, with the    *)
(* slot free, have a pump on its way, and calls that wait for a key have   *)
(* somebody to answer them, whatever throws, times out or is replayed.     *)
NobodyIsForgotten == NoLostWakeup /\ WaiterHasOwner

(* The types of what the reservations and the isolation of calls rest on.  *)
CallsTypeOK ==
    /\ stage \in [Ops -> Stages]
    /\ call \in [Ops -> Calls]
    /\ reservations \in [Keys -> Ops \cup {NoOp}]
    /\ adopts = [o \in Ops |-> adopts[o]]
    /\ \A o \in Ops : stage[o] = "waiting" => adopts[o] \in Ops
    /\ decision \in [Ops -> Decisions]
    /\ intruders \in [Ops -> SUBSET Ops]

(* A key is reserved by exactly the call that is in the queue under it.    *)
KeysHeldByQueued ==
    /\ \A k \in Keys : reservations[k] # NoOp =>
          stage[reservations[k]] = "queued" /\ call[reservations[k]].key = k
    /\ \A o \in Ops : (stage[o] = "queued" /\ call[o].key # NoKey) =>
          reservations[call[o].key] = o

(* Between a call's dequeue checks - its if_rev check among them - and its *)
(* write, no other call of the kernel writes the note, unless one of the   *)
(* two was abandoned on timeout and runs on.                               *)
IsolatedUnlessAbandoned ==
    \A o \in Ops : \A p \in intruders[o] :
        verdict[o] = "timeout" \/ verdict[p] = "timeout"

(* The inductive invariant behind the theorems.                            *)
KernelInv ==
    /\ QueueInv
    /\ CallsTypeOK
    /\ KeysHeldByQueued
    /\ WaiterHasOwner
    /\ IsolatedUnlessAbandoned

RecordsOf(o, kinds) == {i \in 1..Len(journal) : journal[i].op = o /\ journal[i].kind \in kinds}

(* The journal has one record per call that has come to its end, plus one  *)
(* for an abandoned call that settled, and they tell what happened: a      *)
(* handler that returned success is on record as `ok` or `late-ok`, and    *)
(* only such a handler is.                                                 *)
JournalTellsTheOutcome ==
    \A o \in Ops :
        /\ Cardinality(RecordsOf(o, RunKinds \cup {"deduped", "mismatch"}))
              = IF stage[o] \in {"done", "refused"} THEN 1 ELSE 0
        /\ Cardinality(RecordsOf(o, LateKinds)) = IF o \in late THEN 1 ELSE 0
        /\ RecordsOf(o, {"ok", "late-ok"}) # {} => envelope[o] = "ok"
        /\ (envelope[o] = "ok" /\ stage[o] = "done") => RecordsOf(o, {"ok", "late-ok"}) # {}

(* What a record refers to is in the journal before it: a `deduped` record *)
(* the record of the run it replays; the corrective record of an abandoned *)
(* call names the record of its timeout if that is there already, although *)
(* different callbacks write the two.                                      *)
JournalRefersBack ==
    /\ \A i \in 1..Len(journal) : journal[i].kind = "deduped" =>
         \E j \in 1..(i-1) : journal[j].op = journal[i].of /\ journal[j].kind \in RunKinds
    /\ \A i, j \in 1..Len(journal) :
         (journal[i].kind \in LateKinds /\ j \in RecordsOf(journal[i].op, RunKinds)) =>
             /\ journal[j].kind = "error"
             /\ j < i => journal[i].of = journal[i].op

(* The journal can be relied upon: it tells of every call how it ended and *)
(* nothing else, and what its records refer to is before them.             *)
JournalIsSound == JournalTellsTheOutcome /\ JournalRefersBack

(* Every call comes to an end, although handlers may hang, keys may be     *)
(* shared and the calls ahead may never settle.                            *)
EveryCallEnds == \A o \in Ops : stage[o] \in {"queued", "waiting"} ~> stage[o] = "done"
=============================================================================
