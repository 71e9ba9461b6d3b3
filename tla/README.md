# Verification of obsidian-governor

TLA+ specifications of the parts of this repository that decide what happens to
a vault when several agents, a human and the plugin itself act on it at once,
checked with TLC on small instances and, for safety, proved with TLAPS for every
value of the constants.

## The system

The plugin runs inside Obsidian, a single JavaScript thread. Agents connect
through an MCP server; every mutating tool goes through one **kernel** (write
queue, idempotency store, journal, advisory locks, record guard). Beside it lives
**governance**. Until the *cutover* what stands of a note is its accepted
*baseline*, advanced by a person's accept, silently when a person typed, or
automatically for mechanical edits. After it, a change is a *proposal*, which
comes to *stand* when it is *admitted*, by a person's gesture or under a *mandate*
the person granted. A standalone **server** serves the same vault through the
plugin while Obsidian runs and from an index over the files when it does not.

| component | state | operations | hard part | what makes it correct |
|---|---|---|---|---|
| write queue (`kernel/write-queue.ts`) | `pending`, `current` | run, nudge, pump, abandon | abandoned operations run on; timers may be suspended | FIFO, one slot, one answer, no lost wake-up |
| kernel (`kernel/index.ts`, `idempotency.ts`, `journal.ts`, `record-guard.ts`) | reservations, stored results, journal | runMutation | retries at once, TTL and LRU, late settlements | one run per key, truthful journal, checks valid at the write |
| advisory locks (`kernel/locks.ts`) | claims | claim, renew, release, list | lazy expiry, two caps, abandoned writers | others are told; nobody loses a live claim to another |
| event logs (`sessions/session-store.ts`, `mandates/lifecycle.ts` and others of the same shape) | a file, a cached array | read once, append | a cache filled across an await | the cache is the file |
| mandates (`governor/kernel/mandates`, `wiring/mandate-wiring.ts`) | event log | draft, counter, decline, activate, charge, observe, revoke | check and append around an await | bounded delegation, amendment replaces |
| admission (`governor/kernel/admission`, `wiring/admission-wiring.ts`) | claims, standing ref, settlements | admit, admitCohort, revert | crashes between steps, concurrent acts, CAS | evidence before authority, one claim per subject, truthful reports |
| review queue (`governor/wiring/wiring.ts`, `kernel/queue.ts`) | shown list, poll state, debounce timers | refresh, poll, nudge, sweep, reconcile, accept, revert, delete | passes and polls overlap; timers may be suspended | the list never goes back; what is owed is shown, what is settled goes |
| baselines (`governor/kernel/baseline-store.ts`, `accept.ts`, `classify.ts`, `journal-reader.ts`, `baseline-reconcile.ts`) | files and cache | set, rekey, load, accept, revert, reconcile, sweep, repair | reads and writes around awaits, crashes | what is accepted is what was read; agents' edits wait for review |
| migration (`governor/kernel/migration`, `wiring/migration-wiring.ts`) | marker, store id, evidence | import, cut over, bind, roll back, status | clicks overlap, the marker travels with the vault | exactly one authority, never an unread marker overwritten |
| server: presence, front, live proxy (`packages/server`) | presence, sessions, count | poll, fail over, ready, stop, spawn | stop during ready, a slow probe | a fresh index, a cap, the right mode |
| file index (`core/src/fs-backend`) | maps by path, id, link | build, put, unlink | builds against debounced events | the index is what a rebuild would give |
| operation executor, observations (`kernel/operations`, `kernel/observations`) | operation, phases | execute | capture and proposals after the effect | a failure there never costs the result |
| sessions, origins, promotion, UID index, authentication | event logs, maps, tokens | begin, end, classify, look up | events out of order | attribution |
| pane, satellites, schemes, surveys, conformance, bridge | nothing that outlives a call | tools, views, reports | | |

`PROJECT.json` lists all components with what is modelled of each, and under
`hazards` what in this code is hard to test, each at its line.

## Modules

    SerialWrites          what the write queue promises
    WriteQueue            the queue; ImplementsSerialWrites is the refinement
    WriteQueueProofs      its theorems
    Kernel                runMutation, EXTENDS WriteQueue
    KernelProofs          its theorems, EXTENDS WriteQueueProofs
    Locks                 claims under the queue, EXTENDS WriteQueue
    LocksProofs           its theorems, EXTENDS WriteQueueProofs
    EventLog              an append-only record and its cache
    Mandates              drafts, grants, charges, EXTENDS EventLog
    MandatesProofs        the theorems of both
    Admission             the admission doors, the service, revert
    Cutover               the handing over from baselines to admission
    AdmissionProofs       the theorems of both
    ReviewQueue           the pending-review list and what recomputes it
    ReviewQueueProofs     its theorems
    BaselineStore         the files of the baselines and their cache
    Acceptance            one note under acceptance, EXTENDS BaselineStore
    AcceptanceProofs      the theorems of both
    Serving               the server between live plugin and files
    FsIndex               the index over the files and its watcher
    ServingProofs         the theorems of both
    MC...                 small instances for TLC, one per checked module

### WriteQueue

A step is one macrotask or microtask. `Run`, `Nudge`, `TimerFires`, `RunPump`,
`StartFn` and `SettleFn` are `run()`, `nudge()`, the `setTimeout` callback, the
`queueMicrotask` pump, the microtask that calls the operation, and the handlers
of its promise. `ClaimSlot` is `claim()` won, `SettleLate` is `claim()` lost and
`onLate` called. The clock is the age of the slot's holder, saturated at the
timeout (`Tick`), since it is only compared with the timeout. `SerialWrites` has
none of this: writes arrive in a line and are served one at a time in order.
The refinement maps the line to everything dequeued followed by what is pending.

### Kernel

An operation of the queue is one call of `runMutation`; its synchronous pieces
are the actions. `Submit` is the call up to its first await, with the three
outcomes of `claim()` on its key (`PresentReserved`, `PresentStored`,
`PresentFresh`). `Closure` is the queued closure up to the handler, `MayDecide`
its checks in order; `HandlerWrites` and `HandlerSettles` are the tool, which
may write and settle long after it was abandoned; `Finish` is the `finally`,
`Wake` a waiter's continuation. `JournalLands` nudges the queue. `OutsideEdit` is
everybody who edits notes beside the kernel. Vault content is a revision per path:
each write makes a new one (the code uses mtime, whose granularity is listed as a
hazard).

### Locks

`Submit` is a call of one of the tools, `Begin` its queued closure, which consults
the claims, `Perform` the handler (`DoClaim`, `DoRenew`, `DoRelease`, or a write),
`Settle` its end. `List` and every other method prunes what has expired.
`told` is what a caller was given as the claims of others, `unheard` the history
of claims a write was not told of. A path is the sequence of its segments.

### EventLog, Mandates

`Ask`, `FileRead` and `Take` are the first fold, which fills the cache: any call
that finds none reads the file, also while another's read is out, and what it read
replaces the array whatever has become of it. `Enqueue` queues an append on the
store's chain, `Land` and `AppendFails` end it, `Restart` forgets everything but the
file. `overtaken` is the history of the cache's having been taken back behind an
append. In `Mandates` a call of an agent or a human starts
(`AuthorDraft`, `ObserveWrite`, `Gesture`), decides (`Decide...`: the folds, the
checks and the queueing of the append, one step) and has its append land or be
rejected; the producer of a proposal then charges its grant and observes whether
that exhausted it (`AppendLands`). `Crash` is a restart with its calls. A status is
stated by position in the log, not by replay. `cut` is the history of grants whose
observation a failure or a restart cut off, `misled` that something was decided on
an overtaken cache.

### Admission

An act is one call of `admitWithGesture`, `admitCohortWithGesture`,
`admitCohortUnderMandate` or `revertToBase`; its awaits separate the actions.
`Fetch`, `Look`, `Heal` are the wiring before the service; `Judge`, `AppendClaim`,
`Advance`, `Settle`, `Charge` are the service's turn in the order of `service.ts`;
`Projects` and `Catch` are the wiring after it. `StampWrite`, `ChargeWrite` and
`ObserveBreach` are the observer of agents' writes, which stamps a write that fits
with the mandate and charges it there, outside the chain
(`write-observer.ts:122-211`, `main.ts:975`); the door reads the same usage. An
instance names the `Occasions`, the acts and writes that come about together.
`Throws` is any failed read or write of the turn. `Crash` ends every act in flight
and keeps what is on disk. `Elsewhere` is a move of the standing ref by something
else. The refusal tables are modelled by the rows that read concurrent state
(bytes, authority, gesture, mandate); every other row is one more way to refuse.
Verification is folded into `Project`. A frozen cohort is an act like any other:
its digest names its members.

### Cutover

A click is one press of the cutover, bind or rollback button, which outlives what
it was rendered for. `RunImport`, `ExistingKeys`, `AppendRecord`, `ImportEnds` are
an import, serialized on the evidence store's chain; a cutover imports for its
report, is confirmed or not (`ConfirmCutover`), imports again, mints or reads the
store id (`MintStoreId`, `StoreMint`), reads the marker (`ReadToMark`) and writes
it (`WriteLands`, `WriteReturns`). `Check` is the corruption check with which a
bind and a rollback begin. A look is a call of `status()` or `binding()`, whose
read replaces what the guard goes by; `LegacyBegins` and `LegacyLands` are the
guarded writers of the baselines. The marker is a record of whether it is
readable, says cut over, and names a store; an unreadable one counts as cut over.
A failing read shows as unreadable (`Readings`). `Arrives` is a sync or a restore;
`Restart` may tear a marker in the middle of its write. A store id is named after
the click that minted it. History: `unread` (a marker from outside not read yet)
and `crossed` (one of these acted on what another had overtaken).

### ReviewQueue

A *pass* is one `refresh()`: `Begin`, `ReadNotes`, `ReadJournal` and `Publish`,
with `ReadNotesThrows` when a listed note has been deleted. A *poll* is one
`pollJournal()`: `PollStarts` looks at the reentrancy guard, then the signature
is awaited, `PollProceeds` records it and begins a pass, `AfterPass`, `SweepRow`
and `SweepEnds` are the auto-accept sweep and the pass that may follow it, and
`PollEnds` the `finally`. Passes and polls are named by what runs them: the
interval (`Tick`), nudges, the two debounced timers (`Trail` after a change,
`Del` after a delete), and gestures. A note is unwritten, written, on record,
accepted or gone; what makes a write acceptable is Acceptance's concern, so
`ReconcileFires` and `SweepRow` may accept or not. `newest` is the generation
counter, reduced to whose it is. The
pane is open or closed at each delete (`NoteDeleted`). `shownFiles`, `shownLog` and
`missed` (deletes that went unheeded) are history variables, read by no action.

### BaselineStore, Acceptance

`SetBegins`, `SetLands`, `SetReturns`, `SetFails` are one `setBaseline`;
`RekeyBegins`, `RekeyLands`, `RekeyRemoves`, `RekeyFails`, `RemoveFails` one
`rekey`; `Reload` is `load()` after a start. `Acceptance` adds one note: agents'
edits and the landing of their records, which may come late; a human's typing and
the editor's debounced save; accept with its stamp and re-read (`HumanAccepts` to
`AcceptEnds`), the debounced reconcile that advances silently, the automatic
acceptance and its sweep, revert with its quarantine, renames, restarts, and the
repair after a start. A note is the set of edits it has taken and its status; a
baseline is a content and the agents' edits whose records are stamped later.

### Serving, FsIndex

The monitor's polls (`Probes`, `ProbesSlowly`, `PollEnds`) decide between LIVE and
FS: `GoesUp` stops the file handler, `GoesDown` tears the sessions down and calls
ready(), whose awaits are `IndexBuilt` and `WatcherStarts`. `Spawn`, `Started`,
`InitTimesOut` and `SessionEnds` are a live session. Runs of ready() that a stop
overtook are only counted. `FsIndex` is what ready() builds: `Changes` of the
disk, `Reports` of the watcher, `Fires` of a path's debounce, and the queue of
builds (`BuildWalks`, `BuildReads`, `BuildSwaps`, `BuildFails`) and single-file
updates (`PutReads`, `PutApplies`, `Unlinks`). Any read of a note that is there,
and any listing of a directory, may fail, and is passed over as in the code.
History: `unreported`, `overhung`, `unread` and `twinned` name what the code's
promises do not cover.

## Runs and bounds

| run | instance | shows |
|---|---|---|
| `KernelKeys` | 3 calls, 2 keys, timeout 1 tick, room for 1 stored result of age 1 | one run per key, truthful journal, nobody forgotten, FIFO service as `SerialWrites` promises |
| `KernelRevs` | 2 calls on one record note, 2 revisions, 3 requests, fair | the checks at dequeue hold at the write; adopted outcomes; every call ends |
| `AdmissionGestures` | 2 clicks and a cohort on one proposal, shared gesture, or a click and a revert; 1 foreign move of the ref | evidence before authority, one claim per subject and gesture, the chain of standing claims, nothing shown admitted without a claim, what each answer is worth |
| `AdmissionMandate` | 2 mandated cohorts and 1 write the observer charges, or a cohort and a revert; budget 1, fair | overshoot by what was past the check, one cohort at most; every act is answered |
| `ReviewVisible` | 1 note, the interval's poll and a nudged one, both timers, 1 gesture, 1 other record, 2 passes or sweeps at once, the pane open or closed, fair with timers | the list never goes back, what is owed is shown, settled rows go |
| `Mandates` | 2 agents, 1 gesture at a time, budget 1, 5 events, 3 once misled | the cache is the record until overtaken, amendment replaces, overshoot bounded, a spent grant stops |
| `Locks` | any 3 of 2 overlapping claims, others, renewals, releases, a move; caps 2 and 1, lifetime 1..2 | others are told, nobody loses a claim |
| `Serving` | 2 sessions, cap 1, 2 changes of the socket, 1 slow probe, fair | a fresh index, the cap, the mode follows the socket |
| `FsIndex` | 3 notes, two of one id, 2 changes, 2 builds, 1 note missed at a time, fair | in step with the disk, as a rebuild would be, changes reach the index |
| `Acceptance` | 1 note, 2 paths, 2 rekeys, an agent's edit of the body and one of a value, a human's typing, 3 acts | acceptances are kept and follow the note; accept takes what it read; nothing hidden or destroyed |
| `Cutover` | 2 cutovers, a bind, a rollback, 3 of them made and 2 under way at once, 1 reader, 1 record, 1 marker from outside | the guard tells the marker, the marker names this store, nothing written over unread, imported once |
| `AcceptanceLate` | as `Acceptance` | violated: the finding below |

Three operations are the fewest for a holder, an abandoned operation and a
newcomer to coexist. One stored result and two keys make every eviction happen.
Two revisions beyond the first let an outside edit and a call's write both come
between a check and a write. In Admission a click, a second click and a cohort are
the fewest acts that share a proposal, a digest and a gesture two by two; a cohort
in its turn, a cohort behind it and a write outside the chain are the fewest that
can all be after the last unit of a budget, and a revert need race one act only.
In ReviewQueue what the list says of a note depends on that note alone, so one
note is enough; two passes at once are the fewest that overtake each other, and
one record of some other call is what lets a poll be in flight when the note's
record lands. Five events are a draft, its counter, both grants and a charge or a
revocation. Once something was decided on an overtaken cache the properties of
mandates promise nothing any more, and three events are enough for a first read to
be overtaken, decided upon and made good by a restart. Two sessions over a cap of
one are the fewest for a session to take another's place; two flips bring Obsidian
back during a run of ready(). Two notes of one id and a third that links to it are
the fewest for an id to have to change hands; one note missed at a time lets each
read and each listing fail, of any note. Two rekeys go there and back; the three
acts are shared by writes, gestures, moves, failures and restarts. Three of the
clicks cut over, roll back and cut over again, or let two overlap after a first.

Deadlock is not checked: calls may all have ended, and bounds may be used up.

The modules' type invariants are theorems rather than run properties, but for
`IndexTypeOK` and `CutoverTypeOK`, which are both since they say more than types:
a build is queued exactly when one is in flight; a store id is never adopted from
a marker.

### Fairness

Kernel (`KernelRevs`): microtasks run, the wall clock advances, and timers fire, as
in the foreground; an operation's own code is never assumed to settle, nor the
journal's disk to answer. Admission: each read and write of an act that has begun
is answered, with success or with an error. ReviewQueue: passes and polls under way
go on, each poll by itself; timers fire in `VisibleSpec` only, since Chromium
suspends them in an occluded window. Nobody is assumed to write, accept or delete,
and no nudge to find the guard free. Serving: the interval polls, and a probe ends
after 250 ms at the latest; no client is assumed to do anything. FsIndex: the
queue's work ends, the file system reports, timers fire. The other modules state
safety only.

### Findings

`AcceptanceLate` is a run: an agent's write that lands after its call timed out is
on record as `late-ok`, which neither the queue nor the classifier counts
(`journal-reader.ts:81`), although `classify.ts:30` says that such a note surfaces.

The following were met while modelling. The properties that hold name them as
exceptions, and no run of their own is kept:

* `lifecycle.ts:145`, against `:16`, "budget checks always run against the durable
  record": of two first reads of the event file that overlap, the later replaces the
  array to which an append that the earlier let through has pushed its line, or is
  about to. Checks are then folded from less than the file until a restart.
  `CacheIsTheRecord` says that this is the only way, and the properties of mandates
  hold up to the first decision taken on such a cache.
* `service.ts:292` and `admission-wiring.ts:471`: a claim that never came to stand,
  because the process died or the compare-and-swap failed after it was stored,
  answers every later try of its subject with `already_admitted`, although `:282`
  calls such a claim "retriable, harmless" and the wiring means to "refuse
  TRUTHFULLY" (`:455`, `:718`). A cohort's members are even caught up
  to such a claim, and so shown as admitted (`:473-480`). `ReportsAreTrue` and
  `AdmittedUnderClaim` state what the answers are worth: a claim is on file, not that
  anything stands. `degraded` may be told of a failed act
  whose subject a concurrent act brought to stand, which `:779-785` means to
  exclude; and `admission_error` of one that stands.
* `wiring.ts:1423`: with the pane closed a delete is looked up in the cached list
  only. If a pass under way has read the note and publishes it afterwards, the row of
  the deleted note stays in the list and the badge until something else refreshes
  them, although "every uncertain case must answer true"
  (`queue-invalidation.ts:16`) and a delete that hits the queue "must refresh even
  with the pane closed" (`wiring.ts:1415`). `SettledRowGoes` exempts this case by
  `missed`.
* `index-store.ts:697`, `:478`, `:96`: a note whose read fails, or the listing of
  whose directory does, is left as it was by an update and out by a build; the index
  is ready all the same, and nothing tries again before the next change of that note
  or the next build. `unread` marks these.
* `journal-reader.ts:83`: records count under the path they were made for. A rename
  takes the baseline along but not the records, so that an agent's edit on record
  before it no longer waits for review (`UnderAnotherPath`).
* `service.ts:272`, against `:267`: an item and a cohort containing it, decided at
  once, both stand, because the proposal is fetched before the chain is joined.
* A revert that lands between the compare-and-swap and the projection supersedes a
  proposal that stands; an act that stands is reported as failed when the head
  cannot be read, or when the next act has moved it before the catch looks.
* `mandate-wiring.ts:104`: two gestures under way at once on one draft both find it
  open and grant it twice. The pane asks each in a modal, and the run has one.
* A record appended while a poll is in flight nudges in vain; with the window
  hidden nothing looks at it until the next append.
* `fs-mode.ts:373`: a stop() during ready() lets the watcher start while Obsidian
  serves. `live-proxy.ts:131`, against `teardownAll`: sessions pending when the count
  is reset are not counted against the cap.
* `baseline-store.ts:138`, "never a gap": two rekeys there and back remove both
  files, and the baseline lives on in memory only.
* `classify.ts:7`: a human typing in a note with an agent's change older than the
  classifier's 15 seconds silently blesses that change.
* `vault-watcher.ts:31`: an update is not equivalent to a rebuild once two notes
  had one id (`twinned`); `:36`: what changes between the build's read and the end of
  the first scan is reported by nobody (`unreported`).
* The cutover's clicks are not serialized: two mints that overlap leave a marker
  that names a store which is not the one on disk, so that neither legacy nor
  admission acts; a store id that cannot be read is replaced; a status() that a
  cutover overtakes puts "not cut over" back into memory; the corruption check of a
  bind or a rollback is a read apart from the one it writes by, so that a read
  failing in between lets it write over a bound marker; a legacy write past its
  guard lands after the cutover. `crossed` marks these.

## Proofs

The theorems assume of the constants what the modules' `ASSUME`s say: names are
distinct, bounds are numbers, a timeout is positive, two acts with one digest
decide the same members.

`WriteQueueProofs` rests on `QueueInv`: the type invariant, the slot's holder
being the one unanswered dequeued operation, no lost wake-up, late settlements,
and `QueuePlaces`, which ties where an operation is in its life to where it is
in the queue and which none of the properties says by itself. With it the queue
is shown to refine `SerialWrites`, step by step.

`KernelProofs` shows first that every step of the kernel is a step of the queue
or leaves it alone (`KernelUsesQueue`), so that the queue's theorems and its
refinement hold of the kernel as they stand. `KernelInv` adds that a key is
reserved by exactly the call that is in the queue under it (`KeysHeldByQueued`),
from which a waiter's owner is never lost, and that calls overlap only with
abandoned ones, from which the dequeue checks still hold at the write.
`ResultsInv` adds what is stored and journaled: `CallPlaces` ties a call's stage
to its verdict, `StoreInv` says of the store's entries, taken as a set, that each
is the result of a call that ran, and `JournalInv` which records there are. From
it follow one run per key, own outcomes, and the truth of the journal.

`LocksProofs` reuses the queue the same way. `LocksInv` adds that a claim in the
table was made by its operation, that overlaps were disclosed to the later claimer,
and that a write under way has been told of every live claim it lands in
(`WritersHeard`), which survives because a claim takes the slot too.
`NobodyLosesAClaim` is an action property, shown for each action from that.

`MandatesProofs` rests on `CacheInv`: nothing is appended before the cache is
filled, so until then what any read returned is the file; and unless the cache was
overtaken, every append on the chain holds the array that is cached, so the cache is
the file. What is decided while it is not is counted by `misled`, up to which the
invariants of mandates hold. The bound on
the overshoot is `RoomForAll`: usage plus the producers that have passed the fit
never exceeds the budget less one plus the number of agents. `AmendmentHolds` needs
`AmendmentInv`: an activation on its way grants a draft that nothing granted
descends from, and names as superseded the one active grant whose draft it descends
from. The lemmas under it show that a lineage is what its recursion says (`CanClimb`,
`LineageClimbs`), that it goes on as its members' do (`LineageFrom`), so that at
most one active grant lies on it (`PriorIsTheOne`), and that appending an event
leaves it as it was (`LineageStays`). Induction being out of reach, each takes a
least counterexample. The theorem assumes that no two gestures are under way
together (see Findings) and that the ids are finitely many: the walk up a lineage,
which ends in the code at a draft that counters none, is bounded by their number.

`AdmissionProofs` rests on `AdmissionInv`: one turn at a time, and
`EvidencePlaces`, which says for each place of an act whether its claim is
stored, stands and is settled, and that a subject judged admissible stays
without a claim until its own is stored. One claim per subject and gesture, the
chain of standing claims and the truth of reports follow for any number of acts
and proposals, with crashes and failures anywhere.

What is shown admitted, and the budget, need what acts and writes hold on their way
(`AuthorityAndBudget`): whoever heals an authority found a claim that covers it
(`HealsUnderClaim`), and once the budget is reached, everybody past its check and not
charged yet was past it at that moment (`SpendingInv`). Of cohorts that is one at
most, since turns do not overlap; of writes it is whatever is in flight, since the
observer takes no turns.

Of `Cutover`, `CutoverInv` says what a click holds between its reads and its write:
what it read of the marker is still so unless something overtook it (`ReadIsSo`);
one store id at most is minted, and whoever is about to mark has it (`OneStore`);
what is cached is what the marker says, or that it could not be read
(`CacheTells`); the head of the chain alone imports, and knows every key on file
(`OneImport`, `KeysKnown`), so that nothing is imported twice and what was confirmed
is evidence before the marker is written (`ConfirmedHeld`).

`ReviewQueueProofs` rests on `ListInv`: the list shown was computed from a
listing that still has every note there is and from records that are in the
journal, and so is every pass under way; the newest pass has listed and read no
less than the list shown. The last part is what the generation guard is for:
only the newest may publish, and it began after the pass that is shown.

`ServingProofs` rests on `FsInv`, which counts watchers and overtaken runs, and
`CountInv`, which compares the proxy's count with the sessions it stands for.
Of `FsIndex`, `FsIndexInv` has two halves. `IndexTypes` says that the queue holds one
build at most, at work only at the head, and that the index is always what a
sequence of puts and removals can leave: an id leads to a note indexed with that id,
and without twins to the only one. `TellInv` says of each note by whom a difference
between disk and index will be noticed: a debounce timer, the last update queued
for it, a build that has not read it yet or has read what is there now, or a put at
work (`Told`), and of a note outside all of these that disk and index agree, which
is `InSync` when nothing is left to run.

`AcceptanceProofs` rests on `AcceptanceInv`: the store's own invariant (a file
holds what memory holds, or an operation is under way there; two at one path make
it unsure), what each gesture holds between its reads and its writes
(`AcceptHolds`, `RevertHolds`), and `ReadersKnow` and `BaselinesCover`, by which an
agent's edit that is on record and not in a baseline was seen or is newer.
`BaselineFollows` adds `FollowsInv`: unless the note strayed, whoever works on it
works at its path, the baseline saved last is remembered, and the note has one or a
repair is to come. It assumes that no baseline is the absence of one.

Every invariant and action property the passing runs check is thus the property of
a theorem. What stays with TLC is liveness (`EveryCallEnds`, `EveryActIsAnswered`,
`OwedIsShown`, `SettledRowGoes`, `ModeFollowsSocket`, `ChangesReachIndex`), since the
prover does not reason about `ENABLED` and so about fairness, and the violated
property of the finding.

## Not modelled, and why

* Everywhere: digests, fingerprints and note contents are compared, never
  computed. A second instance of the plugin after a reload, whose chains and
  caches are its own, is not modelled.
* Kernel: a revision is unique to its write, although mtimes are not. Locks: the
  allowlist's filter of what is listed, and scopes that escape the vault.
* Mandates: expiry and the terms a write must fit, which only add refusals; one
  gesture at a time. Admission: refusal rows that read only the request are one
  refusal; `sweepMandated`'s attempt-dedupe and `requestRevision`, which nothing in
  production calls, are left out.
* ReviewQueue: the badge, the published index, side-door rows, adoption,
  unmounting, failures to read the journal or write the log, and the poll after
  the cutover.
* Acceptance: the acceptance log, which nothing reads here; adoption, requested
  changes and withdrawal, protected-note drift; the conformance gate is a free
  refusal; one reconcile at a time; one note; which of two drifted baselines the
  repair's planner prefers by recency is left open.
* Cutover: how the three surfaces are read and classified into records; the
  confirmed report itself, of which the records are kept.
* Serving: the instant within its 250 ms at which a probe's outcome is decided;
  one poll of `fs.watch` per change; closing a watcher is immediate; the init timer
  fires only after the spawn was answered; the semantic proxy and the monitor's own
  stop. FsIndex: the lookups by basename, alias and property.
* Operation executor and observations, sessions, origins, promotion, UID index,
  authentication, the file mode's own writes: stateful, planned, below.
* Panes, schemes, surveys, scaffolds, conformance, bridge, satellites, the tools
  themselves, the core's vault queries and its accept guard: user interface, pure
  transformations of note text, and process glue. They are nine tenths of the
  repository's lines, which is why the share of lines that the definitions stand
  for stays low: the state machines modelled here are small and these are not.

## Plan

1. `Executor`: operations around a kernel mutation, capture and proposals after
   the effect; EXTENDS `Kernel`.
2. `UidIndex`: events against rescans.
3. `Auth`: token lifetimes and one-time codes.
4. `Acceptance` with `Cutover`: an advance in flight at the cutover.
