---------------------------- MODULE ReviewQueue ----------------------------
(***************************************************************************)
(* The pending-review queue of the governor's pane                         *)
(* (packages/plugin/src/governor/wiring/wiring.ts): which agent writes the *)
(* human is shown, and what makes the list be computed again.              *)
(*                                                                         *)
(* refresh() reads every governed note, then the journal, and replaces the *)
(* list.  Passes overlap: the poll runs one when the journal has grown,    *)
(* gestures run one each, and two debounced timers run one after a change  *)
(* of a note and after a delete.  A poll is started by an interval and,    *)
(* because timers do not run while the window is hidden, by every append   *)
(* to the journal.                                                         *)
(*                                                                         *)
(* Legacy acceptance is in force (before the cutover).  A note is written  *)
(* by an agent at most once.  The notes of one pass are read in one step:  *)
(* what the list says of a note depends on the reads of that note alone.   *)
(* The journal can be read and the acceptance log written to.              *)
(***************************************************************************)
EXTENDS Naturals, FiniteSets

CONSTANTS
    Notes,          \* governed notes
    Eligible,       \* notes whose write is in an auto-accepted class
    Nudges,         \* polls an append may start (a bound on those at once)
    Gestures,       \* gestures the human makes, each once
    Tick,           \* the interval's poll
    Trail, Del,     \* the pass after a change, and the one after a delete
    AtOnce,         \* bound on the passes and sweeps under way at once
    MaxOthers       \* bound on the records that concern no governed note

ASSUME EligibleAssumption == Eligible \subseteq Notes
ASSUME BoundsAssumption == AtOnce \in Nat \ {0} /\ MaxOthers \in Nat
ASSUME ProcsAssumption ==
    /\ Trail \notin Nudges \cup Gestures \cup {Tick, Del}
    /\ Del \notin Nudges \cup Gestures \cup {Tick}
    /\ Tick \notin Nudges \cup Gestures
    /\ Nudges \cap Gestures = {}

Polls == Nudges \cup {Tick}
Procs == Polls \cup Gestures \cup {Trail, Del}

VARIABLES
    written,        \* notes that hold an agent's write
    record,         \* the journal record of each note's write
    others,         \* how many records the journal has besides
    accepted,       \* notes whose baseline is the write
    gone,           \* deleted notes
    due,            \* debounce timers that are set: reconciles, Trail, Del
    pc,             \* where each poll or pass is
    files,          \* the notes each pass lists and has still to answer for
    saw,            \* those it has read and found to hold the write
    log,            \* the records it has read
    todo,           \* the rows each poll has still to sweep
    swept,          \* polls whose sweep has accepted a row
    newest,         \* the pass that took the last generation
    cachedPending,  \* the list shown
    lastSig,        \* the journal as the last poll to proceed found it
    inFlight,       \* the poll's reentrancy guard
    shownFiles,     \* history: what the pass that published the list had
    shownLog,       \*   listed, and the records it had read
    missed          \* history: notes deleted unheeded while a pass had them listed

noteVars == << written, record, others, accepted, gone, missed >>
readVars == << files, saw, log >>
pollVars == << todo, swept, lastSig, inFlight >>
listVars == << newest, cachedPending, shownFiles, shownLog >>
vars == << noteVars, due, pc, readVars, pollVars, listVars >>

PassStages == {"notes", "journal", "publish"}
Stages == {"idle", "sig", "shown", "sweep", "done"} \cup PassStages
Landed == {n \in Notes : record[n] = "landed"}

(* journalSignature: what the journal has grown to.                        *)
Signature == [notes |-> Landed, others |-> others]

TypeOK ==
    /\ written \subseteq Notes /\ accepted \subseteq Notes /\ gone \subseteq Notes
    /\ record \in [Notes -> {"none", "due", "landed"}]
    /\ others \in 0..MaxOthers
    /\ due \subseteq Notes \cup {Trail, Del}
    /\ pc \in [Procs -> Stages]
    /\ files \in [Procs -> SUBSET Notes]
    /\ saw \in [Procs -> SUBSET Notes]
    /\ log \in [Procs -> SUBSET Notes]
    /\ todo \in [Polls -> SUBSET Notes]
    /\ swept \subseteq {p \in Polls : pc[p] \in PassStages \cup {"shown", "sweep"}}
    /\ newest \in Procs
    /\ cachedPending \subseteq Notes
    /\ lastSig \in [notes : SUBSET Notes, others : 0..MaxOthers]
    /\ inFlight \in BOOLEAN
    /\ shownFiles \subseteq Notes /\ shownLog \subseteq Notes
    /\ missed \subseteq gone

(* The pane has just been mounted over reviewed notes.                     *)
Init ==
    /\ written = {} /\ accepted = {} /\ gone = {} /\ missed = {}
    /\ record = [n \in Notes |-> "none"]
    /\ others = 0
    /\ due = {}
    /\ pc = [p \in Procs |-> "idle"]
    /\ files = [p \in Procs |-> {}]
    /\ saw = [p \in Procs |-> {}]
    /\ log = [p \in Procs |-> {}]
    /\ todo = [p \in Polls |-> {}]
    /\ swept = {}
    /\ newest = Tick
    /\ cachedPending = {}
    /\ lastSig = Signature
    /\ inFlight = FALSE
    /\ shownFiles = Notes /\ shownLog = {}

-----------------------------------------------------------------------------
(* refresh().                                                              *)

Begin(p) ==
    /\ Cardinality({q \in Procs \ {p} : pc[q] \notin {"idle", "sig", "done"}}) < AtOnce
    /\ pc' = [pc EXCEPT ![p] = "notes"]
    /\ files' = [files EXCEPT ![p] = Notes \ gone]
    /\ newest' = p
    /\ UNCHANGED << saw, log, cachedPending, shownFiles, shownLog >>

Over(p) == IF p \in Gestures THEN "done" ELSE "idle"

Forget(p) ==
    /\ files' = [files EXCEPT ![p] = {}]
    /\ saw' = [saw EXCEPT ![p] = {}]
    /\ log' = [log EXCEPT ![p] = {}]

(* Mutant: the guard is not reset.                                         *)
PollEndsInFlight(p) ==
    /\ todo' = [todo EXCEPT ![p] = {}]
    /\ swept' = swept \ {p}
    /\ UNCHANGED << lastSig, inFlight >>

(* The poll's `finally`.                                                   *)
PollEnds(p) ==
    /\ todo' = [todo EXCEPT ![p] = {}]
    /\ swept' = swept \ {p}
    /\ inFlight' = FALSE
    /\ UNCHANGED lastSig

ReadNotes(p) ==
    /\ pc[p] = "notes"
    /\ saw' = [saw EXCEPT ![p] = files[p] \cap written]
    /\ pc' = [pc EXCEPT ![p] = "journal"]
    /\ UNCHANGED << noteVars, due, files, log, pollVars, listVars >>

(* Reading a listed note that has been deleted may throw, and the pass is  *)
(* over.                                                                   *)
ReadNotesThrows(p) ==
    /\ pc[p] = "notes"
    /\ files[p] \cap gone # {}
    /\ pc' = [pc EXCEPT ![p] = Over(p)]
    /\ Forget(p)
    /\ IF p \in Polls THEN PollEnds(p) ELSE UNCHANGED pollVars
    /\ UNCHANGED << noteVars, due, listVars >>

ReadJournal(p) ==
    /\ pc[p] = "journal"
    /\ log' = [log EXCEPT ![p] = Landed]
    /\ pc' = [pc EXCEPT ![p] = "publish"]
    /\ UNCHANGED << noteVars, due, files, saw, pollVars, listVars >>

(* computeQueue: a note differs from its baseline and the journal has an   *)
(* agent's write since.  Baselines are looked up at this point.            *)
Rows(p) == (saw[p] \cap log[p]) \ accepted

(* Mutant: an overtaken pass publishes too.                                *)
MayPublishAlways(p) == TRUE

(* The generation guard: only the newest-started pass may publish.         *)
MayPublish(p) == newest = p

Publish(p) ==
    /\ pc[p] = "publish"
    /\ IF MayPublish(p)
       THEN /\ cachedPending' = Rows(p)
            /\ shownFiles' = files[p]
            /\ shownLog' = log[p]
       ELSE UNCHANGED << cachedPending, shownFiles, shownLog >>
    /\ pc' = [pc EXCEPT ![p] = IF p \in Polls THEN "shown" ELSE Over(p)]
    /\ Forget(p)
    /\ UNCHANGED << noteVars, due, pollVars, newest >>

-----------------------------------------------------------------------------
(* pollJournal().                                                          *)

(* The reentrancy guard is looked at before the signature is awaited.      *)
PollStarts(p) ==
    /\ pc[p] = "idle"
    /\ ~ inFlight
    /\ pc' = [pc EXCEPT ![p] = "sig"]

IntervalFires ==
    /\ PollStarts(Tick)
    /\ UNCHANGED << noteVars, due, readVars, pollVars, listVars >>

PollProceeds(p) ==
    /\ pc[p] = "sig"
    /\ Signature # lastSig
    /\ lastSig' = Signature
    /\ inFlight' = TRUE
    /\ Begin(p)
    /\ UNCHANGED << noteVars, due, todo, swept >>

(* The journal has not grown, or could not be looked at.                   *)
PollGivesUp(p) ==
    /\ pc[p] = "sig"
    /\ Signature = lastSig
    /\ pc' = [pc EXCEPT ![p] = "idle"]
    /\ UNCHANGED << noteVars, due, readVars, pollVars, listVars >>

(* The poll's pass has returned: the poll sweeps the rows shown by now, or *)
(* is over if it has swept before.                                         *)
AfterPass(p) ==
    /\ pc[p] = "shown"
    /\ IF p \in swept
       THEN /\ pc' = [pc EXCEPT ![p] = "idle"]
            /\ PollEnds(p)
       ELSE /\ pc' = [pc EXCEPT ![p] = "sweep"]
            /\ todo' = [todo EXCEPT ![p] = cachedPending]
            /\ UNCHANGED << swept, lastSig, inFlight >>
    /\ UNCHANGED << noteVars, due, readVars, listVars >>

(* maybeAutoAccept on the next row: an eligible write that is on record    *)
(* becomes the baseline, unless something fails.                           *)
CanAccept(n) == n \in (written \cap Landed \cap Eligible) \ (gone \cup accepted)

SweepRow(p, n) ==
    /\ pc[p] = "sweep"
    /\ n \in todo[p]
    /\ todo' = [todo EXCEPT ![p] = @ \ {n}]
    /\ \/ /\ CanAccept(n)
          /\ accepted' = accepted \cup {n}
          /\ swept' = swept \cup {p}
       \/ UNCHANGED << accepted, swept >>
    /\ UNCHANGED << written, record, others, gone, missed, due, pc, readVars, lastSig, inFlight,
                    listVars >>

(* A sweep that accepted something is followed by another pass.            *)
SweepEnds(p) ==
    /\ pc[p] = "sweep"
    /\ todo[p] = {}
    /\ IF p \in swept
       THEN Begin(p) /\ UNCHANGED pollVars
       ELSE /\ pc' = [pc EXCEPT ![p] = "idle"]
            /\ PollEnds(p)
            /\ UNCHANGED << readVars, listVars >>
    /\ UNCHANGED << noteVars, due >>

-----------------------------------------------------------------------------
(* What happens to the notes.                                              *)

(* An agent writes a note through the kernel; the vault's modify event     *)
(* sets the note's debounce timer.                                         *)
AgentWrites(n) ==
    /\ record[n] = "none"
    /\ n \notin gone
    /\ written' = written \cup {n}
    /\ record' = [record EXCEPT ![n] = "due"]
    /\ due' = due \cup {n}
    /\ UNCHANGED << others, accepted, gone, missed, pc, readVars, pollVars, listVars >>

(* nudgeGovernanceQueue: a poll starts, or returns at once because one is  *)
(* in flight.                                                              *)
Nudged == IF inFlight THEN UNCHANGED pc ELSE \E p \in Nudges : PollStarts(p)

(* The record of the write is appended.  (An append that fails leaves the  *)
(* journal as it was, and the poll it starts gives up.)                    *)
RecordLands(n) ==
    /\ record[n] = "due"
    /\ record' = [record EXCEPT ![n] = "landed"]
    /\ Nudged
    /\ UNCHANGED << written, others, accepted, gone, missed, due, readVars, pollVars, listVars >>

(* The append of some other call's record.                                 *)
OtherRecordLands ==
    /\ others < MaxOthers
    /\ others' = others + 1
    /\ Nudged
    /\ UNCHANGED << written, record, accepted, gone, missed, due, readVars, pollVars, listVars >>

(* reconcile(), when the note's timer fires: the change may be accepted -  *)
(* silently or as auto-accepted - and a pass is asked for; a note that     *)
(* cannot be read is let go.                                               *)
ReconcileFires(n) ==
    /\ n \in due
    /\ IF n \in gone
       THEN due' = due \ {n} /\ UNCHANGED accepted
       ELSE /\ due' = (due \ {n}) \cup {Trail}
            /\ \/ n \in written /\ accepted' = accepted \cup {n}
               \/ UNCHANGED accepted
    /\ UNCHANGED << written, record, others, gone, missed, pc, readVars, pollVars, listVars >>

(* One of the two timers that run a pass fires (the next waits for its     *)
(* predecessor's pass: a bound on the passes of one timer at once).        *)
PassFires(p) ==
    /\ p \in due
    /\ pc[p] = "idle"
    /\ due' = due \ {p}
    /\ Begin(p)
    /\ UNCHANGED << noteVars, pollVars >>

(* Mutant: only the cached list is looked at.                              *)
DeleteInvalidatesCached(n, paneOpen) == n \in cachedPending

DeleteInvalidates(n, paneOpen) == n \in cachedPending \/ paneOpen

(* A delete, with the pane open or closed when it comes.                   *)
NoteDeleted(n, paneOpen) ==
    /\ n \notin gone
    /\ gone' = gone \cup {n}
    /\ due' = IF DeleteInvalidates(n, paneOpen) THEN due \cup {Del} ELSE due
    /\ missed' = IF /\ ~ paneOpen /\ n \notin cachedPending
                    /\ \E p \in Procs : n \in files[p]
                 THEN missed \cup {n} ELSE missed
    /\ UNCHANGED << written, record, others, accepted, pc, readVars, pollVars, listVars >>

(* performAccept: its `finally` runs a pass, whether it accepted or not.   *)
(* (An accept that stamps the note changes it too: the reconcile after it  *)
(* finds the note on its baseline and only asks for one more pass.)        *)
HumanAccepts(g, n) ==
    /\ pc[g] = "idle"
    /\ n \in written \ (gone \cup accepted)
    /\ \/ accepted' = accepted \cup {n}
       \/ UNCHANGED accepted
    /\ Begin(g)
    /\ UNCHANGED << written, record, others, gone, missed, due, pollVars >>

(* performRevert: the note is as its baseline has it again.                *)
HumanReverts(g, n) ==
    /\ pc[g] = "idle"
    /\ n \in written \ (gone \cup accepted)
    /\ written' = written \ {n}
    /\ due' = due \cup {n}
    /\ Begin(g)
    /\ UNCHANGED << record, others, accepted, gone, missed, pollVars >>

-----------------------------------------------------------------------------
PassStep(p) == ReadNotes(p) \/ ReadNotesThrows(p) \/ ReadJournal(p) \/ Publish(p)
PollStep(p) ==
    \/ PollProceeds(p)
    \/ PollGivesUp(p)
    \/ AfterPass(p)
    \/ \E n \in Notes : SweepRow(p, n)
    \/ SweepEnds(p)

Next ==
    \/ \E p \in Procs : PassStep(p)
    \/ \E p \in Polls : PollStep(p)
    \/ IntervalFires
    \/ \E p \in {Trail, Del} : PassFires(p)
    \/ \E n \in Notes : ReconcileFires(n)
    \/ \E n \in Notes : AgentWrites(n) \/ RecordLands(n)
    \/ \E n \in Notes, paneOpen \in BOOLEAN : NoteDeleted(n, paneOpen)
    \/ OtherRecordLands
    \/ \E g \in Gestures, n \in Notes : HumanAccepts(g, n) \/ HumanReverts(g, n)

Spec == Init /\ [][Next]_vars

(* Passes and polls that have started wait only for the disk: as long as   *)
(* there are any, some pass goes on, and every poll.                       *)
Progress ==
    /\ WF_vars(\E p \in Procs : PassStep(p))
    /\ \A p \in Polls : WF_vars(PollStep(p))

(* Timers fire only while the window is visible.                           *)
Timers ==
    /\ WF_vars(IntervalFires)
    /\ WF_vars(\E p \in {Trail, Del} : PassFires(p))
    /\ \A n \in Notes : WF_vars(ReconcileFires(n))

VisibleSpec == Spec /\ Progress /\ Timers

-----------------------------------------------------------------------------
(* Properties.                                                             *)

(* What the human ought to be shown.                                       *)
Owed(n) == n \in (written \cap Landed) \ (gone \cup accepted)

(* Passes overlap and take any time, yet the list never goes back: it is   *)
(* never replaced by one computed from fewer records of the journal, or    *)
(* from a listing that still had a note the list shown was without.        *)
ListNeverGoesBack ==
    [][shownLog \subseteq shownLog' /\ shownFiles' \subseteq shownFiles]_vars

(* The inductive invariant behind it: a pass that may publish has listed   *)
(* and read no less than the list shown.                                   *)
ListInv ==
    /\ TypeOK
    /\ Notes \ gone \subseteq shownFiles
    /\ shownLog \subseteq Landed
    /\ \A p \in Procs :
          /\ pc[p] \in PassStages => Notes \ gone \subseteq files[p]
          /\ pc[p] = "publish" => log[p] \subseteq Landed
    /\ pc[newest] \in PassStages => files[newest] \subseteq shownFiles
    /\ pc[newest] = "publish" => shownLog \subseteq log[newest]

(* A recorded write of an agent comes to be shown, unless it is accepted,  *)
(* reverted or deleted first - with the window visible.                    *)
OwedIsShown == \A n \in Notes : Owed(n) ~> (n \in cachedPending \/ ~ Owed(n))

(* A row whose note is accepted, reverted or deleted goes away, with the   *)
(* pane open or closed.  One delete is not heeded: with the pane closed    *)
(* only the list shown is looked at, and a pass under way that has listed  *)
(* the note may yet publish a row for it.                                  *)
SettledRowGoes ==
    \A n \in Notes :
        ~ (Owed(n) \/ n \in missed) ~> (n \notin cachedPending \/ Owed(n) \/ n \in missed)
=============================================================================
