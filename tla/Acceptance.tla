----------------------------- MODULE Acceptance -----------------------------
(***************************************************************************)
(* One governed note under the acceptance of baselines, as it works until  *)
(* the cutover (governor/wiring/wiring.ts with kernel/accept.ts,           *)
(* classify.ts, journal-reader.ts, queue.ts and baseline-reconcile.ts).    *)
(* Agents write the note and their records reach the journal later; a      *)
(* human types in it, renames it, accepts or reverts it; the debounced     *)
(* reconcile advances the baseline silently over what the human typed, and *)
(* mechanical edits are accepted automatically.  Each of these reads,      *)
(* waits and writes while the others go on.                                *)
(*                                                                         *)
(* A note is the set of edits it has taken and its acceptance status; a    *)
(* baseline is a note and the agents' edits whose records are stamped      *)
(* later than it.  The acceptance log is left out: nothing reads it here.  *)
(***************************************************************************)
EXTENDS BaselineStore

CONSTANTS
    AgentEdits, HumanEdits,
    ValueOnly,   \* edits that change a frontmatter value and nothing else
    Mechanical,  \* edits of the classes accepted automatically
    Late,        \* agents' edits that may land after the call timed out
    MaxActs      \* bound on writes, gestures, moves, restarts and failures

Edits == AgentEdits \cup HumanEdits
Actors == {"accept", "revert", "reconcile", "sweep"}
Automatic == {"reconcile", "sweep"}

ASSUME AcceptanceAssumption ==
    /\ AgentEdits \cap HumanEdits = {} /\ ValueOnly \subseteq Edits
    /\ Mechanical \subseteq AgentEdits /\ Late \subseteq AgentEdits
    /\ Savers = Actors \ {"revert"}
    /\ MaxActs \in Nat

VARIABLES
    path, note,  \* where the note is and what is in it
    edit,        \* edit -> its stage and the path it was made at
    input,       \* path -> the records older than recent typing, if any
    timers,      \* paths whose reconcile is debounced
    job,         \* actor -> what it is at
    repair,      \* the repair after a start is still to come
    acts,        \* how many of these so far
    kept,        \* edits preserved in the quarantine
    raced,       \* history: edits written between an advance's read and its
                 \* stamp, or brought back by a revert after another's took them
    overwritten, \* history: edits written between a revert's read and its write
    latest,      \* history: the baseline saved last
    strayed      \* history: a save or rekey was cut short, or a rename met one

noteVars == << path, note, edit, input, timers >>
historyVars == << kept, raced, overwritten, latest, strayed >>
vars == << storeVars, noteVars, job, repair, acts, historyVars >>

-----------------------------------------------------------------------------
Contents == [edits : SUBSET Edits, status : {"plain", "proposed", "accepted"}]
Baselines == [content : Contents, later : SUBSET AgentEdits]

ASSUME NoBaselineAssumption == NoBaseline \notin Baselines

OnRecord(e) == edit[e].stage \in {"filed", "aged"}
Stamped(e) == OnRecord(e) \/ edit[e].stage \in {"stamped", "stamped late", "filed late"}

(* A baseline of this content, accepted now.                               *)
Now(content) == [content |-> content, later |-> {e \in AgentEdits : ~Stamped(e)}]

(* Mutant: only recent writes count.                                       *)
RecentWritesSince(p, b) ==
    {e \in AgentEdits : edit[e].stage = "filed" /\ edit[e].path = p
                        /\ (b = NoBaseline \/ e \in b.later)}

(* agentWritesSince: a record counts if its outcome is ok, it names this   *)
(* path and it is stamped after the baseline was accepted.                 *)
AgentWritesSince(p, b) ==
    {e \in AgentEdits : OnRecord(e) /\ edit[e].path = p
                        /\ (b = NoBaseline \/ e \in b.later)}

(* computeQueue, for the one note.                                         *)
Pending ==
    /\ cache[path] = NoBaseline \/ cache[path].content # note
    /\ AgentWritesSince(path, cache[path]) # {}

RecentAgentWrites(p) == {e \in AgentEdits : edit[e].stage = "filed" /\ edit[e].path = p}

(* What the detectors of the enabled classes explain wholly.               *)
Eligible(base, current) ==
    /\ current.status = base.status
    /\ (current.edits \ base.edits) \cup (base.edits \ current.edits) \subseteq Mechanical

NoJob == [stage |-> "idle"]
Job(stage, p, base) == [stage |-> stage, path |-> p, base |-> base]
Reads(a, stage, base) ==
    [stage |-> stage, path |-> job[a].path, base |-> base,
     read |-> note, since |-> {}]

(* Those who have read the note and not yet stamped or written.            *)
HasRead == {"read", "folded", "judging", "autoJudging", "keeping", "writing"}
Noticing(e) ==
    [a \in Actors |-> IF job[a].stage \in HasRead
                      THEN [job[a] EXCEPT !.since = @ \cup {e}] ELSE job[a]]

Acts == acts < MaxActs /\ acts' = acts + 1

-----------------------------------------------------------------------------
(* The note has no baseline yet, or one that it agrees with.               *)
Init ==
    /\ path \in Paths
    /\ note \in [edits : {{}}, status : {"plain", "proposed"}]
    /\ \E b \in {NoBaseline, [content |-> note, later |-> AgentEdits]} :
          StoreInit([p \in Paths |-> IF p = path THEN b ELSE NoBaseline])
    /\ edit = [e \in Edits |-> [stage |-> "none", path |-> path]]
    /\ input = [p \in Paths |-> {}]
    /\ timers = {}
    /\ job = [a \in Actors |-> NoJob]
    /\ repair = FALSE
    /\ acts = 0
    /\ kept = {} /\ raced = {} /\ overwritten = {}
    /\ latest = blobs[path] /\ strayed = FALSE

(* The note changes: vault.on("modify") starts its debounce anew.          *)
Modified(n) ==
    /\ note' = n
    /\ timers' = timers \cup {path}

-----------------------------------------------------------------------------
(* Agents and the human at the editor.                                     *)

AgentWrites(e) ==
    /\ edit[e].stage = "none"
    /\ Acts
    /\ Modified([note EXCEPT !.edits = @ \cup {e}])
    /\ edit' = [edit EXCEPT ![e] = [stage |-> "landed", path |-> path]]
    /\ job' = Noticing(e)
    /\ UNCHANGED << storeVars, path, input, repair, historyVars >>

(* The kernel stamps the record and starts to append it.  The record of a  *)
(* call that timed out says error, and that of the write that landed after *)
(* it late-ok.                                                             *)
Records(e) ==
    /\ edit[e].stage = "landed"
    /\ \/ edit' = [edit EXCEPT ![e].stage = "stamped"]
       \/ e \in Late /\ edit' = [edit EXCEPT ![e].stage = "stamped late"]
    /\ UNCHANGED << storeVars, path, note, input, timers, job, repair, acts, historyVars >>

Appends(e) ==
    /\ \/ /\ edit[e].stage = "stamped"
          /\ edit' = [edit EXCEPT ![e].stage = "filed"]
       \/ /\ edit[e].stage = "stamped late"
          /\ edit' = [edit EXCEPT ![e].stage = "filed late"]
    /\ UNCHANGED << storeVars, path, note, input, timers, job, repair, acts, historyVars >>

(* A record is recent for longer than a keystroke is.                      *)
RecordAges(e) ==
    /\ edit[e].stage = "filed"
    /\ \A p \in Paths : \A older \in input[p] : e \in older
    /\ edit' = [edit EXCEPT ![e].stage = "aged"]
    /\ UNCHANGED << storeVars, path, note, input, timers, job, repair, acts, historyVars >>

HumanTypes(e) ==
    /\ edit[e].stage = "none"
    /\ Acts
    /\ edit' = [edit EXCEPT ![e] = [stage |-> "typed", path |-> path]]
    /\ input' = [input EXCEPT ![path] = {{a \in AgentEdits : Stamped(a)}}]
    /\ UNCHANGED << storeVars, path, note, timers, job, repair, historyVars >>

EditorSaves(e) ==
    /\ edit[e].stage = "typed"
    /\ Modified([note EXCEPT !.edits = @ \cup {e}])
    /\ edit' = [edit EXCEPT ![e].stage = "saved"]
    /\ job' = Noticing(e)
    /\ UNCHANGED << storeVars, path, input, repair, acts, historyVars >>

InputAges(p) ==
    /\ input[p] # {}
    /\ input' = [input EXCEPT ![p] = {}]
    /\ UNCHANGED << storeVars, path, note, edit, timers, job, repair, acts, historyVars >>

-----------------------------------------------------------------------------
(* Saving a baseline, for whoever asks.                                    *)

(* The edits the stamp of this baseline is later than, though the actor    *)
(* read the note before them.                                              *)
Advances(a, content) ==
    /\ SetBegins(a, job[a].path, Now(content))
    /\ raced' = raced \cup job[a].since
    /\ job' = [job EXCEPT ![a].stage = "saving"]

Ended(a) == [job EXCEPT ![a] = IF a = "accept" THEN Job("ending", job[a].path, NoBaseline)
                               ELSE NoJob]

SaveLands(a) ==
    /\ SetLands(a)
    /\ UNCHANGED << noteVars, job, repair, acts, historyVars >>

SaveReturns(a) ==
    /\ SetReturns(a)
    /\ latest' = save[a].baseline
    /\ job' = Ended(a)
    /\ UNCHANGED << noteVars, repair, acts, kept, raced, overwritten, strayed >>

SaveFails(a) ==
    /\ Acts
    /\ SetFails(a)
    /\ job' = Ended(a)
    /\ UNCHANGED << noteVars, repair, historyVars >>

-----------------------------------------------------------------------------
(* Accept.  The path is the one clicked; a note that has moved from it is  *)
(* not found.                                                              *)

HumanAccepts ==
    /\ job["accept"] = NoJob
    /\ Acts
    /\ job' = [job EXCEPT !["accept"] = Job("reading", path, NoBaseline)]
    /\ input' = [input EXCEPT ![path] = {}]
    /\ UNCHANGED << storeVars, path, note, edit, timers, repair, historyVars >>

AcceptReads ==
    /\ job["accept"].stage = "reading"
    /\ job' = IF job["accept"].path # path THEN Ended("accept")
              ELSE [job EXCEPT !["accept"] = Reads("accept", "read", note)]
    /\ UNCHANGED << storeVars, noteVars, repair, acts, historyVars >>

AcceptAsItIs ==
    /\ \/ job["accept"].stage = "read" /\ job["accept"].read.status # "proposed"
       \/ job["accept"].stage = "folded"
    /\ Advances("accept", job["accept"].read)
    /\ UNCHANGED << noteVars, repair, acts, kept, overwritten, latest, strayed >>

(* The conformance gate, or a note that had moved when it was looked up.   *)
AcceptRefused ==
    /\ job["accept"].stage = "read"
    /\ job["accept"].read.status = "proposed"
    /\ job' = Ended("accept")
    /\ UNCHANGED << storeVars, noteVars, repair, acts, historyVars >>

AcceptStamps ==
    /\ job["accept"].stage = "read"
    /\ job["accept"].read.status = "proposed"
    /\ Modified([note EXCEPT !.status = "accepted"])
    /\ job' = [job EXCEPT !["accept"].stage = "stamped"]
    /\ UNCHANGED << storeVars, path, edit, input, repair, acts, historyVars >>

(* Mutant: only the stamp is verified.                                     *)
StampHolds(pre, post) == post.status = "accepted"

(* The stamp is there, the body and the set of keys are as they were.      *)
FoldHolds(pre, post) ==
    /\ post.status = "accepted"
    /\ (pre.edits \ post.edits) \cup (post.edits \ pre.edits) \subseteq ValueOnly

AcceptRereads ==
    /\ job["accept"].stage = "stamped"
    /\ job' = IF job["accept"].path = path /\ FoldHolds(job["accept"].base, note)
              THEN [job EXCEPT !["accept"] = Reads("accept", "folded", job["accept"].base)]
              ELSE Ended("accept")
    /\ UNCHANGED << storeVars, noteVars, repair, acts, historyVars >>

(* performAccept's finally.                                                *)
AcceptEnds ==
    /\ job["accept"].stage = "ending"
    /\ job' = [job EXCEPT !["accept"] = NoJob]
    /\ input' = [input EXCEPT ![job["accept"].path] = {}]
    /\ UNCHANGED << storeVars, path, note, edit, timers, repair, acts, historyVars >>

-----------------------------------------------------------------------------
(* The silent advance and the automatic acceptance.                        *)

ReconcileFires(p) ==
    /\ p \in timers
    /\ job["reconcile"] = NoJob
    /\ timers' = timers \ {p}
    /\ job' = [job EXCEPT !["reconcile"] = Job("reading", path, cache[path])]
    /\ UNCHANGED << storeVars, path, note, edit, input, repair, acts, historyVars >>

(* The file is read wherever it is by then.  An accept or a revert leaves  *)
(* the note as its baseline.                                               *)
ReconcileReads ==
    /\ job["reconcile"].stage = "reading"
    /\ LET base == job["reconcile"].base
       IN  job' = [job EXCEPT !["reconcile"] =
             IF base # NoBaseline /\ base.content = note THEN NoJob
             ELSE Reads("reconcile", "judging", base)]
    /\ UNCHANGED << storeVars, noteVars, repair, acts, historyVars >>

(* The journal is read; then classifyModify.                               *)
ReconcileLeaves ==
    /\ job["reconcile"].stage = "judging"
    /\ RecentAgentWrites(job["reconcile"].path) = {}
    /\ input[job["reconcile"].path] = {}
    /\ job' = Ended("reconcile")
    /\ UNCHANGED << storeVars, noteVars, repair, acts, historyVars >>

ReconcileAdvances ==
    /\ job["reconcile"].stage = "judging"
    /\ RecentAgentWrites(job["reconcile"].path) = {}
    /\ input[job["reconcile"].path] # {}
    /\ Advances("reconcile", job["reconcile"].read)
    /\ UNCHANGED << noteVars, repair, acts, kept, overwritten, latest, strayed >>

(* maybeAutoAccept, from here and from the sweep of the pending queue.     *)
AutoBegins(a, p) ==
    job' = [job EXCEPT ![a] = IF cache[p] = NoBaseline THEN NoJob
                              ELSE Job("autoReading", p, cache[p])]

ReconcileDefers ==
    /\ job["reconcile"].stage = "judging"
    /\ RecentAgentWrites(job["reconcile"].path) # {}
    /\ AutoBegins("reconcile", job["reconcile"].path)
    /\ UNCHANGED << storeVars, noteVars, repair, acts, historyVars >>

SweepBegins ==
    /\ job["sweep"] = NoJob
    /\ Acts
    /\ AutoBegins("sweep", path)
    /\ UNCHANGED << storeVars, noteVars, repair, historyVars >>

AutoReads(a) ==
    /\ job[a].stage = "autoReading"
    /\ job' = IF job[a].path # path \/ job[a].base.content = note THEN Ended(a)
              ELSE [job EXCEPT ![a] = Reads(a, "autoJudging", job[a].base)]
    /\ UNCHANGED << storeVars, noteVars, repair, acts, historyVars >>

AutoAccepts(a) ==
    /\ job[a].stage = "autoJudging"
    /\ AgentWritesSince(job[a].path, job[a].base) # {}
    /\ Eligible(job[a].base.content, job[a].read)
    /\ Advances(a, job[a].read)
    /\ UNCHANGED << noteVars, repair, acts, kept, overwritten, latest, strayed >>

AutoDeclines(a) ==
    /\ job[a].stage = "autoJudging"
    /\ \/ AgentWritesSince(job[a].path, job[a].base) = {}
       \/ ~Eligible(job[a].base.content, job[a].read)
    /\ job' = Ended(a)
    /\ UNCHANGED << storeVars, noteVars, repair, acts, historyVars >>

-----------------------------------------------------------------------------
(* Revert: the note is read, quarantined and replaced.                     *)

HumanReverts ==
    /\ job["revert"] = NoJob
    /\ Acts
    /\ cache[path] # NoBaseline
    /\ job' = [job EXCEPT !["revert"] = Job("reading", path, cache[path])]
    /\ UNCHANGED << storeVars, noteVars, repair, historyVars >>

RevertReads ==
    /\ job["revert"].stage = "reading"
    /\ job' = IF job["revert"].path # path THEN Ended("revert")
              ELSE [job EXCEPT !["revert"] = Reads("revert", "keeping", job["revert"].base)]
    /\ UNCHANGED << storeVars, noteVars, repair, acts, historyVars >>

(* Mutant: the baseline goes to the quarantine, not the note.              *)
RevertKeepsBaseline ==
    /\ job["revert"].stage = "keeping"
    /\ kept' = kept \cup job["revert"].base.content.edits
    /\ job' = [job EXCEPT !["revert"].stage = "writing"]
    /\ UNCHANGED << storeVars, noteVars, repair, acts, raced, overwritten, latest, strayed >>

RevertKeeps ==
    /\ job["revert"].stage = "keeping"
    /\ kept' = kept \cup job["revert"].read.edits
    /\ job' = [job EXCEPT !["revert"].stage = "writing"]
    /\ UNCHANGED << storeVars, noteVars, repair, acts, raced, overwritten, latest, strayed >>

(* A note that has moved is not found, unless it moved after the lookup.   *)
RevertWrites ==
    /\ job["revert"].stage = "writing"
    /\ job' = Ended("revert")
    /\ \/ /\ Modified(job["revert"].base.content)
          /\ overwritten' = overwritten \cup job["revert"].since
          /\ raced' = raced \cup (job["revert"].base.content.edits \ note.edits)
       \/ /\ job["revert"].path # path
          /\ UNCHANGED << note, timers, overwritten, raced >>
    /\ UNCHANGED << storeVars, path, edit, input, repair, acts, kept, latest, strayed >>

-----------------------------------------------------------------------------
(* The note moves, and its baseline follows.                               *)

(* Mutant: the note moves and its baseline stays.                          *)
RenamesAlone(p) ==
    /\ p # path
    /\ Acts
    /\ path' = p
    /\ strayed' = (strayed \/ \E a \in Actors : job[a] # NoJob)
    /\ UNCHANGED << storeVars, note, edit, input, timers, job, repair,
                    kept, raced, overwritten, latest >>

Renames(p) ==
    /\ p # path
    /\ Acts
    /\ path' = p
    /\ RekeyBegins(path, p)
    /\ strayed' = (strayed \/ \E a \in Actors : job[a] # NoJob)
    /\ UNCHANGED << note, edit, input, timers, job, repair, kept, raced, overwritten, latest >>

MoveLands(k) ==
    /\ RekeyLands(k)
    /\ UNCHANGED << noteVars, job, repair, acts, historyVars >>

MoveEnds(k) ==
    /\ RekeyRemoves(k)
    /\ UNCHANGED << noteVars, job, repair, acts, historyVars >>

MoveFails(k) ==
    /\ Acts
    /\ RekeyFails(k)
    /\ strayed' = TRUE
    /\ UNCHANGED << noteVars, job, repair, kept, raced, overwritten, latest >>

MoveLeavesFile(k) ==
    /\ Acts
    /\ RemoveFails(k)
    /\ UNCHANGED << noteVars, job, repair, historyVars >>

(* Obsidian quits or crashes, and starts again; meanwhile the note may     *)
(* have been moved.  Records that were not on file never will be.          *)
Restarts ==
    /\ Acts
    /\ Reload
    /\ path' \in Paths
    /\ edit' = [e \in Edits |->
         IF edit[e].stage \in {"landed", "stamped", "stamped late", "typed"}
         THEN [edit[e] EXCEPT !.stage = "lost"] ELSE edit[e]]
    /\ input' = [p \in Paths |-> {}]
    /\ timers' = {}
    /\ job' = [a \in Actors |-> NoJob]
    /\ repair' = TRUE
    /\ strayed' = (strayed \/ ~StoreQuiet \/ unsure # {})
    /\ UNCHANGED << note, kept, raced, overwritten, latest >>

(* planBaselineReconcile: a baseline whose note is elsewhere now is moved  *)
(* there, unless the note has one already.  Which of several goes first is *)
(* left open.                                                              *)
Drifted == {p \in Paths \ {path} : cache[p] # NoBaseline}

Repairs ==
    /\ repair
    /\ repair' = FALSE
    /\ IF Drifted = {} THEN UNCHANGED storeVars
       ELSE \E p \in Drifted : RekeyBegins(p, path)
    /\ UNCHANGED << noteVars, job, acts, historyVars >>

-----------------------------------------------------------------------------
Next ==
    \/ \E e \in AgentEdits : AgentWrites(e) \/ Records(e) \/ Appends(e) \/ RecordAges(e)
    \/ \E e \in HumanEdits : HumanTypes(e) \/ EditorSaves(e)
    \/ \E p \in Paths : InputAges(p) \/ ReconcileFires(p) \/ Renames(p)
    \/ \E s \in Savers : SaveLands(s) \/ SaveReturns(s) \/ SaveFails(s)
    \/ HumanAccepts \/ AcceptReads \/ AcceptAsItIs \/ AcceptRefused
    \/ AcceptStamps \/ AcceptRereads \/ AcceptEnds
    \/ ReconcileReads \/ ReconcileLeaves \/ ReconcileAdvances \/ ReconcileDefers
    \/ SweepBegins
    \/ \E a \in Automatic : AutoReads(a) \/ AutoAccepts(a) \/ AutoDeclines(a)
    \/ HumanReverts \/ RevertReads \/ RevertKeeps \/ RevertWrites
    \/ \E k \in Rekeys : MoveLands(k) \/ MoveEnds(k) \/ MoveFails(k) \/ MoveLeavesFile(k)
    \/ Restarts \/ Repairs

Spec == Init /\ [][Next]_vars

-----------------------------------------------------------------------------
TypeOK ==
    /\ cache \in [Paths -> Baselines \cup {NoBaseline}]
    /\ blobs \in [Paths -> Baselines \cup {NoBaseline}]
    /\ path \in Paths /\ note \in Contents
    /\ \A e \in Edits : edit[e].path \in Paths
    /\ input \in [Paths -> SUBSET SUBSET AgentEdits]
    /\ timers \subseteq Paths
    /\ \A s \in Savers : save[s] # Idle <=> job[s].stage = "saving"
    /\ repair \in BOOLEAN /\ kept \subseteq Edits
    /\ raced \subseteq Edits /\ overwritten \subseteq Edits
    /\ latest \in Baselines \cup {NoBaseline} /\ strayed \in BOOLEAN

Quiet == StoreQuiet /\ (\A a \in Actors : job[a] = NoJob) /\ ~repair

(* A human's accept takes the note as it was read at the click, with the   *)
(* stamp; what raced in since is refused, a bare value excepted.           *)
AcceptTakesWhatItRead ==
    job["accept"].stage = "saving" =>
        save["accept"].baseline.content.edits \ job["accept"].base.edits \subseteq ValueOnly

(* The journal is searched for writes to the note's present path: a rename *)
(* leaves behind what was recorded under the old one.                      *)
UnderAnotherPath(e) == edit[e].path # path

(* An agent's edit in the note that is on record waits for review: no      *)
(* baseline that lacks it is stamped later, unless the edit came between   *)
(* the reading of that baseline's content and its stamp, or was taken out  *)
(* by one revert and brought back by another.  An edit recorded before the *)
(* note was renamed is hidden by the rename, until the note is renamed     *)
(* back.                                                                   *)
HiddenOnlyIfRaced ==
    \A e \in AgentEdits :
        (/\ OnRecord(e) /\ e \in note.edits
         /\ cache[path] = NoBaseline \/ e \notin cache[path].content.edits)
        => Pending \/ e \in raced \/ UnderAnotherPath(e)

(* Whatever an agent or a human put into the note is in it still or in the *)
(* quarantine, unless it was put there while a revert was at work.         *)
NothingIsDestroyed ==
    \A e \in Edits :
        edit[e].stage \notin {"none", "typed"}
            => e \in note.edits \cup kept \cup overwritten \/ edit[e].stage = "lost"

(* The note has the baseline saved last, wherever it was moved, unless it  *)
(* found another at its path, which then stays beside the one left behind. *)
AcceptanceFollowsNote ==
    Quiet /\ ~strayed =>
        \/ cache[path] = latest
        \/ cache[path] # NoBaseline /\ Drifted # {}

(* A note that differs from its baseline and has an agent's record in the  *)
(* journal surfaces in the queue (classify.ts), and so when the record is  *)
(* of a write that landed after its call had timed out.                    *)
LateWriteSurfaces ==
    \A e \in Late :
        Quiet /\ edit[e].stage = "filed late" /\ e \in note.edits
        /\ (cache[path] = NoBaseline \/ e \notin cache[path].content.edits)
        => Pending
=============================================================================
