------------------------------- MODULE FsIndex -------------------------------
(***************************************************************************)
(* The file-system index (core/fs-backend: index-store.ts and              *)
(* vault-watcher.ts) as the server uses it.  Notes change on disk under    *)
(* everybody's hands; a build reads them all and replaces the index, the   *)
(* watcher reports later changes, each path waits out its own debounce,    *)
(* and builds and single-file updates take turns on one queue.             *)
(*                                                                         *)
(* A note is what it links to.  Paths are numbers, in the order in which   *)
(* the builds process them; JdOf is the id derived from a file's name.     *)
(* The lookups by basename, alias and property, which builds and updates   *)
(* keep in the same way, are left out.                                     *)
(***************************************************************************)
EXTENDS Naturals, Sequences, FiniteSets, FiniteSetsExt, Functions

CONSTANTS
    Paths,       \* notes there may be
    JdOf,        \* path -> the JD id in its name
    NoId,
    Links,       \* what a note may link to: an id or a path
    StartNotes,  \* the notes there may be at the start
    MaxChanges,  \* bound on changes of the disk
    MaxBuilds,   \* bound on builds
    MaxUnread    \* bound on notes missed at once

ASSUME FsIndexAssumption ==
    /\ Paths \subseteq Nat /\ IsFiniteSet(Paths)
    /\ \A d \in StartNotes : DOMAIN d \subseteq Paths /\ d \in [DOMAIN d -> Links]
    /\ MaxChanges \in Nat /\ MaxBuilds \in Nat /\ MaxUnread \in Nat

VARIABLES
    disk, changes,   \* the notes on disk: path -> what it links to
    phase,           \* the file handler: idle, building, scanning, on, unwatched
    noticed,         \* changed paths the watcher has yet to report
    timers,          \* path -> the latest event its debounce holds back
    queue,           \* the mutation queue; its head is at work
    work,            \* what the head has read: paths to read, notes read
    builds,          \* builds so far
    inFlightBuild,   \* a build is queued or at work
    status,          \* the index ...
    byPath, byJdId, backlinks,
    unreported,      \* history: changes no watcher will report, not read since
    overhung,        \* history: notes with an update queued at a stop
    unread,          \* history: notes there whose last listing or read failed
    twinned          \* history: notes of one id were indexed together

diskVars == << disk, changes >>
watchVars == << phase, noticed, timers >>
queueVars == << queue, work, builds, inFlightBuild >>
indexVars == << status, byPath, byJdId, backlinks, twinned >>
seenVars == << unreported, overhung, unread >>
fsIndexVars == << diskVars, watchVars, queueVars, indexVars, seenVars >>

Ids == {JdOf[p] : p \in Paths} \ {NoId}
IsPartial(f, S, T) == DOMAIN f \subseteq S /\ f \in [DOMAIN f -> T]
Empty == << >>

-----------------------------------------------------------------------------
(* The index as a value.                                                   *)

HoldersOf(id, notes) == {p \in DOMAIN notes : JdOf[p] = id}

(* The ids of a full build: processed in order, the last holder wins.      *)
JdBuilt(notes) ==
    [id \in {JdOf[p] : p \in DOMAIN notes} \ {NoId} |-> Max(HoldersOf(id, notes))]

Resolve(link, notes, jd) ==
    IF link \in DOMAIN notes THEN {link}
    ELSE IF link \in DOMAIN jd THEN {jd[link]}
    ELSE {}

(* Each linked note with the notes that link to it.                        *)
BacklinksOf(notes, jd) ==
    LET targets == UNION {Resolve(notes[p], notes, jd) : p \in DOMAIN notes}
    IN  [t \in targets |-> {p \in DOMAIN notes : t \in Resolve(notes[p], notes, jd)}]

Without(f, k) == [x \in DOMAIN f \ {k} |-> f[x]]
With(f, k, v) == [x \in DOMAIN f \cup {k} |-> IF x = k THEN v ELSE f[x]]

JdWithout(jd, p) ==
    IF JdOf[p] \in DOMAIN jd /\ jd[JdOf[p]] = p THEN Without(jd, JdOf[p]) ELSE jd

JdWith(jd, p) ==
    IF JdOf[p] = NoId \/ (JdOf[p] \in DOMAIN jd /\ jd[JdOf[p]] > p) THEN jd
    ELSE With(jd, JdOf[p], p)

Twins(notes) == \E id \in Ids : Cardinality(HoldersOf(id, notes)) > 1

-----------------------------------------------------------------------------
IndexTypeOK ==
    /\ IsPartial(disk, Paths, Links) /\ changes \in 0..MaxChanges
    /\ phase \in {"idle", "building", "scanning", "on", "unwatched"}
    /\ noticed \subseteq Paths
    /\ IsPartial(timers, Paths, {"put", "unlink"})
    /\ \A i \in DOMAIN queue : queue[i].op \in {"build", "put", "unlink"}
    /\ work # Empty => queue # << >> /\ IsPartial(work.notes, Paths, Links)
    /\ builds \in 0..MaxBuilds
    /\ inFlightBuild <=> \E i \in DOMAIN queue : queue[i].op = "build"
    /\ status \in {"indexing", "ready", "error"}
    /\ IsPartial(byPath, Paths, Links) /\ IsPartial(byJdId, Ids, Paths)
    /\ IsPartial(backlinks, Paths, SUBSET Paths)
    /\ unreported \subseteq Paths /\ overhung \subseteq Paths /\ unread \subseteq Paths
    /\ twinned \in BOOLEAN

IndexInit ==
    /\ disk \in StartNotes /\ changes = 0
    /\ phase = "idle" /\ noticed = {} /\ timers = Empty
    /\ queue = << >> /\ work = << >> /\ builds = 0 /\ inFlightBuild = FALSE
    /\ status = "indexing"
    /\ byPath = Empty /\ byJdId = Empty /\ backlinks = Empty
    /\ unreported = {} /\ overhung = {} /\ unread = {} /\ twinned = FALSE

(* Somebody writes, creates or deletes a note.  A watcher that is still    *)
(* scanning takes the change for what it found (ignoreInitial).            *)
Changes(p) ==
    /\ changes < MaxChanges
    /\ changes' = changes + 1
    /\ \/ \E link \in Links :
             /\ p \in DOMAIN disk => disk[p] # link
             /\ disk' = With(disk, p, link)
       \/ p \in DOMAIN disk /\ disk' = Without(disk, p)
    /\ IF phase = "on"
       THEN noticed' = noticed \cup {p} /\ UNCHANGED unreported
       ELSE unreported' = unreported \cup {p} /\ UNCHANGED noticed
    /\ UNCHANGED << phase, timers, queueVars, indexVars, overhung, unread >>

-----------------------------------------------------------------------------
(* The file handler and the watcher.                                       *)

(* buildIndex: a build in flight is joined.                                *)
EnqueueBuild ==
    IF inFlightBuild THEN UNCHANGED queueVars
    ELSE /\ builds < MaxBuilds
         /\ builds' = builds + 1
         /\ queue' = Append(queue, [op |-> "build"])
         /\ inFlightBuild' = TRUE
         /\ UNCHANGED work

HandlerReady ==
    /\ phase = "idle"
    /\ phase' = "building"
    /\ EnqueueBuild
    /\ UNCHANGED << diskVars, noticed, timers, indexVars, seenVars >>

ForceReindex ==
    /\ EnqueueBuild
    /\ UNCHANGED << diskVars, watchVars, indexVars, seenVars >>

WatcherReady ==
    /\ phase = "scanning"
    /\ phase' = "on"
    /\ UNCHANGED << diskVars, noticed, timers, queueVars, indexVars, seenVars >>

(* A stop that overtakes a run of ready() is the concern of Serving.  The  *)
(* paths of dropped reports and timers are nobody's any more.              *)
HandlerStop ==
    /\ phase \in {"on", "unwatched"}
    /\ phase' = "idle"
    /\ noticed' = {} /\ timers' = Empty
    /\ unreported' = unreported \cup noticed \cup DOMAIN timers
    /\ overhung' = overhung \cup {p \in Paths : \E i \in DOMAIN queue :
                                   queue[i].op # "build" /\ queue[i].path = p}
    /\ UNCHANGED << diskVars, queueVars, indexVars, unread >>

(* Mutant: the first event of a burst is kept, not the latest.             *)
ReportsFirst(p) ==
    /\ p \in noticed
    /\ noticed' = noticed \ {p}
    /\ timers' = IF p \in DOMAIN timers THEN timers
                 ELSE With(timers, p, IF p \in DOMAIN disk THEN "put" ELSE "unlink")
    /\ UNCHANGED << diskVars, phase, queueVars, indexVars, seenVars >>

Reports(p) ==
    /\ p \in noticed
    /\ noticed' = noticed \ {p}
    /\ timers' = With(timers, p, IF p \in DOMAIN disk THEN "put" ELSE "unlink")
    /\ UNCHANGED << diskVars, phase, queueVars, indexVars, seenVars >>

(* Mutant: an update is dropped when a build is in flight anyway.          *)
FiresUnlessBuilding(p) ==
    /\ p \in DOMAIN timers
    /\ timers' = Without(timers, p)
    /\ queue' = IF inFlightBuild THEN queue
                ELSE Append(queue, [op |-> timers[p], path |-> p])
    /\ UNCHANGED << diskVars, phase, noticed, work, builds, inFlightBuild, indexVars,
                    seenVars >>

Fires(p) ==
    /\ p \in DOMAIN timers
    /\ timers' = Without(timers, p)
    /\ queue' = Append(queue, [op |-> timers[p], path |-> p])
    /\ UNCHANGED << diskVars, phase, noticed, work, builds, inFlightBuild, indexVars,
                    seenVars >>

-----------------------------------------------------------------------------
(* The queue.                                                              *)

HeadIs(op) == queue # << >> /\ Head(queue).op = op

(* Mutant: an update leaves the links between other notes alone.           *)
BecomesAlone(notes, jd) ==
    /\ byPath' = notes /\ byJdId' = jd
    /\ backlinks' = [t \in DOMAIN backlinks \cap DOMAIN notes |-> backlinks[t]]
    /\ twinned' = (twinned \/ Twins(notes))
    /\ UNCHANGED status

(* The index as left by an update of one note.                             *)
Becomes(notes, jd) ==
    /\ byPath' = notes /\ byJdId' = jd /\ backlinks' = BacklinksOf(notes, jd)
    /\ twinned' = (twinned \/ Twins(notes))
    /\ UNCHANGED status

Done == queue' = Tail(queue) /\ work' = << >> /\ UNCHANGED << builds, inFlightBuild >>

(* Listing the notes passes over a directory that cannot be read.          *)
BuildWalks ==
    /\ HeadIs("build") /\ work = << >>
    /\ \E missed \in SUBSET DOMAIN disk :
          /\ work' = [toRead |-> DOMAIN disk \ missed, notes |-> Empty]
          /\ unread' = missed \cup (unread \cap DOMAIN disk)
    /\ Cardinality(unread') <= MaxUnread
    /\ unreported' = unreported \cap DOMAIN disk
    /\ UNCHANGED << diskVars, watchVars, queue, builds, inFlightBuild, indexVars, overhung >>

(* A note that is gone, or that cannot be read, is passed over as well.    *)
BuildReads ==
    /\ HeadIs("build") /\ work # << >> /\ work.toRead # {}
    /\ LET p == Min(work.toRead)
       IN  /\ \/ /\ p \in DOMAIN disk
                /\ work' = [toRead |-> work.toRead \ {p}, notes |-> With(work.notes, p, disk[p])]
                /\ unread' = unread \ {p}
             \/ /\ work' = [toRead |-> work.toRead \ {p}, notes |-> work.notes]
                /\ unread' = IF p \in DOMAIN disk THEN unread \cup {p} ELSE unread \ {p}
           /\ unreported' = unreported \ {p}
    /\ Cardinality(unread') <= MaxUnread
    /\ UNCHANGED << diskVars, watchVars, queue, builds, inFlightBuild, indexVars, overhung >>

(* Mutant: inFlightBuild is not cleared.                                   *)
BuildEndsInFlight(next) ==
    /\ queue' = Tail(queue) /\ work' = << >>
    /\ phase' = IF phase = "building" THEN next ELSE phase
    /\ UNCHANGED << diskVars, noticed, timers, builds, inFlightBuild, seenVars >>

BuildEnds(next) ==
    /\ queue' = Tail(queue) /\ work' = << >> /\ inFlightBuild' = FALSE
    /\ phase' = IF phase = "building" THEN next ELSE phase
    /\ UNCHANGED << diskVars, noticed, timers, builds, seenVars >>

BuildSwaps ==
    /\ HeadIs("build") /\ work # << >> /\ work.toRead = {}
    /\ status' = "ready"
    /\ byPath' = work.notes /\ byJdId' = JdBuilt(work.notes)
    /\ backlinks' = BacklinksOf(work.notes, JdBuilt(work.notes))
    /\ twinned' = Twins(work.notes)
    /\ BuildEnds("scanning")

BuildFails ==
    /\ HeadIs("build") /\ work # << >>
    /\ status' = "error"
    /\ byPath' = Empty /\ byJdId' = Empty /\ backlinks' = Empty /\ twinned' = FALSE
    /\ BuildEnds("unwatched")

(* An update of a note that is gone, or that cannot be read, is dropped.   *)
PutReads ==
    /\ HeadIs("put") /\ work = << >>
    /\ LET p == Head(queue).path
           reads == status = "ready" /\ p \in DOMAIN disk
       IN  \/ /\ reads
              /\ work' = [notes |-> With(Empty, p, disk[p])]
              /\ unreported' = unreported \ {p} /\ unread' = unread \ {p}
              /\ UNCHANGED << queue, builds, inFlightBuild >>
           \/ /\ unread' = IF reads THEN unread \cup {p} ELSE unread
              /\ Done
              /\ UNCHANGED unreported
    /\ Cardinality(unread') <= MaxUnread
    /\ UNCHANGED << diskVars, watchVars, indexVars, overhung >>

PutApplies ==
    /\ HeadIs("put") /\ work # << >>
    /\ LET p == Head(queue).path
       IN  Becomes(With(byPath, p, work.notes[p]), JdWith(JdWithout(byJdId, p), p))
    /\ Done
    /\ UNCHANGED << diskVars, watchVars, seenVars >>

Unlinks ==
    /\ HeadIs("unlink")
    /\ LET p == Head(queue).path
       IN  /\ IF status = "ready" /\ p \in DOMAIN byPath
              THEN Becomes(Without(byPath, p), JdWithout(byJdId, p))
              ELSE UNCHANGED indexVars
           /\ unread' = IF p \in DOMAIN disk THEN unread ELSE unread \ {p}
    /\ Done
    /\ UNCHANGED << diskVars, watchVars, unreported, overhung >>

QueueWorks ==
    \/ BuildWalks \/ BuildReads \/ BuildSwaps \/ BuildFails
    \/ PutReads \/ PutApplies \/ Unlinks

IndexNext ==
    \/ \E p \in Paths : Changes(p) \/ Reports(p) \/ Fires(p)
    \/ HandlerReady \/ ForceReindex \/ WatcherReady \/ HandlerStop
    \/ QueueWorks

IndexSpec == IndexInit /\ [][IndexNext]_fsIndexVars

(* The queue's work ends, the file system reports, and timers fire.        *)
IndexFairness ==
    /\ WF_fsIndexVars(QueueWorks)
    /\ \A p \in Paths : WF_fsIndexVars(Reports(p)) /\ WF_fsIndexVars(Fires(p))

IndexFairSpec == IndexSpec /\ IndexFairness

-----------------------------------------------------------------------------
Same(p) ==
    /\ p \in DOMAIN byPath <=> p \in DOMAIN disk
    /\ p \in DOMAIN disk => byPath[p] = disk[p]

(* What neither a build nor a watcher makes up for.                        *)
Gaps == unreported \cup overhung \cup unread

(* Under a running watcher the index agrees with the disk, once no report, *)
(* timer or update is under way, on every note whose last change was read  *)
(* or reported - in whatever order builds, bursts and updates came.  Three *)
(* gaps are left: changes between a build's read and the end of the        *)
(* watcher's first scan, notes with an update queued at a stop, and notes  *)
(* that could not be listed or read when they were to be.                  *)
InSync ==
    (queue = << >> /\ noticed = {} /\ timers = Empty /\ phase = "on" /\ status = "ready")
        => \A p \in Paths \ Gaps : Same(p)

(* Ids and links never lead to a note that is not indexed.                 *)
NoDangling ==
    /\ \A id \in DOMAIN byJdId : byJdId[id] \in DOMAIN byPath
    /\ \A t \in DOMAIN backlinks : {t} \cup backlinks[t] \subseteq DOMAIN byPath

(* However many updates it went through, a ready index resolves ids and    *)
(* links as a full rebuild of the same notes would, as long as no two of   *)
(* them had one id.  After such a pair the id of the one left may be lost, *)
(* but even then none leads to a note that is not there.                   *)
EquivalentToRebuild ==
    /\ (status = "ready" /\ ~twinned) =>
           byJdId = JdBuilt(byPath) /\ backlinks = BacklinksOf(byPath, JdBuilt(byPath))
    /\ NoDangling

(* Changes under a watcher that stays on come to be in the index, but for  *)
(* those that could not be read.                                           *)
ChangesReachIndex ==
    <>[](phase = "on" /\ status = "ready")
        => <>[](\A p \in Paths \ Gaps : Same(p))
=============================================================================
