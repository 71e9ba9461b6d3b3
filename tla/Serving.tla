------------------------------- MODULE Serving -------------------------------
(***************************************************************************)
(* The server's two ways of serving a vault (packages/server): through     *)
(* the plugin while Obsidian is there (LIVE), from the files when it is    *)
(* not (FS).  A monitor polls the plugin's socket; what it decides tears   *)
(* down or allows the sessions of the live proxy, and starts or stops the  *)
(* index and the vault watcher of the file handler.                        *)
(*                                                                         *)
(* Handlers run to their next await: a decision of the monitor and what    *)
(* its listeners do before they wait are one step, and so are the routing  *)
(* of a request and what its handler does first.  Runs of ready() differ   *)
(* in nothing but whether ready() still answers with their promise, so     *)
(* the others are counted, and so are the watchers.                        *)
(***************************************************************************)
EXTENDS Naturals, FiniteSets

CONSTANTS
    Sessions,     \* sessions clients may open
    MaxSessions,  \* the proxy's cap on backends
    MaxFlips,     \* bound on how often the socket changes
    MaxSlow       \* bound on probes of a listening socket that time out

ASSUME ServingAssumption ==
    /\ IsFiniteSet(Sessions)
    /\ MaxSessions \in Nat /\ MaxFlips \in Nat /\ MaxSlow \in Nat

VARIABLES
    socket, flips, slow,   \* the plugin's socket, and what happened to it
    nudged,                \* fs.watch has a change of the socket file to report
    cached, failures,      \* what the monitor takes for true, failures in a row
    poll,                  \* each poll in flight: what its probe found
    ready,                 \* how far the run is whose promise ready() returns
    overtaken,             \* runs still at work after stop() dropped their promise
    watchers, handle,      \* watchers running, and whether stop() can reach one
    returned,              \* history: stop() found a run at work
    session,               \* each session of the live proxy
    liveBackends,          \* the proxy's count of backends
    forgotten              \* history: sessions the reset of the count forgot

socketVars == << socket, flips, slow, nudged >>
monitorVars == << cached, failures, poll >>
fsVars == << ready, overtaken, watchers, handle, returned >>
liveVars == << session, liveBackends, forgotten >>
vars == << socketVars, monitorVars, fsVars, liveVars >>

Polls == {"interval", "watch"}
AtWork == {"indexing", "starting"}

TypeOK ==
    /\ socket \in {"absent", "deaf", "listening"}
    /\ flips \in 0..MaxFlips /\ slow \in 0..MaxSlow /\ nudged \in BOOLEAN
    /\ cached \in BOOLEAN /\ failures \in 0..2
    /\ poll \in [Polls -> {"idle", "reached", "failed"}]
    /\ ready \in AtWork \cup {"none", "watched", "unwatched"}
    /\ overtaken \in [AtWork -> Nat]
    /\ watchers \in Nat /\ handle \in BOOLEAN /\ returned \in BOOLEAN
    /\ session \in [Sessions -> {"new", "spawning", "open", "refused", "failed", "gone"}]
    /\ liveBackends \in Nat /\ forgotten \in SUBSET Sessions

Init ==
    /\ socket \in {"absent", "listening"} /\ flips = 0 /\ slow = 0 /\ nudged = FALSE
    /\ cached = FALSE /\ failures = 0 /\ poll = [p \in Polls |-> "idle"]
    /\ ready = "none" /\ overtaken = [a \in AtWork |-> 0]
    /\ watchers = 0 /\ handle = FALSE /\ returned = FALSE
    /\ session = [s \in Sessions |-> "new"]
    /\ liveBackends = 0 /\ forgotten = {}

-----------------------------------------------------------------------------
(* The file handler.                                                       *)

Ready ==
    /\ ready' = IF ready = "none" THEN "indexing" ELSE ready
    /\ UNCHANGED << overtaken, watchers, handle, returned >>

(* Mutant: the promise is kept, so a later ready() builds nothing.         *)
StopUnarmed ==
    /\ UNCHANGED << ready, overtaken, returned >>
    /\ watchers' = IF handle THEN watchers - 1 ELSE watchers
    /\ handle' = FALSE

Stop ==
    /\ overtaken' = [a \in AtWork |-> overtaken[a] + (IF ready = a THEN 1 ELSE 0)]
    /\ ready' = "none"
    /\ watchers' = IF handle THEN watchers - 1 ELSE watchers
    /\ handle' = FALSE
    /\ returned' = (returned \/ ready \in AtWork)

(* Runs that wait for the index share one build of it. *)
IndexBuilt ==
    /\ ready = "indexing" \/ overtaken["indexing"] > 0
    /\ \/ /\ ready' = IF ready = "indexing" THEN "starting" ELSE ready
          /\ overtaken' = [indexing |-> 0,
                           starting |-> overtaken["starting"] + overtaken["indexing"]]
       \/ /\ ready' = IF ready = "indexing" THEN "unwatched" ELSE ready
          /\ overtaken' = [overtaken EXCEPT !["indexing"] = 0]
    /\ UNCHANGED << socketVars, monitorVars, watchers, handle, returned, liveVars >>

WatcherStarts ==
    /\ \E next \in {"watched", "unwatched"} :
          /\ \/ ready = "starting" /\ ready' = next /\ UNCHANGED overtaken
             \/ /\ overtaken["starting"] > 0
                /\ overtaken' = [overtaken EXCEPT !["starting"] = @ - 1]
                /\ UNCHANGED ready
          /\ IF next = "watched"
             THEN watchers' = watchers + 1 /\ handle' = TRUE
             ELSE UNCHANGED << watchers, handle >>
    /\ UNCHANGED << socketVars, monitorVars, returned, liveVars >>

FsRequest ==
    /\ ~cached
    /\ Ready
    /\ UNCHANGED << socketVars, monitorVars, liveVars >>

-----------------------------------------------------------------------------
(* The live proxy.  A session counts as a backend from the moment it is    *)
(* spawned until it is torn down; it is in the map only while it is open.  *)

Open == {s \in Sessions : session[s] = "open"}
Pending == {s \in Sessions : session[s] \in {"spawning", "refused", "failed"}}
Backends == Open \cup Pending

Teardown(s) ==
    /\ session' = [session EXCEPT ![s] = "gone"]
    /\ liveBackends' = IF liveBackends = 0 THEN 0 ELSE liveBackends - 1
    /\ UNCHANGED << socketVars, monitorVars, fsVars, forgotten >>

TeardownAll ==
    /\ session' = [s \in Sessions |-> IF s \in Open THEN "gone" ELSE session[s]]
    /\ liveBackends' = 0
    /\ forgotten' = forgotten \cup Pending

(* Mutant: a session counts only once it is registered.                    *)
SpawnPendingFree(s) ==
    /\ cached /\ session[s] = "new"
    /\ Cardinality(Open) < MaxSessions
    /\ session' = [session EXCEPT ![s] = "spawning"]
    /\ liveBackends' = liveBackends + 1
    /\ UNCHANGED << socketVars, monitorVars, fsVars, forgotten >>

Spawn(s) ==
    /\ cached /\ session[s] = "new"
    /\ liveBackends < MaxSessions
    /\ session' = [session EXCEPT ![s] = "spawning"]
    /\ liveBackends' = liveBackends + 1
    /\ UNCHANGED << socketVars, monitorVars, fsVars, forgotten >>

Started(s) ==
    /\ session[s] = "spawning"
    /\ \E next \in {"open", "refused", "failed"} :
          session' = [session EXCEPT ![s] = next]
    /\ UNCHANGED << socketVars, monitorVars, fsVars, liveBackends, forgotten >>

InitTimesOut(s) ==
    /\ session[s] \in {"refused", "failed"}
    /\ Teardown(s)

(* A transport closes, or the reaper finds the session idle. *)
SessionEnds(s) ==
    /\ session[s] \in {"open", "refused"}
    /\ Teardown(s)

-----------------------------------------------------------------------------
(* The socket, the monitor, and what the monitor's listeners do.           *)

SocketChanges ==
    /\ flips < MaxFlips
    /\ flips' = flips + 1
    /\ \E next \in {"absent", "deaf", "listening"} \ {socket} :
          /\ socket' = next
          /\ nudged' = (nudged \/ "absent" \in {socket, next})
    /\ UNCHANGED << slow, monitorVars, fsVars, liveVars >>

Starts(p) ==
    /\ poll[p] = "idle"
    /\ p = "watch" => nudged
    /\ nudged' = (nudged /\ p # "watch")

Probes(p) ==
    /\ Starts(p)
    /\ poll' = [poll EXCEPT ![p] = IF socket = "listening" THEN "reached" ELSE "failed"]
    /\ UNCHANGED << socket, flips, slow, cached, failures, fsVars, liveVars >>

ProbesSlowly(p) ==
    /\ Starts(p)
    /\ socket = "listening" /\ slow < MaxSlow
    /\ slow' = slow + 1
    /\ poll' = [poll EXCEPT ![p] = "failed"]
    /\ UNCHANGED << socket, flips, cached, failures, fsVars, liveVars >>

GoesUp == cached' = TRUE /\ Stop /\ UNCHANGED liveVars
GoesDown == cached' = FALSE /\ TeardownAll /\ Ready
StaysAsIs == UNCHANGED << cached, fsVars, liveVars >>

(* Two failures in a row, or one with the socket file gone, mean down; the *)
(* count goes no further than what is told apart.                          *)
Enough == 2

(* Mutant: a failure is not remembered until the next.                     *)
FailedForgotten == 1

Failed == IF failures < Enough THEN failures + 1 ELSE failures

PollEnds(p) ==
    /\ poll[p] # "idle"
    /\ poll' = [poll EXCEPT ![p] = "idle"]
    /\ \/ /\ poll[p] = "reached"
          /\ failures' = 0
          /\ IF cached THEN StaysAsIs ELSE GoesUp
       \/ /\ poll[p] = "failed" /\ socket = "absent"
          /\ failures' = 0
          /\ IF cached THEN GoesDown ELSE StaysAsIs
       \/ /\ poll[p] = "failed" /\ socket # "absent"
          /\ failures' = Failed
          /\ IF cached /\ Failed >= Enough THEN GoesDown ELSE StaysAsIs
    /\ UNCHANGED socketVars

Next ==
    \/ SocketChanges
    \/ \E p \in Polls : Probes(p) \/ ProbesSlowly(p) \/ PollEnds(p)
    \/ FsRequest \/ IndexBuilt \/ WatcherStarts
    \/ \E s \in Sessions : Spawn(s) \/ Started(s) \/ InitTimesOut(s) \/ SessionEnds(s)

Spec == Init /\ [][Next]_vars

-----------------------------------------------------------------------------
(* The interval keeps polling, and a probe ends after 250 ms at the latest.*)
Fairness ==
    /\ WF_vars(Probes("interval") \/ ProbesSlowly("interval"))
    /\ \A p \in Polls : WF_vars(PollEnds(p))

FairSpec == Spec /\ Fairness

(* While the files are served from an index that came about with its       *)
(* watcher, some watcher runs: coming back to the files after any number   *)
(* of turns never leaves an index that nobody keeps up to date.            *)
KeptFresh == ready = "watched" => watchers > 0

(* Only a run of ready() that stop() found at work can leave a watcher     *)
(* running beside Obsidian, or one that no later stop() reaches.           *)
StrayNeedsOvertaking ==
    ~returned => /\ watchers = IF handle THEN 1 ELSE 0
                 /\ cached => watchers = 0

(* The proxy runs no more backends than its cap, but for those that were   *)
(* pending when Obsidian went away and the count was reset (teardownAll).  *)
CapUnlessForgotten ==
    Cardinality(Backends) <= MaxSessions + Cardinality(forgotten)

(* No place is lost: however sessions end, fail to start or time out, the  *)
(* count never exceeds the backends there are.                             *)
NoPlaceLost == liveBackends <= Cardinality(Backends)

(* The mode comes to agree with the socket once the socket stays.          *)
ModeFollowsSocket ==
    /\ <>[](socket = "listening") => <>[]cached
    /\ <>[](socket # "listening") => <>[]~cached
=============================================================================
