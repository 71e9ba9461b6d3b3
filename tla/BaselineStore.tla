---------------------------- MODULE BaselineStore ----------------------------
(***************************************************************************)
(* The accepted baselines (governor/kernel/baseline-store.ts): one file    *)
(* per note path, and a map of them in memory.  Saving writes the file and *)
(* then the map; following a renamed note claims the new path in the map   *)
(* at once, writes the new file and then removes the old one.  Files are   *)
(* written and removed at some moment between a call and its return, and a *)
(* call may fail.                                                          *)
(***************************************************************************)
EXTENDS Naturals, FiniteSets

CONSTANTS
    Paths,
    NoBaseline,
    Savers,      \* who may have a setBaseline under way
    Rekeys       \* the rekeys that may be under way together

VARIABLES
    cache,       \* path -> its baseline in memory
    blobs,       \* path -> its baseline on disk
    save,        \* saver -> its setBaseline under way
    rekey,       \* the rekeys under way
    unsure       \* history: paths where two operations overlapped, or whose
                 \* file could not be removed, since the store was loaded

storeVars == << cache, blobs, save, rekey, unsure >>

Idle == [stage |-> "idle"]

(* Loaded from these files.                                                *)
StoreInit(files) ==
    /\ cache = files /\ blobs = files
    /\ save = [s \in Savers |-> Idle]
    /\ rekey = [k \in Rekeys |-> Idle]
    /\ unsure = {}

StoreQuiet ==
    /\ \A s \in Savers : save[s] = Idle
    /\ \A k \in Rekeys : rekey[k] = Idle

(* The paths operations under way read or write.                           *)
Touched ==
    {save[s].path : s \in {t \in Savers : save[t] # Idle}}
    \cup UNION {{rekey[k].from, rekey[k].to} : k \in {l \in Rekeys : rekey[l] # Idle}}

(* An operation on these paths begins: what it meets is unsure with it.    *)
Meets(S) == IF (Touched \cup unsure) \cap S = {} THEN {} ELSE Touched \cup S

-----------------------------------------------------------------------------
SetBegins(s, p, b) ==
    /\ save[s] = Idle
    /\ save' = [save EXCEPT ![s] = [stage |-> "writing", path |-> p, baseline |-> b]]
    /\ unsure' = unsure \cup Meets({p})
    /\ UNCHANGED << cache, blobs, rekey >>

SetLands(s) ==
    /\ save[s].stage = "writing"
    /\ blobs' = [blobs EXCEPT ![save[s].path] = save[s].baseline]
    /\ save' = [save EXCEPT ![s].stage = "landed"]
    /\ UNCHANGED << cache, rekey, unsure >>

SetReturns(s) ==
    /\ save[s].stage = "landed"
    /\ cache' = [cache EXCEPT ![save[s].path] = save[s].baseline]
    /\ save' = [save EXCEPT ![s] = Idle]
    /\ UNCHANGED << blobs, rekey, unsure >>

SetFails(s) ==
    /\ save[s].stage = "writing"
    /\ save' = [save EXCEPT ![s] = Idle]
    /\ UNCHANGED << cache, blobs, rekey, unsure >>

-----------------------------------------------------------------------------
(* Mutant: the old file is removed before the new one is written.          *)
RekeyRemovingFirst(from, to) ==
    IF cache[from] = NoBaseline \/ cache[to] # NoBaseline
    THEN UNCHANGED storeVars
    ELSE \E k \in Rekeys :
        /\ rekey[k] = Idle
        /\ rekey' = [rekey EXCEPT ![k] =
             [stage |-> "writing", from |-> from, to |-> to, moved |-> cache[from]]]
        /\ cache' = [cache EXCEPT ![to] = cache[from], ![from] = NoBaseline]
        /\ blobs' = [blobs EXCEPT ![from] = NoBaseline]
        /\ unsure' = unsure \cup Meets({from, to})
        /\ UNCHANGED save

(* A path without a baseline has none to move, and one that has its own    *)
(* keeps it.                                                               *)
RekeyBegins(from, to) ==
    IF cache[from] = NoBaseline \/ cache[to] # NoBaseline
    THEN UNCHANGED storeVars
    ELSE \E k \in Rekeys :
        /\ rekey[k] = Idle
        /\ rekey' = [rekey EXCEPT ![k] =
             [stage |-> "writing", from |-> from, to |-> to, moved |-> cache[from]]]
        /\ cache' = [cache EXCEPT ![to] = cache[from], ![from] = NoBaseline]
        /\ unsure' = unsure \cup Meets({from, to})
        /\ UNCHANGED << blobs, save >>

RekeyLands(k) ==
    /\ rekey[k].stage = "writing"
    /\ blobs' = [blobs EXCEPT ![rekey[k].to] = rekey[k].moved]
    /\ rekey' = [rekey EXCEPT ![k].stage = "removing"]
    /\ UNCHANGED << cache, save, unsure >>

RekeyRemoves(k) ==
    /\ rekey[k].stage = "removing"
    /\ blobs' = [blobs EXCEPT ![rekey[k].from] = NoBaseline]
    /\ rekey' = [rekey EXCEPT ![k] = Idle]
    /\ UNCHANGED << cache, save, unsure >>

(* The claim is rolled back: nothing was written.                          *)
RekeyFails(k) ==
    /\ rekey[k].stage = "writing"
    /\ cache' = [cache EXCEPT ![rekey[k].to] = NoBaseline,
                              ![rekey[k].from] = rekey[k].moved]
    /\ rekey' = [rekey EXCEPT ![k] = Idle]
    /\ UNCHANGED << blobs, save, unsure >>

RemoveFails(k) ==
    /\ rekey[k].stage = "removing"
    /\ unsure' = unsure \cup {rekey[k].from}
    /\ rekey' = [rekey EXCEPT ![k] = Idle]
    /\ UNCHANGED << cache, blobs, save >>

(* The process ends, whatever is under way, and the next one loads.        *)
Reload ==
    /\ cache' = blobs
    /\ save' = [s \in Savers |-> Idle]
    /\ rekey' = [k \in Rekeys |-> Idle]
    /\ unsure' = {}
    /\ UNCHANGED blobs

-----------------------------------------------------------------------------
(* Were the process to end now, a file would hold the baseline of this     *)
(* path, or the one about to replace it.                                   *)
OnFile(p) ==
    \/ cache[p] = NoBaseline
    \/ \E q \in Paths : blobs[q] = cache[p]
    \/ \E s \in Savers : save[s].stage = "landed" /\ save[s].path = p

(* An acceptance outlives the process, whenever it ends (baseline-store.ts:*)
(* write-then-delete leaves a duplicate, never a gap), but where two       *)
(* operations overlapped.                                                  *)
NeverAGap == \A p \in Paths \ unsure : OnFile(p)

(* With nothing under way the map and the files agree, but there: a failed *)
(* save or rekey leaves them as it found them, a finished one changes both.*)
CacheAgreesWithBlobs ==
    StoreQuiet => \A p \in Paths \ unsure : cache[p] = blobs[p]

(* What was accepted is neither lost nor remembered otherwise than it is   *)
(* on file, whichever write fails or is cut off by the end of the process. *)
AcceptancesAreKept == NeverAGap /\ CacheAgreesWithBlobs
=============================================================================
