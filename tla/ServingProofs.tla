---------------------------- MODULE ServingProofs ----------------------------
(***************************************************************************)
(* For any sessions, cap and bounds: the index that serves the files is    *)
(* kept up to date, stray watchers need a return to Obsidian during a run  *)
(* of ready(), and the proxy's cap holds but for the sessions a reset      *)
(* forgot.  For any notes, links and bounds: a quiet index under a running *)
(* watcher agrees with the disk, and one updated note by note resolves ids *)
(* and links as a rebuilt one would.                                       *)
(***************************************************************************)
EXTENDS Serving, FsIndex, FiniteSetTheorems, WellFoundedInduction, TLAPS

(* The file handler has a promise only while the files serve; a watcher    *)
(* that stop() can reach runs, and one that came with the promise can be   *)
(* reached; until a return overtakes a run, there are no others.           *)
FsInv ==
    /\ cached => ready = "none"
    /\ handle => watchers > 0
    /\ ready = "watched" => handle
    /\ ~returned => /\ \A a \in AtWork : overtaken[a] = 0
                    /\ handle => ready = "watched"
                    /\ watchers = IF handle THEN 1 ELSE 0

(* The count misses no more backends than the resets forgot.               *)
CountInv ==
    /\ liveBackends <= MaxSessions
    /\ liveBackends <= Cardinality(Backends)
    /\ Cardinality(Backends) <= liveBackends + Cardinality(forgotten)

LEMMA PollOutcome ==
    ASSUME TypeOK, NEW p \in Polls, PollEnds(p)
    PROVE  /\ StaysAsIs \/ (~cached /\ GoesUp) \/ (cached /\ GoesDown)
           /\ failures' \in 0..2
           /\ poll' \in [Polls -> {"idle", "reached", "failed"}]
           /\ UNCHANGED socketVars
<1>1. failures' \in 0..2
  BY DEF PollEnds, TypeOK, Failed, Enough
<1>2. poll' \in [Polls -> {"idle", "reached", "failed"}] /\ UNCHANGED socketVars
  BY DEF PollEnds, TypeOK
<1>3. StaysAsIs \/ (~cached /\ GoesUp) \/ (cached /\ GoesDown)
  BY DEF PollEnds
<1>4. QED BY <1>1, <1>2, <1>3

LEMMA FsStep ==
    ASSUME TypeOK, FsInv, [Next]_vars
    PROVE  FsInv'
<1> USE DEF AtWork, fsVars
<1>1. CASE UNCHANGED << cached, fsVars >>
  BY <1>1 DEF FsInv, TypeOK
<1>2. CASE \E p \in Polls : PollEnds(p)
  <2>1. PICK p \in Polls : PollEnds(p)
    BY <1>2
  <2>2. CASE StaysAsIs
    BY <2>2, <1>1 DEF StaysAsIs
  <2>3. CASE ~cached /\ GoesUp
    <3>1. ready' = "none" /\ handle' = FALSE
      BY <2>3 DEF GoesUp, Stop
    <3>2. ASSUME ~returned'
          PROVE  /\ \A a \in AtWork : overtaken'[a] = 0
                 /\ watchers' = 0
      <4>1. ~returned /\ ready \notin AtWork
        BY <2>3, <3>2 DEF GoesUp, Stop
      <4>2. \A a \in AtWork : overtaken'[a] = 0
        BY <2>3, <4>1 DEF FsInv, GoesUp, Stop
      <4>3. watchers' = 0
        BY <2>3, <4>1 DEF FsInv, TypeOK, GoesUp, Stop
      <4>4. QED BY <4>2, <4>3
    <3>3. QED BY <3>1, <3>2 DEF FsInv
  <2>4. CASE cached /\ GoesDown
    BY <2>4 DEF FsInv, TypeOK, GoesDown, Ready
  <2>5. QED BY <2>1, <2>2, <2>3, <2>4, PollOutcome
<1>3. CASE FsRequest
  BY <1>3 DEF FsInv, TypeOK, FsRequest, Ready, monitorVars
<1>4. CASE IndexBuilt
  BY <1>4 DEF FsInv, TypeOK, IndexBuilt, monitorVars
<1>5. CASE WatcherStarts
  BY <1>5 DEF FsInv, TypeOK, WatcherStarts, monitorVars
<1>6. QED
  BY <1>1, <1>2, <1>3, <1>4, <1>5
  DEF Next, vars, monitorVars, SocketChanges, Probes, ProbesSlowly, Spawn, Started,
      InitTimesOut, SessionEnds, Teardown

LEMMA SessionsFinite ==
    ASSUME TypeOK
    PROVE  /\ IsFiniteSet(Backends) /\ Cardinality(Backends) \in Nat
           /\ IsFiniteSet(forgotten) /\ Cardinality(forgotten) \in Nat
<1>1. Backends \subseteq Sessions /\ forgotten \subseteq Sessions
  BY DEF TypeOK, Backends, Open, Pending
<1>2. QED
  BY <1>1, ServingAssumption, FS_Subset, FS_CardinalityType

(* A backend that is torn down gives its place back.                       *)
LEMMA TeardownCounts ==
    ASSUME TypeOK, CountInv, NEW s \in Backends, Teardown(s)
    PROVE  CountInv'
<1>1. Backends' = Backends \ {s} /\ s \in Sessions
  BY DEF TypeOK, Teardown, Backends, Open, Pending
<1>2. Cardinality(Backends') = Cardinality(Backends) - 1
  BY <1>1, SessionsFinite, FS_RemoveElement
<1>3. forgotten' = forgotten /\ Cardinality(forgotten) \in Nat /\ Cardinality(Backends) \in Nat
  BY SessionsFinite DEF Teardown
<1>4. liveBackends \in Nat /\ MaxSessions \in Nat
  BY ServingAssumption DEF TypeOK
<1>5. liveBackends' = IF liveBackends = 0 THEN 0 ELSE liveBackends - 1
  BY DEF Teardown
<1>6. liveBackends' <= MaxSessions
  BY <1>4, <1>5 DEF CountInv
<1>7. liveBackends' <= Cardinality(Backends')
  <2>1. Cardinality(Backends') \in Nat
    BY <1>1, SessionsFinite, FS_RemoveElement, FS_CardinalityType
  <2>2. QED BY <1>2, <1>3, <1>4, <1>5, <2>1 DEF CountInv
<1>8. Cardinality(Backends') <= liveBackends' + Cardinality(forgotten')
  BY <1>2, <1>3, <1>4, <1>5 DEF CountInv
<1>9. QED BY <1>6, <1>7, <1>8 DEF CountInv

LEMMA CountStep ==
    ASSUME TypeOK, TypeOK', CountInv, [Next]_vars
    PROVE  CountInv'
<1>1. CASE UNCHANGED liveVars
  BY <1>1 DEF CountInv, liveVars, Backends, Open, Pending
<1>2. CASE \E p \in Polls : PollEnds(p)
  <2>1. PICK p \in Polls : PollEnds(p)
    BY <1>2
  <2>2. CASE StaysAsIs \/ GoesUp
    BY <2>2, <1>1 DEF StaysAsIs, GoesUp
  <2>3. CASE GoesDown
    <3>1. Backends' = Pending /\ forgotten' = forgotten \cup Pending /\ liveBackends' = 0
      BY <2>3 DEF GoesDown, TeardownAll, TypeOK, Backends, Open, Pending
    <3>2. IsFiniteSet(forgotten') /\ Cardinality(forgotten') \in Nat
      BY SessionsFinite, ServingAssumption, FS_Subset, FS_CardinalityType DEF TypeOK
    <3>3. Backends' \subseteq forgotten'
      BY <3>1
    <3>4. IsFiniteSet(Backends') /\ Cardinality(Backends') <= Cardinality(forgotten')
      BY <3>2, <3>3, FS_Subset
    <3>5. Cardinality(Backends') \in Nat
      BY <3>4, FS_CardinalityType
    <3>6. QED BY <3>1, <3>2, <3>4, <3>5, ServingAssumption DEF CountInv
  <2>4. QED BY <2>1, <2>2, <2>3, PollOutcome
<1>3. ASSUME NEW s \in Sessions, Spawn(s)
      PROVE  CountInv'
  <2>1. Backends' = Backends \cup {s} /\ s \notin Backends
    BY <1>3 DEF Spawn, TypeOK, Backends, Open, Pending
  <2>2. Cardinality(Backends') = Cardinality(Backends) + 1
    BY <2>1, SessionsFinite, FS_AddElement
  <2>3. /\ forgotten' = forgotten /\ Cardinality(forgotten) \in Nat
        /\ Cardinality(Backends) \in Nat /\ liveBackends \in Nat /\ MaxSessions \in Nat
        /\ liveBackends < MaxSessions /\ liveBackends' = liveBackends + 1
    BY <1>3, SessionsFinite, ServingAssumption DEF Spawn, TypeOK
  <2>4. QED BY <2>2, <2>3 DEF CountInv
<1>4. ASSUME NEW s \in Sessions, Started(s)
      PROVE  CountInv'
  <2>1. Backends' = Backends
    BY <1>4 DEF Started, TypeOK, Backends, Open, Pending
  <2>2. QED BY <1>4, <2>1 DEF Started, CountInv
<1>5. ASSUME NEW s \in Sessions, InitTimesOut(s) \/ SessionEnds(s)
      PROVE  CountInv'
  <2>1. s \in Backends /\ Teardown(s)
    BY <1>5 DEF InitTimesOut, SessionEnds, Backends, Open, Pending
  <2>2. QED BY <2>1, TeardownCounts
<1>6. QED
  BY <1>1, <1>2, <1>3, <1>4, <1>5
  DEF Next, vars, liveVars, SocketChanges, Probes, ProbesSlowly, FsRequest, IndexBuilt, WatcherStarts

(* Types by part, so that a step is looked at only where it acts.          *)
MonitorTypeOK ==
    /\ socket \in {"absent", "deaf", "listening"}
    /\ flips \in 0..MaxFlips /\ slow \in 0..MaxSlow /\ nudged \in BOOLEAN
    /\ cached \in BOOLEAN /\ failures \in 0..2
    /\ poll \in [Polls -> {"idle", "reached", "failed"}]

FsTypeOK ==
    /\ ready \in AtWork \cup {"none", "watched", "unwatched"}
    /\ overtaken \in [AtWork -> Nat]
    /\ watchers \in Nat /\ handle \in BOOLEAN /\ returned \in BOOLEAN

LiveTypeOK ==
    /\ session \in [Sessions -> {"new", "spawning", "open", "refused", "failed", "gone"}]
    /\ liveBackends \in Nat /\ forgotten \in SUBSET Sessions

LEMMA Types == TypeOK <=> MonitorTypeOK /\ FsTypeOK /\ LiveTypeOK
  BY DEF TypeOK, MonitorTypeOK, FsTypeOK, LiveTypeOK

LEMMA MonitorTypeStep ==
    ASSUME TypeOK, [Next]_vars
    PROVE  MonitorTypeOK'
<1>1. MonitorTypeOK
  BY Types
<1>2. CASE UNCHANGED << socketVars, monitorVars >>
  BY <1>1, <1>2 DEF MonitorTypeOK, socketVars, monitorVars, Polls
<1>3. CASE SocketChanges
  BY <1>1, <1>3, ServingAssumption DEF MonitorTypeOK, SocketChanges, monitorVars
<1>4. ASSUME NEW p \in Polls, Probes(p) \/ ProbesSlowly(p)
      PROVE  MonitorTypeOK'
  <2>1. poll' \in [Polls -> {"idle", "reached", "failed"}]
    BY <1>1, <1>4 DEF MonitorTypeOK, Probes, ProbesSlowly
  <2>2. slow' \in 0..MaxSlow
    BY <1>1, <1>4, ServingAssumption DEF MonitorTypeOK, Probes, ProbesSlowly
  <2>3. nudged' \in BOOLEAN
    BY <1>1, <1>4 DEF MonitorTypeOK, Probes, ProbesSlowly, Starts
  <2>4. UNCHANGED << socket, flips, cached, failures >>
    BY <1>4 DEF Probes, ProbesSlowly
  <2>5. QED BY <1>1, <2>1, <2>2, <2>3, <2>4 DEF MonitorTypeOK
<1>5. ASSUME NEW p \in Polls, PollEnds(p)
      PROVE  MonitorTypeOK'
  <2>1. cached' \in BOOLEAN
    BY <1>1, <1>5, PollOutcome DEF MonitorTypeOK, StaysAsIs, GoesUp, GoesDown
  <2>2. QED BY <1>1, <1>5, <2>1, PollOutcome DEF MonitorTypeOK, socketVars
<1>6. QED
  BY <1>2, <1>3, <1>4, <1>5
  DEF Next, vars, FsRequest, IndexBuilt, WatcherStarts, Spawn, Started, InitTimesOut,
      SessionEnds, Teardown

LEMMA FsTypeStep ==
    ASSUME TypeOK, FsInv, [Next]_vars
    PROVE  FsTypeOK'
<1> USE DEF AtWork
<1>1. FsTypeOK
  BY Types
<1>2. CASE UNCHANGED fsVars
  BY <1>1, <1>2 DEF FsTypeOK, fsVars
<1>3. CASE Ready
  BY <1>1, <1>3 DEF FsTypeOK, Ready
<1>4. CASE Stop
  <2>1. overtaken' \in [AtWork -> Nat]
    BY <1>1, <1>4 DEF FsTypeOK, Stop
  <2>2. watchers' \in Nat /\ ready' = "none" /\ handle' = FALSE
    BY <1>1, <1>4 DEF FsTypeOK, FsInv, Stop
  <2>3. returned' \in BOOLEAN
    BY <1>1, <1>4 DEF FsTypeOK, Stop
  <2>4. QED BY <2>1, <2>2, <2>3 DEF FsTypeOK
<1>5. CASE IndexBuilt
  BY <1>1, <1>5 DEF FsTypeOK, IndexBuilt
<1>6. CASE WatcherStarts
  <2>1. overtaken' \in [AtWork -> Nat]
    BY <1>1, <1>6 DEF FsTypeOK, WatcherStarts
  <2>2. ready' \in AtWork \cup {"none", "watched", "unwatched"} /\ returned' = returned
    BY <1>1, <1>6 DEF FsTypeOK, WatcherStarts
  <2>3. watchers' \in Nat /\ handle' \in BOOLEAN
    <3>1. \/ watchers' = watchers + 1 /\ handle' = TRUE
          \/ watchers' = watchers /\ handle' = handle
      BY <1>6 DEF WatcherStarts
    <3>2. watchers \in Nat /\ handle \in BOOLEAN
      BY <1>1 DEF FsTypeOK
    <3>3. CASE watchers' = watchers + 1 /\ handle' = TRUE
      BY <3>2, <3>3
    <3>4. CASE watchers' = watchers /\ handle' = handle
      BY <3>2, <3>4
    <3>5. QED BY <3>1, <3>3, <3>4
  <2>4. QED BY <1>1, <2>1, <2>2, <2>3 DEF FsTypeOK
<1>7. ASSUME NEW p \in Polls, PollEnds(p)
      PROVE  FsTypeOK'
  BY <1>2, <1>3, <1>4, <1>7, PollOutcome DEF StaysAsIs, GoesUp, GoesDown
<1>8. QED
  BY <1>2, <1>3, <1>5, <1>6, <1>7
  DEF Next, vars, SocketChanges, Probes, ProbesSlowly, FsRequest, Spawn, Started,
      InitTimesOut, SessionEnds, Teardown

LEMMA LiveTypeStep ==
    ASSUME TypeOK, [Next]_vars
    PROVE  LiveTypeOK'
<1>1. LiveTypeOK
  BY Types
<1>2. CASE UNCHANGED liveVars
  BY <1>1, <1>2 DEF LiveTypeOK, liveVars
<1>3. CASE TeardownAll
  BY <1>1, <1>3 DEF LiveTypeOK, TeardownAll, Pending
<1>4. ASSUME NEW p \in Polls, PollEnds(p)
      PROVE  LiveTypeOK'
  BY <1>2, <1>3, <1>4, PollOutcome DEF StaysAsIs, GoesUp, GoesDown
<1>5. ASSUME NEW s \in Sessions, Spawn(s) \/ Started(s) \/ Teardown(s)
      PROVE  LiveTypeOK'
  BY <1>1, <1>5 DEF LiveTypeOK, Spawn, Started, Teardown
<1>6. QED
  BY <1>2, <1>4, <1>5
  DEF Next, vars, SocketChanges, Probes, ProbesSlowly, FsRequest, IndexBuilt,
      WatcherStarts, InitTimesOut, SessionEnds

LEMMA TypeStep ==
    ASSUME TypeOK, FsInv, [Next]_vars
    PROVE  TypeOK'
<1>1. MonitorTypeOK' /\ FsTypeOK' /\ LiveTypeOK'
  BY MonitorTypeStep, FsTypeStep, LiveTypeStep
<1>2. QED
  BY <1>1 DEF TypeOK, MonitorTypeOK, FsTypeOK, LiveTypeOK

LEMMA InitHolds == Init => TypeOK /\ FsInv /\ CountInv
<1>1. ASSUME Init PROVE TypeOK
  <2>1. MonitorTypeOK
    <3>1. poll \in [Polls -> {"idle", "reached", "failed"}] /\ failures \in 0..2
      BY <1>1 DEF Init
    <3>2. flips \in 0..MaxFlips /\ slow \in 0..MaxSlow
      BY <1>1, ServingAssumption DEF Init
    <3>3. nudged \in BOOLEAN /\ cached \in BOOLEAN /\ socket \in {"absent", "deaf", "listening"}
      BY <1>1 DEF Init
    <3>4. QED BY <3>1, <3>2, <3>3 DEF MonitorTypeOK
  <2>2. FsTypeOK
    BY <1>1 DEF Init, FsTypeOK, AtWork
  <2>3. LiveTypeOK
    BY <1>1 DEF Init, LiveTypeOK
  <2>4. QED BY <2>1, <2>2, <2>3, Types
<1>2. ASSUME Init PROVE FsInv
  BY <1>2 DEF Init, FsInv
<1>3. ASSUME Init PROVE CountInv
  <2>1. Backends = {} /\ forgotten = {}
    BY <1>3 DEF Init, Backends, Open, Pending
  <2>2. QED
    BY <1>3, <2>1, FS_EmptySet, ServingAssumption DEF Init, CountInv
<1>4. QED BY <1>1, <1>2, <1>3

(* The variables keep their types, a watcher count never goes below zero.  *)
THEOREM ServingTypeCorrect == Spec => []TypeOK
<1>1. TypeOK /\ FsInv /\ [Next]_vars => TypeOK' /\ FsInv'
  BY TypeStep, FsStep
<1>2. QED BY <1>1, InitHolds, PTL DEF Spec

(* Whatever the turns between Obsidian and the files: an index that serves *)
(* is watched, and a stray watcher needs a return during a run of ready(). *)
THEOREM FilesServedFresh == Spec => [](KeptFresh /\ StrayNeedsOvertaking)
<1>1. TypeOK /\ FsInv /\ [Next]_vars => TypeOK' /\ FsInv'
  BY TypeStep, FsStep
<1>2. TypeOK /\ FsInv => KeptFresh /\ StrayNeedsOvertaking
  BY DEF TypeOK, FsInv, KeptFresh, StrayNeedsOvertaking, AtWork
<1>3. QED BY <1>1, <1>2, InitHolds, PTL DEF Spec

(* For any cap and any number of sessions: no place is lost, and the cap   *)
(* is exceeded by no more than the sessions that resets forgot.            *)
THEOREM CapHolds == Spec => [](CapUnlessForgotten /\ NoPlaceLost)
<1> DEFINE Inv == TypeOK /\ FsInv /\ CountInv
<1>1. Inv /\ [Next]_vars => Inv'
  BY TypeStep, FsStep, CountStep
<1>2. Inv => CapUnlessForgotten /\ NoPlaceLost
  <2>1. ASSUME Inv PROVE CapUnlessForgotten /\ NoPlaceLost
    <3>1. /\ Cardinality(Backends) \in Nat /\ Cardinality(forgotten) \in Nat
          /\ liveBackends \in Nat /\ MaxSessions \in Nat
      BY <2>1, SessionsFinite, ServingAssumption DEF TypeOK
    <3>2. QED BY <2>1, <3>1 DEF CountInv, CapUnlessForgotten, NoPlaceLost
  <2>2. QED BY <2>1
<1>3. QED BY <1>1, <1>2, InitHolds, PTL DEF Spec

-----------------------------------------------------------------------------
(* The index over the files (FsIndex), for any notes and links.            *)

(* Partial functions.                                                      *)
Partial(S, T) == UNION {[D -> T] : D \in SUBSET S}

LEMMA PartialIs ==
    ASSUME NEW S, NEW T, NEW f
    PROVE  f \in Partial(S, T) <=> DOMAIN f \subseteq S /\ f \in [DOMAIN f -> T]
  BY DEF Partial

LEMMA NothingIsPartial ==
    ASSUME NEW S, NEW T
    PROVE  Empty \in Partial(S, T) /\ DOMAIN Empty = {}
<1>1. << >> \in [{} -> T] /\ DOMAIN << >> = {}
  OBVIOUS
<1>2. {} \subseteq S
  OBVIOUS
<1> QED  BY <1>1, <1>2 DEF Empty, Partial

LEMMA WithIs ==
    ASSUME NEW S, NEW T, NEW f \in Partial(S, T), NEW k \in S, NEW v \in T
    PROVE  /\ With(f, k, v) \in Partial(S, T)
           /\ DOMAIN With(f, k, v) = DOMAIN f \cup {k}
           /\ With(f, k, v)[k] = v
           /\ \A x \in DOMAIN f : x # k => With(f, k, v)[x] = f[x]
  BY PartialIs DEF With

LEMMA WithoutIs ==
    ASSUME NEW S, NEW T, NEW f \in Partial(S, T), NEW k
    PROVE  /\ Without(f, k) \in Partial(S, T)
           /\ DOMAIN Without(f, k) = DOMAIN f \ {k}
           /\ \A x \in DOMAIN f : x # k => Without(f, k)[x] = f[x]
  BY PartialIs DEF Without

(* Numbers: the least of a set, and the greatest of a finite one.          *)
LEMMA Least ==
    ASSUME NEW T, T \subseteq Nat, T # {}
    PROVE  \E n \in T : \A m \in T : n <= m
<1> DEFINE R == {ss \in Nat \X Nat : ss[1] < ss[2]}
<1>1. IsWellFoundedOn(R, Nat)
  BY NatLessThanWellFounded DEF OpToRel
<1>2. \E n \in T : \A m \in T : << m, n >> \notin R
  <2> HIDE DEF R
  <2> QED  BY <1>1, WFMin
<1>3. PICK n \in T : \A m \in T : ~(m < n)
  BY <1>2
<1> QED  BY <1>3

LEMMA MinIsThere ==
    ASSUME NEW S, S \subseteq Nat, S # {}
    PROVE  Min(S) \in S
  BY Least DEF Min

LEMMA MaxIsThere ==
    ASSUME NEW S, S \subseteq Nat, IsFiniteSet(S), S # {}
    PROVE  Max(S) \in S
<1> DEFINE Above(x) == {y \in S : y > x}
           T == {Cardinality(Above(x)) : x \in S}
<1>1. \A x \in S : Above(x) \subseteq S /\ IsFiniteSet(Above(x)) /\ Cardinality(Above(x)) \in Nat
  BY FS_Subset, FS_CardinalityType
<1>2. PICK x \in S : \A z \in S : ~(Cardinality(Above(z)) < Cardinality(Above(x)))
  <2>1. T \subseteq Nat /\ T # {}
    BY <1>1
  <2>2. PICK n \in T : \A m \in T : n <= m
    BY <2>1, Least
  <2>3. PICK x \in S : n = Cardinality(Above(x))
    BY <2>2
  <2>4. \A z \in S : n <= Cardinality(Above(z))
    BY <2>2
  <2> HIDE DEF Above
  <2>5. \A z \in S : ~(Cardinality(Above(z)) < Cardinality(Above(x)))
    BY <1>1, <2>3, <2>4
  <2> QED  BY <2>5
<1>3. ASSUME NEW y \in S, ~(x >= y)
      PROVE  FALSE
  <2>1. Above(y) \subseteq Above(x) /\ y \in Above(x) /\ y \notin Above(y)
    <3>1. x \in Nat /\ y \in Nat /\ y > x /\ \A z \in S : z \in Nat
      BY <1>3
    <3>2. \A z \in S : z > y => z > x
      BY <3>1
    <3>3. Above(y) \subseteq Above(x)
      BY <3>2
    <3>4. y \in Above(x) /\ y \notin Above(y)
      BY <3>1
    <3> QED  BY <3>3, <3>4
  <2>2. Cardinality(Above(y)) < Cardinality(Above(x))
    <3> HIDE DEF Above
    <3>1. IsFiniteSet(Above(x)) /\ Above(y) \in SUBSET Above(x) /\ Above(x) # Above(y)
      BY <1>1, <2>1
    <3>2. /\ Cardinality(Above(y)) <= Cardinality(Above(x))
          /\ Cardinality(Above(y)) # Cardinality(Above(x))
      BY <3>1, FS_Subset
    <3> QED  BY <1>1, <1>3, <3>2
  <2> QED  BY <1>2, <2>2
<1> QED  BY <1>3 DEF Max

-----------------------------------------------------------------------------
Requests == [op : {"build"}] \cup [op : {"put", "unlink"}, path : Paths]

(* The queue holds one build at most, and its head has read what is its.   *)
OneBuild ==
    \A i, j \in DOMAIN queue :
        queue[i].op = "build" /\ queue[j].op = "build" => i = j

QueueTyped == queue \in Seq(Requests)

BuildHasRead ==
    /\ work.toRead \subseteq Paths /\ work.notes \in Partial(Paths, Links)
    /\ work.toRead \cap DOMAIN work.notes = {}

PutHasRead ==
    /\ work.notes \in Partial(Paths, Links) /\ DOMAIN work.notes = {Head(queue).path}
    /\ status = "ready"

WorkIsTheHeads ==
    work # << >> =>
        /\ queue # << >>
        /\ \/ Head(queue).op = "build" /\ BuildHasRead
           \/ Head(queue).op = "put" /\ PutHasRead

(* Its ids lead to notes that are there and have them.                     *)
JdSound(jd, notes) ==
    /\ jd \in Partial(Ids, Paths)
    /\ \A id \in DOMAIN jd : jd[id] \in DOMAIN notes /\ JdOf[jd[id]] = id

(* The index as a whole.                                                   *)
IndexIsSound ==
    /\ status # "ready" => byPath = Empty /\ byJdId = Empty /\ backlinks = Empty
    /\ status = "ready" => backlinks = BacklinksOf(byPath, byJdId)
    /\ JdSound(byJdId, byPath)
    /\ status = "ready" /\ ~twinned =>
         ~Twins(byPath) /\ byJdId = JdBuilt(byPath)

(* Updates that wait, the last of them for each note.                      *)
Concerns(i, p) == queue[i].op # "build" /\ queue[i].path = p
NoUpdate(p) == \A i \in DOMAIN queue : ~Concerns(i, p)
IsLast(i, p) ==
    /\ i \in DOMAIN queue /\ Concerns(i, p)
    /\ \A j \in DOMAIN queue : Concerns(j, p) => j <= i

(* Only a running watcher has anything to report.                          *)
OffIsSilent ==
    phase # "on" => /\ noticed = {} /\ timers = Empty
                    /\ \A p \in Paths \ overhung : NoUpdate(p)

(* Notes with something the index will not learn of by itself.             *)
Missed == unreported \cup unread

Settled(p) == p \notin noticed \cup DOMAIN timers \cup overhung

TimersTell ==
    \A p \in DOMAIN timers \ noticed : timers[p] = "put" <=> p \in DOMAIN disk

UpdateTells(p) ==
    Settled(p) => \A i \in DOMAIN queue :
        IsLast(i, p) => (queue[i].op = "put" <=> p \in DOMAIN disk)

BuildAtWork == HeadIs("build") /\ work # << >>
PutAtWork == HeadIs("put") /\ work # << >>

Agrees(notes, p) ==
    /\ p \in DOMAIN notes <=> p \in DOMAIN disk
    /\ p \in DOMAIN disk => notes[p] = disk[p]

IndexTells(p) ==
    p \notin Missed /\ Settled(p) /\ NoUpdate(p) /\ status = "ready" /\ ~BuildAtWork
        => Agrees(byPath, p)

BuildTells(p) ==
    BuildAtWork /\ p \notin Missed /\ Settled(p) /\ NoUpdate(p)
        => p \in work.toRead \/ Agrees(work.notes, p)

PutTells(p) ==
    PutAtWork /\ Settled(p) /\ IsLast(1, p)
        => p \in DOMAIN disk /\ work.notes[p] = disk[p]

Told(p) == UpdateTells(p) /\ IndexTells(p) /\ BuildTells(p) /\ PutTells(p)

AllTold == \A p \in Paths : Told(p)

LEMMA RequestIs ==
    /\ \A r \in Requests : /\ r.op \in {"build", "put", "unlink"}
                           /\ r.op # "build" => r.path \in Paths
    /\ [op |-> "build"] \in Requests /\ [op |-> "build"].op = "build"
    /\ \A p \in Paths, o \in {"put", "unlink"} :
         /\ [op |-> o, path |-> p] \in Requests
         /\ [op |-> o, path |-> p].op = o /\ [op |-> o, path |-> p].path = p
  BY DEF Requests

(* The queue one shorter, and one longer.                                  *)
LEMMA QueueShrinks ==
    ASSUME QueueTyped, queue # << >>, queue' = Tail(queue)
    PROVE  /\ QueueTyped' /\ Head(queue) = queue[1] /\ 1 \in DOMAIN queue
           /\ Head(queue) \in Requests
           /\ DOMAIN queue = 1..Len(queue) /\ DOMAIN queue' = 1..(Len(queue) - 1)
           /\ Len(queue) \in Nat \ {0}
           /\ \A i \in DOMAIN queue' : i + 1 \in DOMAIN queue /\ queue'[i] = queue[i + 1]
           /\ \A i \in DOMAIN queue : i # 1 =>
                i - 1 \in DOMAIN queue' /\ queue'[i - 1] = queue[i]
<1> USE DEF QueueTyped
<1>1. /\ Tail(queue) \in Seq(Requests) /\ Head(queue) = queue[1]
      /\ Len(queue) \in Nat \ {0}
      /\ DOMAIN queue = 1..Len(queue) /\ DOMAIN Tail(queue) = 1..(Len(queue) - 1)
      /\ \A i \in 1..(Len(queue) - 1) : Tail(queue)[i] = queue[i + 1]
      /\ queue[1] \in Requests
  OBVIOUS
<1>2. \A i \in DOMAIN queue' : i + 1 \in DOMAIN queue /\ queue'[i] = queue[i + 1]
  BY <1>1
<1>3. ASSUME NEW i \in DOMAIN queue, i # 1
      PROVE  i - 1 \in DOMAIN queue' /\ queue'[i - 1] = queue[i]
  <2>1. i - 1 \in 1..(Len(queue) - 1) /\ (i - 1) + 1 = i
    BY <1>1, <1>3
  <2> QED  BY <1>1, <2>1
<1> QED  BY <1>1, <1>2, <1>3

LEMMA QueueGrows ==
    ASSUME QueueTyped, NEW r \in Requests, queue' = Append(queue, r)
    PROVE  /\ QueueTyped' /\ Len(queue) \in Nat
           /\ DOMAIN queue = 1..Len(queue) /\ DOMAIN queue' = 1..(Len(queue) + 1)
           /\ \A i \in DOMAIN queue : i \in DOMAIN queue' /\ queue'[i] = queue[i]
           /\ queue'[Len(queue) + 1] = r /\ Len(queue) + 1 \in DOMAIN queue'
           /\ queue # << >> => Head(queue') = Head(queue)
           /\ queue' # << >>
  BY DEF QueueTyped

-----------------------------------------------------------------------------
(* The index as a value.                                                   *)
LEMMA HoldersAre ==
    ASSUME NEW notes \in Partial(Paths, Links), NEW id
    PROVE  HoldersOf(id, notes) \subseteq Paths /\ IsFiniteSet(HoldersOf(id, notes))
<1>1. HoldersOf(id, notes) \subseteq Paths
  BY PartialIs DEF HoldersOf
<1> QED  BY <1>1, FS_Subset, FsIndexAssumption

(* A full build's ids lead to notes that have them.                        *)
LEMMA JdBuiltIs ==
    ASSUME NEW notes \in Partial(Paths, Links)
    PROVE  /\ JdSound(JdBuilt(notes), notes)
           /\ DOMAIN JdBuilt(notes) = {JdOf[p] : p \in DOMAIN notes} \ {NoId}
<1> DEFINE D == {JdOf[p] : p \in DOMAIN notes} \ {NoId}
<1>1. DOMAIN notes \subseteq Paths
  BY PartialIs
<1>2. D \subseteq Ids
  BY <1>1 DEF Ids
<1>3. ASSUME NEW id \in D
      PROVE  Max(HoldersOf(id, notes)) \in HoldersOf(id, notes)
  <2>1. HoldersOf(id, notes) # {}
    BY DEF HoldersOf
  <2>2. HoldersOf(id, notes) \subseteq Nat
    BY HoldersAre, FsIndexAssumption
  <2> QED  BY <2>1, <2>2, HoldersAre, MaxIsThere
<1>4. \A id \in D : Max(HoldersOf(id, notes)) \in DOMAIN notes
                    /\ JdOf[Max(HoldersOf(id, notes))] = id
  BY <1>3 DEF HoldersOf
<1>5. JdBuilt(notes) = [id \in D |-> Max(HoldersOf(id, notes))]
  BY DEF JdBuilt
<1>6. JdBuilt(notes) \in [D -> Paths]
  BY <1>1, <1>4, <1>5
<1> HIDE DEF D
<1>7. JdBuilt(notes) \in Partial(Ids, Paths) /\ DOMAIN JdBuilt(notes) = D
  BY <1>2, <1>6, PartialIs
<1>8. \A id \in D : JdBuilt(notes)[id] = Max(HoldersOf(id, notes))
  BY <1>5
<1>9. JdSound(JdBuilt(notes), notes)
  BY <1>4, <1>7, <1>8 DEF JdSound
<1> QED  BY <1>7, <1>9 DEF D

(* Links lead to notes that are indexed, and from such.                    *)
LEMMA BacklinksAre ==
    ASSUME NEW notes \in Partial(Paths, Links), NEW jd, JdSound(jd, notes)
    PROVE  /\ BacklinksOf(notes, jd) \in Partial(Paths, SUBSET Paths)
           /\ \A t \in DOMAIN BacklinksOf(notes, jd) :
                {t} \cup BacklinksOf(notes, jd)[t] \subseteq DOMAIN notes
<1> DEFINE B == BacklinksOf(notes, jd)
           targets == UNION {Resolve(notes[p], notes, jd) : p \in DOMAIN notes}
<1>1. DOMAIN notes \subseteq Paths
  BY PartialIs
<1>2. \A link : Resolve(link, notes, jd) \subseteq DOMAIN notes
  BY DEF Resolve, JdSound
<1>3. targets \subseteq DOMAIN notes
  BY <1>2
<1>4. B = [t \in targets |-> {p \in DOMAIN notes : t \in Resolve(notes[p], notes, jd)}]
  BY Zenon DEF BacklinksOf
<1>5. /\ DOMAIN B = targets
      /\ \A t \in targets : B[t] \subseteq DOMAIN notes
  <2> HIDE DEF B, targets
  <2> QED  BY <1>4
<1>6. B \in [targets -> SUBSET Paths]
  <2> HIDE DEF B, targets
  <2> QED  BY <1>1, <1>4
<1> HIDE DEF B, targets
<1>7. B \in Partial(Paths, SUBSET Paths)
  BY <1>1, <1>3, <1>5, <1>6, PartialIs
<1> QED  BY <1>3, <1>5, <1>7 DEF B

(* The ids after an update of one note.                                    *)
LEMMA JdWithoutIs ==
    ASSUME NEW jd \in Partial(Ids, Paths), NEW p
    PROVE  /\ JdWithout(jd, p) \in Partial(Ids, Paths)
           /\ DOMAIN JdWithout(jd, p) =
                {id \in DOMAIN jd : ~(id = JdOf[p] /\ jd[id] = p)}
           /\ \A id \in DOMAIN JdWithout(jd, p) : JdWithout(jd, p)[id] = jd[id]
<1>1. CASE JdOf[p] \in DOMAIN jd /\ jd[JdOf[p]] = p
  <2>1. JdWithout(jd, p) = Without(jd, JdOf[p])
    BY <1>1 DEF JdWithout
  <2>2. /\ Without(jd, JdOf[p]) \in Partial(Ids, Paths)
        /\ DOMAIN Without(jd, JdOf[p]) = DOMAIN jd \ {JdOf[p]}
        /\ \A x \in DOMAIN jd : x # JdOf[p] => Without(jd, JdOf[p])[x] = jd[x]
    BY WithoutIs
  <2> QED  BY <1>1, <2>1, <2>2
<1>2. CASE ~(JdOf[p] \in DOMAIN jd /\ jd[JdOf[p]] = p)
  BY <1>2 DEF JdWithout
<1> QED  BY <1>1, <1>2

LEMMA UnlinkJd ==
    ASSUME NEW notes \in Partial(Paths, Links), NEW jd, JdSound(jd, notes), NEW p
    PROVE  JdSound(JdWithout(jd, p), Without(notes, p))
<1>1. DOMAIN Without(notes, p) = DOMAIN notes \ {p}
  BY DEF Without
<1>2. jd \in Partial(Ids, Paths)
  BY DEF JdSound
<1>3. \A id \in DOMAIN jd : jd[id] = p => id = JdOf[p]
  BY DEF JdSound
<1>4. /\ JdWithout(jd, p) \in Partial(Ids, Paths)
      /\ DOMAIN JdWithout(jd, p) =
           {id \in DOMAIN jd : ~(id = JdOf[p] /\ jd[id] = p)}
      /\ \A id \in DOMAIN JdWithout(jd, p) : JdWithout(jd, p)[id] = jd[id]
  BY <1>2, JdWithoutIs
<1> QED  BY <1>1, <1>3, <1>4 DEF JdSound

LEMMA JdGains ==
    ASSUME NEW j \in Partial(Ids, Paths), NEW p \in Paths, JdOf[p] \in Ids
    PROVE  /\ With(j, JdOf[p], p) \in Partial(Ids, Paths)
           /\ DOMAIN With(j, JdOf[p], p) = DOMAIN j \cup {JdOf[p]}
           /\ With(j, JdOf[p], p)[JdOf[p]] = p
           /\ \A x \in DOMAIN j : x # JdOf[p] => With(j, JdOf[p], p)[x] = j[x]
<1> DEFINE id == JdOf[p]
<1> HIDE DEF id
<1>1. /\ With(j, id, p) \in Partial(Ids, Paths)
      /\ DOMAIN With(j, id, p) = DOMAIN j \cup {id}
      /\ With(j, id, p)[id] = p
      /\ \A x \in DOMAIN j : x # id => With(j, id, p)[x] = j[x]
  <2>1. id \in Ids
    BY DEF id
  <2> QED  BY <2>1, PartialIs DEF With
<1> QED  BY <1>1 DEF id

LEMMA PutJd ==
    ASSUME NEW notes \in Partial(Paths, Links), NEW jd, JdSound(jd, notes),
           NEW p \in Paths, NEW link \in Links
    PROVE  JdSound(JdWith(JdWithout(jd, p), p), With(notes, p, link))
<1> DEFINE j == JdWithout(jd, p)
<1>1. DOMAIN With(notes, p, link) = DOMAIN notes \cup {p}
  BY DEF With
<1>2. jd \in Partial(Ids, Paths)
  BY DEF JdSound
<1>3. /\ j \in Partial(Ids, Paths)
      /\ \A id \in DOMAIN j : j[id] \in DOMAIN notes /\ JdOf[j[id]] = id
  <2>1. /\ JdWithout(jd, p) \in Partial(Ids, Paths)
        /\ DOMAIN JdWithout(jd, p) =
             {id \in DOMAIN jd : ~(id = JdOf[p] /\ jd[id] = p)}
        /\ \A id \in DOMAIN JdWithout(jd, p) : JdWithout(jd, p)[id] = jd[id]
    BY <1>2, JdWithoutIs
  <2> QED  BY <2>1 DEF JdSound
<1> HIDE DEF j
<1>4. CASE JdOf[p] = NoId \/ (JdOf[p] \in DOMAIN j /\ j[JdOf[p]] > p)
  <2>1. JdWith(j, p) = j
    BY <1>4 DEF JdWith
  <2> QED  BY <1>1, <1>3, <2>1 DEF JdSound, j
<1>5. CASE ~(JdOf[p] = NoId \/ (JdOf[p] \in DOMAIN j /\ j[JdOf[p]] > p))
  <2>1. JdWith(j, p) = With(j, JdOf[p], p)
    BY <1>5 DEF JdWith
  <2>2. JdOf[p] \in Ids
    BY <1>5 DEF Ids
  <2>3. /\ With(j, JdOf[p], p) \in Partial(Ids, Paths)
        /\ DOMAIN With(j, JdOf[p], p) = DOMAIN j \cup {JdOf[p]}
        /\ With(j, JdOf[p], p)[JdOf[p]] = p
        /\ \A x \in DOMAIN j : x # JdOf[p] => With(j, JdOf[p], p)[x] = j[x]
    BY <1>3, <2>2, JdGains
  <2> HIDE DEF With
  <2>4. JdSound(With(j, JdOf[p], p), With(notes, p, link))
    BY <1>1, <1>3, <2>3 DEF JdSound
  <2> QED  BY <2>1, <2>4 DEF j
<1> QED  BY <1>4, <1>5

(* Without twins a note's id is its own, and the index of ids is settled   *)
(* by the notes there are.                                                 *)
IdsOf(notes) == {JdOf[p] : p \in DOMAIN notes} \ {NoId}

LEMMA Untwinned ==
    ASSUME NEW notes \in Partial(Paths, Links), ~Twins(notes),
           NEW p \in DOMAIN notes, NEW q \in DOMAIN notes,
           JdOf[p] = JdOf[q], JdOf[p] # NoId
    PROVE  p = q
<1> DEFINE H == HoldersOf(JdOf[p], notes)
<1>1. JdOf[p] \in Ids
  BY PartialIs DEF Ids
<1>2. IsFiniteSet(H) /\ p \in H /\ q \in H
  BY HoldersAre DEF HoldersOf
<1>3. ~(Cardinality(H) > 1)
  BY <1>1 DEF Twins
<1> HIDE DEF H
<1>4. Cardinality(H) \in Nat
  BY <1>2, FS_CardinalityType
<1>5. {p} \in SUBSET H /\ Cardinality({p}) = 1
  BY <1>2, FS_Singleton
<1>6. /\ Cardinality({p}) <= Cardinality(H)
      /\ Cardinality(H) = Cardinality({p}) => H = {p}
  BY <1>2, <1>5, FS_Subset
<1>7. H = {p}
  BY <1>3, <1>4, <1>5, <1>6
<1> QED  BY <1>2, <1>7

LEMMA JdIsSettled ==
    ASSUME NEW notes \in Partial(Paths, Links), ~Twins(notes),
           NEW jd, JdSound(jd, notes), DOMAIN jd = IdsOf(notes)
    PROVE  jd = JdBuilt(notes)
<1>1. JdSound(JdBuilt(notes), notes) /\ DOMAIN JdBuilt(notes) = IdsOf(notes)
  BY JdBuiltIs DEF IdsOf
<1>2. ASSUME NEW id \in IdsOf(notes)
      PROVE  jd[id] = JdBuilt(notes)[id]
  <2>1. /\ jd[id] \in DOMAIN notes /\ JdOf[jd[id]] = id
        /\ JdBuilt(notes)[id] \in DOMAIN notes /\ JdOf[JdBuilt(notes)[id]] = id
    BY <1>1, <1>2 DEF JdSound
  <2>2. id # NoId
    BY DEF IdsOf
  <2> QED  BY <2>1, <2>2, Untwinned
<1>3. jd \in Partial(Ids, Paths) /\ JdBuilt(notes) \in Partial(Ids, Paths)
  BY <1>1 DEF JdSound
<1>4. jd \in [IdsOf(notes) -> Paths] /\ JdBuilt(notes) \in [IdsOf(notes) -> Paths]
  <2>1. jd \in [DOMAIN jd -> Paths]
    BY <1>3, PartialIs
  <2>2. JdBuilt(notes) \in [DOMAIN JdBuilt(notes) -> Paths]
    BY <1>3, PartialIs
  <2> QED  BY <1>1, <2>1, <2>2
<1> QED  BY <1>2, <1>4

LEMMA UnlinkSettles ==
    ASSUME NEW notes \in Partial(Paths, Links), ~Twins(notes), NEW p,
           NEW jd, JdSound(jd, notes), DOMAIN jd = IdsOf(notes),
           ~Twins(Without(notes, p))
    PROVE  JdWithout(jd, p) = JdBuilt(Without(notes, p))
<1> DEFINE n == Without(notes, p)
           j == JdWithout(jd, p)
<1>1. n \in Partial(Paths, Links)
  <2>1. notes \in [DOMAIN notes -> Links] /\ DOMAIN notes \subseteq Paths
    BY PartialIs
  <2> QED  BY <2>1, PartialIs DEF Without
<1>2. DOMAIN n = DOMAIN notes \ {p}
  BY DEF Without
<1>3. JdSound(j, n)
  BY UnlinkJd
<1>4. DOMAIN j = {id \in DOMAIN jd : ~(id = JdOf[p] /\ jd[id] = p)}
  <2>1. jd \in Partial(Ids, Paths)
    BY DEF JdSound
  <2>2. /\ JdWithout(jd, p) \in Partial(Ids, Paths)
        /\ DOMAIN JdWithout(jd, p) =
             {id \in DOMAIN jd : ~(id = JdOf[p] /\ jd[id] = p)}
        /\ \A id \in DOMAIN JdWithout(jd, p) : JdWithout(jd, p)[id] = jd[id]
    BY <2>1, JdWithoutIs
  <2> QED  BY <2>2
<1> HIDE DEF n, j
<1>5. ASSUME NEW id \in DOMAIN j
      PROVE  id \in IdsOf(n)
  <2>1. id \in DOMAIN jd /\ id # NoId
    BY <1>4 DEF IdsOf
  <2>2. jd[id] \in DOMAIN notes /\ JdOf[jd[id]] = id
    BY <2>1 DEF JdSound
  <2>3. jd[id] # p
    BY <1>4, <2>2
  <2> QED  BY <1>2, <2>1, <2>2, <2>3 DEF IdsOf
<1>6. ASSUME NEW id \in IdsOf(n)
      PROVE  id \in DOMAIN j
  <2>1. PICK q \in DOMAIN n : JdOf[q] = id
    BY DEF IdsOf
  <2>2. q \in DOMAIN notes /\ q # p /\ id # NoId
    BY <1>2, <2>1 DEF IdsOf
  <2>3. id \in DOMAIN jd
    BY <2>1, <2>2 DEF IdsOf
  <2>4. jd[id] \in DOMAIN notes /\ JdOf[jd[id]] = id
    BY <2>3 DEF JdSound
  <2>5. jd[id] = q
    BY <2>1, <2>2, <2>4, Untwinned
  <2> QED  BY <1>4, <2>2, <2>3, <2>5
<1>7. DOMAIN j = IdsOf(n)
  BY <1>5, <1>6
<1>8. ~Twins(n)
  BY DEF n
<1>9. j = JdBuilt(n)
  BY <1>1, <1>3, <1>7, <1>8, JdIsSettled
<1> QED  BY <1>9 DEF n, j

LEMMA PutSettles ==
    ASSUME NEW notes \in Partial(Paths, Links), ~Twins(notes),
           NEW p \in Paths, NEW link \in Links,
           NEW jd, JdSound(jd, notes), DOMAIN jd = IdsOf(notes),
           ~Twins(With(notes, p, link))
    PROVE  JdWith(JdWithout(jd, p), p) = JdBuilt(With(notes, p, link))
<1> DEFINE n == With(notes, p, link)
           j == JdWithout(jd, p)
           jj == JdWith(j, p)
<1>1. n \in Partial(Paths, Links)
  <2>1. notes \in [DOMAIN notes -> Links] /\ DOMAIN notes \subseteq Paths
    BY PartialIs
  <2> QED  BY <2>1, PartialIs DEF With
<1>2. DOMAIN n = DOMAIN notes \cup {p}
  BY DEF With
<1>3. JdSound(jj, n)
  BY PutJd
<1>4. /\ DOMAIN j = {id \in DOMAIN jd : ~(id = JdOf[p] /\ jd[id] = p)}
      /\ \A id \in DOMAIN j : j[id] = jd[id]
  <2>1. jd \in Partial(Ids, Paths)
    BY DEF JdSound
  <2>2. /\ JdWithout(jd, p) \in Partial(Ids, Paths)
        /\ DOMAIN JdWithout(jd, p) =
             {id \in DOMAIN jd : ~(id = JdOf[p] /\ jd[id] = p)}
        /\ \A id \in DOMAIN JdWithout(jd, p) : JdWithout(jd, p)[id] = jd[id]
    BY <2>1, JdWithoutIs
  <2> QED  BY <2>2
<1>5. JdOf[p] = NoId => DOMAIN jj = DOMAIN jd
  <2>1. NoId \notin DOMAIN jd
    BY DEF IdsOf
  <2>2. JdOf[p] = NoId => jj = j /\ DOMAIN j = DOMAIN jd
    <3> HIDE DEF j
    <3> QED  BY <1>4, <2>1 DEF JdWith
  <2> QED  BY <2>2
<1>6. JdOf[p] # NoId => DOMAIN jj = DOMAIN jd \cup {JdOf[p]}
  <2> SUFFICES ASSUME JdOf[p] # NoId
               PROVE  DOMAIN jj = DOMAIN jd \cup {JdOf[p]}
    OBVIOUS
  <2>1. JdOf[p] \notin DOMAIN j
    <3> SUFFICES ASSUME JdOf[p] \in DOMAIN j
                 PROVE  FALSE
      OBVIOUS
    <3>1. JdOf[p] \in DOMAIN jd /\ jd[JdOf[p]] # p
      BY <1>4
    <3>2. jd[JdOf[p]] \in DOMAIN notes /\ JdOf[jd[JdOf[p]]] = JdOf[p]
      BY <3>1 DEF JdSound
    <3>3. p \in DOMAIN n /\ jd[JdOf[p]] \in DOMAIN n /\ ~Twins(n)
      BY <1>2, <3>2
    <3> HIDE DEF n
    <3>4. jd[JdOf[p]] = p
      BY <1>1, <3>2, <3>3, Untwinned
    <3> QED  BY <3>1, <3>4
  <2> HIDE DEF j
  <2>2. jj = With(j, JdOf[p], p)
    BY <2>1 DEF JdWith
  <2>3. DOMAIN jj = DOMAIN j \cup {JdOf[p]}
    BY <2>2 DEF With
  <2> QED  BY <1>4, <2>3
<1>7. ~Twins(n)
  OBVIOUS
<1> HIDE DEF n, j, jj
<1>8. DOMAIN jj = IdsOf(n)
  <2>1. IdsOf(n) = IF JdOf[p] = NoId THEN IdsOf(notes) ELSE IdsOf(notes) \cup {JdOf[p]}
    BY <1>2 DEF IdsOf
  <2> QED  BY <1>5, <1>6, <2>1
<1>9. jj = JdBuilt(n)
  BY <1>1, <1>3, <1>7, <1>8, JdIsSettled
<1> QED  BY <1>9 DEF n, j, jj


InFlightTells == inFlightBuild <=> \E i \in DOMAIN queue : queue[i].op = "build"

QueueInv == QueueTyped /\ OneBuild /\ InFlightTells

LEMMA Appended ==
    ASSUME QueueInv, NEW r \in Requests, queue' = Append(queue, r),
           r.op = "build" => ~inFlightBuild /\ inFlightBuild',
           r.op # "build" => inFlightBuild' = inFlightBuild
    PROVE  QueueInv'
<1>1. /\ QueueTyped' /\ Len(queue) \in Nat
      /\ DOMAIN queue = 1..Len(queue) /\ DOMAIN queue' = 1..(Len(queue) + 1)
      /\ \A i \in DOMAIN queue : i \in DOMAIN queue' /\ queue'[i] = queue[i]
      /\ queue'[Len(queue) + 1] = r /\ Len(queue) + 1 \in DOMAIN queue'
      /\ queue # << >> => Head(queue') = Head(queue)
      /\ queue' # << >>
  BY QueueGrows DEF QueueInv
<1>2. \A i \in DOMAIN queue' : i = Len(queue) + 1 \/ i \in DOMAIN queue
  BY <1>1
<1>3. CASE r.op = "build"
  <2>1. ~inFlightBuild /\ inFlightBuild' /\ \A i \in DOMAIN queue : queue[i].op # "build"
    BY <1>3 DEF QueueInv, InFlightTells
  <2>2. \A i \in DOMAIN queue' : queue'[i].op = "build" => i = Len(queue) + 1
    BY <1>1, <1>2, <2>1
  <2>3. OneBuild'
    BY <2>2 DEF OneBuild
  <2>4. InFlightTells'
    BY <1>1, <1>3, <2>1 DEF InFlightTells
  <2> QED  BY <1>1, <2>3, <2>4 DEF QueueInv
<1>4. CASE r.op # "build"
  <2>1. \A i \in DOMAIN queue' : queue'[i].op = "build" => i \in DOMAIN queue /\ queue[i].op = "build"
    BY <1>1, <1>2, <1>4
  <2>2. OneBuild'
    BY <2>1 DEF OneBuild, QueueInv
  <2>3. InFlightTells'
    BY <1>1, <1>4, <2>1 DEF InFlightTells, QueueInv
  <2> QED  BY <1>1, <2>2, <2>3 DEF QueueInv
<1> QED  BY <1>3, <1>4

LEMMA Shortened ==
    ASSUME QueueInv, queue # << >>, queue' = Tail(queue),
           Head(queue).op = "build" => ~inFlightBuild',
           Head(queue).op # "build" => inFlightBuild' = inFlightBuild
    PROVE  QueueInv'
<1>1. /\ QueueTyped' /\ Head(queue) = queue[1] /\ 1 \in DOMAIN queue
      /\ Head(queue) \in Requests
      /\ DOMAIN queue = 1..Len(queue) /\ DOMAIN queue' = 1..(Len(queue) - 1)
      /\ Len(queue) \in Nat \ {0}
      /\ \A i \in DOMAIN queue' : i + 1 \in DOMAIN queue /\ queue'[i] = queue[i + 1]
      /\ \A i \in DOMAIN queue : i # 1 =>
           i - 1 \in DOMAIN queue' /\ queue'[i - 1] = queue[i]
  BY QueueShrinks DEF QueueInv
<1>2. \A i \in DOMAIN queue' : i \in Nat /\ i + 1 # 1
  BY <1>1
<1>3. OneBuild'
  <2> SUFFICES ASSUME NEW i \in DOMAIN queue', NEW j \in DOMAIN queue',
                      queue'[i].op = "build", queue'[j].op = "build"
               PROVE  i = j
    BY DEF OneBuild
  <2>1. i + 1 = j + 1
    BY <1>1 DEF OneBuild, QueueInv
  <2> QED  BY <1>2, <2>1
<1>4. InFlightTells'
  <2>1. CASE Head(queue).op = "build"
    <3>1. \A i \in DOMAIN queue' : queue'[i].op # "build"
      BY <1>1, <1>2, <2>1 DEF OneBuild, QueueInv
    <3> QED  BY <2>1, <3>1 DEF InFlightTells
  <2>2. CASE Head(queue).op # "build"
    <3>1. (\E i \in DOMAIN queue : queue[i].op = "build")
              <=> \E i \in DOMAIN queue' : queue'[i].op = "build"
      <4>1. \A i \in DOMAIN queue : queue[i].op = "build" => i # 1
        BY <1>1, <2>2
      <4> QED  BY <1>1, <4>1, SMTT(30)
    <3> QED  BY <2>2, <3>1 DEF InFlightTells, QueueInv
  <2> QED  BY <2>1, <2>2
<1> QED  BY <1>1, <1>3, <1>4 DEF QueueInv

LEMMA QueueStep ==
    ASSUME IndexTypeOK, QueueInv, IndexNext
    PROVE  QueueInv' /\ (builds \in 0..MaxBuilds)'
<1> USE FsIndexAssumption
<1>0. builds \in 0..MaxBuilds
  BY DEF IndexTypeOK
<1>1. ASSUME EnqueueBuild
      PROVE  QueueInv' /\ (builds \in 0..MaxBuilds)'
  <2>1. CASE inFlightBuild
    <3>1. UNCHANGED << queue, builds, inFlightBuild >>
      BY <1>1, <2>1 DEF EnqueueBuild, queueVars
    <3> QED  BY <1>0, <3>1 DEF QueueInv, QueueTyped, OneBuild, InFlightTells
  <2>2. CASE ~inFlightBuild
    <3>1. /\ queue' = Append(queue, [op |-> "build"]) /\ inFlightBuild' = TRUE
          /\ builds < MaxBuilds /\ builds' = builds + 1
      BY <1>1, <2>2 DEF EnqueueBuild
    <3>2. QueueInv'
      BY <2>2, <3>1, Appended, RequestIs
    <3> QED  BY <1>0, <3>1, <3>2
  <2> QED  BY <2>1, <2>2
<1>2. ASSUME NEW p \in Paths, Fires(p)
      PROVE  QueueInv' /\ (builds \in 0..MaxBuilds)'
  <2>1. timers[p] \in {"put", "unlink"}
    BY <1>2 DEF IndexTypeOK, IsPartial, Fires
  <2>2. /\ [op |-> timers[p], path |-> p] \in Requests
        /\ [op |-> timers[p], path |-> p].op # "build"
    BY <2>1, RequestIs
  <2>3. /\ queue' = Append(queue, [op |-> timers[p], path |-> p])
        /\ UNCHANGED << builds, inFlightBuild >>
    BY <1>2 DEF Fires
  <2>4. QueueInv'
    BY <2>2, <2>3, Appended
  <2> QED  BY <1>0, <2>3, <2>4
<1>3. ASSUME queue # << >>, queue' = Tail(queue), UNCHANGED builds,
             Head(queue).op = "build" => ~inFlightBuild',
             Head(queue).op # "build" => inFlightBuild' = inFlightBuild
      PROVE  QueueInv' /\ (builds \in 0..MaxBuilds)'
  BY <1>0, <1>3, Shortened
<1>4. CASE UNCHANGED << queue, builds, inFlightBuild >>
  BY <1>0, <1>4 DEF QueueInv, QueueTyped, OneBuild, InFlightTells
<1>5. CASE BuildSwaps \/ BuildFails
  BY <1>3, <1>5 DEF BuildSwaps, BuildFails, BuildEnds, HeadIs
<1>6. CASE PutApplies \/ Unlinks
  BY <1>3, <1>6 DEF PutApplies, Unlinks, Done, HeadIs
<1>7. CASE PutReads
  BY <1>3, <1>4, <1>7 DEF PutReads, Done, HeadIs
<1>8. CASE BuildWalks \/ BuildReads
  BY <1>4, <1>8 DEF BuildWalks, BuildReads
<1>9. CASE HandlerReady \/ ForceReindex
  BY <1>1, <1>9 DEF HandlerReady, ForceReindex
<1>10. CASE WatcherReady \/ HandlerStop
  BY <1>4, <1>10 DEF WatcherReady, HandlerStop, queueVars
<1>11. ASSUME NEW p \in Paths, Changes(p) \/ Reports(p)
       PROVE  QueueInv' /\ (builds \in 0..MaxBuilds)'
  BY <1>4, <1>11 DEF Changes, Reports, queueVars
<1> QED  BY <1>2, <1>5, <1>6, <1>7, <1>8, <1>9, <1>10, <1>11 DEF IndexNext, QueueWorks

(* What is at the head.                                                    *)
LEMMA HeadKept ==
    ASSUME QueueTyped, NEW r \in Requests, queue # << >>,
           queue' = queue \/ queue' = Append(queue, r)
    PROVE  queue' # << >> /\ Head(queue') = Head(queue)
  BY QueueGrows

LEMMA WorkStep ==
    ASSUME IndexTypeOK, QueueInv, WorkIsTheHeads, IndexNext
    PROVE  WorkIsTheHeads'
<1> USE FsIndexAssumption
<1>0. QueueTyped
  BY DEF QueueInv
<1>1. ASSUME UNCHANGED << work, status >>,
             queue' = queue \/ \E r \in Requests : queue' = Append(queue, r)
      PROVE  WorkIsTheHeads'
  <2> SUFFICES ASSUME work' # << >> PROVE WorkIsTheHeads'
    BY DEF WorkIsTheHeads
  <2>1. queue # << >>
    BY <1>1 DEF WorkIsTheHeads
  <2>2. queue' # << >> /\ Head(queue') = Head(queue)
    BY <1>0, <1>1, <2>1, HeadKept
  <2> QED  BY <1>1, <2>2 DEF WorkIsTheHeads, BuildHasRead, PutHasRead
<1>2. ASSUME EnqueueBuild, UNCHANGED status
      PROVE  WorkIsTheHeads'
  BY <1>1, <1>2, RequestIs DEF EnqueueBuild, queueVars
<1>3. ASSUME NEW p \in Paths, Fires(p)
      PROVE  WorkIsTheHeads'
  <2>1. timers[p] \in {"put", "unlink"}
    BY <1>3 DEF IndexTypeOK, IsPartial, Fires
  <2>2. [op |-> timers[p], path |-> p] \in Requests
    BY <2>1, RequestIs
  <2> QED  BY <1>1, <1>3, <2>2 DEF Fires, indexVars
<1>4. CASE work' = << >>
  BY <1>4 DEF WorkIsTheHeads
<1>5. CASE BuildSwaps \/ BuildFails \/ PutApplies \/ Unlinks
  BY <1>4, <1>5 DEF BuildSwaps, BuildFails, BuildEnds, PutApplies, Unlinks, Done
<1>6. CASE PutReads
  <2> DEFINE p == Head(queue).path
  <2>1. CASE /\ status = "ready" /\ p \in DOMAIN disk
             /\ work' = [notes |-> With(Empty, p, disk[p])] /\ queue' = queue
    <3>1. work' = [notes |-> With(Empty, p, disk[p])] /\ UNCHANGED << queue, status >>
      BY <1>6, <2>1 DEF PutReads, indexVars
    <3>2. p \in Paths /\ disk[p] \in Links
      BY <2>1 DEF IndexTypeOK, IsPartial
    <3>3. /\ With(Empty, p, disk[p]) \in Partial(Paths, Links)
          /\ DOMAIN With(Empty, p, disk[p]) = {p}
      <4>1. Empty \in Partial(Paths, Links) /\ DOMAIN Empty = {}
        BY NothingIsPartial
      <4> HIDE DEF p
      <4>2. /\ With(Empty, p, disk[p]) \in Partial(Paths, Links)
            /\ DOMAIN With(Empty, p, disk[p]) = DOMAIN Empty \cup {p}
            /\ With(Empty, p, disk[p])[p] = disk[p]
            /\ \A x \in DOMAIN Empty : x # p => With(Empty, p, disk[p])[x] = Empty[x]
        BY <3>2, <4>1, WithIs
      <4> QED  BY <4>1, <4>2
    <3>4. work'.notes = With(Empty, p, disk[p])
      BY <3>1
    <3>5. queue # << >> /\ Head(queue).op = "put"
      BY <1>6 DEF PutReads, HeadIs
    <3> HIDE DEF With
    <3> QED  BY <2>1, <3>1, <3>3, <3>4, <3>5 DEF WorkIsTheHeads, PutHasRead
  <2>2. CASE work' = << >>
    BY <1>4, <2>2
  <2> QED  BY <1>6, <2>1, <2>2 DEF PutReads, Done
<1>7. CASE BuildWalks
  <2>1. PICK missed \in SUBSET DOMAIN disk :
            work' = [toRead |-> DOMAIN disk \ missed, notes |-> Empty]
    BY <1>7 DEF BuildWalks
  <2>4. queue' = queue /\ queue # << >> /\ Head(queue).op = "build"
    BY <1>7 DEF BuildWalks, HeadIs
  <2>2. work'.toRead \subseteq Paths /\ work'.notes = Empty
    BY <2>1 DEF IndexTypeOK, IsPartial
  <2>3. BuildHasRead'
    BY <2>2, NothingIsPartial DEF BuildHasRead
  <2> QED  BY <2>3, <2>4 DEF WorkIsTheHeads
<1>8. CASE BuildReads
  <2> DEFINE p == Min(work.toRead)
  <2>0. PICK n \in {With(work.notes, p, disk[p]), work.notes} :
            /\ n # work.notes => p \in DOMAIN disk
            /\ work' = [toRead |-> work.toRead \ {p}, notes |-> n]
    BY <1>8 DEF BuildReads
  <2>1. /\ queue' = queue /\ queue # << >> /\ Head(queue).op = "build" /\ work # << >>
        /\ work.toRead # {} /\ work' = [toRead |-> work.toRead \ {p}, notes |-> n]
    BY <1>8, <2>0 DEF BuildReads, HeadIs
  <2>2. BuildHasRead
    BY <2>1 DEF WorkIsTheHeads
  <2>3. p \in work.toRead /\ p \in Paths
    BY <2>1, <2>2, MinIsThere DEF BuildHasRead
  <2>4. n \in Partial(Paths, Links) /\ DOMAIN n \subseteq DOMAIN work.notes \cup {p}
    <3>1. CASE n # work.notes
      <4>1. p \in DOMAIN disk /\ disk[p] \in Links /\ work.notes \in Partial(Paths, Links)
        BY <2>0, <2>2, <3>1 DEF IndexTypeOK, IsPartial, BuildHasRead
      <4>2. /\ With(work.notes, p, disk[p]) \in Partial(Paths, Links)
            /\ DOMAIN With(work.notes, p, disk[p]) = DOMAIN work.notes \cup {p}
        <5> HIDE DEF p
        <5> QED  BY <2>3, <4>1, PartialIs DEF With
      <4> QED  BY <2>0, <3>1, <4>2
    <3>2. CASE n = work.notes
      BY <2>2, <3>2 DEF BuildHasRead
    <3> QED  BY <3>1, <3>2
  <2>5. work'.toRead = work.toRead \ {p} /\ work'.notes = n
    BY <2>1
  <2> HIDE DEF p
  <2>6. BuildHasRead'
    BY <2>2, <2>4, <2>5 DEF BuildHasRead
  <2> QED  BY <2>1, <2>6 DEF WorkIsTheHeads
<1>9. CASE HandlerReady \/ ForceReindex
  BY <1>2, <1>9 DEF HandlerReady, ForceReindex, indexVars
<1>10. CASE WatcherReady \/ HandlerStop
  BY <1>1, <1>10 DEF WatcherReady, HandlerStop, queueVars, indexVars
<1>11. ASSUME NEW p \in Paths, Changes(p) \/ Reports(p)
       PROVE  WorkIsTheHeads'
  BY <1>1, <1>11 DEF Changes, Reports, queueVars, indexVars
<1> QED  BY <1>3, <1>5, <1>6, <1>7, <1>8, <1>9, <1>10, <1>11 DEF IndexNext, QueueWorks

IndexTyped ==
    /\ status \in {"indexing", "ready", "error"}
    /\ byPath \in Partial(Paths, Links) /\ byJdId \in Partial(Ids, Paths)
    /\ backlinks \in Partial(Paths, SUBSET Paths) /\ twinned \in BOOLEAN

(* A build makes the index what it read; an update, what it becomes.       *)
LEMMA BuildSettles ==
    ASSUME (byPath \in Partial(Paths, Links))', (byJdId = JdBuilt(byPath))',
           (backlinks = BacklinksOf(byPath, byJdId))', (status = "ready")',
           (twinned \in BOOLEAN)', (Twins(byPath) => twinned)'
    PROVE  IndexIsSound' /\ IndexTyped'
<1> DEFINE notes == byPath'
           jd == byJdId'
<1>1. notes \in Partial(Paths, Links) /\ jd = JdBuilt(notes)
  OBVIOUS
<1> HIDE DEF notes, jd
<1>2. JdSound(jd, notes)
  BY <1>1, JdBuiltIs
<1>3. jd \in Partial(Ids, Paths)
  BY <1>2 DEF JdSound
<1>4. BacklinksOf(notes, jd) \in Partial(Paths, SUBSET Paths)
  BY <1>1, <1>2, BacklinksAre
<1>5. IndexTyped'
  BY <1>1, <1>3, <1>4 DEF IndexTyped, notes, jd
<1>6. JdSound(byJdId, byPath)'
  BY <1>2 DEF JdSound, notes, jd
<1> QED  BY <1>5, <1>6 DEF IndexIsSound

LEMMA IndexBecomes ==
    ASSUME IndexTyped, IndexIsSound, status = "ready",
           NEW notes \in Partial(Paths, Links), NEW jd, JdSound(jd, notes),
           ~twinned /\ ~Twins(notes) => jd = JdBuilt(notes),
           Becomes(notes, jd)
    PROVE  IndexIsSound' /\ IndexTyped'
<1>1. /\ status' = "ready" /\ byPath' = notes /\ byJdId' = jd
      /\ backlinks' = BacklinksOf(notes, jd) /\ twinned' = (twinned \/ Twins(notes))
  BY DEF Becomes
<1>2. jd \in Partial(Ids, Paths)
  BY DEF JdSound
<1>3. BacklinksOf(notes, jd) \in Partial(Paths, SUBSET Paths)
  BY BacklinksAre
<1>4. twinned' \in BOOLEAN
  BY <1>1
<1>5. JdSound(byJdId', byPath')
  BY <1>1
<1>6. IndexTyped'
  BY <1>1, <1>2, <1>3, <1>4 DEF IndexTyped
<1>7. ~twinned' => ~Twins(byPath') /\ byJdId' = JdBuilt(byPath')
  BY <1>1
<1>8. backlinks' = BacklinksOf(byPath', byJdId')
  BY <1>1
<1>9. (status = "ready" /\ ~twinned => ~Twins(byPath) /\ byJdId = JdBuilt(byPath))'
  <2>1. ~Twins(byPath)' <=> ~Twins(byPath')
    BY DEF Twins, HoldersOf
  <2>2. JdBuilt(byPath)' = JdBuilt(byPath')
    BY DEF JdBuilt, HoldersOf
  <2> QED  BY <1>7, <2>1, <2>2
<1> QED  BY <1>1, <1>5, <1>6, <1>8, <1>9 DEF IndexIsSound, JdSound

LEMMA IndexEmptied ==
    ASSUME status' = "error", byPath' = Empty, byJdId' = Empty, backlinks' = Empty,
           twinned' = FALSE
    PROVE  IndexIsSound' /\ IndexTyped'
  BY NothingIsPartial DEF IndexIsSound, IndexTyped, JdSound

LEMMA IndexStays ==
    ASSUME IndexTyped, IndexIsSound, UNCHANGED indexVars
    PROVE  IndexIsSound' /\ IndexTyped'
  BY DEF IndexIsSound, IndexTyped, indexVars, JdSound, Twins, JdBuilt, BacklinksOf,
         HoldersOf, Resolve

LEMMA IndexStep ==
    ASSUME IndexTyped, IndexIsSound, QueueTyped, WorkIsTheHeads, IndexNext
    PROVE  IndexIsSound' /\ IndexTyped'
<1> USE FsIndexAssumption
<1>1. CASE UNCHANGED indexVars
  BY <1>1, IndexStays
<1>2. CASE BuildSwaps
  <2>1. (byPath \in Partial(Paths, Links))'
    BY <1>2 DEF BuildSwaps, HeadIs, WorkIsTheHeads, BuildHasRead
  <2>2. (byJdId = JdBuilt(byPath))' /\ (backlinks = BacklinksOf(byPath, byJdId))'
    BY <1>2 DEF BuildSwaps
  <2>3. (status = "ready")' /\ (twinned \in BOOLEAN)' /\ (Twins(byPath) => twinned)'
    BY <1>2 DEF BuildSwaps, Twins, HoldersOf
  <2> QED  BY <2>1, <2>2, <2>3, BuildSettles
<1>3. CASE BuildFails
  BY <1>3, IndexEmptied DEF BuildFails
<1>4. CASE PutApplies
  <2> DEFINE p == Head(queue).path
             n == With(byPath, p, work.notes[p])
             j == JdWith(JdWithout(byJdId, p), p)
  <2>1. PutHasRead /\ queue # << >> /\ Head(queue).op = "put"
    BY <1>4 DEF PutApplies, HeadIs, WorkIsTheHeads
  <2>2. p \in Paths
    <3>1. Head(queue) \in Requests
      BY <2>1 DEF QueueTyped
    <3> QED  BY <2>1, <3>1, RequestIs
  <2>3. work.notes[p] \in Links /\ status = "ready"
    BY <2>1, PartialIs DEF PutHasRead
  <2>4. Becomes(n, j)
    BY <1>4 DEF PutApplies
  <2>5. byPath \in Partial(Paths, Links) /\ JdSound(byJdId, byPath)
    BY DEF IndexTyped, IndexIsSound
  <2>6. n \in Partial(Paths, Links)
    <3> HIDE DEF p
    <3> QED  BY <2>2, <2>3, <2>5, PartialIs DEF With
  <2> HIDE DEF p
  <2>7. JdSound(j, n)
    BY <2>2, <2>3, <2>5, PutJd
  <2>8. ~twinned /\ ~Twins(n) => j = JdBuilt(n)
    <3> SUFFICES ASSUME ~twinned, ~Twins(n)  PROVE j = JdBuilt(n)
      OBVIOUS
    <3>1. ~Twins(byPath) /\ byJdId = JdBuilt(byPath)
      BY <2>3 DEF IndexIsSound
    <3>2. DOMAIN byJdId = IdsOf(byPath)
      BY <2>5, <3>1, JdBuiltIs DEF IdsOf
    <3> QED  BY <2>2, <2>3, <2>5, <3>1, <3>2, PutSettles
  <2> HIDE DEF n, j
  <2> QED  BY <2>3, <2>4, <2>6, <2>7, <2>8, IndexBecomes
<1>5. CASE Unlinks
  <2> DEFINE p == Head(queue).path
             n == Without(byPath, p)
             j == JdWithout(byJdId, p)
  <2>1. CASE status = "ready" /\ p \in DOMAIN byPath
    <3>1. Becomes(n, j)
      BY <1>5, <2>1 DEF Unlinks
    <3>2. byPath \in Partial(Paths, Links) /\ JdSound(byJdId, byPath)
      BY DEF IndexTyped, IndexIsSound
    <3>3. n \in Partial(Paths, Links)
      <4> HIDE DEF p
      <4> QED  BY <3>2, PartialIs DEF Without
    <3> HIDE DEF p
    <3>4. JdSound(j, n)
      BY <3>2, UnlinkJd
    <3>5. ~twinned /\ ~Twins(n) => j = JdBuilt(n)
      <4> SUFFICES ASSUME ~twinned, ~Twins(n)  PROVE j = JdBuilt(n)
        OBVIOUS
      <4>1. ~Twins(byPath) /\ byJdId = JdBuilt(byPath)
        BY <2>1 DEF IndexIsSound
      <4>2. DOMAIN byJdId = IdsOf(byPath)
        BY <3>2, <4>1, JdBuiltIs DEF IdsOf
      <4> QED  BY <3>2, <4>1, <4>2, UnlinkSettles
    <3> HIDE DEF n, j
    <3> QED  BY <2>1, <3>1, <3>3, <3>4, <3>5, IndexBecomes
  <2>2. CASE ~(status = "ready" /\ p \in DOMAIN byPath)
    BY <1>1, <1>5, <2>2 DEF Unlinks
  <2> QED  BY <2>1, <2>2
<1>6. CASE BuildWalks \/ BuildReads \/ PutReads
  BY <1>1, <1>6 DEF BuildWalks, BuildReads, PutReads
<1>7. CASE HandlerReady \/ ForceReindex \/ WatcherReady \/ HandlerStop
  BY <1>1, <1>7 DEF HandlerReady, ForceReindex, WatcherReady, HandlerStop
<1>8. ASSUME NEW p \in Paths, Changes(p) \/ Reports(p) \/ Fires(p)
      PROVE  IndexIsSound' /\ IndexTyped'
  BY <1>1, <1>8 DEF Changes, Reports, Fires
<1> QED  BY <1>2, <1>3, <1>4, <1>5, <1>6, <1>7, <1>8 DEF IndexNext, QueueWorks

SeenTyped ==
    unreported \subseteq Paths /\ overhung \subseteq Paths /\ unread \subseteq Paths

DiskTyped == disk \in Partial(Paths, Links) /\ changes \in 0..MaxChanges

WatchTyped ==
    /\ phase \in {"idle", "building", "scanning", "on", "unwatched"}
    /\ noticed \subseteq Paths /\ timers \in Partial(Paths, {"put", "unlink"})

BuildsTyped == builds \in 0..MaxBuilds

IndexTypes ==
    /\ DiskTyped /\ WatchTyped /\ BuildsTyped /\ IndexTyped /\ SeenTyped
    /\ QueueInv /\ WorkIsTheHeads /\ IndexIsSound

LEMMA TypesAre == IndexTypes => IndexTypeOK
<1> SUFFICES ASSUME IndexTypes  PROVE IndexTypeOK
  OBVIOUS
<1>1. \A i \in DOMAIN queue : queue[i].op \in {"build", "put", "unlink"}
  <2>1. \A i \in DOMAIN queue : queue[i] \in Requests
    BY DEF IndexTypes, QueueInv, QueueTyped
  <2> QED  BY <2>1, RequestIs
<1>2. work # Empty => queue # << >> /\ IsPartial(work.notes, Paths, Links)
  BY PartialIs DEF IndexTypes, WorkIsTheHeads, BuildHasRead, PutHasRead, Empty, IsPartial
<1>3. /\ IsPartial(disk, Paths, Links) /\ IsPartial(timers, Paths, {"put", "unlink"})
      /\ IsPartial(byPath, Paths, Links) /\ IsPartial(byJdId, Ids, Paths)
      /\ IsPartial(backlinks, Paths, SUBSET Paths)
  BY PartialIs DEF IndexTypes, DiskTyped, WatchTyped, IndexTyped, IsPartial
<1> QED  BY <1>1, <1>2, <1>3 DEF IndexTypes, IndexTypeOK, DiskTyped, WatchTyped, BuildsTyped,
            IndexTyped, SeenTyped, QueueInv, InFlightTells

LEMMA DiskStep ==
    ASSUME DiskTyped, IndexNext
    PROVE  DiskTyped'
<1> USE FsIndexAssumption
<1>1. CASE UNCHANGED diskVars
  BY <1>1 DEF DiskTyped, diskVars
<1>2. ASSUME NEW p \in Paths, Changes(p)
      PROVE  DiskTyped'
  <2>1. changes' \in 0..MaxChanges
    BY <1>2 DEF Changes, DiskTyped
  <2>2. disk \in Partial(Paths, Links)
    BY DEF DiskTyped
  <2>3. CASE \E link \in Links : disk' = With(disk, p, link)
    <3>1. PICK link \in Links : disk' = With(disk, p, link)
      BY <2>3
    <3>2. With(disk, p, link) \in Partial(Paths, Links)
      BY <2>2, PartialIs DEF With
    <3> QED  BY <2>1, <3>1, <3>2 DEF DiskTyped
  <2>4. CASE disk' = Without(disk, p)
    <3>1. Without(disk, p) \in Partial(Paths, Links)
      BY <2>2, PartialIs DEF Without
    <3> QED  BY <2>1, <2>4, <3>1 DEF DiskTyped
  <2> QED  BY <1>2, <2>3, <2>4 DEF Changes
<1>3. ASSUME NEW p \in Paths, Reports(p) \/ Fires(p)
      PROVE  DiskTyped'
  BY <1>1, <1>3 DEF Reports, Fires
<1>4. CASE HandlerReady \/ ForceReindex \/ WatcherReady \/ HandlerStop
  BY <1>1, <1>4 DEF HandlerReady, ForceReindex, WatcherReady, HandlerStop
<1>5. CASE QueueWorks
  BY <1>1, <1>5 DEF QueueWorks, BuildWalks, BuildReads, BuildSwaps, BuildFails, BuildEnds,
     PutReads, PutApplies, Unlinks
<1> QED  BY <1>2, <1>3, <1>4, <1>5 DEF IndexNext

LEMMA WatchStep ==
    ASSUME WatchTyped, SeenTyped, DiskTyped, QueueTyped, WorkIsTheHeads, IndexNext
    PROVE  WatchTyped' /\ SeenTyped'
<1> USE FsIndexAssumption
<1>1. CASE UNCHANGED << noticed, timers >> /\ (phase \in {"building", "scanning", "on", "unwatched"})' /\ SeenTyped'
  BY <1>1 DEF WatchTyped
<1>2. CASE UNCHANGED watchVars /\ SeenTyped'
  BY <1>2 DEF WatchTyped, watchVars
<1>3. ASSUME NEW p \in Paths, Changes(p)
      PROVE  WatchTyped' /\ SeenTyped'
  BY <1>3 DEF Changes, WatchTyped, SeenTyped
<1>4. ASSUME NEW p \in Paths, Reports(p)
      PROVE  WatchTyped' /\ SeenTyped'
  <2>1. \A o \in {"put", "unlink"} : With(timers, p, o) \in Partial(Paths, {"put", "unlink"})
    BY PartialIs DEF WatchTyped, With
  <2>2. timers' \in Partial(Paths, {"put", "unlink"})
    BY <1>4, <2>1 DEF Reports
  <2> QED  BY <1>4, <2>2 DEF Reports, WatchTyped, SeenTyped, seenVars
<1>5. ASSUME NEW p \in Paths, Fires(p)
      PROVE  WatchTyped' /\ SeenTyped'
  <2>1. Without(timers, p) \in Partial(Paths, {"put", "unlink"})
    BY PartialIs DEF WatchTyped, Without
  <2> QED  BY <1>5, <2>1 DEF Fires, WatchTyped, SeenTyped, seenVars
<1>6. CASE HandlerStop
  <2>1. DOMAIN timers \subseteq Paths
    BY PartialIs DEF WatchTyped
  <2> QED  BY <1>6, <2>1, NothingIsPartial DEF HandlerStop, WatchTyped, SeenTyped
<1>7. CASE HandlerReady \/ WatcherReady
  BY <1>1, <1>7 DEF HandlerReady, WatcherReady, SeenTyped, seenVars
<1>0. DOMAIN disk \subseteq Paths
  BY PartialIs DEF DiskTyped
<1>8. CASE ForceReindex \/ PutApplies
  BY <1>2, <1>8 DEF ForceReindex, PutApplies, SeenTyped, seenVars
<1>10. CASE BuildWalks
  BY <1>0, <1>2, <1>10 DEF BuildWalks, SeenTyped
<1>11. CASE BuildReads
  <2>1. /\ unreported' \subseteq unreported /\ UNCHANGED << watchVars, overhung >>
        /\ unread' \subseteq unread \cup DOMAIN disk
    BY <1>11 DEF BuildReads
  <2> QED  BY <1>0, <1>2, <2>1 DEF SeenTyped
<1>12. CASE PutReads \/ Unlinks
  <2>1. /\ unreported' \subseteq unreported /\ UNCHANGED << watchVars, overhung >>
        /\ unread' \subseteq unread \cup DOMAIN disk
    BY <1>12 DEF PutReads, Unlinks
  <2> QED  BY <1>0, <1>2, <2>1 DEF SeenTyped
<1>9. CASE BuildSwaps \/ BuildFails
  <2>1. UNCHANGED << noticed, timers, seenVars >>
        /\ (phase' = phase \/ phase' = "scanning" \/ phase' = "unwatched")
    BY <1>9 DEF BuildSwaps, BuildFails, BuildEnds
  <2> QED  BY <2>1 DEF WatchTyped, SeenTyped, seenVars
<1> QED  BY <1>3, <1>4, <1>5, <1>6, <1>7, <1>8, <1>9, <1>10, <1>11, <1>12 DEF IndexNext, QueueWorks

LEMMA TypesStep ==
    ASSUME IndexTypes, IndexNext
    PROVE  IndexTypes'
<1>1. IndexTypeOK /\ QueueTyped
  BY TypesAre DEF IndexTypes, QueueInv
<1>2. DiskTyped' /\ WatchTyped' /\ SeenTyped'
  BY <1>1, DiskStep, WatchStep DEF IndexTypes
<1>3. QueueInv' /\ BuildsTyped' /\ WorkIsTheHeads'
  BY <1>1, QueueStep, WorkStep DEF IndexTypes, BuildsTyped
<1>4. IndexIsSound' /\ IndexTyped'
  BY <1>1, IndexStep DEF IndexTypes
<1> QED  BY <1>2, <1>3, <1>4 DEF IndexTypes

LEMMA TypesInit == IndexInit => IndexTypes
<1> SUFFICES ASSUME IndexInit  PROVE IndexTypes
  OBVIOUS
<1>1. DiskTyped
  BY FsIndexAssumption, PartialIs DEF IndexInit, DiskTyped
<1>2. WatchTyped /\ SeenTyped /\ BuildsTyped
  BY FsIndexAssumption, NothingIsPartial DEF IndexInit, WatchTyped, SeenTyped, BuildsTyped
<1>3. IndexTyped /\ IndexIsSound
  BY NothingIsPartial DEF IndexInit, IndexTyped, IndexIsSound, JdSound
<1>4. QueueInv
  BY DEF IndexInit, QueueInv, QueueTyped, OneBuild, InFlightTells
<1>5. WorkIsTheHeads
  BY DEF IndexInit, WorkIsTheHeads
<1> QED  BY <1>1, <1>2, <1>3, <1>4, <1>5 DEF IndexTypes

(* The updates that wait, when the queue is one shorter and one longer.    *)
LEMMA ShorterConcerns ==
    ASSUME QueueTyped, queue # << >>, queue' = Tail(queue), NEW p
    PROVE  /\ NoUpdate(p) => NoUpdate(p)'
           /\ ~Concerns(1, p) /\ NoUpdate(p)' => NoUpdate(p)
           /\ Concerns(1, p) /\ NoUpdate(p)' => IsLast(1, p)
           /\ \A i \in DOMAIN queue' : IsLast(i, p)' =>
                i + 1 \in DOMAIN queue /\ IsLast(i + 1, p) /\ queue'[i] = queue[i + 1]
<1>1. /\ QueueTyped' /\ Head(queue) = queue[1] /\ 1 \in DOMAIN queue
      /\ Head(queue) \in Requests
      /\ DOMAIN queue = 1..Len(queue) /\ DOMAIN queue' = 1..(Len(queue) - 1)
      /\ Len(queue) \in Nat \ {0}
      /\ \A i \in DOMAIN queue' : i + 1 \in DOMAIN queue /\ queue'[i] = queue[i + 1]
      /\ \A i \in DOMAIN queue : i # 1 =>
           i - 1 \in DOMAIN queue' /\ queue'[i - 1] = queue[i]
  BY QueueShrinks
<1>2. \A i \in DOMAIN queue' : i + 1 \in DOMAIN queue /\ (Concerns(i, p)' <=> Concerns(i + 1, p))
  BY <1>1 DEF Concerns
<1>3. \A i \in DOMAIN queue : i # 1 => i - 1 \in DOMAIN queue' /\ (Concerns(i - 1, p)' <=> Concerns(i, p))
  BY <1>1 DEF Concerns
<1>4. NoUpdate(p) => NoUpdate(p)'
  BY <1>2 DEF NoUpdate
<1>5. NoUpdate(p)' => \A i \in DOMAIN queue : i # 1 => ~Concerns(i, p)
  BY <1>3 DEF NoUpdate
<1>6. ~Concerns(1, p) /\ NoUpdate(p)' => NoUpdate(p)
  BY <1>5 DEF NoUpdate
<1>7. Concerns(1, p) /\ NoUpdate(p)' => IsLast(1, p)
  BY <1>1, <1>5 DEF IsLast
<1>8. ASSUME NEW i \in DOMAIN queue', IsLast(i, p)'
      PROVE  IsLast(i + 1, p)
  <2>1. i + 1 \in DOMAIN queue /\ Concerns(i + 1, p) /\ i \in Nat
    BY <1>1, <1>2, <1>8 DEF IsLast
  <2>2. ASSUME NEW j \in DOMAIN queue, Concerns(j, p)
        PROVE  j <= i + 1
    <3>1. CASE j = 1
      BY <2>1, <3>1
    <3>2. CASE j # 1
      <4>1. j - 1 \in DOMAIN queue' /\ Concerns(j - 1, p)'
        BY <1>3, <2>2, <3>2
      <4>2. j - 1 <= i
        BY <1>8, <4>1 DEF IsLast
      <4>3. j \in Nat
        BY <1>1
      <4> QED  BY <2>1, <4>2, <4>3
    <3> QED  BY <3>1, <3>2
  <2> QED  BY <2>1, <2>2 DEF IsLast
<1> QED  BY <1>1, <1>4, <1>6, <1>7, <1>8

LEMMA LongerConcerns ==
    ASSUME QueueTyped, NEW r \in Requests, queue' = Append(queue, r), NEW p
    PROVE  /\ NoUpdate(p)' => NoUpdate(p)
           /\ r.op # "build" /\ r.path = p =>
                /\ ~NoUpdate(p)'
                /\ \A i \in DOMAIN queue' : IsLast(i, p)' => i = Len(queue) + 1 /\ queue'[i] = r
           /\ ~(r.op # "build" /\ r.path = p) =>
                /\ NoUpdate(p) => NoUpdate(p)'
                /\ \A i \in DOMAIN queue' : IsLast(i, p)' =>
                     i \in DOMAIN queue /\ IsLast(i, p) /\ queue'[i] = queue[i]
<1>1. /\ DOMAIN queue = 1..Len(queue) /\ DOMAIN queue' = 1..(Len(queue) + 1)
      /\ Len(queue) \in Nat
      /\ \A i \in DOMAIN queue : i \in DOMAIN queue' /\ queue'[i] = queue[i]
      /\ queue'[Len(queue) + 1] = r /\ Len(queue) + 1 \in DOMAIN queue'
  <2>1. /\ QueueTyped' /\ Len(queue) \in Nat
        /\ DOMAIN queue = 1..Len(queue) /\ DOMAIN queue' = 1..(Len(queue) + 1)
        /\ \A i \in DOMAIN queue : i \in DOMAIN queue' /\ queue'[i] = queue[i]
        /\ queue'[Len(queue) + 1] = r /\ Len(queue) + 1 \in DOMAIN queue'
        /\ queue # << >> => Head(queue') = Head(queue)
        /\ queue' # << >>
    BY QueueGrows
  <2> QED  BY <2>1
<1>0. PICK new \in Nat : new = Len(queue) + 1
  BY <1>1
<1>2. \A i \in DOMAIN queue : i \in DOMAIN queue' /\ (Concerns(i, p)' <=> Concerns(i, p))
  BY <1>1 DEF Concerns
<1>3. new \in DOMAIN queue' /\ queue'[new] = r
      /\ (Concerns(new, p)' <=> r.op # "build" /\ r.path = p)
  BY <1>0, <1>1 DEF Concerns
<1>4. \A i \in DOMAIN queue' : (i \in DOMAIN queue \/ i = new) /\ i <= new /\ i \in Nat
  BY <1>0, <1>1
<1>5. new \in Nat /\ \A i \in DOMAIN queue : i < new
  BY <1>0, <1>1
<1>6. NoUpdate(p)' => NoUpdate(p)
  BY <1>2 DEF NoUpdate
<1>7. ASSUME r.op # "build" /\ r.path = p
      PROVE  /\ ~NoUpdate(p)'
             /\ \A i \in DOMAIN queue' : IsLast(i, p)' => i = new /\ queue'[i] = r
  <2>1. Concerns(new, p)'
    BY <1>3, <1>7
  <2>2. ~NoUpdate(p)'
    BY <1>3, <2>1 DEF NoUpdate
  <2>3. ASSUME NEW i \in DOMAIN queue', IsLast(i, p)'
        PROVE  i = new
    <3>1. new <= i /\ i <= new
      BY <1>3, <1>4, <2>1, <2>3 DEF IsLast
    <3> QED  BY <1>4, <1>5, <3>1
  <2> QED  BY <1>3, <2>2, <2>3
<1>8. ASSUME ~(r.op # "build" /\ r.path = p)
      PROVE  /\ NoUpdate(p) => NoUpdate(p)'
             /\ \A i \in DOMAIN queue' : IsLast(i, p)' =>
                  i \in DOMAIN queue /\ IsLast(i, p) /\ queue'[i] = queue[i]
  <2>1. ~Concerns(new, p)'
    BY <1>3, <1>8
  <2>2. NoUpdate(p) => NoUpdate(p)'
    BY <1>2, <1>4, <2>1 DEF NoUpdate
  <2>3. ASSUME NEW i \in DOMAIN queue', IsLast(i, p)'
        PROVE  i \in DOMAIN queue /\ IsLast(i, p) /\ queue'[i] = queue[i]
    <3>1. Concerns(i, p)'
      BY <2>3 DEF IsLast
    <3>2. i \in DOMAIN queue
      BY <1>4, <2>1, <3>1
    <3>3. \A j \in DOMAIN queue : Concerns(j, p) => j <= i
      BY <1>2, <2>3 DEF IsLast
    <3> QED  BY <1>1, <1>2, <3>1, <3>2, <3>3 DEF IsLast
  <2> QED  BY <2>2, <2>3
<1> QED  BY <1>0, <1>6, <1>7, <1>8

LEMMA AtWorkKept ==
    ASSUME QueueTyped, WorkIsTheHeads, work' = work,
           queue' = queue \/ \E r \in Requests : queue' = Append(queue, r)
    PROVE  (BuildAtWork' <=> BuildAtWork) /\ (PutAtWork' <=> PutAtWork)
<1>1. CASE work = << >>
  BY <1>1 DEF BuildAtWork, PutAtWork
<1>2. CASE work # << >>
  <2>1. queue # << >>
    BY <1>2 DEF WorkIsTheHeads
  <2>2. queue' # << >> /\ Head(queue') = Head(queue)
    BY <2>1, HeadKept
  <2> QED  BY <2>1, <2>2 DEF BuildAtWork, PutAtWork, HeadIs
<1> QED  BY <1>1, <1>2

(* A note's disk, updates and index as they were, and less said of it.     *)
LEMMA ToldStays ==
    ASSUME QueueTyped, WorkIsTheHeads, NEW p \in Paths, Told(p),
           UNCHANGED << work, byPath, status >>,
           p \in DOMAIN disk <=> p \in DOMAIN disk',
           p \in DOMAIN disk => disk'[p] = disk[p],
           queue' = queue \/ \E r \in Requests :
               queue' = Append(queue, r) /\ ~(r.op # "build" /\ r.path = p),
           Settled(p)' => Settled(p) \/ NoUpdate(p),
           Settled(p)' /\ p \notin Missed' => Settled(p) /\ p \notin Missed
    PROVE  Told(p)'
<1>1. (BuildAtWork' <=> BuildAtWork) /\ (PutAtWork' <=> PutAtWork)
  BY AtWorkKept
<1>2. /\ NoUpdate(p)' <=> NoUpdate(p)
      /\ \A i \in DOMAIN queue' : IsLast(i, p)' =>
           i \in DOMAIN queue /\ IsLast(i, p) /\ queue'[i] = queue[i]
  <2>1. CASE queue' = queue
    BY <2>1 DEF NoUpdate, IsLast, Concerns
  <2>2. CASE queue' # queue
    <3>1. PICK r \in Requests : queue' = Append(queue, r) /\ ~(r.op # "build" /\ r.path = p)
      BY <2>2
    <3>2. /\ NoUpdate(p)' => NoUpdate(p)
          /\ r.op # "build" /\ r.path = p =>
               /\ ~NoUpdate(p)'
               /\ \A i \in DOMAIN queue' : IsLast(i, p)' => i = Len(queue) + 1 /\ queue'[i] = r
          /\ ~(r.op # "build" /\ r.path = p) =>
               /\ NoUpdate(p) => NoUpdate(p)'
               /\ \A i \in DOMAIN queue' : IsLast(i, p)' =>
                    i \in DOMAIN queue /\ IsLast(i, p) /\ queue'[i] = queue[i]
      BY <3>1, LongerConcerns
    <3> QED  BY <3>1, <3>2
  <2> QED  BY <2>1, <2>2
<1>3. \A i \in DOMAIN queue : IsLast(i, p) => ~NoUpdate(p)
  BY DEF IsLast, NoUpdate
<1>4. UpdateTells(p)'
  BY <1>2, <1>3 DEF UpdateTells, Told
<1>5. IndexTells(p)'
  <2>1. Agrees(byPath, p) => Agrees(byPath, p)'
    BY DEF Agrees
  <2> QED  BY <1>1, <1>2, <2>1 DEF IndexTells, Told
<1>6. BuildTells(p)'
  <2>1. Agrees(work.notes, p) => Agrees(work.notes, p)'
    BY DEF Agrees
  <2> QED  BY <1>1, <1>2, <2>1 DEF BuildTells, Told
<1>7. PutTells(p)'
  <2>1. IsLast(1, p)' => IsLast(1, p) /\ 1 \in DOMAIN queue
    BY <1>2 DEF IsLast
  <2> QED  BY <1>1, <1>3, <2>1 DEF PutTells, Told
<1> QED  BY <1>4, <1>5, <1>6, <1>7 DEF Told

TellInv == OffIsSilent /\ TimersTell /\ AllTold

(* An update in the queue when nothing runs is of an overhung note.        *)
LEMMA OffTells ==
    ASSUME OffIsSilent, phase # "on", NEW p \in Paths, Settled(p)
    PROVE  NoUpdate(p)
  BY DEF OffIsSilent, Settled

LEMMA ChangesTells ==
    ASSUME IndexTypes, TellInv, NEW p \in Paths, Changes(p)
    PROVE  TellInv'
<1> USE FsIndexAssumption
<1>1. \A q \in Paths : q # p => (q \in DOMAIN disk <=> q \in DOMAIN disk')
                                /\ (q \in DOMAIN disk => disk'[q] = disk[q])
  <2>1. (\E link \in Links : disk' = With(disk, p, link)) \/ disk' = Without(disk, p)
    BY DEF Changes
  <2>2. CASE disk' = Without(disk, p)
    BY <2>2 DEF Without
  <2>3. ASSUME NEW link \in Links, disk' = With(disk, p, link)
        PROVE  \A q \in Paths : q # p => (q \in DOMAIN disk <=> q \in DOMAIN disk')
                                         /\ (q \in DOMAIN disk => disk'[q] = disk[q])
    BY <2>3 DEF With
  <2> QED  BY <2>1, <2>2, <2>3
<1>2. UNCHANGED << phase, timers, queue, work, byPath, status, overhung, unread >>
  BY DEF Changes, queueVars, indexVars
<1>3. QueueTyped /\ WorkIsTheHeads /\ DOMAIN timers \subseteq Paths
  BY PartialIs DEF IndexTypes, QueueInv, WatchTyped
<1>4. IF phase = "on" THEN noticed' = noticed \cup {p} /\ unreported' = unreported
      ELSE unreported' = unreported \cup {p} /\ noticed' = noticed
  BY DEF Changes
<1>5. OffIsSilent'
  BY <1>2, <1>4 DEF OffIsSilent, TellInv, NoUpdate, Concerns
<1>6. TimersTell'
  <2>1. CASE phase = "on"
    BY <1>1, <1>2, <1>3, <1>4, <2>1 DEF TimersTell, TellInv
  <2>2. CASE phase # "on"
    <3>1. DOMAIN timers' = {}
      BY <1>2, <2>2, NothingIsPartial DEF OffIsSilent, TellInv
    <3> QED  BY <3>1 DEF TimersTell
  <2> QED  BY <2>1, <2>2
<1>7. ASSUME NEW q \in Paths
      PROVE  Told(q)'
  <2>1. Settled(q)' => Settled(q)
    BY <1>2, <1>4 DEF Settled
  <2>2. CASE q # p
    <3>1. Told(q)
      BY DEF TellInv, AllTold
    <3>2. q \notin Missed' => q \notin Missed
      BY <1>2, <1>4 DEF Missed
    <3>3. (q \in DOMAIN disk <=> q \in DOMAIN disk') /\ (q \in DOMAIN disk => disk'[q] = disk[q])
      BY <1>1, <2>2
    <3> QED  BY <1>2, <1>3, <2>1, <3>1, <3>2, <3>3, ToldStays
  <2>3. CASE q = p /\ phase = "on"
    <3>1. ~Settled(q)'
      BY <1>4, <2>3 DEF Settled
    <3> QED  BY <3>1 DEF Told, UpdateTells, IndexTells, BuildTells, PutTells
  <2>4. CASE q = p /\ phase # "on"
    <3>1. q \in Missed'
      BY <1>4, <2>4 DEF Missed
    <3>2. Settled(q)' => NoUpdate(q)
      BY <2>1, <2>4, OffTells DEF TellInv
    <3>3. \A i : ~(Settled(q)' /\ IsLast(i, q)')
      BY <1>2, <3>2 DEF IsLast, NoUpdate, Concerns
    <3> QED  BY <3>1, <3>3 DEF Told, UpdateTells, IndexTells, BuildTells, PutTells
  <2> QED  BY <2>2, <2>3, <2>4
<1> QED  BY <1>5, <1>6, <1>7 DEF TellInv, AllTold

LEMMA ReportsTells ==
    ASSUME IndexTypes, TellInv, NEW p \in Paths, Reports(p)
    PROVE  TellInv'
<1>1. UNCHANGED << disk, phase, queue, work, byPath, status, unreported, overhung, unread >>
  BY DEF Reports, diskVars, queueVars, indexVars, seenVars
<1>2. /\ p \in noticed /\ noticed' = noticed \ {p}
      /\ timers' = With(timers, p, IF p \in DOMAIN disk THEN "put" ELSE "unlink")
  BY DEF Reports
<1>3. /\ DOMAIN timers' = DOMAIN timers \cup {p}
      /\ timers'[p] = "put" <=> p \in DOMAIN disk
      /\ \A x \in DOMAIN timers : x # p => timers'[x] = timers[x]
  BY <1>2 DEF With
<1>4. QueueTyped /\ WorkIsTheHeads
  BY DEF IndexTypes, QueueInv
<1>5. phase = "on"
  BY <1>2 DEF OffIsSilent, TellInv
<1>6. OffIsSilent'
  BY <1>1, <1>5 DEF OffIsSilent
<1>7. TimersTell'
  BY <1>1, <1>2, <1>3 DEF TimersTell, TellInv
<1>8. ASSUME NEW q \in Paths
      PROVE  Told(q)'
  <2>1. Settled(q)' => Settled(q)
    BY <1>1, <1>2, <1>3 DEF Settled
  <2>2. Told(q)
    BY DEF TellInv, AllTold
  <2>3. Missed' = Missed
    BY <1>1 DEF Missed
  <2> QED  BY <1>1, <1>4, <2>1, <2>2, <2>3, ToldStays
<1> QED  BY <1>6, <1>7, <1>8 DEF TellInv, AllTold

LEMMA FiresTells ==
    ASSUME IndexTypes, TellInv, NEW p \in Paths, Fires(p)
    PROVE  TellInv'
<1>1. UNCHANGED << disk, phase, noticed, work, byPath, status, unreported, overhung, unread >>
  BY DEF Fires, diskVars, indexVars, seenVars
<1>2. p \in DOMAIN timers /\ timers' = Without(timers, p)
  BY DEF Fires
<1>3. /\ DOMAIN timers' = DOMAIN timers \ {p}
      /\ \A x \in DOMAIN timers : x # p => timers'[x] = timers[x]
  BY <1>2 DEF Without
<1>4. QueueTyped /\ WorkIsTheHeads
  BY DEF IndexTypes, QueueInv
<1>5. timers[p] \in {"put", "unlink"}
  BY <1>2, PartialIs DEF IndexTypes, WatchTyped
<1>6. PICK r \in Requests : /\ queue' = Append(queue, r) /\ r.op # "build" /\ r.path = p
                            /\ r.op = timers[p]
  <2>1. /\ [op |-> timers[p], path |-> p] \in Requests
        /\ [op |-> timers[p], path |-> p].op = timers[p]
        /\ [op |-> timers[p], path |-> p].path = p
    BY <1>5, RequestIs
  <2> QED  BY <1>5, <2>1 DEF Fires
<1>7. phase = "on"
  BY <1>2, NothingIsPartial DEF OffIsSilent, TellInv
<1>8. OffIsSilent'
  BY <1>1, <1>7 DEF OffIsSilent
<1>9. TimersTell'
  BY <1>1, <1>3 DEF TimersTell, TellInv
<1>10. ASSUME NEW q \in Paths
       PROVE  Told(q)'
  <2>1. CASE q # p
    <3>1. Settled(q)' => Settled(q)
      BY <1>1, <1>3, <2>1 DEF Settled
    <3>2. Told(q)
      BY DEF TellInv, AllTold
    <3>3. \E s \in Requests : queue' = Append(queue, s) /\ ~(s.op # "build" /\ s.path = q)
      BY <1>6, <2>1
    <3>4. Missed' = Missed
      BY <1>1 DEF Missed
    <3> QED  BY <1>1, <1>4, <3>1, <3>2, <3>3, <3>4, ToldStays
  <2>2. CASE q = p
    <3>1. /\ NoUpdate(p)' => NoUpdate(p)
          /\ r.op # "build" /\ r.path = p =>
               /\ ~NoUpdate(p)'
               /\ \A i \in DOMAIN queue' : IsLast(i, p)' => i = Len(queue) + 1 /\ queue'[i] = r
          /\ ~(r.op # "build" /\ r.path = p) =>
               /\ NoUpdate(p) => NoUpdate(p)'
               /\ \A i \in DOMAIN queue' : IsLast(i, p)' =>
                    i \in DOMAIN queue /\ IsLast(i, p) /\ queue'[i] = queue[i]
      BY <1>4, <1>6, LongerConcerns
    <3>2. /\ ~NoUpdate(p)'
          /\ \A i \in DOMAIN queue' : IsLast(i, p)' => i = Len(queue) + 1 /\ queue'[i] = r
      BY <1>6, <3>1
    <3>3. Settled(p)' => (r.op = "put" <=> p \in DOMAIN disk)
      BY <1>1, <1>2, <1>6 DEF Settled, TimersTell, TellInv
    <3>4. UpdateTells(p)'
      BY <1>1, <3>2, <3>3 DEF UpdateTells
    <3>5. IndexTells(p)' /\ BuildTells(p)'
      BY <3>2 DEF IndexTells, BuildTells
    <3>6. PutTells(p)'
      <4> SUFFICES ASSUME PutAtWork', IsLast(1, p)'  PROVE FALSE
        BY DEF PutTells
      <4>1. PutAtWork
        BY <1>1, <1>4, <1>6, AtWorkKept
      <4>2. Len(queue) \in Nat /\ Len(queue) # 0
        BY <1>4, <4>1 DEF PutAtWork, HeadIs, QueueTyped
      <4>3. 1 = Len(queue) + 1
        BY <3>2 DEF IsLast
      <4> QED  BY <4>2, <4>3
    <3> QED  BY <2>2, <3>4, <3>5, <3>6 DEF Told
  <2> QED  BY <2>1, <2>2
<1> QED  BY <1>8, <1>9, <1>10 DEF TellInv, AllTold

LEMMA HandlerTells ==
    ASSUME IndexTypes, TellInv, HandlerReady \/ ForceReindex \/ WatcherReady
    PROVE  TellInv'
<1>1. UNCHANGED << disk, noticed, timers, work, byPath, status, unreported, overhung, unread >>
  BY DEF HandlerReady, ForceReindex, WatcherReady, EnqueueBuild, diskVars, watchVars,
         queueVars, indexVars, seenVars
<1>2. phase' # "on" => phase # "on"
  BY DEF HandlerReady, ForceReindex, WatcherReady, watchVars
<1>3. queue' = queue \/ queue' = Append(queue, [op |-> "build"])
  BY DEF HandlerReady, ForceReindex, WatcherReady, EnqueueBuild, queueVars
<1>4. QueueTyped /\ WorkIsTheHeads
  BY DEF IndexTypes, QueueInv
<1>5. queue' = queue \/ \E r \in Requests : queue' = Append(queue, r) /\ r.op = "build"
  BY <1>3, RequestIs
<1>6. ASSUME NEW q, NoUpdate(q)
      PROVE  NoUpdate(q)'
  <2>1. CASE queue' = queue
    BY <1>6, <2>1 DEF NoUpdate, Concerns
  <2>2. CASE queue' # queue
    <3>1. PICK r \in Requests : queue' = Append(queue, r) /\ r.op = "build"
      BY <1>5, <2>2
    <3>2. /\ NoUpdate(q)' => NoUpdate(q)
          /\ r.op # "build" /\ r.path = q =>
               /\ ~NoUpdate(q)'
               /\ \A i \in DOMAIN queue' : IsLast(i, q)' => i = Len(queue) + 1 /\ queue'[i] = r
          /\ ~(r.op # "build" /\ r.path = q) =>
               /\ NoUpdate(q) => NoUpdate(q)'
               /\ \A i \in DOMAIN queue' : IsLast(i, q)' =>
                    i \in DOMAIN queue /\ IsLast(i, q) /\ queue'[i] = queue[i]
      BY <1>4, <3>1, LongerConcerns
    <3> QED  BY <1>6, <3>1, <3>2
  <2> QED  BY <2>1, <2>2
<1>7. OffIsSilent'
  BY <1>1, <1>2, <1>6 DEF OffIsSilent, TellInv
<1>8. TimersTell'
  BY <1>1 DEF TimersTell, TellInv
<1>9. ASSUME NEW q \in Paths
      PROVE  Told(q)'
  <2>1. Settled(q)' => Settled(q)
    BY <1>1 DEF Settled
  <2>2. Told(q)
    BY DEF TellInv, AllTold
  <2>3. queue' = queue \/ \E r \in Requests :
               queue' = Append(queue, r) /\ ~(r.op # "build" /\ r.path = q)
    BY <1>5
  <2>4. Missed' = Missed
    BY <1>1 DEF Missed
  <2> QED  BY <1>1, <1>4, <2>1, <2>2, <2>3, <2>4, ToldStays
<1> QED  BY <1>7, <1>8, <1>9 DEF TellInv, AllTold

LEMMA StopTells ==
    ASSUME IndexTypes, TellInv, HandlerStop
    PROVE  TellInv'
<1>1. UNCHANGED << disk, queue, work, byPath, status, unread >>
  BY DEF HandlerStop, diskVars, queueVars, indexVars
<1>2. /\ noticed' = {} /\ timers' = Empty
      /\ unreported' = unreported \cup noticed \cup DOMAIN timers
      /\ overhung \subseteq overhung'
      /\ \A p \in Paths \ overhung' : NoUpdate(p)
  BY DEF HandlerStop, NoUpdate, Concerns
<1>3. QueueTyped /\ WorkIsTheHeads
  BY DEF IndexTypes, QueueInv
<1>4. OffIsSilent'
  BY <1>1, <1>2 DEF OffIsSilent, NoUpdate, Concerns
<1>5. TimersTell'
  BY <1>2, NothingIsPartial DEF TimersTell
<1>6. ASSUME NEW q \in Paths
      PROVE  Told(q)'
  <2>1. Settled(q)' => NoUpdate(q)
    BY <1>2 DEF Settled
  <2>2. Settled(q)' /\ q \notin Missed' => Settled(q) /\ q \notin Missed
    BY <1>1, <1>2 DEF Settled, Missed
  <2>3. Told(q)
    BY DEF TellInv, AllTold
  <2> QED  BY <1>1, <1>3, <2>1, <2>2, <2>3, ToldStays
<1> QED  BY <1>4, <1>5, <1>6 DEF TellInv, AllTold

(* The queue's work leaves disk and watcher alone, and takes no update but *)
(* its head.                                                               *)
LEMMA WorkIsQuiet ==
    ASSUME IndexTypes, TellInv,
           UNCHANGED << disk, noticed, timers, overhung >>, phase' # "on" => phase # "on",
           queue' = queue \/ (queue # << >> /\ queue' = Tail(queue))
    PROVE  /\ OffIsSilent' /\ TimersTell'
           /\ \A p \in Paths : UpdateTells(p)' /\ (Settled(p)' <=> Settled(p))
<1>0. QueueTyped
  BY DEF IndexTypes, QueueInv
<1>1. ASSUME NEW p \in Paths
      PROVE  /\ NoUpdate(p) => NoUpdate(p)'
             /\ \A i \in DOMAIN queue' : IsLast(i, p)' =>
                  \E j \in DOMAIN queue : IsLast(j, p) /\ queue'[i] = queue[j]
  <2>1. CASE queue' = queue
    BY <2>1 DEF NoUpdate, IsLast, Concerns
  <2>2. CASE queue # << >> /\ queue' = Tail(queue)
    <3>1. /\ NoUpdate(p) => NoUpdate(p)'
          /\ ~Concerns(1, p) /\ NoUpdate(p)' => NoUpdate(p)
          /\ Concerns(1, p) /\ NoUpdate(p)' => IsLast(1, p)
          /\ \A i \in DOMAIN queue' : IsLast(i, p)' =>
               i + 1 \in DOMAIN queue /\ IsLast(i + 1, p) /\ queue'[i] = queue[i + 1]
      BY <1>0, <2>2, ShorterConcerns
    <3> QED  BY <3>1
  <2> QED  BY <2>1, <2>2
<1>2. OffIsSilent'
  BY <1>1 DEF OffIsSilent, TellInv
<1>3. TimersTell'
  BY DEF TimersTell, TellInv
<1>4. ASSUME NEW p \in Paths
      PROVE  UpdateTells(p)' /\ (Settled(p)' <=> Settled(p))
  <2>1. Settled(p)' <=> Settled(p)
    BY DEF Settled
  <2>2. UpdateTells(p)
    BY DEF TellInv, AllTold, Told
  <2>3. UpdateTells(p)'
    BY <1>1, <2>1, <2>2 DEF UpdateTells
  <2> QED  BY <2>1, <2>3
<1> QED  BY <1>2, <1>3, <1>4

(* The head done with: what its note's index says, and the others'.        *)
LEMMA HeadDone ==
    ASSUME QueueTyped, queue # << >>, queue' = Tail(queue), NEW p, NoUpdate(p)'
    PROVE  /\ Head(queue).op = "build" \/ Head(queue).path # p => NoUpdate(p)
           /\ Head(queue).op # "build" /\ Head(queue).path = p => IsLast(1, p)
<1>1. /\ NoUpdate(p) => NoUpdate(p)'
      /\ ~Concerns(1, p) /\ NoUpdate(p)' => NoUpdate(p)
      /\ Concerns(1, p) /\ NoUpdate(p)' => IsLast(1, p)
      /\ \A i \in DOMAIN queue' : IsLast(i, p)' =>
           i + 1 \in DOMAIN queue /\ IsLast(i + 1, p) /\ queue'[i] = queue[i + 1]
  BY ShorterConcerns
<1>2. Head(queue) = queue[1]
  BY DEF QueueTyped
<1> QED  BY <1>1, <1>2 DEF Concerns

LEMMA BuildReadTells ==
    ASSUME IndexTypes, TellInv, BuildWalks \/ BuildReads
    PROVE  TellInv'
<1>1. /\ UNCHANGED << disk, phase, noticed, timers, queue, overhung, byPath, status >>
      /\ HeadIs("build")
  BY DEF BuildWalks, BuildReads, diskVars, watchVars, indexVars
<1>2. /\ OffIsSilent' /\ TimersTell'
      /\ \A p \in Paths : UpdateTells(p)' /\ (Settled(p)' <=> Settled(p))
  BY <1>1, WorkIsQuiet
<1>3. ASSUME NEW q \in Paths
      PROVE  IndexTells(q)' /\ BuildTells(q)' /\ PutTells(q)'
  <2>1. ~PutAtWork'
    BY <1>1 DEF PutAtWork, HeadIs
  <2>2. PutTells(q)'
    BY <2>1 DEF PutTells
  <2>3. CASE BuildWalks
    <3>0. PICK missed \in SUBSET DOMAIN disk :
              /\ work' = [toRead |-> DOMAIN disk \ missed, notes |-> Empty]
              /\ unread' = missed \cup (unread \cap DOMAIN disk)
      BY <2>3 DEF BuildWalks
    <3>1. /\ work' # << >> /\ work'.toRead = DOMAIN disk \ missed /\ work'.notes = Empty
          /\ missed \subseteq Missed'
      BY <3>0 DEF Missed
    <3>2. BuildAtWork'
      BY <1>1, <3>1 DEF BuildAtWork, HeadIs
    <3>3. q \notin Missed' => q \in work'.toRead \/ Agrees(work.notes, q)'
      <4>1. q \in DOMAIN disk /\ q \notin Missed' => q \in work'.toRead
        BY <3>1
      <4>2. DOMAIN work'.notes = {}
        BY <3>1, NothingIsPartial
      <4>3. q \notin DOMAIN disk => Agrees(work.notes, q)'
        BY <1>1, <4>2 DEF Agrees
      <4> QED  BY <4>1, <4>3
    <3> QED  BY <2>2, <3>2, <3>3 DEF IndexTells, BuildTells
  <2>4. CASE BuildReads
    <3>0. PICK p : p = Min(work.toRead)
      OBVIOUS
    <3>1. /\ work # << >> /\ work.toRead # {}
          /\ unreported' = unreported \ {p}
          /\ unread' \ {p} = unread \ {p}
      BY <2>4, <3>0 DEF BuildReads
    <3>2. /\ work' # << >> /\ work'.toRead = work.toRead \ {p}
          /\ work'.notes = With(work.notes, p, disk[p]) \/ work'.notes = work.notes
          /\ p \notin unread' => work'.notes = IF p \in DOMAIN disk
                                               THEN With(work.notes, p, disk[p])
                                               ELSE work.notes
      BY <2>4, <3>0 DEF BuildReads
    <3>3. BuildAtWork /\ BuildAtWork'
      BY <1>1, <3>1, <3>2 DEF BuildAtWork, HeadIs
    <3>4. BuildHasRead
      BY <3>3 DEF IndexTypes, WorkIsTheHeads, BuildAtWork, HeadIs
    <3>5. p \in work.toRead /\ p \notin DOMAIN work.notes
      <4>1. p \in work.toRead
        BY <3>0, <3>1, <3>4, MinIsThere, FsIndexAssumption DEF BuildHasRead
      <4> QED  BY <3>4, <4>1 DEF BuildHasRead
    <3>6. BuildTells(q)'
      <4> SUFFICES ASSUME q \notin Missed', Settled(q)', NoUpdate(q)'
                   PROVE  q \in work'.toRead \/ Agrees(work.notes, q)'
        BY DEF BuildTells
      <4>1. CASE q = p
        BY <1>1, <3>2, <3>5, <4>1 DEF Agrees, With, Missed
      <4>2. CASE q # p
        <5>1. q \notin Missed /\ Settled(q) /\ NoUpdate(q)
          BY <1>1, <1>2, <3>1, <4>2 DEF NoUpdate, Concerns, Missed
        <5>2. q \in work.toRead \/ Agrees(work.notes, q)
          BY <3>3, <5>1 DEF TellInv, AllTold, Told, BuildTells
        <5>3. CASE q \in work.toRead
          BY <3>2, <4>2, <5>3
        <5>4. CASE Agrees(work.notes, q)
          <6>1. (q \in DOMAIN work'.notes <=> q \in DOMAIN work.notes)
                /\ (q \in DOMAIN work.notes => work'.notes[q] = work.notes[q])
            BY <3>2, <4>2 DEF With
          <6> QED  BY <1>1, <5>4, <6>1 DEF Agrees
        <5> QED  BY <5>2, <5>3, <5>4
      <4> QED  BY <4>1, <4>2
    <3> QED  BY <2>2, <3>3, <3>6 DEF IndexTells
  <2> QED  BY <2>3, <2>4
<1> QED  BY <1>2, <1>3 DEF TellInv, AllTold, Told

LEMMA BuildEndTells ==
    ASSUME IndexTypes, TellInv, BuildSwaps \/ BuildFails
    PROVE  TellInv'
<1>1. /\ UNCHANGED << disk, noticed, timers, overhung, unreported, unread >>
      /\ HeadIs("build") /\ work # << >> /\ work' = << >>
      /\ queue' = Tail(queue) /\ queue # << >> /\ (phase' # "on" => phase # "on")
  BY DEF BuildSwaps, BuildFails, BuildEnds, diskVars, seenVars, HeadIs
<1>2. /\ OffIsSilent' /\ TimersTell'
      /\ \A p \in Paths : UpdateTells(p)' /\ (Settled(p)' <=> Settled(p))
  BY <1>1, WorkIsQuiet
<1>3. ASSUME NEW q \in Paths
      PROVE  IndexTells(q)' /\ BuildTells(q)' /\ PutTells(q)'
  <2>1. ~PutAtWork' /\ ~BuildAtWork'
    BY <1>1 DEF PutAtWork, BuildAtWork
  <2>2. PutTells(q)' /\ BuildTells(q)'
    BY <2>1 DEF PutTells, BuildTells
  <2>3. CASE BuildFails
    <3>1. status' # "ready"
      BY <2>3 DEF BuildFails
    <3> QED  BY <2>2, <3>1 DEF IndexTells
  <2>4. CASE BuildSwaps
    <3>1. byPath' = work.notes /\ work.toRead = {}
      BY <2>4 DEF BuildSwaps
    <3>2. ASSUME q \notin Missed', Settled(q)', NoUpdate(q)'
          PROVE  Agrees(byPath, q)'
      <4>1. /\ Head(queue).op = "build" \/ Head(queue).path # q => NoUpdate(q)
            /\ Head(queue).op # "build" /\ Head(queue).path = q => IsLast(1, q)
        BY <1>1, <3>2, HeadDone DEF IndexTypes, QueueInv
      <4>2. q \notin Missed /\ Settled(q) /\ NoUpdate(q) /\ BuildAtWork
        BY <1>1, <1>2, <3>2, <4>1 DEF HeadIs, BuildAtWork, Missed
      <4>3. Agrees(work.notes, q)
        BY <3>1, <4>2 DEF TellInv, AllTold, Told, BuildTells
      <4> QED  BY <1>1, <3>1, <4>3 DEF Agrees
    <3> QED  BY <2>2, <3>2 DEF IndexTells
  <2> QED  BY <2>3, <2>4
<1> QED  BY <1>2, <1>3 DEF TellInv, AllTold, Told

(* An update done with, its head's note agreeing if that was the last.     *)
LEMMA UpdateTaken ==
    ASSUME IndexTypes, TellInv,
           UNCHANGED << disk, phase, noticed, timers, overhung, status, unreported >>,
           unread' \ {Head(queue).path} = unread \ {Head(queue).path},
           queue # << >>, queue' = Tail(queue), work' = << >>, Head(queue).op # "build",
           \A q \in Paths \ {Head(queue).path} : Agrees(byPath, q) => Agrees(byPath, q)',
           \A q \in Paths \cap {Head(queue).path} :
               Settled(q) /\ IsLast(1, q) /\ status = "ready" /\ q \notin unread'
                   => Agrees(byPath, q)'
    PROVE  TellInv'
<1>1. /\ OffIsSilent' /\ TimersTell'
      /\ \A q \in Paths : UpdateTells(q)' /\ (Settled(q)' <=> Settled(q))
  BY WorkIsQuiet
<1>2. ASSUME NEW q \in Paths
      PROVE  IndexTells(q)' /\ BuildTells(q)' /\ PutTells(q)'
  <2>1. ~PutAtWork' /\ ~BuildAtWork' /\ ~BuildAtWork
    BY DEF PutAtWork, BuildAtWork, HeadIs
  <2>2. PutTells(q)' /\ BuildTells(q)'
    BY <2>1 DEF PutTells, BuildTells
  <2>3. ASSUME q \notin Missed', Settled(q)', NoUpdate(q)', status' = "ready"
        PROVE  Agrees(byPath, q)'
    <3>1. /\ Head(queue).op = "build" \/ Head(queue).path # q => NoUpdate(q)
          /\ Head(queue).op # "build" /\ Head(queue).path = q => IsLast(1, q)
      BY <2>3, HeadDone DEF IndexTypes, QueueInv
    <3>2. Settled(q) /\ status = "ready" /\ q \notin unread'
      BY <1>1, <2>3 DEF Missed
    <3>3. CASE Head(queue).path = q
      BY <3>1, <3>2, <3>3
    <3>4. CASE Head(queue).path # q
      <4>0. q \notin Missed
        BY <2>3, <3>4 DEF Missed
      <4>1. Agrees(byPath, q)
        BY <2>1, <3>1, <3>2, <3>4, <4>0 DEF TellInv, AllTold, Told, IndexTells
      <4> QED  BY <3>4, <4>1
    <3> QED  BY <3>3, <3>4
  <2> QED  BY <2>2, <2>3 DEF IndexTells
<1> QED  BY <1>1, <1>2 DEF TellInv, AllTold, Told

(* The last update says whether its note is there.                         *)
LEMMA LastTells ==
    ASSUME IndexTypes, TellInv, NEW q \in Paths, Settled(q), IsLast(1, q), queue # << >>
    PROVE  Head(queue).op = "put" <=> q \in DOMAIN disk
<1>1. Head(queue) = queue[1] /\ 1 \in DOMAIN queue
  BY DEF IndexTypes, QueueInv, QueueTyped
<1> QED  BY <1>1 DEF TellInv, AllTold, Told, UpdateTells

LEMMA PutReadTells ==
    ASSUME IndexTypes, TellInv, PutReads
    PROVE  TellInv'
<1>0. PICK p : p = Head(queue).path
  OBVIOUS
<1>1. /\ UNCHANGED << disk, phase, noticed, timers, overhung, byPath, status >>
      /\ queue # << >> /\ Head(queue).op = "put" /\ work = << >>
  BY DEF PutReads, diskVars, watchVars, indexVars, HeadIs
<1>2. CASE /\ status = "ready" /\ p \in DOMAIN disk
           /\ queue' = queue /\ unreported' = unreported \ {p} /\ unread' = unread \ {p}
           /\ work' = [notes |-> With(Empty, p, disk[p])]
  <2>1. /\ queue' = queue /\ unreported' = unreported \ {p} /\ unread' = unread \ {p}
        /\ work' = [notes |-> With(Empty, p, disk[p])] /\ work' # << >>
    BY <1>2
  <2>2. /\ OffIsSilent' /\ TimersTell'
        /\ \A q \in Paths : UpdateTells(q)' /\ (Settled(q)' <=> Settled(q))
    BY <1>1, <2>1, WorkIsQuiet
  <2>3. ~BuildAtWork /\ ~BuildAtWork'
    BY <1>1, <2>1 DEF BuildAtWork, HeadIs
  <2>4. Head(queue) = queue[1] /\ 1 \in DOMAIN queue
    BY <1>1 DEF IndexTypes, QueueInv, QueueTyped
  <2>5. ASSUME NEW q \in Paths
        PROVE  IndexTells(q)' /\ BuildTells(q)' /\ PutTells(q)'
    <3>1. BuildTells(q)'
      BY <2>3 DEF BuildTells
    <3>2. PutTells(q)'
      <4> SUFFICES ASSUME IsLast(1, q)'
                   PROVE  (q \in DOMAIN disk /\ work.notes[q] = disk[q])'
        BY DEF PutTells
      <4>1. q = p
        BY <1>0, <2>1, <2>4 DEF IsLast, Concerns
      <4>2. work'.notes[p] = disk[p]
        BY <2>1 DEF With
      <4> QED  BY <1>1, <1>2, <4>1, <4>2
    <3>3. IndexTells(q)'
      <4> SUFFICES ASSUME q \notin Missed', Settled(q)', NoUpdate(q)', status' = "ready"
                   PROVE  Agrees(byPath, q)'
        BY DEF IndexTells
      <4>1. NoUpdate(q)
        BY <2>1 DEF NoUpdate, Concerns
      <4>2. q # p
        BY <1>0, <1>1, <2>4, <4>1 DEF NoUpdate, Concerns
      <4>3. q \notin Missed
        BY <2>1, <4>2 DEF Missed
      <4>4. Agrees(byPath, q)
        BY <1>1, <2>2, <2>3, <4>1, <4>3 DEF TellInv, AllTold, Told, IndexTells
      <4> QED  BY <1>1, <4>4 DEF Agrees
    <3> QED  BY <3>1, <3>2, <3>3
  <2> QED  BY <2>2, <2>5 DEF TellInv, AllTold, Told
<1>3. CASE /\ unread' = IF status = "ready" /\ p \in DOMAIN disk THEN unread \cup {p}
                        ELSE unread
           /\ Done /\ unreported' = unreported
  <2>1. queue' = Tail(queue) /\ work' = << >> /\ unreported' = unreported
        /\ unread' \ {p} = unread \ {p}
    BY <1>3 DEF Done
  <2>2. \A q \in Paths : Agrees(byPath, q) => Agrees(byPath, q)'
    BY <1>1 DEF Agrees
  <2>3. ASSUME NEW q \in Paths \cap {p}, Settled(q), IsLast(1, q), status = "ready",
               q \notin unread'
        PROVE  FALSE
    <3>1. q \in DOMAIN disk
      BY <1>1, <2>3, LastTells
    <3> QED  BY <1>3, <2>3, <3>1
  <2> QED  BY <1>0, <1>1, <2>1, <2>2, <2>3, UpdateTaken
<1> QED  BY <1>0, <1>2, <1>3 DEF PutReads

LEMMA PutApplyTells ==
    ASSUME IndexTypes, TellInv, PutApplies
    PROVE  TellInv'
<1>0. PICK p : p = Head(queue).path
  OBVIOUS
<1>1. /\ UNCHANGED << disk, phase, noticed, timers, overhung, status, unreported >>
      /\ queue # << >> /\ Head(queue).op = "put" /\ work # << >>
      /\ queue' = Tail(queue) /\ work' = << >>
      /\ byPath' = With(byPath, p, work.notes[p]) /\ unread' = unread
  BY <1>0 DEF PutApplies, Becomes, Done, diskVars, watchVars, seenVars, HeadIs
<1>2. DOMAIN byPath' = DOMAIN byPath \cup {p} /\ byPath'[p] = work.notes[p]
      /\ \A x \in DOMAIN byPath : x # p => byPath'[x] = byPath[x]
  BY <1>1 DEF With
<1>3. \A q \in Paths \ {p} : Agrees(byPath, q) => Agrees(byPath, q)'
  BY <1>1, <1>2 DEF Agrees
<1>4. ASSUME NEW q \in Paths \cap {p}, Settled(q), IsLast(1, q)
      PROVE  Agrees(byPath, q)'
  <2>1. PutAtWork
    BY <1>1 DEF PutAtWork, HeadIs
  <2>2. q \in DOMAIN disk /\ work.notes[q] = disk[q]
    BY <1>4, <2>1 DEF TellInv, AllTold, Told, PutTells
  <2> QED  BY <1>1, <1>2, <2>2 DEF Agrees
<1> QED  BY <1>0, <1>1, <1>3, <1>4, UpdateTaken

LEMMA UnlinkTells ==
    ASSUME IndexTypes, TellInv, Unlinks
    PROVE  TellInv'
<1>0. PICK p : p = Head(queue).path
  OBVIOUS
<1>1. /\ UNCHANGED << disk, phase, noticed, timers, overhung, status, unreported >>
      /\ queue # << >> /\ Head(queue).op = "unlink"
      /\ queue' = Tail(queue) /\ work' = << >>
      /\ byPath' = IF status = "ready" /\ p \in DOMAIN byPath THEN Without(byPath, p) ELSE byPath
      /\ unread' \ {p} = unread \ {p}
  BY <1>0 DEF Unlinks, Becomes, Done, diskVars, watchVars, seenVars, indexVars, HeadIs
<1>2. \A q \in Paths \ {p} : Agrees(byPath, q) => Agrees(byPath, q)'
  BY <1>1 DEF Agrees, Without
<1>3. ASSUME NEW q \in Paths \cap {p}, Settled(q), IsLast(1, q), status = "ready"
      PROVE  Agrees(byPath, q)'
  <2>1. q \notin DOMAIN disk
    BY <1>1, <1>3, LastTells
  <2> QED  BY <1>1, <1>3, <2>1 DEF Agrees, Without
<1> QED  BY <1>0, <1>1, <1>2, <1>3, UpdateTaken

-----------------------------------------------------------------------------
(* The index, its queue and its watcher together.                          *)
FsIndexInv == IndexTypes /\ TellInv

LEMMA FsIndexInvInit == IndexInit => FsIndexInv
<1> SUFFICES ASSUME IndexInit  PROVE TellInv
  BY TypesInit DEF FsIndexInv
<1>1. OffIsSilent /\ TimersTell
  BY NothingIsPartial DEF IndexInit, OffIsSilent, TimersTell, NoUpdate
<1>2. ASSUME NEW p \in Paths
      PROVE  Told(p)
  BY DEF IndexInit, Told, UpdateTells, IndexTells, BuildTells, PutTells, BuildAtWork,
         PutAtWork, HeadIs
<1> QED  BY <1>1, <1>2 DEF TellInv, AllTold

LEMMA FsIndexInvStep == FsIndexInv /\ [IndexNext]_fsIndexVars => FsIndexInv'
<1> SUFFICES ASSUME FsIndexInv, [IndexNext]_fsIndexVars  PROVE FsIndexInv'
  OBVIOUS
<1>1. CASE IndexNext
  <2>1. IndexTypes /\ TellInv
    BY DEF FsIndexInv
  <2>2. IndexTypes'
    BY <1>1, <2>1, TypesStep
  <2>3. CASE \E p \in Paths : Changes(p) \/ Reports(p) \/ Fires(p)
    BY <2>1, <2>2, <2>3, ChangesTells, ReportsTells, FiresTells DEF FsIndexInv
  <2>4. CASE HandlerReady \/ ForceReindex \/ WatcherReady
    BY <2>1, <2>2, <2>4, HandlerTells DEF FsIndexInv
  <2>5. CASE HandlerStop
    BY <2>1, <2>2, <2>5, StopTells DEF FsIndexInv
  <2>6. CASE BuildWalks \/ BuildReads
    BY <2>1, <2>2, <2>6, BuildReadTells DEF FsIndexInv
  <2>7. CASE BuildSwaps \/ BuildFails
    BY <2>1, <2>2, <2>7, BuildEndTells DEF FsIndexInv
  <2>8. CASE PutReads
    BY <2>1, <2>2, <2>8, PutReadTells DEF FsIndexInv
  <2>9. CASE PutApplies
    BY <2>1, <2>2, <2>9, PutApplyTells DEF FsIndexInv
  <2>10. CASE Unlinks
    BY <2>1, <2>2, <2>10, UnlinkTells DEF FsIndexInv
  <2> QED  BY <1>1, <2>3, <2>4, <2>5, <2>6, <2>7, <2>8, <2>9, <2>10 DEF IndexNext, QueueWorks
<1>2. CASE UNCHANGED fsIndexVars
  <2>1. UNCHANGED << disk, changes, phase, noticed, timers, queue, work, builds, inFlightBuild,
                     indexVars, unreported, overhung, unread >>
    BY <1>2 DEF fsIndexVars, diskVars, watchVars, queueVars, seenVars
  <2>2. IndexIsSound' /\ IndexTyped'
    BY <2>1, IndexStays DEF FsIndexInv, IndexTypes
  <2>3. /\ DiskTyped' /\ WatchTyped' /\ BuildsTyped' /\ SeenTyped'
        /\ QueueInv'
    BY <2>1 DEF FsIndexInv, IndexTypes, DiskTyped, WatchTyped, BuildsTyped, SeenTyped,
       QueueInv, QueueTyped, OneBuild, InFlightTells
  <2>4. WorkIsTheHeads'
    BY <2>1 DEF FsIndexInv, IndexTypes, WorkIsTheHeads, BuildHasRead, PutHasRead, indexVars
  <2>5. OffIsSilent' /\ TimersTell'
    BY <2>1 DEF FsIndexInv, TellInv, OffIsSilent, TimersTell, NoUpdate, Concerns
  <2>6. ASSUME NEW p \in Paths
        PROVE  Told(p)'
    <3>1. Told(p) /\ QueueTyped /\ WorkIsTheHeads
      BY DEF FsIndexInv, TellInv, AllTold, IndexTypes, QueueInv
    <3>2. Settled(p)' => Settled(p)
      BY <2>1 DEF Settled
    <3>3. Missed' = Missed
      BY <2>1 DEF Missed
    <3> QED  BY <2>1, <3>1, <3>2, <3>3, ToldStays DEF indexVars
  <2> QED  BY <2>2, <2>3, <2>4, <2>5, <2>6 DEF FsIndexInv, IndexTypes, TellInv, AllTold
<1> QED  BY <1>1, <1>2

LEMMA FsIndexInvHolds == IndexSpec => []FsIndexInv
  BY FsIndexInvInit, FsIndexInvStep, PTL DEF IndexSpec

(* The index, its queue and its watcher are what IndexTypeOK says.         *)
THEOREM IndexTypeCorrect == IndexSpec => []IndexTypeOK
<1>1. FsIndexInv => IndexTypeOK
  BY TypesAre DEF FsIndexInv
<1> QED  BY <1>1, FsIndexInvHolds, PTL

(* A quiet index agrees with the disk on every note but those in one of    *)
(* the three gaps: changed while nobody watched, updated across a stop, or *)
(* not listed or read when they were to be.                                *)
THEOREM IndexComesInSync == IndexSpec => []InSync
<1>1. FsIndexInv => InSync
  <2> SUFFICES ASSUME FsIndexInv, queue = << >>, noticed = {}, timers = Empty,
                      phase = "on", status = "ready",
                      NEW p \in Paths \ Gaps
               PROVE  Same(p)
    BY DEF InSync
  <2>1. Settled(p) /\ p \notin Missed
    BY NothingIsPartial DEF Settled, Gaps, Missed
  <2>2. NoUpdate(p) /\ ~BuildAtWork
    BY DEF NoUpdate, BuildAtWork, HeadIs
  <2>3. Agrees(byPath, p)
    BY <2>1, <2>2 DEF FsIndexInv, TellInv, AllTold, Told, IndexTells
  <2> QED  BY <2>3 DEF Agrees, Same
<1> QED  BY <1>1, FsIndexInvHolds, PTL

(* Updated note by note, the index resolves as a rebuilt one would.        *)
THEOREM UpdatesAmountToRebuild == IndexSpec => []EquivalentToRebuild
<1>1. FsIndexInv => EquivalentToRebuild
  <2> SUFFICES ASSUME FsIndexInv  PROVE EquivalentToRebuild
    OBVIOUS
  <2>1. IndexIsSound /\ byPath \in Partial(Paths, Links)
    BY DEF FsIndexInv, IndexTypes, IndexTyped
  <2>2. status = "ready" /\ ~twinned =>
          byJdId = JdBuilt(byPath) /\ backlinks = BacklinksOf(byPath, JdBuilt(byPath))
    BY <2>1 DEF IndexIsSound
  <2>3. \A id \in DOMAIN byJdId : byJdId[id] \in DOMAIN byPath
    BY <2>1 DEF IndexIsSound, JdSound
  <2>4. \A t \in DOMAIN backlinks : {t} \cup backlinks[t] \subseteq DOMAIN byPath
    <3>1. CASE status = "ready"
      <4>1. JdSound(byJdId, byPath) /\ backlinks = BacklinksOf(byPath, byJdId)
        BY <2>1, <3>1 DEF IndexIsSound
      <4> QED  BY <2>1, <4>1, BacklinksAre
    <3>2. CASE status # "ready"
      <4>1. DOMAIN backlinks = {}
        BY <2>1, <3>2, NothingIsPartial DEF IndexIsSound
      <4> QED  BY <4>1
    <3> QED  BY <3>1, <3>2
  <2> QED  BY <2>2, <2>3, <2>4 DEF EquivalentToRebuild, NoDangling
<1> QED  BY <1>1, FsIndexInvHolds, PTL
=============================================================================
