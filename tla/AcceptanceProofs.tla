--------------------------- MODULE AcceptanceProofs ---------------------------
(***************************************************************************)
(* Proofs about the accepted baselines, for any paths, edits and rekeys:   *)
(* where operations do not overlap an acceptance is always on file and     *)
(* memory and files agree; an accept takes what was read; a revert         *)
(* destroys nothing; an agent's edit waits for review unless it raced; and *)
(* the baseline saved last follows its note.                               *)
(***************************************************************************)
EXTENDS Acceptance, TLAPS

-----------------------------------------------------------------------------
(* The store.                                                              *)

Slots == Baselines \cup {NoBaseline}

StoreTypeOK ==
    /\ cache \in [Paths -> Slots]
    /\ blobs \in [Paths -> Slots]
    /\ save \in [Savers -> {Idle} \cup
                           [stage : {"writing", "landed"}, path : Paths, baseline : Baselines]]
    /\ rekey \in [Rekeys -> {Idle} \cup
                            [stage : {"writing", "removing"}, from : Paths, to : Paths,
                             moved : Slots]]
    /\ unsure \subseteq Paths

Saving(s, p) == save[s] # Idle /\ save[s].path = p
Moving(k, p) == rekey[k] # Idle /\ p \in {rekey[k].from, rekey[k].to}

(* Operations that meet are unsure of all they touch, and an operation is  *)
(* unsure of all it touches or of nothing.                                 *)
MeetingsUnsure ==
    /\ \A s, t \in Savers : \A p \in Paths :
          s # t /\ Saving(s, p) /\ Saving(t, p) => p \in unsure
    /\ \A s \in Savers, k \in Rekeys : \A p \in Paths :
          Saving(s, p) /\ Moving(k, p) => p \in unsure
    /\ \A k, l \in Rekeys : \A p \in Paths :
          k # l /\ Moving(k, p) /\ Moving(l, p) => p \in unsure
    /\ \A k \in Rekeys :
          rekey[k] # Idle => rekey[k].from # rekey[k].to
                             /\ (rekey[k].from \in unsure <=> rekey[k].to \in unsure)

(* What is in memory and on file of a path that is sure, by what is under  *)
(* way at it.                                                              *)
Untouched(p) == (\A s \in Savers : ~Saving(s, p)) /\ (\A k \in Rekeys : ~Moving(k, p))
SavedTo(s, p) ==
    IF save[s].stage = "writing" THEN cache[p] = blobs[p] ELSE blobs[p] = save[s].baseline
MovedFrom(k, p) ==
    /\ cache[p] = NoBaseline
    /\ rekey[k].stage = "writing" => blobs[p] = rekey[k].moved
MovedTo(k, p) ==
    /\ cache[p] = rekey[k].moved
    /\ blobs[p] = IF rekey[k].stage = "writing" THEN NoBaseline ELSE rekey[k].moved

SureAt(p) ==
    /\ Untouched(p) => cache[p] = blobs[p]
    /\ \A s \in Savers : Saving(s, p) => SavedTo(s, p)
    /\ \A k \in Rekeys : rekey[k] # Idle =>
          (rekey[k].from = p => MovedFrom(k, p)) /\ (rekey[k].to = p => MovedTo(k, p))

SurePlaces == \A p \in Paths \ unsure : SureAt(p)

StoreInv == StoreTypeOK /\ MeetingsUnsure /\ SurePlaces

-----------------------------------------------------------------------------
(* Those who work on the note.                                             *)

Bases == Contents \cup Slots
PlainStages == {"reading", "autoReading", "ending"}
ReadStages == HasRead \cup {"stamped", "saving"}
PlainJobs == [stage : PlainStages, path : Paths, base : Bases]
ReadJobs ==
    [stage : ReadStages, path : Paths, base : Bases, read : Contents, since : SUBSET Edits]

Stages == {"none", "landed", "stamped", "stamped late", "filed", "filed late", "aged",
           "typed", "saved", "lost"}

Jobs == {NoJob} \cup PlainJobs \cup ReadJobs

EditTypeOK ==
    /\ edit \in [Edits -> [stage : Stages, path : Paths]]
    /\ \A e \in AgentEdits : edit[e].stage \notin {"typed", "saved"}
    /\ \A e \in HumanEdits : edit[e].stage \in {"none", "typed", "saved", "lost"}

(* Only a revert quarantines and replaces, and only the others save.       *)
Suits(a, j) ==
    /\ j \in Jobs
    /\ a # "revert" => j.stage \notin {"keeping", "writing"}
    /\ a = "revert" =>
          /\ j.stage \notin {"judging", "autoJudging", "read", "folded", "stamped", "saving"}
          /\ j # NoJob /\ j.stage # "ending" => j.base \in Baselines

WorkTypeOK ==
    /\ EditTypeOK
    /\ job \in [Actors -> Jobs]
    /\ \A a \in Actors : Suits(a, job[a])

(* What an accept is about to take differs from what was read at the click *)
(* in bare values only.                                                    *)
AcceptHolds ==
    LET j == job["accept"]
    IN  /\ j.stage \in {"read", "folded", "stamped", "saving"} => j.base \in Contents
        /\ j.stage = "read" => j.base = j.read
        /\ j.stage = "folded" => j.read.edits \ j.base.edits \subseteq ValueOnly
        /\ j.stage = "saving" =>
              save["accept"].baseline.content.edits \ j.base.edits \subseteq ValueOnly

(* What is in the note came since a revert read it, or is being kept.      *)
RevertHolds ==
    LET j == job["revert"]
    IN  /\ j.stage = "keeping" => note.edits \subseteq j.read.edits \cup j.since
        /\ j.stage = "writing" => note.edits \subseteq kept \cup j.since

(* What is in the note was read by who is to advance its baseline, or is   *)
(* known to have come since.                                               *)
ReadersKnow ==
    \A a \in Savers : job[a].stage \in HasRead =>
        note.edits \subseteq job[a].read.edits \cup job[a].since \cup raced

(* A baseline is stamped earlier than the agents' records to come, and it  *)
(* has every other edit of theirs in the note that did not race.           *)
Covers(b) ==
    \A e \in AgentEdits :
        /\ edit[e].stage \in {"none", "landed"} => e \in b.later
        /\ e \in note.edits /\ Stamped(e) => e \in b.content.edits \cup b.later \cup raced

BaselinesCover ==
    /\ \A p \in Paths : cache[p] # NoBaseline => Covers(cache[p])
    /\ \A p \in Paths : blobs[p] # NoBaseline => Covers(blobs[p])
    /\ \A s \in Savers : save[s] # Idle => Covers(save[s].baseline)
    /\ \A k \in Rekeys : rekey[k] # Idle /\ rekey[k].moved # NoBaseline => Covers(rekey[k].moved)

AcceptanceInv ==
    /\ TypeOK /\ WorkTypeOK /\ StoreInv
    /\ AcceptHolds /\ RevertHolds /\ NothingIsDestroyed
    /\ ReadersKnow /\ BaselinesCover

-----------------------------------------------------------------------------
(* The store, operation by operation.                                      *)

LEMMA StoreStarts ==
    ASSUME NEW files \in [Paths -> Slots], StoreInit(files)
    PROVE  StoreInv
  BY DEF StoreInit, StoreInv, StoreTypeOK, MeetingsUnsure, SurePlaces, SureAt, Untouched, SavedTo,
         MovedFrom, MovedTo, Saving, Moving, Idle

(* An operation that begins meets nothing, or is unsure with all there is. *)
LEMMA MeetsOrNot ==
    ASSUME NEW S
    PROVE  \/ /\ Meets(S) = {}
              /\ \A p \in S : /\ p \notin unsure
                              /\ \A s \in Savers : ~Saving(s, p)
                              /\ \A k \in Rekeys : ~Moving(k, p)
           \/ /\ S \subseteq Meets(S)
              /\ \A p : /\ \A s \in Savers : Saving(s, p) => p \in Meets(S)
                        /\ \A k \in Rekeys : Moving(k, p) => p \in Meets(S)
<1>1. ASSUME NEW p
      PROVE  p \in Touched <=> (\E s \in Savers : Saving(s, p)) \/ (\E k \in Rekeys : Moving(k, p))
  BY Zenon DEF Touched, Saving, Moving
<1> QED  BY <1>1 DEF Meets

LEMMA SetBeginsKeeps ==
    ASSUME StoreInv, NEW s \in Savers, NEW p \in Paths, NEW b \in Baselines, SetBegins(s, p, b)
    PROVE  StoreInv'
<1> USE DEF StoreInv
<1>1. StoreTypeOK'
  BY DEF StoreTypeOK, SetBegins, Meets, Touched, Idle
<1>2. /\ \A t \in Savers \ {s} : save'[t] = save[t]
      /\ save'[s] = [stage |-> "writing", path |-> p, baseline |-> b]
      /\ save[s] = Idle /\ save'[s] # Idle /\ save'[s].path = p /\ save'[s].stage = "writing"
  BY DEF SetBegins, StoreTypeOK, Idle
<1>3. /\ \A t \in Savers : \A q : Saving(t, q)' <=> (t # s /\ Saving(t, q)) \/ (t = s /\ q = p)
      /\ \A k \in Rekeys : \A q : Moving(k, q)' <=> Moving(k, q)
  BY <1>2 DEF SetBegins, Saving, Moving
<1>4. unsure' = unsure \cup Meets({p})
  BY DEF SetBegins
<1>5. MeetingsUnsure'
  <2>1. CASE Meets({p}) = {} /\ (\A t \in Savers : ~Saving(t, p)) /\ (\A k \in Rekeys : ~Moving(k, p))
    BY <1>2, <1>3, <1>4, <2>1 DEF MeetingsUnsure, SetBegins
  <2>2. CASE /\ p \in Meets({p})
             /\ \A q : /\ \A t \in Savers : Saving(t, q) => q \in Meets({p})
                       /\ \A k \in Rekeys : Moving(k, q) => q \in Meets({p})
    <3>1. \A k \in Rekeys : rekey[k] # Idle => Moving(k, rekey[k].from) /\ Moving(k, rekey[k].to)
      BY DEF Moving
    <3> QED  BY <1>2, <1>3, <1>4, <2>2, <3>1 DEF MeetingsUnsure, SetBegins
  <2> QED  BY <2>1, <2>2, MeetsOrNot
<1>6. SurePlaces'
  <2> SUFFICES ASSUME NEW q \in Paths \ unsure' PROVE SureAt(q)'
    BY DEF SurePlaces
  <2>1. SureAt(q) /\ UNCHANGED << cache, blobs, rekey >>
    BY <1>4 DEF SetBegins, SurePlaces
  <2>2. CASE q = p
    <3>1. Untouched(p)
      BY <1>4, <2>2, MeetsOrNot DEF Untouched
    <3>2. \A t \in Savers : Saving(t, p)' => t = s
      BY <1>3, <3>1 DEF Untouched
    <3>3. \A k \in Rekeys : rekey[k] # Idle => rekey[k].from # p /\ rekey[k].to # p
      BY <3>1 DEF Untouched, Moving
    <3> QED  BY <1>2, <1>3, <2>1, <2>2, <3>1, <3>2, <3>3 DEF SureAt, SavedTo, Untouched
  <2>3. CASE q # p
    <3>1. \A t \in Savers : Saving(t, q)' => Saving(t, q) /\ save'[t] = save[t]
      BY <1>2, <1>3, <2>3
    <3>2. Untouched(q)' => Untouched(q)
      BY <1>2, <1>3, <2>3 DEF Untouched, Saving
    <3> QED  BY <2>1, <3>1, <3>2 DEF SureAt, SavedTo, MovedFrom, MovedTo
  <2> QED  BY <2>2, <2>3
<1> QED  BY <1>1, <1>5, <1>6

LEMMA SetLandsKeeps ==
    ASSUME StoreInv, NEW s \in Savers, SetLands(s)
    PROVE  StoreInv'
<1> USE DEF StoreInv
<1>1. StoreTypeOK'
  BY DEF StoreTypeOK, Slots, SetLands, Idle
<1>2. MeetingsUnsure'
  BY DEF StoreTypeOK, MeetingsUnsure, SetLands, Saving, Moving, Idle
<1>3. SurePlaces'
  BY DEF StoreTypeOK, MeetingsUnsure, SurePlaces, SetLands, SureAt, Untouched, SavedTo,
         MovedFrom, MovedTo, Saving, Moving, Idle
<1> QED  BY <1>1, <1>2, <1>3

LEMMA SetReturnsKeeps ==
    ASSUME StoreInv, NEW s \in Savers, SetReturns(s)
    PROVE  StoreInv'
<1> USE DEF StoreInv
<1>1. StoreTypeOK'
  BY DEF StoreTypeOK, Slots, SetReturns, Idle
<1>2. MeetingsUnsure'
  BY DEF StoreTypeOK, MeetingsUnsure, SetReturns, Saving, Moving, Idle
<1>3. SurePlaces'
  BY DEF StoreTypeOK, MeetingsUnsure, SurePlaces, SetReturns, SureAt, Untouched, SavedTo,
         MovedFrom, MovedTo, Saving, Moving, Idle
<1> QED  BY <1>1, <1>2, <1>3

LEMMA SetFailsKeeps ==
    ASSUME StoreInv, NEW s \in Savers, SetFails(s)
    PROVE  StoreInv'
<1> USE DEF StoreInv
<1>1. StoreTypeOK'
  BY DEF StoreTypeOK, SetFails, Idle
<1>2. MeetingsUnsure'
  BY DEF StoreTypeOK, MeetingsUnsure, SetFails, Saving, Moving, Idle
<1>3. SurePlaces'
  BY DEF StoreTypeOK, MeetingsUnsure, SurePlaces, SetFails, SureAt, Untouched, SavedTo,
         MovedFrom, MovedTo, Saving, Moving, Idle
<1> QED  BY <1>1, <1>2, <1>3

LEMMA RekeyLandsKeeps ==
    ASSUME StoreInv, NEW k \in Rekeys, RekeyLands(k)
    PROVE  StoreInv'
<1> USE DEF StoreInv
<1>1. StoreTypeOK'
  BY DEF StoreTypeOK, RekeyLands, Idle
<1>2. MeetingsUnsure'
  BY DEF StoreTypeOK, MeetingsUnsure, RekeyLands, Saving, Moving, Idle
<1>3. SurePlaces'
  <2>1. /\ rekey[k] # Idle /\ rekey[k].stage = "writing" /\ rekey[k].from # rekey[k].to
        /\ rekey[k].to \in Paths
    BY DEF StoreTypeOK, MeetingsUnsure, RekeyLands, Idle
  <2>2. /\ rekey'[k] # Idle /\ rekey'[k].stage = "removing"
        /\ rekey'[k].from = rekey[k].from /\ rekey'[k].to = rekey[k].to
        /\ rekey'[k].moved = rekey[k].moved
        /\ \A l \in Rekeys \ {k} : rekey'[l] = rekey[l]
    BY DEF StoreTypeOK, RekeyLands, Idle
  <2>3. /\ blobs'[rekey[k].to] = rekey[k].moved
        /\ \A p \in Paths \ {rekey[k].to} : blobs'[p] = blobs[p]
        /\ UNCHANGED << cache, save, unsure >>
    BY <2>1 DEF StoreTypeOK, RekeyLands
  <2> SUFFICES ASSUME NEW p \in Paths \ unsure PROVE SureAt(p)'
    BY <2>3 DEF SurePlaces
  <2>4. SureAt(p) /\ (Untouched(p)' <=> Untouched(p))
    BY <2>1, <2>2, <2>3 DEF SurePlaces, Untouched, Saving, Moving
  <2>5. CASE p = rekey[k].to
    <3>1. /\ \A s \in Savers : ~Saving(s, p)
          /\ \A l \in Rekeys \ {k} : ~Moving(l, p)
          /\ Moving(k, p)
      BY <2>1, <2>5 DEF MeetingsUnsure, Moving
    <3>2. cache[p] = rekey[k].moved
      BY <2>1, <2>4, <2>5 DEF SureAt, MovedTo
    <3> QED
      BY <2>1, <2>2, <2>3, <2>4, <2>5, <3>1, <3>2
         DEF SureAt, Untouched, MovedFrom, MovedTo, Saving, Moving
  <2>6. CASE p # rekey[k].to
    BY <2>1, <2>2, <2>3, <2>4, <2>6 DEF SureAt, SavedTo, MovedFrom, MovedTo, Saving
  <2> QED  BY <2>5, <2>6
<1> QED  BY <1>1, <1>2, <1>3

LEMMA RekeyRemovesKeeps ==
    ASSUME StoreInv, NEW k \in Rekeys, RekeyRemoves(k)
    PROVE  StoreInv'
<1> USE DEF StoreInv
<1>1. StoreTypeOK'
  BY DEF StoreTypeOK, Slots, RekeyRemoves, Idle
<1>2. MeetingsUnsure'
  BY DEF StoreTypeOK, MeetingsUnsure, RekeyRemoves, Saving, Moving, Idle
<1>3. SurePlaces'
  BY DEF StoreTypeOK, MeetingsUnsure, SurePlaces, RekeyRemoves, SureAt, Untouched, SavedTo,
         MovedFrom, MovedTo, Saving, Moving, Idle
<1> QED  BY <1>1, <1>2, <1>3

LEMMA RekeyFailsKeeps ==
    ASSUME StoreInv, NEW k \in Rekeys, RekeyFails(k)
    PROVE  StoreInv'
<1> USE DEF StoreInv
<1>1. StoreTypeOK'
  BY DEF StoreTypeOK, Slots, RekeyFails, Idle
<1>2. MeetingsUnsure'
  BY DEF StoreTypeOK, MeetingsUnsure, RekeyFails, Saving, Moving, Idle
<1>3. SurePlaces'
  BY DEF StoreTypeOK, MeetingsUnsure, SurePlaces, RekeyFails, SureAt, Untouched, SavedTo,
         MovedFrom, MovedTo, Saving, Moving, Idle
<1> QED  BY <1>1, <1>2, <1>3

LEMMA RemoveFailsKeeps ==
    ASSUME StoreInv, NEW k \in Rekeys, RemoveFails(k)
    PROVE  StoreInv'
<1> USE DEF StoreInv
<1>1. StoreTypeOK'
  BY DEF StoreTypeOK, RemoveFails, Idle
<1>2. MeetingsUnsure'
  BY DEF StoreTypeOK, MeetingsUnsure, RemoveFails, Saving, Moving, Idle
<1>3. SurePlaces'
  BY DEF StoreTypeOK, MeetingsUnsure, SurePlaces, RemoveFails, SureAt, Untouched, SavedTo,
         MovedFrom, MovedTo, Saving, Moving, Idle
<1> QED  BY <1>1, <1>2, <1>3

LEMMA ReloadKeeps ==
    ASSUME StoreInv, Reload
    PROVE  StoreInv'
  BY DEF StoreInv, StoreTypeOK, MeetingsUnsure, SurePlaces, SureAt, Untouched, Reload,
         Saving, Moving, Idle

LEMMA RekeyBeginsKeeps ==
    ASSUME StoreInv, NEW from \in Paths, NEW to \in Paths, from # to, RekeyBegins(from, to)
    PROVE  StoreInv'
<1> USE DEF StoreInv
<1>1. CASE UNCHANGED storeVars
  BY <1>1 DEF storeVars, StoreTypeOK, MeetingsUnsure, SurePlaces, SureAt, Untouched, SavedTo,
              MovedFrom, MovedTo, Saving, Moving
<1>2. ASSUME ~(UNCHANGED storeVars)
      PROVE  StoreInv'
  <2> DEFINE S == {from, to}
  <2>1. /\ cache[from] # NoBaseline /\ cache[to] = NoBaseline
        /\ \E k \in Rekeys :
              /\ rekey[k] = Idle
              /\ rekey' = [rekey EXCEPT ![k] =
                   [stage |-> "writing", from |-> from, to |-> to, moved |-> cache[from]]]
              /\ cache' = [cache EXCEPT ![to] = cache[from], ![from] = NoBaseline]
              /\ unsure' = unsure \cup Meets(S)
              /\ UNCHANGED << blobs, save >>
    BY <1>2 DEF RekeyBegins
  <2>2. PICK k \in Rekeys :
           /\ rekey[k] = Idle
           /\ rekey' = [rekey EXCEPT ![k] =
                [stage |-> "writing", from |-> from, to |-> to, moved |-> cache[from]]]
           /\ cache' = [cache EXCEPT ![to] = cache[from], ![from] = NoBaseline]
           /\ unsure' = unsure \cup Meets(S)
           /\ UNCHANGED << blobs, save >>
    BY <2>1
  <2>3. /\ \A l \in Rekeys \ {k} : rekey'[l] = rekey[l]
        /\ rekey'[k] = [stage |-> "writing", from |-> from, to |-> to, moved |-> cache[from]]
        /\ rekey'[k] # Idle /\ rekey'[k].from = from /\ rekey'[k].to = to
        /\ rekey'[k].stage = "writing" /\ rekey'[k].moved = cache[from]
    BY <2>2 DEF StoreTypeOK, Idle
  <2>4. /\ \A l \in Rekeys : \A q : Moving(l, q)' <=> (l # k /\ Moving(l, q)) \/ (l = k /\ q \in S)
        /\ \A s \in Savers : \A q : Saving(s, q)' <=> Saving(s, q)
    BY <2>2, <2>3 DEF Saving, Moving
  <2>5. /\ cache'[from] = NoBaseline /\ cache'[to] = cache[from]
        /\ \A q \in Paths \ S : cache'[q] = cache[q]
    BY <2>2 DEF StoreTypeOK
  <2>6. StoreTypeOK'
    BY <2>2 DEF StoreTypeOK, Slots, Meets, Touched
  <2>7. MeetingsUnsure'
    <3>1. CASE /\ Meets(S) = {}
               /\ \A p \in S : /\ p \notin unsure
                               /\ \A s \in Savers : ~Saving(s, p)
                               /\ \A l \in Rekeys : ~Moving(l, p)
      <4>1. unsure' = unsure /\ from \notin unsure /\ to \notin unsure
        BY <2>2, <3>1
      <4>2. \A l, m \in Rekeys : \A p \in Paths :
               l # m /\ Moving(l, p)' /\ Moving(m, p)' => Moving(l, p) /\ Moving(m, p)
        BY <2>4, <3>1
      <4>3. \A s \in Savers, l \in Rekeys : \A p \in Paths :
               Saving(s, p)' /\ Moving(l, p)' => Saving(s, p) /\ Moving(l, p)
        BY <2>4, <3>1
      <4> QED  BY <2>3, <2>4, <4>1, <4>2, <4>3 DEF MeetingsUnsure
    <3>2. CASE /\ S \subseteq Meets(S)
               /\ \A q : /\ \A s \in Savers : Saving(s, q) => q \in Meets(S)
                         /\ \A l \in Rekeys : Moving(l, q) => q \in Meets(S)
      <4>1. \A l \in Rekeys, q \in Paths : Moving(l, q)' => q \in unsure'
        BY <2>2, <2>4, <3>2
      <4>2. \A l \in Rekeys : rekey'[l] # Idle => rekey'[l].from # rekey'[l].to
        BY <2>3 DEF MeetingsUnsure
      <4>3. \A l \in Rekeys : rekey[l] # Idle =>
               rekey[l].from \in Meets(S) /\ rekey[l].to \in Meets(S)
        BY <3>2 DEF Moving
      <4>4. unsure' = unsure \cup Meets(S) /\ save' = save
        BY <2>2
      <4>5. ASSUME NEW l \in Rekeys, rekey'[l] # Idle
            PROVE  rekey'[l].from \in unsure' /\ rekey'[l].to \in unsure'
        <5>1. CASE l = k
          BY <2>3, <3>2, <4>4, <5>1
        <5>2. CASE l # k
          BY <2>3, <4>3, <4>4, <4>5, <5>2
        <5> QED  BY <5>1, <5>2
      <4>6. \A s, t \in Savers, q \in Paths :
               s # t /\ Saving(s, q)' /\ Saving(t, q)' => q \in unsure'
        BY <2>4, <4>4 DEF MeetingsUnsure
      <4> QED  BY <4>1, <4>2, <4>5, <4>6 DEF MeetingsUnsure
    <3>3. \/ /\ Meets(S) = {}
             /\ \A p \in S : /\ p \notin unsure
                             /\ \A s \in Savers : ~Saving(s, p)
                             /\ \A l \in Rekeys : ~Moving(l, p)
          \/ /\ S \subseteq Meets(S)
             /\ \A q : /\ \A s \in Savers : Saving(s, q) => q \in Meets(S)
                       /\ \A l \in Rekeys : Moving(l, q) => q \in Meets(S)
      <4> HIDE DEF S
      <4> QED  BY MeetsOrNot, Zenon
    <3> QED  BY <3>1, <3>2, <3>3, Zenon
  <2>8. SurePlaces'
    <3> SUFFICES ASSUME NEW q \in Paths \ unsure' PROVE SureAt(q)'
      BY DEF SurePlaces
    <3>1. SureAt(q) /\ UNCHANGED << blobs, save >> /\ q \notin unsure
      BY <2>2 DEF SurePlaces
    <3>2. CASE q \in S
      <4>1. Untouched(from) /\ Untouched(to) /\ from \notin unsure /\ to \notin unsure
        BY <2>2, <3>2, MeetsOrNot DEF Untouched
      <4>2. cache[from] = blobs[from] /\ blobs[to] = NoBaseline
        BY <2>1, <4>1 DEF SurePlaces, SureAt
      <4>3. \A l \in Rekeys : l # k /\ rekey'[l] # Idle => rekey'[l].from # q /\ rekey'[l].to # q
        BY <2>3, <3>2, <4>1 DEF Untouched, Moving
      <4>4. \A s \in Savers : ~Saving(s, q)'
        BY <2>4, <3>2, <4>1 DEF Untouched
      <4>5. ~Untouched(q)'
        BY <2>4, <3>2 DEF Untouched
      <4>6. ASSUME NEW l \in Rekeys, rekey'[l] # Idle
            PROVE  (rekey'[l].from = q => MovedFrom(l, q)') /\ (rekey'[l].to = q => MovedTo(l, q)')
        <5>1. CASE l = k
          BY <2>1, <2>3, <2>5, <3>1, <4>2, <5>1 DEF MovedFrom, MovedTo
        <5>2. CASE l # k
          BY <4>3, <4>6, <5>2
        <5> QED  BY <5>1, <5>2
      <4> QED  BY <4>4, <4>5, <4>6 DEF SureAt
    <3>3. CASE q \notin S
      <4>1. Untouched(q)' => Untouched(q)
        <5>1. ~Moving(k, q)
          BY <2>2 DEF Moving
        <5> QED  BY <2>4, <3>3, <5>1 DEF Untouched
      <4>2. cache'[q] = cache[q]
        BY <2>5, <3>3, q \in Paths
      <4>3. \A l \in Rekeys : rekey'[l] # Idle /\ (rekey'[l].from = q \/ rekey'[l].to = q)
                => rekey'[l] = rekey[l]
        BY <2>3, <3>3
      <4> QED  BY <2>4, <3>1, <4>1, <4>2, <4>3 DEF SureAt, SavedTo, MovedFrom, MovedTo
    <3> QED  BY <3>2, <3>3
  <2> QED  BY <2>6, <2>7, <2>8
<1> QED  BY <1>1, <1>2

-----------------------------------------------------------------------------
(* What the store promises follows from where things are.                  *)

LEMMA SureIsOnFile ==
    ASSUME StoreInv
    PROVE  NeverAGap
<1> SUFFICES ASSUME NEW p \in Paths \ unsure PROVE OnFile(p)
  BY DEF NeverAGap
<1>1. SureAt(p)
  BY DEF StoreInv, SurePlaces
<1>2. CASE Untouched(p)
  BY <1>1, <1>2 DEF SureAt, OnFile
<1>3. ASSUME NEW s \in Savers, Saving(s, p) PROVE OnFile(p)
  BY <1>1, <1>3 DEF SureAt, SavedTo, Saving, OnFile, StoreInv, StoreTypeOK, Idle
<1>4. ASSUME NEW k \in Rekeys, Moving(k, p) PROVE OnFile(p)
  <2>1. CASE rekey[k].from = p
    BY <1>1, <1>4, <2>1 DEF SureAt, MovedFrom, Moving, OnFile
  <2>2. CASE rekey[k].to = p
    <3>1. rekey[k] # Idle /\ rekey[k].from \in Paths \ unsure
      BY <1>4, <2>2 DEF Moving, StoreInv, StoreTypeOK, MeetingsUnsure
    <3>2. SureAt(rekey[k].from)
      BY <3>1 DEF StoreInv, SurePlaces
    <3> QED  BY <1>1, <2>2, <3>1, <3>2 DEF SureAt, MovedFrom, MovedTo, OnFile
  <2> QED  BY <1>4, <2>1, <2>2 DEF Moving
<1> QED  BY <1>2, <1>3, <1>4 DEF Untouched

LEMMA QuietAgrees ==
    ASSUME StoreInv
    PROVE  CacheAgreesWithBlobs
  BY DEF StoreInv, SurePlaces, SureAt, Untouched, Saving, Moving, StoreQuiet, CacheAgreesWithBlobs

-----------------------------------------------------------------------------
(* What the actors do, made of a few kinds of job.                         *)

LEMMA JobIs ==
    ASSUME WorkTypeOK, NEW a \in Actors
    PROVE  /\ job[a] \in Jobs
           /\ job[a].stage \in ReadStages => job[a] \in ReadJobs
           /\ job[a].stage \in PlainStages => job[a] \in PlainJobs
           /\ job[a].stage \in ReadStages \cup PlainStages \cup {"idle"}
           /\ job[a].stage = "idle" => job[a] = NoJob
  BY DEF WorkTypeOK, Jobs, NoJob, PlainJobs, ReadJobs, PlainStages, ReadStages, HasRead

LEMMA JobType ==
    ASSUME NEW stage \in PlainStages, NEW p \in Paths, NEW base \in Bases
    PROVE  Job(stage, p, base) \in Jobs
  BY DEF Job, Jobs, PlainJobs

LEMMA ReadsType ==
    ASSUME WorkTypeOK, note \in Contents, NEW a \in Actors, job[a].stage \in PlainStages \cup ReadStages,
           NEW stage \in ReadStages, NEW base \in Bases
    PROVE  Reads(a, stage, base) \in Jobs
<1>1. job[a].path \in Paths
  BY JobIs DEF PlainJobs, ReadJobs
<1> QED  BY <1>1 DEF Reads, Jobs, ReadJobs

LEMMA EndedType ==
    ASSUME WorkTypeOK, NEW a \in Actors, job[a].stage \in PlainStages \cup ReadStages
    PROVE  /\ Ended(a) \in [Actors -> Jobs]
           /\ Ended(a)[a].stage \in {"idle", "ending"}
           /\ a # "accept" => Ended(a)[a] = NoJob
           /\ \A c \in Actors \ {a} : Ended(a)[c] = job[c]
<1>1. job[a].path \in Paths
  BY JobIs DEF PlainJobs, ReadJobs
<1>2. Job("ending", job[a].path, NoBaseline) \in Jobs
  BY <1>1, JobType DEF PlainStages, Bases, Slots
<1>3. NoJob \in Jobs
  BY DEF Jobs
<1> QED  BY <1>2, <1>3 DEF Ended, WorkTypeOK, Job, NoJob

LEMMA NoticingType ==
    ASSUME WorkTypeOK, NEW e \in Edits
    PROVE  /\ Noticing(e) \in [Actors -> Jobs]
           /\ \A a \in Actors :
                 /\ Noticing(e)[a].stage = job[a].stage
                 /\ Noticing(e)[a] = NoJob <=> job[a] = NoJob
                 /\ job[a] # NoJob => Noticing(e)[a].base = job[a].base
                 /\ job[a].stage \in HasRead =>
                       /\ Noticing(e)[a].read = job[a].read
                       /\ Noticing(e)[a].since = job[a].since \cup {e}
<1> SUFFICES ASSUME NEW a \in Actors
             PROVE  /\ Noticing(e)[a] \in Jobs
                    /\ Noticing(e)[a].stage = job[a].stage
                    /\ Noticing(e)[a] = NoJob <=> job[a] = NoJob
                    /\ job[a] # NoJob => Noticing(e)[a].base = job[a].base
                    /\ job[a].stage \in HasRead =>
                          /\ Noticing(e)[a].read = job[a].read
                          /\ Noticing(e)[a].since = job[a].since \cup {e}
  BY DEF Noticing
<1>1. CASE job[a].stage \in HasRead
  <2>1. job[a] \in ReadJobs
    BY <1>1, JobIs DEF ReadStages
  <2>2. Noticing(e)[a] = [job[a] EXCEPT !.since = job[a].since \cup {e}]
    BY <1>1 DEF Noticing
  <2>3. Noticing(e)[a] \in ReadJobs
    BY <2>1, <2>2 DEF ReadJobs
  <2> QED  BY <1>1, <2>1, <2>2, <2>3 DEF ReadJobs, Jobs, NoJob, HasRead
<1>2. CASE job[a].stage \notin HasRead
  BY <1>2, JobIs DEF Noticing
<1> QED  BY <1>1, <1>2

(* Every step keeps what is known of the edits.                            *)
LEMMA EditMoves ==
    ASSUME EditTypeOK, NEW e \in Edits, NEW stage \in Stages,
           e \in AgentEdits => stage \notin {"typed", "saved"},
           e \in HumanEdits => stage \in {"none", "typed", "saved", "lost"},
           \/ edit' = [edit EXCEPT ![e].stage = stage]
           \/ path \in Paths /\ edit' = [edit EXCEPT ![e] = [stage |-> stage, path |-> path]]
    PROVE  EditTypeOK'
<1>1. edit' \in [Edits -> [stage : Stages, path : Paths]]
  BY DEF EditTypeOK
<1>2. edit'[e].stage = stage
  BY DEF EditTypeOK
<1>3. \A d \in Edits \ {e} : edit'[d] = edit[d]
  BY DEF EditTypeOK
<1> QED  BY <1>1, <1>2, <1>3 DEF EditTypeOK, Edits

LEMMA EditTypeStep ==
    ASSUME path \in Paths, EditTypeOK, [Next]_vars
    PROVE  EditTypeOK'
<1>a. AgentEdits \cap HumanEdits = {} /\ AgentEdits \subseteq Edits /\ HumanEdits \subseteq Edits
  BY AcceptanceAssumption DEF Edits
<1> USE DEF Stages
<1>1. CASE edit' = edit
  BY <1>1 DEF EditTypeOK
<1>2. ASSUME NEW e \in AgentEdits, AgentWrites(e) PROVE EditTypeOK'
  BY <1>a, <1>2, EditMoves DEF AgentWrites
<1>3. ASSUME NEW e \in AgentEdits, Records(e) PROVE EditTypeOK'
  BY <1>a, <1>3, EditMoves DEF Records
<1>4. ASSUME NEW e \in AgentEdits, Appends(e) PROVE EditTypeOK'
  BY <1>a, <1>4, EditMoves DEF Appends
<1>5. ASSUME NEW e \in AgentEdits, RecordAges(e) PROVE EditTypeOK'
  BY <1>a, <1>5, EditMoves DEF RecordAges
<1>6. ASSUME NEW e \in HumanEdits, HumanTypes(e) PROVE EditTypeOK'
  BY <1>a, <1>6, EditMoves DEF HumanTypes
<1>7. ASSUME NEW e \in HumanEdits, EditorSaves(e) PROVE EditTypeOK'
  BY <1>a, <1>7, EditMoves DEF EditorSaves
<1>8. CASE Restarts
  <2>1. \A e \in Edits : edit'[e] = IF edit[e].stage \in {"landed", "stamped", "stamped late", "typed"}
                                   THEN [edit[e] EXCEPT !.stage = "lost"] ELSE edit[e]
    BY <1>8 DEF Restarts
  <2>2. DOMAIN edit' = Edits /\ edit' = [e \in Edits |-> edit'[e]]
    BY <1>8 DEF Restarts
  <2>3. ASSUME NEW e \in Edits
        PROVE  edit'[e] \in [stage : Stages, path : Paths] /\ edit'[e].stage \in {edit[e].stage, "lost"}
    BY <2>1 DEF EditTypeOK
  <2> QED  BY <1>a, <2>2, <2>3 DEF EditTypeOK
<1>9. ASSUME NEW p \in Paths, InputAges(p) \/ ReconcileFires(p) \/ Renames(p)
       PROVE edit' = edit
  BY <1>1, <1>9 DEF InputAges, ReconcileFires, Renames, noteVars
<1>10. ASSUME NEW s \in Savers, SaveLands(s) \/ SaveReturns(s) \/ SaveFails(s)
       PROVE edit' = edit
  BY <1>1, <1>10 DEF SaveLands, SaveReturns, SaveFails, noteVars
<1>11. CASE HumanAccepts \/ AcceptReads \/ AcceptAsItIs \/ AcceptRefused
  BY <1>1, <1>11 DEF HumanAccepts, AcceptReads, AcceptAsItIs, AcceptRefused,
     noteVars
<1>12. CASE AcceptStamps \/ AcceptRereads \/ AcceptEnds
  BY <1>1, <1>12 DEF AcceptStamps, AcceptRereads, AcceptEnds, noteVars
<1>13. CASE ReconcileReads \/ ReconcileLeaves \/ ReconcileAdvances \/ ReconcileDefers \/ SweepBegins
  BY <1>1, <1>13 DEF ReconcileReads, ReconcileLeaves, ReconcileAdvances,
     ReconcileDefers, SweepBegins, noteVars
<1>14. ASSUME NEW a \in Automatic, AutoReads(a) \/ AutoAccepts(a) \/ AutoDeclines(a)
       PROVE edit' = edit
  BY <1>1, <1>14 DEF AutoReads, AutoAccepts, AutoDeclines, noteVars
<1>15. CASE HumanReverts \/ RevertReads \/ RevertKeeps \/ RevertWrites
  BY <1>1, <1>15 DEF HumanReverts, RevertReads, RevertKeeps, RevertWrites,
     noteVars
<1>16. ASSUME NEW k \in Rekeys, MoveLands(k) \/ MoveEnds(k) \/ MoveFails(k) \/ MoveLeavesFile(k)
       PROVE edit' = edit
  BY <1>1, <1>16 DEF MoveLands, MoveEnds, MoveFails, MoveLeavesFile, noteVars
<1>17. CASE Repairs \/ UNCHANGED vars
  BY <1>1, <1>17 DEF Repairs, vars, noteVars
<1> QED
  BY <1>1, <1>2, <1>3, <1>4, <1>5, <1>6, <1>7, <1>8, <1>9, <1>10, <1>11, <1>12,
     <1>13, <1>14, <1>15, <1>16, <1>17 DEF Next

(* Every step keeps the actors' jobs within their types.                   *)
LEMMA TakesJob ==
    ASSUME WorkTypeOK, EditTypeOK', NEW a \in Actors, NEW j, Suits(a, j),
           job' = [job EXCEPT ![a] = j]
    PROVE  WorkTypeOK'
<1>1. j \in Jobs
  BY DEF Suits
<1>2. \A c \in Actors : job'[c] = IF c = a THEN j ELSE job[c]
  BY DEF WorkTypeOK
<1>3. job' \in [Actors -> Jobs]
  BY <1>1 DEF WorkTypeOK
<1>4. \A c \in Actors : Suits(c, job'[c])
  BY <1>2 DEF WorkTypeOK
<1>5. \A c \in Actors : Suits(c, job[c])'
  BY <1>4 DEF Suits
<1> QED  BY <1>3, <1>5 DEF WorkTypeOK

LEMMA Restages ==
    ASSUME WorkTypeOK, EditTypeOK', NEW a \in Actors, NEW stage \in ReadStages,
           job[a].stage \in ReadStages,
           a # "revert" => stage \notin {"keeping", "writing"},
           a = "revert" => stage \notin {"judging", "autoJudging", "read", "folded", "stamped", "saving"},
           job' = [job EXCEPT ![a].stage = stage]
    PROVE  WorkTypeOK'
<1>1. job[a] \in ReadJobs
  BY JobIs
<1>2. /\ [job[a] EXCEPT !.stage = stage] \in ReadJobs
      /\ [job[a] EXCEPT !.stage = stage].stage = stage
      /\ [job[a] EXCEPT !.stage = stage].base = job[a].base
  BY <1>1 DEF ReadJobs
<1>3. job[a] # NoJob /\ job[a].stage # "ending"
  BY DEF NoJob, ReadStages, HasRead
<1>4. Suits(a, [job[a] EXCEPT !.stage = stage])
  BY <1>2, <1>3 DEF Suits, WorkTypeOK, Jobs
<1>5. job' = [job EXCEPT ![a] = [job[a] EXCEPT !.stage = stage]]
  BY DEF WorkTypeOK
<1> QED  BY <1>4, <1>5, TakesJob

LEMMA EndsJob ==
    ASSUME WorkTypeOK, EditTypeOK', NEW a \in Actors, job[a].stage \in PlainStages \cup ReadStages,
           job' = Ended(a)
    PROVE  WorkTypeOK'
<1>1. \A c \in Actors \ {a} : Suits(c, job'[c])
  BY EndedType DEF WorkTypeOK
<1>2. Suits(a, job'[a])
  BY EndedType DEF Suits, NoJob
<1>3. \A c \in Actors : Suits(c, job[c])'
  BY <1>1, <1>2 DEF Suits
<1> QED  BY <1>3, EndedType DEF WorkTypeOK

LEMMA NotesEdit ==
    ASSUME WorkTypeOK, EditTypeOK', NEW e \in Edits, job' = Noticing(e)
    PROVE  WorkTypeOK'
<1>1. \A c \in Actors : Suits(c, job'[c])
  BY NoticingType DEF WorkTypeOK, Suits
<1>2. \A c \in Actors : Suits(c, job[c])'
  BY <1>1 DEF Suits
<1> QED  BY <1>2, NoticingType DEF WorkTypeOK

(* What an actor may begin with.                                           *)
LEMMA SuitsNone ==
    ASSUME NEW a \in Actors
    PROVE  Suits(a, NoJob)
  BY DEF Suits, Jobs, NoJob

LEMMA SuitsJob ==
    ASSUME NEW a \in Actors, NEW stage \in PlainStages, NEW p \in Paths, NEW base \in Bases,
           a = "revert" => base \in Baselines
    PROVE  Suits(a, Job(stage, p, base))
  BY JobType DEF Suits, Job, PlainStages

LEMMA SuitsReads ==
    ASSUME WorkTypeOK, note \in Contents, NEW a \in Actors,
           job[a].stage \in PlainStages \cup ReadStages,
           NEW stage \in ReadStages, NEW base \in Bases,
           a # "revert" => stage \notin {"keeping", "writing"},
           a = "revert" => stage = "keeping" /\ base \in Baselines
    PROVE  Suits(a, Reads(a, stage, base))
  BY ReadsType DEF Suits, Reads

LEMMA WorkTypeStep ==
    ASSUME TypeOK, WorkTypeOK, StoreTypeOK, EditTypeOK', [Next]_vars
    PROVE  WorkTypeOK'
<1>a. /\ Savers \subseteq Actors /\ "revert" \notin Savers /\ Automatic \subseteq Actors \ {"revert"}
      /\ {"accept", "reconcile", "sweep", "revert"} \subseteq Actors
      /\ AgentEdits \subseteq Edits /\ HumanEdits \subseteq Edits
      /\ {"accept", "reconcile", "sweep"} \subseteq Savers
  BY AcceptanceAssumption DEF Actors, Automatic, Edits
<1>b. path \in Paths /\ note \in Contents /\ \A p \in Paths : cache[p] \in Slots
  BY DEF TypeOK, StoreTypeOK
<1>c. Contents \subseteq Bases /\ Slots \subseteq Bases /\ NoBaseline \in Bases
  BY DEF Bases, Slots
<1>d. PlainStages = {"reading", "autoReading", "ending"} /\ HasRead \subseteq ReadStages
      /\ ReadStages = {"read", "folded", "judging", "autoJudging", "keeping", "writing", "stamped", "saving"}
  BY DEF PlainStages, ReadStages, HasRead
<1>1. CASE job' = job
  BY <1>1 DEF WorkTypeOK, Suits
<1>2. ASSUME NEW e \in AgentEdits, AgentWrites(e) PROVE WorkTypeOK'
  BY <1>a, <1>2, NotesEdit DEF AgentWrites
<1>3. ASSUME NEW e \in HumanEdits, EditorSaves(e) PROVE WorkTypeOK'
  BY <1>a, <1>3, NotesEdit DEF EditorSaves
<1>4. ASSUME NEW s \in Savers, SaveReturns(s) PROVE WorkTypeOK'
  <2>1. job[s].stage = "saving"
    BY <1>4 DEF SaveReturns, SetReturns, TypeOK, Idle
  <2> QED  BY <1>a, <1>d, <1>4, <2>1, EndsJob DEF SaveReturns
<1>5. ASSUME NEW s \in Savers, SaveFails(s) PROVE WorkTypeOK'
  <2>1. job[s].stage = "saving"
    BY <1>5 DEF SaveFails, SetFails, TypeOK, Idle
  <2> QED  BY <1>a, <1>d, <1>5, <2>1, EndsJob DEF SaveFails
<1>6. CASE HumanAccepts
  <2>1. Suits("accept", Job("reading", path, NoBaseline))
    BY <1>a, <1>b, <1>c, <1>d, SuitsJob
  <2> QED  BY <1>a, <1>6, <2>1, TakesJob DEF HumanAccepts
<1>7. CASE AcceptEnds
  BY <1>a, <1>7, SuitsNone, TakesJob DEF AcceptEnds
<1>8. CASE AcceptReads
  <2>1. CASE job' = Ended("accept")
    BY <1>a, <1>d, <1>8, <2>1, EndsJob DEF AcceptReads
  <2>2. CASE job' = [job EXCEPT !["accept"] = Reads("accept", "read", note)]
    <3>1. Suits("accept", Reads("accept", "read", note))
      BY <1>a, <1>b, <1>c, <1>d, <1>8, SuitsReads DEF AcceptReads
    <3> QED  BY <1>a, <2>2, <3>1, TakesJob
  <2> QED  BY <1>8, <2>1, <2>2 DEF AcceptReads
<1>9. CASE AcceptAsItIs
  BY <1>a, <1>d, <1>9, Restages DEF AcceptAsItIs, Advances
<1>10. CASE AcceptRefused
  BY <1>a, <1>d, <1>10, EndsJob DEF AcceptRefused
<1>11. CASE AcceptStamps
  BY <1>a, <1>d, <1>11, Restages DEF AcceptStamps
<1>12. CASE AcceptRereads
  <2>1. CASE job' = Ended("accept")
    BY <1>a, <1>d, <1>12, <2>1, EndsJob DEF AcceptRereads
  <2>2. CASE job' = [job EXCEPT !["accept"] = Reads("accept", "folded", job["accept"].base)]
    <3>1. job["accept"].base \in Bases
      BY <1>a, <1>d, <1>12, JobIs DEF AcceptRereads, ReadJobs
    <3>2. Suits("accept", Reads("accept", "folded", job["accept"].base))
      BY <1>a, <1>b, <1>d, <1>12, <3>1, SuitsReads DEF AcceptRereads
    <3> QED  BY <1>a, <2>2, <3>2, TakesJob
  <2> QED  BY <1>12, <2>1, <2>2 DEF AcceptRereads
<1>13. ASSUME NEW p \in Paths, ReconcileFires(p) PROVE WorkTypeOK'
  <2>1. Suits("reconcile", Job("reading", path, cache[path]))
    BY <1>a, <1>b, <1>c, <1>d, SuitsJob
  <2> QED  BY <1>a, <1>13, <2>1, TakesJob DEF ReconcileFires
<1>14. CASE ReconcileReads
  <2>1. job["reconcile"].base \in Bases
    BY <1>a, <1>d, <1>14, JobIs DEF ReconcileReads, PlainJobs
  <2>2. \/ job' = [job EXCEPT !["reconcile"] = NoJob]
        \/ job' = [job EXCEPT !["reconcile"] = Reads("reconcile", "judging", job["reconcile"].base)]
    BY <1>14 DEF ReconcileReads
  <2>3. Suits("reconcile", Reads("reconcile", "judging", job["reconcile"].base))
    BY <1>a, <1>b, <1>d, <1>14, <2>1, SuitsReads DEF ReconcileReads
  <2> QED  BY <1>a, <2>2, <2>3, SuitsNone, TakesJob
<1>15. CASE ReconcileLeaves
  BY <1>a, <1>d, <1>15, EndsJob DEF ReconcileLeaves
<1>16. CASE ReconcileAdvances
  BY <1>a, <1>d, <1>16, Restages DEF ReconcileAdvances, Advances
<1>17. CASE ReconcileDefers
  <2>1. job["reconcile"].path \in Paths
    BY <1>a, <1>d, <1>17, JobIs DEF ReconcileDefers, ReadJobs
  <2>2. \/ job' = [job EXCEPT !["reconcile"] = NoJob]
        \/ job' = [job EXCEPT !["reconcile"] =
                     Job("autoReading", job["reconcile"].path, cache[job["reconcile"].path])]
    BY <1>17 DEF ReconcileDefers, AutoBegins
  <2>3. Suits("reconcile", Job("autoReading", job["reconcile"].path, cache[job["reconcile"].path]))
    BY <1>a, <1>b, <1>c, <1>d, <2>1, SuitsJob
  <2> QED  BY <1>a, <2>2, <2>3, SuitsNone, TakesJob
<1>18. CASE SweepBegins
  <2>1. \/ job' = [job EXCEPT !["sweep"] = NoJob]
        \/ job' = [job EXCEPT !["sweep"] = Job("autoReading", path, cache[path])]
    BY <1>18 DEF SweepBegins, AutoBegins
  <2>2. Suits("sweep", Job("autoReading", path, cache[path]))
    BY <1>a, <1>b, <1>c, <1>d, SuitsJob
  <2> QED  BY <1>a, <2>1, <2>2, SuitsNone, TakesJob
<1>19. ASSUME NEW a \in Automatic, AutoReads(a) PROVE WorkTypeOK'
  <2>1. job[a].base \in Bases
    BY <1>a, <1>d, <1>19, JobIs DEF AutoReads, PlainJobs
  <2>2. CASE job' = Ended(a)
    BY <1>a, <1>d, <1>19, <2>2, EndsJob DEF AutoReads
  <2>3. CASE job' = [job EXCEPT ![a] = Reads(a, "autoJudging", job[a].base)]
    <3>1. Suits(a, Reads(a, "autoJudging", job[a].base))
      BY <1>a, <1>b, <1>d, <1>19, <2>1, SuitsReads DEF AutoReads
    <3> QED  BY <1>a, <1>19, <2>3, <3>1, TakesJob
  <2> QED  BY <1>19, <2>2, <2>3 DEF AutoReads
<1>20. ASSUME NEW a \in Automatic, AutoAccepts(a) PROVE WorkTypeOK'
  BY <1>a, <1>d, <1>20, Restages DEF AutoAccepts, Advances
<1>21. ASSUME NEW a \in Automatic, AutoDeclines(a) PROVE WorkTypeOK'
  BY <1>a, <1>d, <1>21, EndsJob DEF AutoDeclines
<1>22. CASE HumanReverts
  <2>1. cache[path] \in Baselines
    BY <1>b, <1>22 DEF HumanReverts, Slots
  <2>2. Suits("revert", Job("reading", path, cache[path]))
    BY <1>a, <1>b, <1>c, <1>d, <2>1, SuitsJob
  <2> QED  BY <1>a, <1>22, <2>2, TakesJob DEF HumanReverts
<1>23. CASE RevertReads
  <2>1. job["revert"].base \in Baselines
    <3>1. Suits("revert", job["revert"]) /\ job["revert"].stage = "reading"
      BY <1>a, <1>23 DEF RevertReads, WorkTypeOK
    <3>2. job["revert"] # NoJob
      BY <3>1 DEF NoJob
    <3> QED  BY <3>1, <3>2 DEF Suits
  <2>2. CASE job' = Ended("revert")
    BY <1>a, <1>d, <1>23, <2>2, EndsJob DEF RevertReads
  <2>3. CASE job' = [job EXCEPT !["revert"] = Reads("revert", "keeping", job["revert"].base)]
    <3>1. Suits("revert", Reads("revert", "keeping", job["revert"].base))
      BY <1>a, <1>b, <1>d, <1>23, <2>1, SuitsReads DEF RevertReads, Bases, Slots
    <3> QED  BY <1>a, <2>3, <3>1, TakesJob
  <2> QED  BY <1>23, <2>2, <2>3 DEF RevertReads
<1>24. CASE RevertKeeps
  BY <1>a, <1>d, <1>24, Restages DEF RevertKeeps
<1>25. CASE RevertWrites
  BY <1>a, <1>d, <1>25, EndsJob DEF RevertWrites
<1>26. CASE Restarts
  <2>1. job' = [a \in Actors |-> NoJob]
    BY <1>26 DEF Restarts
  <2>2. NoJob \in Jobs /\ \A a \in Actors : Suits(a, NoJob)'
    BY DEF Suits, Jobs, NoJob
  <2> QED  BY <2>1, <2>2 DEF WorkTypeOK, Suits
<1>27. ASSUME NEW e \in AgentEdits, Records(e) \/ Appends(e) \/ RecordAges(e)
       PROVE job' = job
  BY <1>1, <1>27 DEF Records, Appends, RecordAges, noteVars
<1>28. ASSUME NEW e \in HumanEdits, HumanTypes(e) PROVE job' = job
  BY <1>1, <1>28 DEF HumanTypes, noteVars
<1>29. ASSUME NEW p \in Paths, InputAges(p) \/ Renames(p) PROVE job' = job
  BY <1>1, <1>29 DEF InputAges, Renames, noteVars
<1>30. ASSUME NEW s \in Savers, SaveLands(s) PROVE job' = job
  BY <1>1, <1>30 DEF SaveLands, noteVars
<1>31. ASSUME NEW k \in Rekeys, MoveLands(k) \/ MoveEnds(k) \/ MoveFails(k) \/ MoveLeavesFile(k)
       PROVE job' = job
  BY <1>1, <1>31 DEF MoveLands, MoveEnds, MoveFails, MoveLeavesFile, noteVars
<1>32. CASE Repairs \/ UNCHANGED vars
  BY <1>1, <1>32 DEF Repairs, vars, noteVars
<1> QED
  BY <1>1, <1>2, <1>3, <1>4, <1>5, <1>6, <1>7, <1>8, <1>9, <1>10, <1>11, <1>12,
     <1>13, <1>14, <1>15, <1>16, <1>17, <1>18, <1>19, <1>20, <1>21, <1>22,
     <1>23, <1>24, <1>25, <1>26, <1>27, <1>28, <1>29, <1>30, <1>31, <1>32 DEF
     Next

(* Every step is an operation of the store or leaves the store alone.      *)
LEMMA NowType ==
    ASSUME NEW content \in Contents
    PROVE  Now(content) \in Baselines /\ Now(content).content = content
  BY DEF Now, Baselines

LEMMA AdvancesStore ==
    ASSUME WorkTypeOK, StoreInv, NEW a \in Savers, job[a].stage \in ReadStages, Advances(a, job[a].read)
    PROVE  StoreInv'
<1>1. job[a] \in ReadJobs
  BY JobIs, AcceptanceAssumption
<1>2. job[a].path \in Paths /\ job[a].read \in Contents
  BY <1>1 DEF ReadJobs
<1>3. SetBegins(a, job[a].path, Now(job[a].read))
  BY DEF Advances
<1> QED  BY <1>2, <1>3, NowType, SetBeginsKeeps

LEMMA StoreStep ==
    ASSUME path \in Paths, WorkTypeOK, StoreInv, [Next]_vars
    PROVE  StoreInv'
<1>1. ASSUME UNCHANGED storeVars PROVE StoreInv'
  BY <1>1 DEF storeVars, StoreInv, StoreTypeOK, MeetingsUnsure, SurePlaces, SureAt, Untouched,
              SavedTo, MovedFrom, MovedTo, Saving, Moving
<1>2. {"accept", "reconcile", "sweep"} \subseteq Savers /\ Automatic \subseteq Savers
  BY AcceptanceAssumption DEF Actors, Automatic
<1>3. {"read", "folded", "judging", "autoJudging"} \subseteq ReadStages
  BY DEF ReadStages, HasRead
<1>4. CASE AcceptAsItIs
  BY <1>2, <1>3, <1>4, AdvancesStore DEF AcceptAsItIs
<1>5. CASE ReconcileAdvances
  BY <1>2, <1>3, <1>5, AdvancesStore DEF ReconcileAdvances
<1>6. ASSUME NEW a \in Automatic, AutoAccepts(a) PROVE StoreInv'
  BY <1>2, <1>3, <1>6, AdvancesStore DEF AutoAccepts
<1>7. ASSUME NEW s \in Savers, SaveLands(s) PROVE StoreInv'
  BY <1>7, SetLandsKeeps DEF SaveLands
<1>8. ASSUME NEW s \in Savers, SaveReturns(s) PROVE StoreInv'
  BY <1>8, SetReturnsKeeps DEF SaveReturns
<1>9. ASSUME NEW s \in Savers, SaveFails(s) PROVE StoreInv'
  BY <1>9, SetFailsKeeps DEF SaveFails
<1>10. ASSUME NEW k \in Rekeys, MoveLands(k) PROVE StoreInv'
  BY <1>10, RekeyLandsKeeps DEF MoveLands
<1>11. ASSUME NEW k \in Rekeys, MoveEnds(k) PROVE StoreInv'
  BY <1>11, RekeyRemovesKeeps DEF MoveEnds
<1>12. ASSUME NEW k \in Rekeys, MoveFails(k) PROVE StoreInv'
  BY <1>12, RekeyFailsKeeps DEF MoveFails
<1>13. ASSUME NEW k \in Rekeys, MoveLeavesFile(k) PROVE StoreInv'
  BY <1>13, RemoveFailsKeeps DEF MoveLeavesFile
<1>14. ASSUME NEW p \in Paths, Renames(p) PROVE StoreInv'
  BY <1>14, RekeyBeginsKeeps DEF Renames
<1>15. CASE Repairs
  BY <1>1, <1>15, RekeyBeginsKeeps DEF Repairs, Drifted
<1>16. CASE Restarts
  BY <1>16, ReloadKeeps DEF Restarts
<1>17. ASSUME NEW e \in AgentEdits, AgentWrites(e) \/ Records(e) \/ Appends(e) \/ RecordAges(e)
       PROVE UNCHANGED storeVars
  BY <1>1, <1>17 DEF AgentWrites, Records, Appends, RecordAges
<1>18. ASSUME NEW e \in HumanEdits, HumanTypes(e) \/ EditorSaves(e)
       PROVE UNCHANGED storeVars
  BY <1>1, <1>18 DEF HumanTypes, EditorSaves
<1>19. ASSUME NEW p \in Paths, InputAges(p) \/ ReconcileFires(p)
       PROVE UNCHANGED storeVars
  BY <1>1, <1>19 DEF InputAges, ReconcileFires
<1>20. CASE HumanAccepts \/ AcceptReads \/ AcceptRefused \/ AcceptStamps \/ AcceptRereads \/ AcceptEnds
  BY <1>1, <1>20 DEF HumanAccepts, AcceptReads, AcceptRefused, AcceptStamps,
     AcceptRereads, AcceptEnds
<1>21. CASE ReconcileReads \/ ReconcileLeaves \/ ReconcileDefers \/ SweepBegins
  BY <1>1, <1>21 DEF ReconcileReads, ReconcileLeaves, ReconcileDefers,
     SweepBegins
<1>22. ASSUME NEW a \in Automatic, AutoReads(a) \/ AutoDeclines(a)
       PROVE UNCHANGED storeVars
  BY <1>1, <1>22 DEF AutoReads, AutoDeclines
<1>23. CASE HumanReverts \/ RevertReads \/ RevertKeeps \/ RevertWrites
  BY <1>1, <1>23 DEF HumanReverts, RevertReads, RevertKeeps, RevertWrites
<1>24. CASE UNCHANGED vars
  BY <1>1, <1>24 DEF vars
<1> QED
  BY <1>1, <1>2, <1>3, <1>4, <1>5, <1>6, <1>7, <1>8, <1>9, <1>10, <1>11, <1>12,
     <1>13, <1>14, <1>15, <1>16, <1>17, <1>18, <1>19, <1>20, <1>21, <1>22,
     <1>23, <1>24 DEF Next

(* Every step keeps the types of what else there is.                       *)
FieldsOK ==
    /\ path \in Paths /\ note \in Contents
    /\ input \in [Paths -> SUBSET SUBSET AgentEdits]
    /\ timers \subseteq Paths
    /\ repair \in BOOLEAN /\ kept \subseteq Edits
    /\ raced \subseteq Edits /\ overwritten \subseteq Edits
    /\ latest \in Slots /\ strayed \in BOOLEAN

SavesMatch == \A s \in Savers : save[s] # Idle <=> job[s].stage = "saving"

LEMMA TypeParts ==
    ASSUME StoreTypeOK, EditTypeOK
    PROVE  TypeOK <=> FieldsOK /\ SavesMatch
  BY DEF TypeOK, StoreTypeOK, EditTypeOK, FieldsOK, SavesMatch, Slots

LEMMA AdvancesFields ==
    ASSUME FieldsOK, WorkTypeOK, NEW a \in Savers, NEW content, job[a].stage \in ReadStages,
           Advances(a, content), UNCHANGED << noteVars, repair, acts, kept, overwritten, latest, strayed >>
    PROVE  FieldsOK'
<1>1. job[a] \in ReadJobs
  BY JobIs, AcceptanceAssumption
<1>2. job[a].since \subseteq Edits
  BY <1>1 DEF ReadJobs
<1> QED  BY <1>2 DEF Advances, FieldsOK, noteVars

LEMMA FieldsStep ==
    ASSUME FieldsOK, WorkTypeOK, StoreTypeOK, SavesMatch, [Next]_vars
    PROVE  FieldsOK'
<1>a. /\ {"accept", "reconcile", "sweep"} \subseteq Savers /\ Automatic \subseteq Savers
      /\ {"read", "folded", "judging", "autoJudging", "keeping", "writing"} \subseteq ReadStages
      /\ AgentEdits \subseteq Edits /\ HumanEdits \subseteq Edits
  BY AcceptanceAssumption DEF Actors, Automatic, Edits, ReadStages, HasRead
<1>1. CASE UNCHANGED << path, note, input, timers, repair, historyVars >>
  BY <1>1 DEF FieldsOK, historyVars
<1>2. ASSUME NEW e \in AgentEdits, AgentWrites(e) PROVE FieldsOK'
  BY <1>a, <1>2 DEF AgentWrites, Modified, FieldsOK, Contents, historyVars
<1>3. ASSUME NEW e \in HumanEdits, EditorSaves(e) PROVE FieldsOK'
  BY <1>a, <1>3 DEF EditorSaves, Modified, FieldsOK, Contents, historyVars
<1>4. ASSUME NEW e \in HumanEdits, HumanTypes(e) PROVE FieldsOK'
  BY <1>4 DEF HumanTypes, FieldsOK, historyVars
<1>5. ASSUME NEW p \in Paths, InputAges(p) \/ ReconcileFires(p) \/ Renames(p)
      PROVE  FieldsOK'
  BY <1>5 DEF InputAges, ReconcileFires, Renames, FieldsOK, historyVars
<1>6. ASSUME NEW s \in Savers, SaveReturns(s) PROVE FieldsOK'
  <2>1. save[s].baseline \in Slots
    BY <1>6 DEF SaveReturns, SetReturns, StoreTypeOK, Slots, Idle
  <2> QED  BY <1>6, <2>1 DEF SaveReturns, FieldsOK, noteVars
<1>7. CASE HumanAccepts
  BY <1>7 DEF HumanAccepts, FieldsOK, historyVars
<1>8. CASE AcceptAsItIs
  BY <1>a, <1>8, AdvancesFields DEF AcceptAsItIs
<1>9. CASE AcceptStamps
  BY <1>9 DEF AcceptStamps, Modified, FieldsOK, Contents, historyVars
<1>10. CASE AcceptEnds
  BY <1>10 DEF AcceptEnds, FieldsOK, historyVars
<1>11. CASE ReconcileAdvances
  BY <1>a, <1>11, AdvancesFields DEF ReconcileAdvances
<1>12. ASSUME NEW a \in Automatic, AutoAccepts(a) PROVE FieldsOK'
  BY <1>a, <1>12, AdvancesFields DEF AutoAccepts
<1>13. CASE RevertKeeps
  <2>1. job["revert"] \in ReadJobs
    BY <1>a, <1>13, JobIs DEF RevertKeeps, Actors
  <2>2. job["revert"].read.edits \subseteq Edits
    BY <2>1 DEF ReadJobs, Contents
  <2> QED  BY <1>13, <2>2 DEF RevertKeeps, FieldsOK, noteVars
<1>14. CASE RevertWrites
  <2>1. job["revert"] \in ReadJobs /\ Suits("revert", job["revert"]) /\ job["revert"].stage = "writing"
    BY <1>a, <1>14, JobIs DEF RevertWrites, Actors, WorkTypeOK
  <2>2. job["revert"].base \in Baselines /\ job["revert"].since \subseteq Edits
    BY <2>1 DEF ReadJobs, Suits, NoJob
  <2>3. job["revert"].base.content \in Contents /\ job["revert"].base.content.edits \subseteq Edits
    BY <2>2 DEF Baselines, Contents
  <2> QED  BY <1>14, <2>2, <2>3 DEF RevertWrites, Modified, FieldsOK
<1>15. CASE Restarts
  BY <1>15 DEF Restarts, FieldsOK
<1>16. CASE Repairs
  BY <1>16 DEF Repairs, FieldsOK, noteVars, historyVars
<1>17. ASSUME NEW k \in Rekeys, MoveFails(k) PROVE FieldsOK'
  BY <1>17 DEF MoveFails, FieldsOK, noteVars
<1>18. ASSUME NEW e \in AgentEdits, Records(e) \/ Appends(e) \/ RecordAges(e)
       PROVE FieldsOK'
  BY <1>1, <1>18 DEF Records, Appends, RecordAges, noteVars
<1>19. ASSUME NEW s \in Savers, SaveLands(s) \/ SaveFails(s)
       PROVE FieldsOK'
  BY <1>1, <1>19 DEF SaveLands, SaveFails, noteVars
<1>20. CASE AcceptReads \/ AcceptRefused \/ AcceptRereads
  BY <1>1, <1>20 DEF AcceptReads, AcceptRefused, AcceptRereads, noteVars
<1>21. CASE ReconcileReads \/ ReconcileLeaves \/ ReconcileDefers \/ SweepBegins
  BY <1>1, <1>21 DEF ReconcileReads, ReconcileLeaves, ReconcileDefers, SweepBegins,
     noteVars
<1>22. ASSUME NEW a \in Automatic, AutoReads(a) \/ AutoDeclines(a)
       PROVE FieldsOK'
  BY <1>1, <1>22 DEF AutoReads, AutoDeclines, noteVars
<1>23. CASE HumanReverts \/ RevertReads
  BY <1>1, <1>23 DEF HumanReverts, RevertReads, noteVars
<1>24. ASSUME NEW k \in Rekeys, MoveLands(k) \/ MoveEnds(k) \/ MoveLeavesFile(k)
       PROVE FieldsOK'
  BY <1>1, <1>24 DEF MoveLands, MoveEnds, MoveLeavesFile, noteVars
<1>25. CASE UNCHANGED vars
  BY <1>1, <1>25 DEF vars, historyVars, noteVars
<1> QED
  BY <1>1, <1>2, <1>3, <1>4, <1>5, <1>6, <1>7, <1>8, <1>9, <1>10, <1>11, <1>12,
     <1>13, <1>14, <1>15, <1>16, <1>17, <1>18, <1>19, <1>20, <1>21, <1>22,
     <1>23, <1>24, <1>25 DEF Next

(* Who is saving has a save under way, and nobody else has.                *)
LEMMA SavesKept ==
    ASSUME SavesMatch, WorkTypeOK, NEW a \in Actors, job[a].stage # "saving", UNCHANGED save,
           NEW j, j.stage # "saving", job' = [job EXCEPT ![a] = j]
    PROVE  SavesMatch'
  BY AcceptanceAssumption DEF SavesMatch, WorkTypeOK

LEMMA SavesEnded ==
    ASSUME SavesMatch, WorkTypeOK, StoreTypeOK, NEW a \in Actors,
           job[a].stage \in PlainStages \cup ReadStages, job' = Ended(a),
           \/ job[a].stage # "saving" /\ UNCHANGED save
           \/ a \in Savers /\ save' = [save EXCEPT ![a] = Idle]
    PROVE  SavesMatch'
<1>1. job'[a].stage # "saving" /\ \A c \in Actors \ {a} : job'[c] = job[c]
  BY EndedType
<1>2. CASE job[a].stage # "saving" /\ UNCHANGED save
  BY <1>1, <1>2, AcceptanceAssumption DEF SavesMatch
<1>3. CASE a \in Savers /\ save' = [save EXCEPT ![a] = Idle]
  <2>1. save'[a] = Idle /\ \A c \in Savers \ {a} : save'[c] = save[c]
    BY <1>3 DEF StoreTypeOK
  <2> QED  BY <1>1, <2>1, AcceptanceAssumption DEF SavesMatch
<1> QED  BY <1>2, <1>3

LEMMA SavesBegin ==
    ASSUME SavesMatch, WorkTypeOK, StoreTypeOK, NEW a \in Savers, NEW content, job[a].stage \in ReadStages,
           Advances(a, content)
    PROVE  SavesMatch'
<1>1. /\ save' = [save EXCEPT ![a] = [stage |-> "writing", path |-> job[a].path, baseline |-> Now(content)]]
      /\ job' = [job EXCEPT ![a].stage = "saving"]
  BY DEF Advances, SetBegins
<1>2. job[a] \in ReadJobs /\ a \in Actors
  BY JobIs, AcceptanceAssumption
<1>3. job'[a].stage = "saving" /\ \A c \in Actors \ {a} : job'[c] = job[c]
  BY <1>1, <1>2 DEF WorkTypeOK, ReadJobs
<1>4. save'[a] # Idle /\ \A c \in Savers \ {a} : save'[c] = save[c]
  BY <1>1 DEF StoreTypeOK, Idle
<1> QED  BY <1>3, <1>4, AcceptanceAssumption DEF SavesMatch

LEMMA SavesStep ==
    ASSUME FieldsOK, WorkTypeOK, StoreTypeOK, SavesMatch, [Next]_vars
    PROVE  SavesMatch'
<1>a. /\ {"accept", "reconcile", "sweep"} \subseteq Savers /\ Automatic \subseteq Savers
      /\ Savers \subseteq Actors /\ "revert" \in Actors
      /\ AgentEdits \subseteq Edits /\ HumanEdits \subseteq Edits
  BY AcceptanceAssumption DEF Actors, Automatic, Edits
<1>b. PlainStages \cup ReadStages =
        {"reading", "autoReading", "ending", "read", "folded", "judging", "autoJudging", "keeping", "writing",
         "stamped", "saving"}
  BY DEF PlainStages, ReadStages, HasRead
<1>c. /\ NoJob.stage # "saving"
      /\ \A st, p, base : Job(st, p, base).stage = st
      /\ \A a, st, base : Reads(a, st, base).stage = st
  BY DEF NoJob, Job, Reads
<1>1. CASE UNCHANGED << save, job >>
  BY <1>1 DEF SavesMatch
<1>2. ASSUME NEW e \in AgentEdits, AgentWrites(e) PROVE SavesMatch'
  BY <1>a, <1>2, NoticingType DEF AgentWrites, SavesMatch, storeVars
<1>3. ASSUME NEW e \in HumanEdits, EditorSaves(e) PROVE SavesMatch'
  BY <1>a, <1>3, NoticingType DEF EditorSaves, SavesMatch, storeVars
<1>4. ASSUME NEW s \in Savers, SaveReturns(s) PROVE SavesMatch'
  <2>1. job[s].stage = "saving"
    BY <1>4 DEF SaveReturns, SetReturns, SavesMatch, Idle
  <2> QED  BY <1>a, <1>b, <1>4, <2>1, SavesEnded DEF SaveReturns, SetReturns
<1>5. ASSUME NEW s \in Savers, SaveFails(s) PROVE SavesMatch'
  <2>1. job[s].stage = "saving"
    BY <1>5 DEF SaveFails, SetFails, SavesMatch, Idle
  <2> QED  BY <1>a, <1>b, <1>5, <2>1, SavesEnded DEF SaveFails, SetFails
<1>6. CASE HumanAccepts
  <2>1. /\ job["accept"].stage # "saving" /\ UNCHANGED save
        /\ job' = [job EXCEPT !["accept"] = Job("reading", path, NoBaseline)]
    BY <1>c, <1>6 DEF HumanAccepts, storeVars
  <2>2. Job("reading", path, NoBaseline).stage # "saving"
    BY DEF Job
  <2> QED  BY <1>a, <2>1, <2>2, SavesKept
<1>7. CASE AcceptEnds
  BY <1>a, <1>c, <1>7, SavesKept DEF AcceptEnds, storeVars
<1>8. CASE AcceptAsItIs
  BY <1>a, <1>8, SavesBegin DEF AcceptAsItIs, ReadStages, HasRead
<1>9. CASE ReconcileAdvances
  BY <1>a, <1>9, SavesBegin DEF ReconcileAdvances, ReadStages, HasRead
<1>10. ASSUME NEW a \in Automatic, AutoAccepts(a) PROVE SavesMatch'
  BY <1>a, <1>10, SavesBegin DEF AutoAccepts, ReadStages, HasRead
<1>11. CASE AcceptRefused
  BY <1>a, <1>b, <1>11, SavesEnded DEF AcceptRefused, storeVars
<1>12. CASE ReconcileLeaves
  BY <1>a, <1>b, <1>12, SavesEnded DEF ReconcileLeaves, storeVars
<1>13. CASE RevertWrites
  BY <1>a, <1>b, <1>13, SavesEnded DEF RevertWrites, storeVars
<1>14. ASSUME NEW a \in Automatic, AutoDeclines(a) PROVE SavesMatch'
  BY <1>a, <1>b, <1>14, SavesEnded DEF AutoDeclines, storeVars
<1>15. CASE AcceptReads
  <2>1. CASE job' = Ended("accept")
    BY <1>a, <1>b, <1>15, <2>1, SavesEnded DEF AcceptReads, storeVars
  <2>2. CASE job' # Ended("accept")
    BY <1>a, <1>c, <1>15, <2>2, SavesKept DEF AcceptReads, storeVars
  <2> QED  BY <2>1, <2>2
<1>16. CASE AcceptRereads
  <2>1. CASE job' = Ended("accept")
    BY <1>a, <1>b, <1>16, <2>1, SavesEnded DEF AcceptRereads, storeVars
  <2>2. CASE job' # Ended("accept")
    BY <1>a, <1>c, <1>16, <2>2, SavesKept DEF AcceptRereads, storeVars
  <2> QED  BY <2>1, <2>2
<1>17. CASE RevertReads
  <2>1. CASE job' = Ended("revert")
    BY <1>a, <1>b, <1>17, <2>1, SavesEnded DEF RevertReads, storeVars
  <2>2. CASE job' # Ended("revert")
    BY <1>a, <1>c, <1>17, <2>2, SavesKept DEF RevertReads, storeVars
  <2> QED  BY <2>1, <2>2
<1>18. ASSUME NEW a \in Automatic, AutoReads(a) PROVE SavesMatch'
  <2>1. CASE job' = Ended(a)
    BY <1>a, <1>b, <1>18, <2>1, SavesEnded DEF AutoReads, storeVars
  <2>2. CASE job' # Ended(a)
    BY <1>a, <1>c, <1>18, <2>2, SavesKept DEF AutoReads, storeVars
  <2> QED  BY <2>1, <2>2
<1>19. CASE AcceptStamps
  <2>1. job["accept"] \in ReadJobs
    BY <1>a, <1>b, <1>19, JobIs DEF AcceptStamps, ReadStages, HasRead
  <2>2. job'["accept"].stage = "stamped" /\ \A c \in Actors \ {"accept"} : job'[c] = job[c]
    BY <1>a, <1>19, <2>1 DEF AcceptStamps, WorkTypeOK, ReadJobs
  <2> QED  BY <1>a, <1>19, <2>2 DEF AcceptStamps, SavesMatch, storeVars
<1>20. CASE RevertKeeps
  <2>1. \A c \in Actors \ {"revert"} : job'[c] = job[c]
    BY <1>a, <1>20 DEF RevertKeeps, WorkTypeOK
  <2> QED  BY <1>20, <2>1, AcceptanceAssumption DEF RevertKeeps, SavesMatch, storeVars
<1>21. ASSUME NEW p \in Paths, ReconcileFires(p) PROVE SavesMatch'
  <2>1. /\ job["reconcile"].stage # "saving" /\ UNCHANGED save
        /\ job' = [job EXCEPT !["reconcile"] = Job("reading", path, cache[path])]
    BY <1>c, <1>21 DEF ReconcileFires, storeVars
  <2>2. Job("reading", path, cache[path]).stage # "saving"
    BY DEF Job
  <2> QED  BY <1>a, <2>1, <2>2, SavesKept
<1>22. CASE ReconcileReads
  <2>1. \/ job' = [job EXCEPT !["reconcile"] = NoJob]
        \/ job' = [job EXCEPT !["reconcile"] =
                     Reads("reconcile", "judging", job["reconcile"].base)]
    BY <1>22 DEF ReconcileReads, AutoBegins
  <2>2. job["reconcile"].stage # "saving" /\ UNCHANGED save
    BY <1>c, <1>22 DEF ReconcileReads, storeVars
  <2>3. /\ Reads("reconcile", "judging", job["reconcile"].base).stage # "saving"
        /\ NoJob.stage # "saving"
    BY DEF Reads, NoJob
  <2> QED  BY <1>a, <2>1, <2>2, <2>3, SavesKept
<1>23. CASE ReconcileDefers
  <2>1. \/ job' = [job EXCEPT !["reconcile"] = NoJob]
        \/ job' = [job EXCEPT !["reconcile"] =
                     Job("autoReading", job["reconcile"].path, cache[job["reconcile"].path])]
    BY <1>23 DEF ReconcileDefers, AutoBegins
  <2>2. job["reconcile"].stage # "saving" /\ UNCHANGED save
    BY <1>c, <1>23 DEF ReconcileDefers, storeVars
  <2>3. /\ Job("autoReading", job["reconcile"].path, cache[job["reconcile"].path]).stage # "saving"
        /\ NoJob.stage # "saving"
    BY DEF Job, NoJob
  <2> QED  BY <1>a, <2>1, <2>2, <2>3, SavesKept
<1>24. CASE SweepBegins
  <2>1. \/ job' = [job EXCEPT !["sweep"] = NoJob]
        \/ job' = [job EXCEPT !["sweep"] =
                     Job("autoReading", path, cache[path])]
    BY <1>24 DEF SweepBegins, AutoBegins
  <2>2. job["sweep"].stage # "saving" /\ UNCHANGED save
    BY <1>c, <1>24 DEF SweepBegins, storeVars
  <2>3. /\ Job("autoReading", path, cache[path]).stage # "saving"
        /\ NoJob.stage # "saving"
    BY DEF Job, NoJob
  <2> QED  BY <1>a, <2>1, <2>2, <2>3, SavesKept
<1>25. CASE HumanReverts
  <2>1. job' = [job EXCEPT !["revert"] = Job("reading", path, cache[path])]
    BY <1>25 DEF HumanReverts, AutoBegins
  <2>2. job["revert"].stage # "saving" /\ UNCHANGED save
    BY <1>c, <1>25 DEF HumanReverts, storeVars
  <2>3. /\ Job("reading", path, cache[path]).stage # "saving"
        /\ NoJob.stage # "saving"
    BY DEF Job, NoJob
  <2> QED  BY <1>a, <2>1, <2>2, <2>3, SavesKept
<1>26. CASE Restarts
  BY <1>a, <1>c, <1>26 DEF Restarts, Reload, SavesMatch
<1>27. ASSUME NEW e \in AgentEdits, Records(e) \/ Appends(e) \/ RecordAges(e)
       PROVE SavesMatch'
  BY <1>1, <1>27 DEF Records, Appends, RecordAges, storeVars
<1>28. ASSUME NEW e \in HumanEdits, HumanTypes(e)
       PROVE SavesMatch'
  BY <1>1, <1>28 DEF HumanTypes, storeVars
<1>29. ASSUME NEW p \in Paths, InputAges(p) \/ Renames(p)
       PROVE SavesMatch'
  BY <1>1, <1>29 DEF InputAges, Renames, RekeyBegins, storeVars
<1>30. ASSUME NEW k \in Rekeys, MoveLands(k) \/ MoveEnds(k) \/ MoveFails(k) \/ MoveLeavesFile(k)
       PROVE SavesMatch'
  BY <1>1, <1>30 DEF MoveLands, MoveEnds, MoveFails, MoveLeavesFile, RekeyLands,
     RekeyRemoves, RekeyFails, RemoveFails, storeVars
<1>31. CASE Repairs \/ UNCHANGED vars
  BY <1>1, <1>31 DEF Repairs, RekeyBegins, vars, storeVars
<1>32. ASSUME NEW s \in Savers, SaveLands(s) PROVE SavesMatch'
  <2>1. save'[s] # Idle /\ save[s] # Idle /\ \A t \in Savers \ {s} : save'[t] = save[t]
    BY <1>32 DEF SaveLands, SetLands, StoreTypeOK, Idle
  <2> QED  BY <1>32, <2>1 DEF SaveLands, SavesMatch
<1> QED
  BY <1>1, <1>2, <1>3, <1>4, <1>5, <1>6, <1>7, <1>8, <1>9, <1>10, <1>11, <1>12,
     <1>13, <1>14, <1>15, <1>16, <1>17, <1>18, <1>19, <1>20, <1>21, <1>22,
     <1>23, <1>24, <1>25, <1>26, <1>27, <1>28, <1>29, <1>30, <1>31, <1>32 DEF
     Next

(* Every step of others leaves what the accept holds; what it is   *)
(* to take is what it read and stamped, bare values excepted.              *)
LEMMA AcceptFrame ==
    ASSUME AcceptHolds, job'["accept"] = job["accept"],
           job["accept"].stage = "saving" => save'["accept"].baseline = save["accept"].baseline
    PROVE  AcceptHolds'
  BY DEF AcceptHolds

LEMMA AcceptStep ==
    ASSUME AcceptHolds, TypeOK, WorkTypeOK, StoreTypeOK, [Next]_vars
    PROVE  AcceptHolds'
<1>a. /\ {"accept", "reconcile", "sweep"} \subseteq Savers /\ Automatic \subseteq Savers \ {"accept"}
      /\ Savers \subseteq Actors /\ "revert" \in Actors /\ "revert" \notin Savers
      /\ AgentEdits \subseteq Edits /\ HumanEdits \subseteq Edits
      /\ AgentEdits \cap HumanEdits = {}
  BY AcceptanceAssumption DEF Actors, Automatic, Edits
<1>b. PlainStages \cup ReadStages =
        {"reading", "autoReading", "ending", "read", "folded", "judging", "autoJudging", "keeping", "writing",
         "stamped", "saving"}
  BY DEF PlainStages, ReadStages, HasRead
<1>1. CASE job'["accept"] = job["accept"] /\ save'["accept"] = save["accept"]
  BY <1>1, AcceptFrame
<1>2. CASE job'["accept"].stage \in {"idle", "reading", "ending"}
  BY <1>2 DEF AcceptHolds
<1>3. ASSUME NEW e \in AgentEdits, AgentWrites(e) PROVE AcceptHolds'
  <2>1. save' = save /\ job' = Noticing(e)
    BY <1>3 DEF AgentWrites, storeVars
  <2>2. CASE job["accept"] = NoJob
    BY <1>a, <2>1, <2>2, NoticingType DEF AcceptHolds, NoJob
  <2>3. CASE job["accept"] # NoJob
    BY <1>a, <2>1, <2>3, NoticingType DEF AcceptHolds, HasRead
  <2> QED  BY <2>2, <2>3
<1>4. ASSUME NEW e \in HumanEdits, EditorSaves(e) PROVE AcceptHolds'
  <2>1. save' = save /\ job' = Noticing(e)
    BY <1>4 DEF EditorSaves, storeVars
  <2>2. CASE job["accept"] = NoJob
    BY <1>a, <2>1, <2>2, NoticingType DEF AcceptHolds, NoJob
  <2>3. CASE job["accept"] # NoJob
    BY <1>a, <2>1, <2>3, NoticingType DEF AcceptHolds, HasRead
  <2> QED  BY <2>2, <2>3
<1>5. ASSUME NEW s \in Savers, SaveLands(s) PROVE AcceptHolds'
  <2>1. save'["accept"].baseline = save["accept"].baseline \/ save["accept"] = Idle
    BY <1>a, <1>5 DEF SaveLands, SetLands, StoreTypeOK, Idle
  <2> QED  BY <1>a, <1>5, <2>1, AcceptFrame DEF SaveLands, TypeOK
<1>6. ASSUME NEW s \in Savers, SaveReturns(s) PROVE AcceptHolds'
  <2>1. job[s].stage = "saving"
    BY <1>6 DEF SaveReturns, SetReturns, TypeOK, Idle
  <2>2. CASE s = "accept"
    BY <1>a, <1>b, <1>2, <1>6, <2>1, <2>2, EndedType DEF SaveReturns
  <2>3. CASE s # "accept"
    <3>1. save'["accept"] = save["accept"]
      BY <1>a, <1>6, <2>3 DEF SaveReturns, SetReturns, StoreTypeOK
    <3> QED  BY <1>a, <1>b, <1>1, <1>6, <2>1, <2>3, <3>1, EndedType DEF SaveReturns
  <2> QED  BY <2>2, <2>3
<1>7. ASSUME NEW s \in Savers, SaveFails(s) PROVE AcceptHolds'
  <2>1. job[s].stage = "saving"
    BY <1>7 DEF SaveFails, SetFails, TypeOK, Idle
  <2>2. CASE s = "accept"
    BY <1>a, <1>b, <1>2, <1>7, <2>1, <2>2, EndedType DEF SaveFails
  <2>3. CASE s # "accept"
    <3>1. save'["accept"] = save["accept"]
      BY <1>a, <1>7, <2>3 DEF SaveFails, SetFails, StoreTypeOK
    <3> QED  BY <1>a, <1>b, <1>1, <1>7, <2>1, <2>3, <3>1, EndedType DEF SaveFails
  <2> QED  BY <2>2, <2>3
<1>8. CASE HumanAccepts
  BY <1>a, <1>2, <1>8 DEF HumanAccepts, WorkTypeOK, Job
<1>9. CASE AcceptEnds
  BY <1>a, <1>2, <1>9 DEF AcceptEnds, WorkTypeOK, NoJob
<1>10. CASE AcceptReads
  <2>1. CASE job' = Ended("accept")
    BY <1>a, <1>b, <1>2, <1>10, <2>1, EndedType DEF AcceptReads
  <2>2. CASE job' = [job EXCEPT !["accept"] = Reads("accept", "read", note)]
    BY <1>a, <2>2 DEF WorkTypeOK, Reads, AcceptHolds, TypeOK
  <2> QED  BY <1>10, <2>1, <2>2 DEF AcceptReads
<1>11. CASE AcceptAsItIs
  <2>1. job["accept"] \in ReadJobs /\ job["accept"].stage \in {"read", "folded"}
    BY <1>a, <1>b, <1>11, JobIs DEF AcceptAsItIs, ReadStages, HasRead
  <2>2. job'["accept"].stage = "saving" /\ job'["accept"].base = job["accept"].base
    BY <1>a, <1>11, <2>1 DEF AcceptAsItIs, Advances, WorkTypeOK, ReadJobs
  <2>3. save'["accept"].baseline = Now(job["accept"].read)
    BY <1>a, <1>11 DEF AcceptAsItIs, Advances, SetBegins, StoreTypeOK
  <2>4. save'["accept"].baseline.content.edits = job["accept"].read.edits
    BY <2>1, <2>3, NowType DEF ReadJobs
  <2> QED  BY <2>1, <2>2, <2>4 DEF AcceptHolds
<1>12. CASE AcceptRefused
  BY <1>a, <1>b, <1>2, <1>12, EndedType DEF AcceptRefused
<1>13. CASE AcceptStamps
  <2>1. job["accept"] \in ReadJobs /\ job["accept"].stage = "read"
    BY <1>a, <1>b, <1>13, JobIs DEF AcceptStamps, ReadStages, HasRead
  <2>2. job'["accept"].stage = "stamped" /\ job'["accept"].base = job["accept"].base
    BY <1>a, <1>13, <2>1 DEF AcceptStamps, WorkTypeOK, ReadJobs
  <2> QED  BY <2>1, <2>2 DEF AcceptHolds
<1>14. CASE AcceptRereads
  <2>1. CASE job' = Ended("accept")
    BY <1>a, <1>b, <1>2, <1>14, <2>1, EndedType DEF AcceptRereads
  <2>2. CASE job' # Ended("accept")
    <3>1. /\ job' = [job EXCEPT !["accept"] = Reads("accept", "folded", job["accept"].base)]
          /\ FoldHolds(job["accept"].base, note) /\ job["accept"].stage = "stamped"
      BY <1>14, <2>2 DEF AcceptRereads
    <3>2. job'["accept"] = Reads("accept", "folded", job["accept"].base)
      BY <1>a, <3>1 DEF WorkTypeOK
    <3>3. /\ job'["accept"].stage = "folded" /\ job'["accept"].base = job["accept"].base
          /\ job'["accept"].read = note
      BY <3>2 DEF Reads
    <3> QED  BY <3>1, <3>3 DEF AcceptHolds, FoldHolds
  <2> QED  BY <2>1, <2>2
<1>15. CASE ReconcileAdvances
  BY <1>a, <1>1, <1>15 DEF ReconcileAdvances, Advances, SetBegins, WorkTypeOK, StoreTypeOK
<1>16. ASSUME NEW a \in Automatic, AutoAccepts(a) PROVE AcceptHolds'
  BY <1>a, <1>1, <1>16 DEF AutoAccepts, Advances, SetBegins, WorkTypeOK, StoreTypeOK
<1>17. CASE ReconcileLeaves
  BY <1>a, <1>b, <1>1, <1>17, EndedType DEF ReconcileLeaves, storeVars
<1>18. CASE RevertWrites
  BY <1>a, <1>b, <1>1, <1>18, EndedType DEF RevertWrites, storeVars
<1>19. ASSUME NEW a \in Automatic, AutoDeclines(a) PROVE AcceptHolds'
  BY <1>a, <1>b, <1>1, <1>19, EndedType DEF AutoDeclines, storeVars
<1>20. ASSUME NEW a \in Automatic, AutoReads(a) PROVE AcceptHolds'
  <2>1. job'["accept"] = job["accept"]
    BY <1>a, <1>b, <1>20, EndedType DEF AutoReads, WorkTypeOK
  <2> QED  BY <1>1, <1>20, <2>1 DEF AutoReads, storeVars
<1>21. CASE RevertReads
  <2>1. job'["accept"] = job["accept"]
    BY <1>a, <1>b, <1>21, EndedType DEF RevertReads, WorkTypeOK
  <2> QED  BY <1>1, <1>21, <2>1 DEF RevertReads, storeVars
<1>22. CASE HumanReverts \/ RevertKeeps
  BY <1>a, <1>1, <1>22 DEF HumanReverts, RevertKeeps, WorkTypeOK, storeVars
<1>23. ASSUME NEW p \in Paths, ReconcileFires(p) PROVE AcceptHolds'
  BY <1>a, <1>1, <1>23 DEF ReconcileFires, WorkTypeOK, storeVars
<1>24. CASE ReconcileReads \/ ReconcileDefers \/ SweepBegins
  BY <1>a, <1>1, <1>24 DEF ReconcileReads, ReconcileDefers, SweepBegins, AutoBegins,
     WorkTypeOK, storeVars
<1>25. CASE Restarts
  BY <1>a, <1>2, <1>25 DEF Restarts, NoJob
<1>26. ASSUME NEW e \in AgentEdits, Records(e) \/ Appends(e) \/ RecordAges(e)
       PROVE AcceptHolds'
  BY <1>1, <1>26 DEF Records, Appends, RecordAges, storeVars
<1>27. ASSUME NEW e \in HumanEdits, HumanTypes(e)
       PROVE AcceptHolds'
  BY <1>1, <1>27 DEF HumanTypes, storeVars
<1>28. ASSUME NEW p \in Paths, InputAges(p) \/ Renames(p)
       PROVE AcceptHolds'
  BY <1>1, <1>28 DEF InputAges, Renames, RekeyBegins, storeVars
<1>29. ASSUME NEW k \in Rekeys, MoveLands(k) \/ MoveEnds(k) \/ MoveFails(k) \/ MoveLeavesFile(k)
       PROVE AcceptHolds'
  BY <1>1, <1>29 DEF MoveLands, MoveEnds, MoveFails, MoveLeavesFile, RekeyLands,
     RekeyRemoves, RekeyFails, RemoveFails, storeVars
<1>30. CASE Repairs \/ UNCHANGED vars
  BY <1>1, <1>30 DEF Repairs, RekeyBegins, vars, storeVars
<1> QED
  BY <1>1, <1>2, <1>3, <1>4, <1>5, <1>6, <1>7, <1>8, <1>9, <1>10, <1>11, <1>12,
     <1>13, <1>14, <1>15, <1>16, <1>17, <1>18, <1>19, <1>20, <1>21, <1>22,
     <1>23, <1>24, <1>25, <1>26, <1>27, <1>28, <1>29, <1>30 DEF Next

(* What a revert may lose came after it read; the rest it has kept.        *)
LEMMA RevertFrame ==
    ASSUME RevertHolds, job'["revert"] = job["revert"], note'.edits \subseteq note.edits, kept \subseteq kept'
    PROVE  RevertHolds'
  BY DEF RevertHolds

LEMMA RevertStep ==
    ASSUME RevertHolds, TypeOK, WorkTypeOK, [Next]_vars
    PROVE  RevertHolds'
<1>a. /\ {"accept", "reconcile", "sweep"} \subseteq Savers /\ Automatic \subseteq Savers \ {"accept"}
      /\ Savers \subseteq Actors /\ "revert" \in Actors /\ "revert" \notin Savers
      /\ AgentEdits \subseteq Edits /\ HumanEdits \subseteq Edits
      /\ AgentEdits \cap HumanEdits = {}
  BY AcceptanceAssumption DEF Actors, Automatic, Edits
<1>b. PlainStages \cup ReadStages =
        {"reading", "autoReading", "ending", "read", "folded", "judging", "autoJudging", "keeping", "writing",
         "stamped", "saving"}
  BY DEF PlainStages, ReadStages, HasRead
<1>1. CASE job'["revert"] = job["revert"] /\ note'.edits = note.edits /\ kept' = kept
  BY <1>1, RevertFrame
<1>2. CASE job'["revert"].stage \in {"idle", "reading"}
  BY <1>2 DEF RevertHolds
<1>3. ASSUME NEW e \in AgentEdits, AgentWrites(e) PROVE RevertHolds'
  <2>1. note'.edits = note.edits \cup {e} /\ job' = Noticing(e) /\ kept' = kept
    BY <1>3 DEF AgentWrites, Modified, TypeOK, Contents, historyVars
  <2> QED  BY <1>a, <2>1, NoticingType DEF RevertHolds, HasRead
<1>4. ASSUME NEW e \in HumanEdits, EditorSaves(e) PROVE RevertHolds'
  <2>1. note'.edits = note.edits \cup {e} /\ job' = Noticing(e) /\ kept' = kept
    BY <1>4 DEF EditorSaves, Modified, TypeOK, Contents, historyVars
  <2> QED  BY <1>a, <2>1, NoticingType DEF RevertHolds, HasRead
<1>5. ASSUME NEW s \in Savers, SaveReturns(s) PROVE RevertHolds'
  <2>1. job[s].stage = "saving"
    BY <1>5 DEF SaveReturns, SetReturns, TypeOK, Idle
  <2> QED  BY <1>a, <1>b, <1>1, <1>5, <2>1, EndedType DEF SaveReturns, noteVars, historyVars
<1>6. ASSUME NEW s \in Savers, SaveFails(s) PROVE RevertHolds'
  <2>1. job[s].stage = "saving"
    BY <1>6 DEF SaveFails, SetFails, TypeOK, Idle
  <2> QED  BY <1>a, <1>b, <1>1, <1>6, <2>1, EndedType DEF SaveFails, noteVars, historyVars
<1>7. CASE HumanAccepts
  BY <1>a, <1>1, <1>7 DEF HumanAccepts, WorkTypeOK, historyVars
<1>8. CASE AcceptEnds
  BY <1>a, <1>1, <1>8 DEF AcceptEnds, WorkTypeOK, historyVars
<1>9. CASE AcceptReads
  <2>1. job'["revert"] = job["revert"]
    BY <1>a, <1>b, <1>9, EndedType DEF AcceptReads, WorkTypeOK
  <2> QED  BY <1>1, <1>9, <2>1 DEF AcceptReads, noteVars, historyVars
<1>10. CASE AcceptRereads
  <2>1. job'["revert"] = job["revert"]
    BY <1>a, <1>b, <1>10, EndedType DEF AcceptRereads, WorkTypeOK
  <2> QED  BY <1>1, <1>10, <2>1 DEF AcceptRereads, noteVars, historyVars
<1>11. CASE AcceptAsItIs \/ ReconcileAdvances
  BY <1>a, <1>1, <1>11 DEF AcceptAsItIs, ReconcileAdvances, Advances, WorkTypeOK, noteVars
<1>12. ASSUME NEW a \in Automatic, AutoAccepts(a) PROVE RevertHolds'
  BY <1>a, <1>1, <1>12 DEF AutoAccepts, Advances, WorkTypeOK, noteVars
<1>13. CASE AcceptStamps
  BY <1>a, <1>1, <1>13 DEF AcceptStamps, Modified, WorkTypeOK, TypeOK, Contents, historyVars
<1>14. CASE AcceptRefused
  BY <1>a, <1>b, <1>1, <1>14, EndedType DEF AcceptRefused, noteVars, historyVars
<1>15. CASE ReconcileLeaves
  BY <1>a, <1>b, <1>1, <1>15, EndedType DEF ReconcileLeaves, noteVars, historyVars
<1>16. ASSUME NEW a \in Automatic, AutoDeclines(a) PROVE RevertHolds'
  BY <1>a, <1>b, <1>1, <1>16, EndedType DEF AutoDeclines, noteVars, historyVars
<1>17. ASSUME NEW a \in Automatic, AutoReads(a) PROVE RevertHolds'
  <2>1. job'["revert"] = job["revert"]
    BY <1>a, <1>b, <1>17, EndedType DEF AutoReads, WorkTypeOK
  <2> QED  BY <1>1, <1>17, <2>1 DEF AutoReads, noteVars, historyVars
<1>18. ASSUME NEW p \in Paths, ReconcileFires(p) PROVE RevertHolds'
  BY <1>a, <1>1, <1>18 DEF ReconcileFires, WorkTypeOK, historyVars
<1>19. CASE ReconcileReads \/ ReconcileDefers \/ SweepBegins
  BY <1>a, <1>1, <1>19 DEF ReconcileReads, ReconcileDefers, SweepBegins, AutoBegins,
     WorkTypeOK, noteVars, historyVars
<1>20. CASE HumanReverts
  BY <1>a, <1>2, <1>20 DEF HumanReverts, WorkTypeOK, Job
<1>21. CASE RevertReads
  <2>1. CASE job' = Ended("revert")
    BY <1>a, <1>b, <1>2, <1>21, <2>1, EndedType DEF RevertReads, NoJob
  <2>2. CASE job' = [job EXCEPT !["revert"] = Reads("revert", "keeping", job["revert"].base)]
    <3>1. job'["revert"].stage = "keeping" /\ job'["revert"].read = note /\ note' = note
      BY <1>a, <1>21, <2>2 DEF RevertReads, Reads, WorkTypeOK, noteVars
    <3> QED  BY <3>1 DEF RevertHolds
  <2> QED  BY <1>21, <2>1, <2>2 DEF RevertReads
<1>22. CASE RevertKeeps
  <2>1. job["revert"] \in ReadJobs /\ job["revert"].stage = "keeping"
    BY <1>a, <1>b, <1>22, JobIs DEF RevertKeeps, ReadStages, HasRead
  <2>2. job'["revert"].stage = "writing" /\ job'["revert"].since = job["revert"].since
    BY <1>a, <1>22, <2>1 DEF RevertKeeps, WorkTypeOK, ReadJobs
  <2>3. note' = note /\ kept' = kept \cup job["revert"].read.edits
    BY <1>22 DEF RevertKeeps, noteVars
  <2> QED  BY <2>1, <2>2, <2>3 DEF RevertHolds
<1>23. CASE RevertWrites
  BY <1>a, <1>b, <1>2, <1>23, EndedType DEF RevertWrites, NoJob
<1>24. CASE Restarts
  BY <1>a, <1>2, <1>24 DEF Restarts, NoJob
<1>25. ASSUME NEW e \in AgentEdits, Records(e) \/ Appends(e) \/ RecordAges(e)
       PROVE RevertHolds'
  BY <1>1, <1>25 DEF Records, Appends, RecordAges, noteVars, historyVars
<1>26. ASSUME NEW e \in HumanEdits, HumanTypes(e)
       PROVE RevertHolds'
  BY <1>1, <1>26 DEF HumanTypes, noteVars, historyVars
<1>27. ASSUME NEW p \in Paths, InputAges(p) \/ Renames(p)
       PROVE RevertHolds'
  BY <1>1, <1>27 DEF InputAges, Renames, noteVars, historyVars
<1>28. ASSUME NEW k \in Rekeys, MoveLands(k) \/ MoveEnds(k) \/ MoveFails(k) \/ MoveLeavesFile(k)
       PROVE RevertHolds'
  BY <1>1, <1>28 DEF MoveLands, MoveEnds, MoveFails, MoveLeavesFile, noteVars,
     historyVars
<1>29. CASE Repairs \/ UNCHANGED vars
  BY <1>1, <1>29 DEF Repairs, vars, noteVars, historyVars
<1>30. ASSUME NEW s \in Savers, SaveLands(s)
       PROVE RevertHolds'
  BY <1>1, <1>30 DEF SaveLands, noteVars, historyVars
<1> QED
  BY <1>1, <1>2, <1>3, <1>4, <1>5, <1>6, <1>7, <1>8, <1>9, <1>10, <1>11, <1>12,
     <1>13, <1>14, <1>15, <1>16, <1>17, <1>18, <1>19, <1>20, <1>21, <1>22,
     <1>23, <1>24, <1>25, <1>26, <1>27, <1>28, <1>29, <1>30 DEF Next

LEMMA NothingDestroyedStep ==
    ASSUME NothingIsDestroyed, RevertHolds, TypeOK, EditTypeOK, [Next]_vars
    PROVE  NothingIsDestroyed'
<1>a. AgentEdits \subseteq Edits /\ HumanEdits \subseteq Edits
  BY DEF Edits
<1>1. CASE /\ note'.edits = note.edits /\ kept' = kept /\ overwritten' = overwritten
           /\ edit' = edit
  BY <1>1 DEF NothingIsDestroyed
<1>2. ASSUME NEW e \in AgentEdits, AgentWrites(e) PROVE NothingIsDestroyed'
  BY <1>a, <1>2 DEF AgentWrites, Modified, NothingIsDestroyed, TypeOK, EditTypeOK,
     Contents, historyVars
<1>3. ASSUME NEW e \in HumanEdits, EditorSaves(e) PROVE NothingIsDestroyed'
  BY <1>a, <1>3 DEF EditorSaves, Modified, NothingIsDestroyed, TypeOK, EditTypeOK,
     Contents, historyVars
<1>4. ASSUME NEW e \in AgentEdits, Records(e) \/ Appends(e) \/ RecordAges(e)
      PROVE  NothingIsDestroyed'
  BY <1>a, <1>4 DEF Records, Appends, RecordAges, NothingIsDestroyed, EditTypeOK,
     historyVars
<1>5. ASSUME NEW e \in HumanEdits, HumanTypes(e) PROVE NothingIsDestroyed'
  BY <1>a, <1>5 DEF HumanTypes, NothingIsDestroyed, EditTypeOK, historyVars
<1>6. CASE AcceptStamps
  BY <1>1, <1>6 DEF AcceptStamps, Modified, TypeOK, Contents, historyVars
<1>7. CASE RevertKeeps
  BY <1>7 DEF RevertKeeps, NothingIsDestroyed, noteVars
<1>8. CASE RevertWrites
  <2>1. /\ edit' = edit /\ kept' = kept
        /\ \/ overwritten' = overwritten \cup job["revert"].since
           \/ note' = note /\ overwritten' = overwritten
    BY <1>8 DEF RevertWrites
  <2>2. note.edits \subseteq kept \cup job["revert"].since
    BY <1>8 DEF RevertWrites, RevertHolds
  <2> QED  BY <2>1, <2>2 DEF NothingIsDestroyed
<1>9. CASE Restarts
  <2>1. \A e \in Edits : edit'[e].stage \in {edit[e].stage, "lost"}
    BY <1>9 DEF Restarts, EditTypeOK
  <2> QED  BY <1>9, <2>1 DEF Restarts, NothingIsDestroyed
<1>10. ASSUME NEW p \in Paths, InputAges(p) \/ ReconcileFires(p) \/ Renames(p)
       PROVE NothingIsDestroyed'
  BY <1>1, <1>10 DEF InputAges, ReconcileFires, Renames, noteVars, historyVars
<1>11. ASSUME NEW s \in Savers, SaveLands(s) \/ SaveReturns(s) \/ SaveFails(s)
       PROVE NothingIsDestroyed'
  BY <1>1, <1>11 DEF SaveLands, SaveReturns, SaveFails, noteVars, historyVars
<1>12. CASE HumanAccepts \/ AcceptReads \/ AcceptAsItIs \/ AcceptRefused
  BY <1>1, <1>12 DEF HumanAccepts, AcceptReads, AcceptAsItIs, AcceptRefused,
     Advances, noteVars, historyVars
<1>13. CASE AcceptRereads \/ AcceptEnds
  BY <1>1, <1>13 DEF AcceptRereads, AcceptEnds, noteVars, historyVars
<1>14. CASE ReconcileReads \/ ReconcileLeaves \/ ReconcileAdvances \/ ReconcileDefers \/ SweepBegins
  BY <1>1, <1>14 DEF ReconcileReads, ReconcileLeaves, ReconcileAdvances,
     ReconcileDefers, SweepBegins, noteVars, historyVars
<1>15. ASSUME NEW a \in Automatic, AutoReads(a) \/ AutoAccepts(a) \/ AutoDeclines(a)
       PROVE NothingIsDestroyed'
  BY <1>1, <1>15 DEF AutoReads, AutoAccepts, AutoDeclines, noteVars, historyVars
<1>16. CASE HumanReverts \/ RevertReads
  BY <1>1, <1>16 DEF HumanReverts, RevertReads, noteVars, historyVars
<1>17. ASSUME NEW k \in Rekeys, MoveLands(k) \/ MoveEnds(k) \/ MoveFails(k) \/ MoveLeavesFile(k)
       PROVE NothingIsDestroyed'
  BY <1>1, <1>17 DEF MoveLands, MoveEnds, MoveFails, MoveLeavesFile, noteVars,
     historyVars
<1>18. CASE Repairs \/ UNCHANGED vars
  BY <1>1, <1>18 DEF Repairs, vars, noteVars, historyVars
<1> QED
  BY <1>1, <1>2, <1>3, <1>4, <1>5, <1>6, <1>7, <1>8, <1>9, <1>10, <1>11, <1>12,
     <1>13, <1>14, <1>15, <1>16, <1>17, <1>18 DEF Next

(* Who has read the note knows what it lacks.                             *)
LEMMA KnowFrame ==
    ASSUME ReadersKnow, raced \subseteq raced', note'.edits \subseteq note.edits \cup raced',
           \A a \in Savers : job'[a] = job[a] \/ job'[a].stage \notin HasRead
                             \/ job'[a].read.edits = note'.edits
    PROVE  ReadersKnow'
  BY DEF ReadersKnow

LEMMA KnowTakes ==
    ASSUME ReadersKnow, WorkTypeOK, NEW a \in Actors, NEW j, job' = [job EXCEPT ![a] = j],
           raced \subseteq raced', note'.edits = note.edits,
           j.stage \notin HasRead \/ j.read = note
    PROVE  ReadersKnow'
<1>1. \A c \in Actors : job'[c] = IF c = a THEN j ELSE job[c]
  BY DEF WorkTypeOK
<1> QED  BY <1>1, KnowFrame, AcceptanceAssumption

LEMMA KnowEnded ==
    ASSUME ReadersKnow, WorkTypeOK, NEW a \in Actors, job[a].stage \in PlainStages \cup ReadStages,
           job' = Ended(a),
           raced \subseteq raced', note'.edits \subseteq note.edits \cup raced'
    PROVE  ReadersKnow'
<1>1. job'[a].stage \notin HasRead /\ \A c \in Actors \ {a} : job'[c] = job[c]
  BY EndedType DEF HasRead
<1> QED  BY <1>1, KnowFrame, AcceptanceAssumption

LEMMA KnowAdvances ==
    ASSUME ReadersKnow, WorkTypeOK, NEW a \in Savers, job[a].stage \in ReadStages, NEW content,
           Advances(a, content), note' = note
    PROVE  ReadersKnow'
<1>1. job[a] \in ReadJobs /\ a \in Actors
  BY JobIs, AcceptanceAssumption
<1>2. job'[a].stage = "saving" /\ \A c \in Actors \ {a} : job'[c] = job[c]
  BY <1>1 DEF Advances, WorkTypeOK, ReadJobs
<1>3. raced \subseteq raced'
  BY DEF Advances
<1> QED  BY <1>2, <1>3, KnowFrame, AcceptanceAssumption DEF HasRead

LEMMA ReadersStep ==
    ASSUME ReadersKnow, TypeOK, WorkTypeOK, [Next]_vars
    PROVE  ReadersKnow'
<1>a. /\ {"accept", "reconcile", "sweep"} \subseteq Savers /\ Automatic \subseteq Savers \ {"accept"}
      /\ Savers \subseteq Actors /\ "revert" \in Actors /\ "revert" \notin Savers
      /\ AgentEdits \subseteq Edits /\ HumanEdits \subseteq Edits
      /\ AgentEdits \cap HumanEdits = {}
  BY AcceptanceAssumption DEF Actors, Automatic, Edits
<1>b. PlainStages \cup ReadStages =
        {"reading", "autoReading", "ending", "read", "folded", "judging", "autoJudging", "keeping", "writing",
         "stamped", "saving"}
  BY DEF PlainStages, ReadStages, HasRead
<1>1. CASE UNCHANGED << note, raced, job >>
  BY <1>1, KnowFrame
<1>2. ASSUME NEW e \in AgentEdits, AgentWrites(e) PROVE ReadersKnow'
  <2>1. note'.edits = note.edits \cup {e} /\ job' = Noticing(e) /\ raced' = raced
    BY <1>2 DEF AgentWrites, Modified, TypeOK, Contents, historyVars
  <2> QED  BY <1>a, <2>1, NoticingType DEF ReadersKnow
<1>3. ASSUME NEW e \in HumanEdits, EditorSaves(e) PROVE ReadersKnow'
  <2>1. note'.edits = note.edits \cup {e} /\ job' = Noticing(e) /\ raced' = raced
    BY <1>3 DEF EditorSaves, Modified, TypeOK, Contents, historyVars
  <2> QED  BY <1>a, <2>1, NoticingType DEF ReadersKnow
<1>4. ASSUME NEW s \in Savers, SaveReturns(s) PROVE ReadersKnow'
  <2>1. job[s].stage = "saving"
    BY <1>4 DEF SaveReturns, SetReturns, TypeOK, Idle
  <2> QED  BY <1>a, <1>b, <1>4, <2>1, KnowEnded DEF SaveReturns, noteVars, historyVars
<1>5. ASSUME NEW s \in Savers, SaveFails(s) PROVE ReadersKnow'
  <2>1. job[s].stage = "saving"
    BY <1>5 DEF SaveFails, SetFails, TypeOK, Idle
  <2> QED  BY <1>a, <1>b, <1>5, <2>1, KnowEnded DEF SaveFails, noteVars, historyVars
<1>6. CASE AcceptAsItIs
  BY <1>a, <1>b, <1>6, KnowAdvances DEF AcceptAsItIs, noteVars, ReadStages, HasRead
<1>7. CASE ReconcileAdvances
  BY <1>a, <1>b, <1>7, KnowAdvances DEF ReconcileAdvances, noteVars, ReadStages, HasRead
<1>8. ASSUME NEW a \in Automatic, AutoAccepts(a) PROVE ReadersKnow'
  BY <1>a, <1>b, <1>8, KnowAdvances DEF AutoAccepts, noteVars, ReadStages, HasRead
<1>9. CASE AcceptRefused
  BY <1>a, <1>b, <1>9, KnowEnded DEF AcceptRefused, noteVars, historyVars
<1>10. CASE ReconcileLeaves
  BY <1>a, <1>b, <1>10, KnowEnded DEF ReconcileLeaves, noteVars, historyVars
<1>11. ASSUME NEW a \in Automatic, AutoDeclines(a) PROVE ReadersKnow'
  BY <1>a, <1>b, <1>11, KnowEnded DEF AutoDeclines, noteVars, historyVars
<1>12. CASE RevertWrites
  <2>1. raced \subseteq raced' /\ note'.edits \subseteq note.edits \cup raced'
    BY <1>12 DEF RevertWrites, Modified
  <2> QED  BY <1>a, <1>b, <1>12, <2>1, KnowEnded DEF RevertWrites
<1>13. CASE HumanAccepts
  <2>1. job' = [job EXCEPT !["accept"] = Job("reading", path, NoBaseline)]
    BY <1>13 DEF HumanAccepts
  <2>2. /\ Job("reading", path, NoBaseline).stage \notin HasRead
    BY DEF HasRead, Job
  <2>3. note' = note /\ raced' = raced
    BY <1>13 DEF HumanAccepts, historyVars
  <2> QED  BY <1>a, <2>1, <2>2, <2>3, KnowTakes
<1>14. CASE AcceptReads
  <2>1. \/ job' = Ended("accept")
        \/ job' = [job EXCEPT !["accept"] = Reads("accept", "read", note)]
    BY <1>14 DEF AcceptReads
  <2>2. /\ Reads("accept", "read", note).read = note
    BY DEF HasRead, Reads
  <2>3. job["accept"].stage \in PlainStages \cup ReadStages
    BY <1>b, <1>14 DEF AcceptReads
  <2>4. note' = note /\ raced' = raced
    BY <1>14 DEF AcceptReads, noteVars, historyVars
  <2> QED  BY <1>a, <2>1, <2>2, <2>3, <2>4, KnowTakes, KnowEnded
<1>15. CASE AcceptRereads
  <2>1. \/ job' = Ended("accept")
        \/ job' = [job EXCEPT !["accept"] = Reads("accept", "folded", job["accept"].base)]
    BY <1>15 DEF AcceptRereads
  <2>2. /\ Reads("accept", "folded", job["accept"].base).read = note
    BY DEF HasRead, Reads
  <2>3. job["accept"].stage \in PlainStages \cup ReadStages
    BY <1>b, <1>15 DEF AcceptRereads
  <2>4. note' = note /\ raced' = raced
    BY <1>15 DEF AcceptRereads, noteVars, historyVars
  <2> QED  BY <1>a, <2>1, <2>2, <2>3, <2>4, KnowTakes, KnowEnded
<1>16. CASE AcceptEnds
  <2>1. job' = [job EXCEPT !["accept"] = NoJob]
    BY <1>16 DEF AcceptEnds
  <2>2. /\ NoJob.stage \notin HasRead
    BY DEF HasRead, NoJob
  <2>3. note' = note /\ raced' = raced
    BY <1>16 DEF AcceptEnds, historyVars
  <2> QED  BY <1>a, <2>1, <2>2, <2>3, KnowTakes
<1>17. ASSUME NEW p \in Paths, ReconcileFires(p) PROVE ReadersKnow'
  <2>1. job' = [job EXCEPT !["reconcile"] = Job("reading", path, cache[path])]
    BY <1>17 DEF ReconcileFires
  <2>2. /\ Job("reading", path, cache[path]).stage \notin HasRead
    BY DEF HasRead, Job
  <2>3. note' = note /\ raced' = raced
    BY <1>17 DEF ReconcileFires, historyVars
  <2> QED  BY <1>a, <2>1, <2>2, <2>3, KnowTakes
<1>18. CASE ReconcileReads
  <2>1. \/ job' = [job EXCEPT !["reconcile"] = NoJob]
        \/ job' = [job EXCEPT !["reconcile"] = Reads("reconcile", "judging", job["reconcile"].base)]
    BY <1>18 DEF ReconcileReads
  <2>2. /\ NoJob.stage \notin HasRead
        /\ Reads("reconcile", "judging", job["reconcile"].base).read = note
    BY DEF HasRead, NoJob, Reads
  <2>3. note' = note /\ raced' = raced
    BY <1>18 DEF ReconcileReads, noteVars, historyVars
  <2> QED  BY <1>a, <2>1, <2>2, <2>3, KnowTakes
<1>19. CASE ReconcileDefers
  <2>1. \/ job' = [job EXCEPT !["reconcile"] = NoJob]
        \/ job' = [job EXCEPT !["reconcile"] =
                     Job("autoReading", job["reconcile"].path, cache[job["reconcile"].path])]
    BY <1>19 DEF ReconcileDefers, AutoBegins
  <2>2. /\ NoJob.stage \notin HasRead
        /\ Job("autoReading", job["reconcile"].path, cache[job["reconcile"].path]).stage \notin HasRead
    BY DEF HasRead, Job, NoJob
  <2>3. note' = note /\ raced' = raced
    BY <1>19 DEF ReconcileDefers, noteVars, historyVars
  <2> QED  BY <1>a, <2>1, <2>2, <2>3, KnowTakes
<1>20. CASE SweepBegins
  <2>1. \/ job' = [job EXCEPT !["sweep"] = NoJob]
        \/ job' = [job EXCEPT !["sweep"] = Job("autoReading", path, cache[path])]
    BY <1>20 DEF SweepBegins, AutoBegins
  <2>2. /\ NoJob.stage \notin HasRead
        /\ Job("autoReading", path, cache[path]).stage \notin HasRead
    BY DEF HasRead, Job, NoJob
  <2>3. note' = note /\ raced' = raced
    BY <1>20 DEF SweepBegins, noteVars, historyVars
  <2> QED  BY <1>a, <2>1, <2>2, <2>3, KnowTakes
<1>21. ASSUME NEW a \in Automatic, AutoReads(a) PROVE ReadersKnow'
  <2>1. \/ job' = Ended(a)
        \/ job' = [job EXCEPT ![a] = Reads(a, "autoJudging", job[a].base)]
    BY <1>21 DEF AutoReads
  <2>2. /\ Reads(a, "autoJudging", job[a].base).read = note
    BY DEF HasRead, Reads
  <2>3. job[a].stage \in PlainStages \cup ReadStages
    BY <1>b, <1>21 DEF AutoReads
  <2>4. note' = note /\ raced' = raced
    BY <1>21 DEF AutoReads, noteVars, historyVars
  <2> QED  BY <1>a, <2>1, <2>2, <2>3, <2>4, KnowTakes, KnowEnded
<1>22. CASE HumanReverts
  <2>1. job' = [job EXCEPT !["revert"] = Job("reading", path, cache[path])]
    BY <1>22 DEF HumanReverts
  <2>2. /\ Job("reading", path, cache[path]).stage \notin HasRead
    BY DEF HasRead, Job
  <2>3. note' = note /\ raced' = raced
    BY <1>22 DEF HumanReverts, noteVars, historyVars
  <2> QED  BY <1>a, <2>1, <2>2, <2>3, KnowTakes
<1>23. CASE RevertReads
  <2>1. \/ job' = Ended("revert")
        \/ job' = [job EXCEPT !["revert"] = Reads("revert", "keeping", job["revert"].base)]
    BY <1>23 DEF RevertReads
  <2>2. /\ Reads("revert", "keeping", job["revert"].base).read = note
    BY DEF HasRead, Reads
  <2>3. job["revert"].stage \in PlainStages \cup ReadStages
    BY <1>b, <1>23 DEF RevertReads
  <2>4. note' = note /\ raced' = raced
    BY <1>23 DEF RevertReads, noteVars, historyVars
  <2> QED  BY <1>a, <2>1, <2>2, <2>3, <2>4, KnowTakes, KnowEnded
<1>24. CASE AcceptStamps
  <2>1. job["accept"] \in ReadJobs
    BY <1>a, <1>b, <1>24, JobIs DEF AcceptStamps, ReadStages, HasRead
  <2>2. job'["accept"].stage = "stamped" /\ \A c \in Actors \ {"accept"} : job'[c] = job[c]
    BY <1>a, <1>24, <2>1 DEF AcceptStamps, WorkTypeOK, ReadJobs
  <2>3. note'.edits = note.edits /\ raced' = raced
    BY <1>24 DEF AcceptStamps, Modified, TypeOK, Contents, historyVars
  <2> QED  BY <1>a, <2>2, <2>3, KnowFrame DEF HasRead
<1>25. CASE RevertKeeps
  <2>1. \A a \in Savers : job'[a] = job[a]
    BY <1>a, <1>25 DEF RevertKeeps, WorkTypeOK
  <2> QED  BY <1>25, <2>1, KnowFrame DEF RevertKeeps, noteVars
<1>26. CASE Restarts
  <2>1. \A a \in Savers : job'[a].stage \notin HasRead
    BY <1>a, <1>26 DEF Restarts, NoJob, HasRead
  <2> QED  BY <2>1 DEF ReadersKnow
<1>27. ASSUME NEW e \in AgentEdits, Records(e) \/ Appends(e) \/ RecordAges(e)
       PROVE ReadersKnow'
  BY <1>1, <1>27 DEF Records, Appends, RecordAges, noteVars, historyVars
<1>28. ASSUME NEW e \in HumanEdits, HumanTypes(e)
       PROVE ReadersKnow'
  BY <1>1, <1>28 DEF HumanTypes, noteVars, historyVars
<1>29. ASSUME NEW p \in Paths, InputAges(p) \/ Renames(p)
       PROVE ReadersKnow'
  BY <1>1, <1>29 DEF InputAges, Renames, noteVars, historyVars
<1>30. ASSUME NEW s \in Savers, SaveLands(s)
       PROVE ReadersKnow'
  BY <1>1, <1>30 DEF SaveLands, noteVars, historyVars
<1>31. ASSUME NEW k \in Rekeys, MoveLands(k) \/ MoveEnds(k) \/ MoveFails(k) \/ MoveLeavesFile(k)
       PROVE ReadersKnow'
  BY <1>1, <1>31 DEF MoveLands, MoveEnds, MoveFails, MoveLeavesFile, noteVars,
     historyVars
<1>32. CASE Repairs \/ UNCHANGED vars
  BY <1>1, <1>32 DEF Repairs, vars, noteVars, historyVars
<1> QED
  BY <1>1, <1>2, <1>3, <1>4, <1>5, <1>6, <1>7, <1>8, <1>9, <1>10, <1>11, <1>12,
     <1>13, <1>14, <1>15, <1>16, <1>17, <1>18, <1>19, <1>20, <1>21, <1>22,
     <1>23, <1>24, <1>25, <1>26, <1>27, <1>28, <1>29, <1>30, <1>31, <1>32 DEF
     Next

(* A baseline goes on covering what it covered.                           *)
EditsAdvance ==
    /\ raced \subseteq raced'
    /\ \A e \in AgentEdits :
          /\ edit'[e].stage \in {"none", "landed"} => edit[e].stage \in {"none", "landed"}
          /\ e \in note.edits' /\ Stamped(e)' =>
                \/ e \in note.edits /\ Stamped(e)
                \/ edit[e].stage \in {"none", "landed"}
                \/ e \in raced'

LEMMA CoversOn ==
    ASSUME EditsAdvance, NEW b, Covers(b)
    PROVE  Covers(b)'
  BY DEF EditsAdvance, Covers

LEMMA EditsAlike ==
    ASSUME edit' = edit, raced \subseteq raced', note'.edits \subseteq note.edits \cup raced'
    PROVE  EditsAdvance
<1>1. \A e : Stamped(e)' <=> Stamped(e)
  BY DEF Stamped, OnRecord
<1> QED  BY <1>1 DEF EditsAdvance

LEMMA EditsAdvanceStep ==
    ASSUME TypeOK, EditTypeOK, [Next]_vars
    PROVE  EditsAdvance
<1>a. /\ AgentEdits \subseteq Edits /\ HumanEdits \subseteq Edits
      /\ AgentEdits \cap HumanEdits = {}
  BY AcceptanceAssumption DEF Edits
<1>b. note \in [edits : SUBSET Edits, status : {"plain", "proposed", "accepted"}]
  BY DEF TypeOK, Contents
<1>c. edit \in [Edits -> [stage : Stages, path : Paths]]
  BY DEF EditTypeOK
<1>1. CASE edit' = edit /\ raced' = raced /\ note'.edits = note.edits
  BY <1>1, EditsAlike
<1>2. ASSUME NEW e \in AgentEdits, AgentWrites(e) PROVE EditsAdvance
  <2>1. note'.edits = note.edits \cup {e} /\ raced' = raced
    BY <1>b, <1>2 DEF AgentWrites, Modified, historyVars
  <2>2. /\ edit[e].stage = "none" /\ edit'[e].stage = "landed"
        /\ \A d \in Edits \ {e} : edit'[d] = edit[d]
    <3>1. e \in Edits /\ DOMAIN edit = Edits
      BY <1>a, <1>c
    <3>2. edit[e].stage = "none" /\ edit' = [edit EXCEPT ![e] = [stage |-> "landed", path |-> path]]
      BY <1>2 DEF AgentWrites
    <3> QED  BY <3>1, <3>2
  <2> QED  BY <1>a, <2>1, <2>2 DEF EditsAdvance, Stamped, OnRecord
<1>3. ASSUME NEW e \in AgentEdits, Records(e) PROVE EditsAdvance
  <2>1. note' = note /\ raced' = raced /\ \A d \in Edits \ {e} : edit'[d] = edit[d]
    BY <1>a, <1>c, <1>3 DEF Records, historyVars
  <2>2. edit'[e].stage \notin {"none", "landed"} /\ (edit[e].stage = "landed" \/ Stamped(e))
    BY <1>a, <1>c, <1>3 DEF Records, Stamped, OnRecord
  <2> QED  BY <1>a, <2>1, <2>2 DEF EditsAdvance, Stamped, OnRecord
<1>4. ASSUME NEW e \in AgentEdits, Appends(e) PROVE EditsAdvance
  <2>1. note' = note /\ raced' = raced /\ \A d \in Edits \ {e} : edit'[d] = edit[d]
    BY <1>a, <1>c, <1>4 DEF Appends, historyVars
  <2>2. edit'[e].stage \notin {"none", "landed"} /\ (edit[e].stage = "landed" \/ Stamped(e))
    BY <1>a, <1>c, <1>4 DEF Appends, Stamped, OnRecord
  <2> QED  BY <1>a, <2>1, <2>2 DEF EditsAdvance, Stamped, OnRecord
<1>5. ASSUME NEW e \in AgentEdits, RecordAges(e) PROVE EditsAdvance
  <2>1. note' = note /\ raced' = raced /\ \A d \in Edits \ {e} : edit'[d] = edit[d]
    BY <1>a, <1>c, <1>5 DEF RecordAges, historyVars
  <2>2. edit'[e].stage \notin {"none", "landed"} /\ (edit[e].stage = "landed" \/ Stamped(e))
    BY <1>a, <1>c, <1>5 DEF RecordAges, Stamped, OnRecord
  <2> QED  BY <1>a, <2>1, <2>2 DEF EditsAdvance, Stamped, OnRecord
<1>6. ASSUME NEW e \in HumanEdits, HumanTypes(e) PROVE EditsAdvance
  <2>1. /\ note'.edits \subseteq note.edits \cup {e}
        /\ raced' = raced /\ \A d \in Edits \ {e} : edit'[d] = edit[d]
    BY <1>a, <1>c, <1>6 DEF HumanTypes, historyVars
  <2> QED  BY <1>a, <2>1 DEF EditsAdvance, Stamped, OnRecord
<1>7. ASSUME NEW e \in HumanEdits, EditorSaves(e) PROVE EditsAdvance
  <2>1. /\ note'.edits \subseteq note.edits \cup {e}
        /\ raced' = raced /\ \A d \in Edits \ {e} : edit'[d] = edit[d]
    BY <1>a, <1>b, <1>c, <1>7 DEF EditorSaves, Modified, historyVars
  <2> QED  BY <1>a, <2>1 DEF EditsAdvance, Stamped, OnRecord
<1>8. CASE AcceptAsItIs \/ ReconcileAdvances
  BY <1>8, EditsAlike DEF AcceptAsItIs, ReconcileAdvances, Advances, noteVars
<1>9. ASSUME NEW a \in Automatic, AutoAccepts(a) PROVE EditsAdvance
  BY <1>9, EditsAlike DEF AutoAccepts, Advances, noteVars
<1>10. CASE AcceptStamps
  BY <1>1, <1>10 DEF AcceptStamps, Modified, TypeOK, Contents, historyVars
<1>11. CASE RevertWrites
  <2>1. raced \subseteq raced' /\ note'.edits \subseteq note.edits \cup raced' /\ edit' = edit
    BY <1>11 DEF RevertWrites, Modified
  <2> QED  BY <2>1, EditsAlike
<1>12. CASE Restarts
  <2>1. /\ note' = note /\ raced' = raced
        /\ \A e \in Edits : edit'[e].stage = edit[e].stage \/ edit'[e].stage = "lost"
    BY <1>12 DEF Restarts, EditTypeOK
  <2> QED  BY <1>a, <2>1 DEF EditsAdvance, Stamped, OnRecord
<1>13. ASSUME NEW p \in Paths, InputAges(p) \/ ReconcileFires(p) \/ Renames(p)
       PROVE EditsAdvance
  BY <1>1, <1>13 DEF InputAges, ReconcileFires, Renames, noteVars, historyVars
<1>14. ASSUME NEW s \in Savers, SaveLands(s) \/ SaveReturns(s) \/ SaveFails(s)
       PROVE EditsAdvance
  BY <1>1, <1>14 DEF SaveLands, SaveReturns, SaveFails, noteVars, historyVars
<1>15. CASE HumanAccepts \/ AcceptReads \/ AcceptRefused \/ AcceptRereads \/ AcceptEnds
  BY <1>1, <1>15 DEF HumanAccepts, AcceptReads, AcceptRefused, AcceptRereads,
     AcceptEnds, noteVars, historyVars
<1>16. CASE ReconcileReads \/ ReconcileLeaves \/ ReconcileDefers \/ SweepBegins
  BY <1>1, <1>16 DEF ReconcileReads, ReconcileLeaves, ReconcileDefers, SweepBegins,
     noteVars, historyVars
<1>17. ASSUME NEW a \in Automatic, AutoReads(a) \/ AutoDeclines(a)
       PROVE EditsAdvance
  BY <1>1, <1>17 DEF AutoReads, AutoDeclines, noteVars, historyVars
<1>18. CASE HumanReverts \/ RevertReads \/ RevertKeeps
  BY <1>1, <1>18 DEF HumanReverts, RevertReads, RevertKeeps, noteVars, historyVars
<1>19. ASSUME NEW k \in Rekeys, MoveLands(k) \/ MoveEnds(k) \/ MoveFails(k) \/ MoveLeavesFile(k)
       PROVE EditsAdvance
  BY <1>1, <1>19 DEF MoveLands, MoveEnds, MoveFails, MoveLeavesFile, noteVars,
     historyVars
<1>20. CASE Repairs \/ UNCHANGED vars
  BY <1>1, <1>20 DEF Repairs, vars, noteVars, historyVars
<1> QED
  BY <1>1, <1>2, <1>3, <1>4, <1>5, <1>6, <1>7, <1>8, <1>9, <1>10, <1>11, <1>12,
     <1>13, <1>14, <1>15, <1>16, <1>17, <1>18, <1>19, <1>20 DEF Next

(* The baselines in memory, on file and on their way are old ones, or one  *)
(* just made of what was read.                                             *)
LEMMA CoverKept ==
    ASSUME BaselinesCover, EditsAdvance, UNCHANGED storeVars
    PROVE  BaselinesCover'
  BY CoversOn DEF BaselinesCover, storeVars

LEMMA CoverAdvances ==
    ASSUME BaselinesCover, ReadersKnow, WorkTypeOK, StoreTypeOK, EditsAdvance, NEW a \in Savers,
           job[a].stage \in HasRead, Advances(a, job[a].read), UNCHANGED noteVars
    PROVE  BaselinesCover'
<1>1. job[a] \in ReadJobs
  BY JobIs, AcceptanceAssumption DEF ReadStages
<1>2. /\ Now(job[a].read).content = job[a].read
      /\ Now(job[a].read).later = {e \in AgentEdits : ~Stamped(e)}
  BY DEF Now
<1>3. \A e : Stamped(e)' <=> Stamped(e)
  BY DEF Stamped, OnRecord, noteVars
<1>4. raced' = raced \cup job[a].since
  BY DEF Advances
<1>5. note.edits \subseteq job[a].read.edits \cup job[a].since \cup raced
  BY DEF ReadersKnow
<1>6. \A e \in AgentEdits : edit[e].stage \in {"none", "landed"} => ~Stamped(e)
  BY DEF Stamped, OnRecord
<1>7. UNCHANGED << note, edit >>
  BY DEF noteVars
<1>8. \A b : /\ b.content = job[a].read
             /\ b.later = {e \in AgentEdits : ~Stamped(e)}
             => Covers(b)'
  BY <1>3, <1>4, <1>5, <1>6, <1>7 DEF Covers
<1>9. /\ save'[a].baseline = Now(job[a].read) /\ \A s \in Savers \ {a} : save'[s] = save[s]
      /\ UNCHANGED << cache, blobs, rekey >>
  BY DEF Advances, SetBegins, StoreTypeOK
<1>10. Covers(save[a].baseline)'
  BY <1>2, <1>8, <1>9
<1> QED  BY <1>9, <1>10, CoversOn DEF BaselinesCover

LEMMA CoverRekeys ==
    ASSUME BaselinesCover, StoreTypeOK, EditsAdvance,
           NEW from \in Paths, NEW to \in Paths, RekeyBegins(from, to)
    PROVE  BaselinesCover'
<1>1. CASE UNCHANGED storeVars
  BY <1>1, CoverKept
<1>2. CASE ~(UNCHANGED storeVars)
  <2>1. /\ cache[from] # NoBaseline
        /\ \E k \in Rekeys :
              /\ rekey' = [rekey EXCEPT ![k] =
                   [stage |-> "writing", from |-> from, to |-> to, moved |-> cache[from]]]
              /\ cache' = [cache EXCEPT ![to] = cache[from], ![from] = NoBaseline]
              /\ UNCHANGED << blobs, save >>
    BY <1>2 DEF RekeyBegins
  <2>2. PICK k \in Rekeys :
           /\ rekey' = [rekey EXCEPT ![k] =
                [stage |-> "writing", from |-> from, to |-> to, moved |-> cache[from]]]
           /\ cache' = [cache EXCEPT ![to] = cache[from], ![from] = NoBaseline]
           /\ UNCHANGED << blobs, save >>
    BY <2>1
  <2>3. \A p \in Paths : cache'[p] \in {cache[p], cache[from], NoBaseline}
    BY <2>2 DEF StoreTypeOK
  <2>4. \A l \in Rekeys : rekey'[l] = rekey[l] \/ rekey'[l].moved = cache[from]
    BY <2>2 DEF StoreTypeOK
  <2> QED  BY <2>1, <2>2, <2>3, <2>4, CoversOn DEF BaselinesCover
<1> QED  BY <1>1, <1>2

LEMMA CoverStep ==
    ASSUME BaselinesCover, ReadersKnow, TypeOK, WorkTypeOK, StoreTypeOK, MeetingsUnsure, [Next]_vars
    PROVE  BaselinesCover'
<1>a. EditsAdvance
  BY EditsAdvanceStep DEF WorkTypeOK
<1>b. /\ {"accept", "reconcile", "sweep"} \subseteq Savers /\ Automatic \subseteq Savers
      /\ path \in Paths
  BY AcceptanceAssumption DEF Actors, Automatic, TypeOK
<1>1. CASE UNCHANGED storeVars
  BY <1>1, <1>a, CoverKept
<1>2. ASSUME NEW s \in Savers, SaveLands(s) PROVE BaselinesCover'
  <2>1. /\ save[s] # Idle /\ UNCHANGED << cache, rekey >>
        /\ \A p \in Paths : blobs'[p] \in {blobs[p], save[s].baseline}
        /\ \A t \in Savers : save'[t] # Idle => save[t] # Idle /\ save'[t].baseline = save[t].baseline
    BY <1>2 DEF SaveLands, SetLands, StoreTypeOK, Idle
  <2> QED  BY <1>a, <2>1, CoversOn DEF BaselinesCover
<1>3. ASSUME NEW s \in Savers, SaveReturns(s) PROVE BaselinesCover'
  <2>1. /\ save[s] # Idle /\ UNCHANGED << blobs, rekey >>
        /\ \A p \in Paths : cache'[p] \in {cache[p], save[s].baseline}
        /\ \A t \in Savers : save'[t] \in {save[t], Idle}
    BY <1>3 DEF SaveReturns, SetReturns, StoreTypeOK, Idle
  <2> QED  BY <1>a, <2>1, CoversOn DEF BaselinesCover
<1>4. ASSUME NEW s \in Savers, SaveFails(s) PROVE BaselinesCover'
  <2>1. UNCHANGED << cache, blobs, rekey >> /\ \A t \in Savers : save'[t] \in {save[t], Idle}
    BY <1>4 DEF SaveFails, SetFails, StoreTypeOK
  <2> QED  BY <1>a, <2>1, CoversOn DEF BaselinesCover
<1>5. ASSUME NEW k \in Rekeys, MoveLands(k) PROVE BaselinesCover'
  <2>1. /\ rekey[k] # Idle /\ UNCHANGED << cache, save >>
        /\ \A p \in Paths : blobs'[p] \in {blobs[p], rekey[k].moved}
        /\ \A l \in Rekeys : rekey'[l] # Idle => rekey[l] # Idle /\ rekey'[l].moved = rekey[l].moved
    BY <1>5 DEF MoveLands, RekeyLands, StoreTypeOK, Idle
  <2> QED  BY <1>a, <2>1, CoversOn DEF BaselinesCover
<1>6. ASSUME NEW k \in Rekeys, MoveEnds(k) PROVE BaselinesCover'
  <2>1. /\ UNCHANGED << cache, save >>
        /\ \A p \in Paths : blobs'[p] \in {blobs[p], NoBaseline}
        /\ \A l \in Rekeys : rekey'[l] \in {rekey[l], Idle}
    BY <1>6 DEF MoveEnds, RekeyRemoves, StoreTypeOK
  <2> QED  BY <1>a, <2>1, CoversOn DEF BaselinesCover
<1>7. ASSUME NEW k \in Rekeys, MoveFails(k) PROVE BaselinesCover'
  <2>1. /\ rekey[k] # Idle /\ UNCHANGED << blobs, save >>
        /\ \A p \in Paths : cache'[p] \in {cache[p], NoBaseline, rekey[k].moved}
        /\ \A l \in Rekeys : rekey'[l] \in {rekey[l], Idle}
    BY <1>7 DEF MoveFails, RekeyFails, StoreTypeOK, Idle
  <2> QED  BY <1>a, <2>1, CoversOn DEF BaselinesCover
<1>8. ASSUME NEW k \in Rekeys, MoveLeavesFile(k) PROVE BaselinesCover'
  <2>1. /\ UNCHANGED << cache, blobs, save >>
        /\ \A l \in Rekeys : rekey'[l] \in {rekey[l], Idle}
    BY <1>8 DEF MoveLeavesFile, RemoveFails, StoreTypeOK
  <2> QED  BY <1>a, <2>1, CoversOn DEF BaselinesCover
<1>9. ASSUME NEW p \in Paths, Renames(p) PROVE BaselinesCover'
  BY <1>a, <1>b, <1>9, CoverRekeys DEF Renames
<1>10. CASE Repairs
  BY <1>1, <1>a, <1>b, <1>10, CoverRekeys DEF Repairs, Drifted
<1>11. CASE Restarts
  <2>1. /\ cache' = blobs /\ blobs' = blobs
        /\ \A s \in Savers : save'[s] = Idle
        /\ \A k \in Rekeys : rekey'[k] = Idle
    BY <1>11 DEF Restarts, Reload
  <2> QED  BY <1>a, <2>1, CoversOn DEF BaselinesCover
<1>12. CASE AcceptAsItIs \/ ReconcileAdvances
  BY <1>a, <1>b, <1>12, CoverAdvances DEF AcceptAsItIs, ReconcileAdvances, HasRead
<1>13. ASSUME NEW a \in Automatic, AutoAccepts(a) PROVE BaselinesCover'
  BY <1>a, <1>b, <1>13, CoverAdvances DEF AutoAccepts, HasRead
<1>14. ASSUME NEW e \in AgentEdits, AgentWrites(e) \/ Records(e) \/ Appends(e) \/ RecordAges(e)
       PROVE BaselinesCover'
  BY <1>1, <1>14 DEF AgentWrites, Records, Appends, RecordAges
<1>15. ASSUME NEW e \in HumanEdits, HumanTypes(e) \/ EditorSaves(e)
       PROVE BaselinesCover'
  BY <1>1, <1>15 DEF HumanTypes, EditorSaves
<1>16. ASSUME NEW p \in Paths, InputAges(p) \/ ReconcileFires(p)
       PROVE BaselinesCover'
  BY <1>1, <1>16 DEF InputAges, ReconcileFires
<1>17. CASE HumanAccepts \/ AcceptReads \/ AcceptRefused \/ AcceptStamps \/ AcceptRereads \/ AcceptEnds
  BY <1>1, <1>17 DEF HumanAccepts, AcceptReads, AcceptRefused, AcceptStamps,
     AcceptRereads, AcceptEnds
<1>18. CASE ReconcileReads \/ ReconcileLeaves \/ ReconcileDefers \/ SweepBegins
  BY <1>1, <1>18 DEF ReconcileReads, ReconcileLeaves, ReconcileDefers, SweepBegins
<1>19. ASSUME NEW a \in Automatic, AutoReads(a) \/ AutoDeclines(a)
       PROVE BaselinesCover'
  BY <1>1, <1>19 DEF AutoReads, AutoDeclines
<1>20. CASE HumanReverts \/ RevertReads \/ RevertKeeps \/ RevertWrites
  BY <1>1, <1>20 DEF HumanReverts, RevertReads, RevertKeeps, RevertWrites
<1>21. CASE UNCHANGED vars
  BY <1>1, <1>21 DEF vars
<1> QED
  BY <1>1, <1>2, <1>3, <1>4, <1>5, <1>6, <1>7, <1>8, <1>9, <1>10, <1>11, <1>12,
     <1>13, <1>14, <1>15, <1>16, <1>17, <1>18, <1>19, <1>20, <1>21 DEF Next

-----------------------------------------------------------------------------
(* Together.                                                               *)

LEMMA AcceptanceStarts ==
    ASSUME Init
    PROVE  AcceptanceInv
<1>1. /\ path \in Paths /\ note \in Contents
      /\ job = [a \in Actors |-> NoJob]
      /\ edit = [e \in Edits |-> [stage |-> "none", path |-> path]]
  BY DEF Init, Contents
<1>2. PICK b \in {NoBaseline, [content |-> note, later |-> AgentEdits]} :
         StoreInit([p \in Paths |-> IF p = path THEN b ELSE NoBaseline])
  BY DEF Init
<1> DEFINE files == [p \in Paths |-> IF p = path THEN b ELSE NoBaseline]
<1>3. b \in Slots /\ files \in [Paths -> Slots]
  BY <1>1 DEF Slots, Baselines
<1>4. StoreInv
  BY <1>2, <1>3, StoreStarts
<1>5. /\ cache = files /\ blobs = files
      /\ \A s \in Savers : save[s] = Idle
      /\ \A k \in Rekeys : rekey[k] = Idle
  BY <1>2 DEF StoreInit
<1>6. WorkTypeOK
  <2>1. \A a \in Actors : Suits(a, NoJob)
    BY SuitsNone
  <2> QED  BY <1>1, <2>1 DEF WorkTypeOK, Suits, EditTypeOK, Stages, Edits
<1>7. FieldsOK
  BY <1>1, <1>3, <1>5 DEF Init, FieldsOK
<1>8. SavesMatch
  BY <1>1, <1>5, AcceptanceAssumption DEF SavesMatch, NoJob, Actors
<1>9. TypeOK
  BY <1>4, <1>6, <1>7, <1>8, TypeParts DEF StoreInv, WorkTypeOK
<1>10. AcceptHolds /\ RevertHolds /\ NothingIsDestroyed /\ ReadersKnow
  BY <1>1, AcceptanceAssumption
     DEF AcceptHolds, RevertHolds, NothingIsDestroyed, ReadersKnow, NoJob, Actors, HasRead
<1>11. ASSUME b # NoBaseline PROVE Covers(b)
  <2>1. b.later = AgentEdits
    BY <1>11
  <2> QED  BY <2>1 DEF Covers
<1>12. BaselinesCover
  BY <1>5, <1>11 DEF BaselinesCover
<1> QED  BY <1>4, <1>6, <1>9, <1>10, <1>12 DEF AcceptanceInv

LEMMA AcceptanceInductive ==
    ASSUME AcceptanceInv, [Next]_vars
    PROVE  AcceptanceInv'
<1> USE DEF AcceptanceInv
<1>1. StoreTypeOK /\ MeetingsUnsure /\ EditTypeOK /\ path \in Paths
  BY DEF StoreInv, WorkTypeOK, TypeOK
<1>2. FieldsOK /\ SavesMatch
  BY <1>1, TypeParts
<1>3. StoreInv' /\ EditTypeOK'
  BY <1>1, StoreStep, EditTypeStep
<1>4. WorkTypeOK'
  BY <1>1, <1>3, WorkTypeStep
<1>5. FieldsOK' /\ SavesMatch'
  BY <1>1, <1>2, FieldsStep, SavesStep
<1>6. TypeOK'
  <2>1. StoreTypeOK'
    BY <1>3 DEF StoreInv
  <2> QED  BY <1>3, <1>5, <2>1 DEF TypeOK, StoreTypeOK, EditTypeOK, FieldsOK, SavesMatch, Slots
<1>7. AcceptHolds' /\ RevertHolds' /\ NothingIsDestroyed' /\ ReadersKnow' /\ BaselinesCover'
  BY <1>1, AcceptStep, RevertStep, NothingDestroyedStep, ReadersStep, CoverStep
<1> QED  BY <1>3, <1>4, <1>6, <1>7

LEMMA AcceptanceIsInvariant == Spec => []AcceptanceInv
  BY AcceptanceStarts, AcceptanceInductive, PTL DEF Spec

(* Every variable keeps its type, and whoever has a save under way is      *)
(* waiting for it.                                                         *)
THEOREM AcceptanceTypeCorrect == Spec => []TypeOK
<1>1. AcceptanceInv => TypeOK
  BY DEF AcceptanceInv
<1> QED  BY <1>1, AcceptanceIsInvariant, PTL

(* Whenever the process ends, the baseline of every path is on file, there *)
(* or where it is moving from or to, but where operations overlapped.      *)
THEOREM StoreNeverGaps == Spec => []NeverAGap
<1>1. AcceptanceInv => NeverAGap
  BY SureIsOnFile DEF AcceptanceInv
<1> QED  BY <1>1, AcceptanceIsInvariant, PTL

(* With nothing under way memory and files agree, but there.               *)
THEOREM StoreAgrees == Spec => []CacheAgreesWithBlobs
<1>1. AcceptanceInv => CacheAgreesWithBlobs
  BY QuietAgrees DEF AcceptanceInv
<1> QED  BY <1>1, AcceptanceIsInvariant, PTL

(* What was accepted is neither lost nor remembered otherwise than on file.*)
THEOREM StoreKeeps == Spec => []AcceptancesAreKept
<1>1. NeverAGap /\ CacheAgreesWithBlobs => AcceptancesAreKept
  BY DEF AcceptancesAreKept
<1> QED  BY <1>1, StoreNeverGaps, StoreAgrees, PTL

(* What a human's accept makes the baseline is what the human saw, with    *)
(* the stamp, bare values excepted.                                        *)
THEOREM AcceptFaithful == Spec => []AcceptTakesWhatItRead
<1>1. AcceptanceInv => AcceptTakesWhatItRead
  BY DEF AcceptanceInv, AcceptHolds, AcceptTakesWhatItRead
<1> QED  BY <1>1, AcceptanceIsInvariant, PTL

(* A revert, and whatever runs beside it, loses no edit but one made while *)
(* it was at work.                                                         *)
THEOREM RevertKeepsAll == Spec => []NothingIsDestroyed
<1>1. AcceptanceInv => NothingIsDestroyed
  BY DEF AcceptanceInv
<1> QED  BY <1>1, AcceptanceIsInvariant, PTL

(* No accept, silent advance or automatic acceptance hides an agent's edit *)
(* on record from review, unless the edit raced it.  A rename does: what   *)
(* was recorded under the note's old path is not looked for any more.      *)
THEOREM AgentEditsSurface == Spec => []HiddenOnlyIfRaced
<1>1. AcceptanceInv => HiddenOnlyIfRaced
  <2> SUFFICES ASSUME AcceptanceInv, NEW e \in AgentEdits,
                      OnRecord(e), ~ UnderAnotherPath(e), e \in note.edits,
                      cache[path] = NoBaseline \/ e \notin cache[path].content.edits
               PROVE  Pending \/ e \in raced
    BY DEF HiddenOnlyIfRaced
  <2>1. CASE cache[path] = NoBaseline
    BY <2>1 DEF Pending, AgentWritesSince, UnderAnotherPath
  <2>2. CASE cache[path] # NoBaseline
    <3>1. Covers(cache[path])
      BY <2>2 DEF AcceptanceInv, BaselinesCover, TypeOK
    <3>2. e \in cache[path].later \cup raced
      BY <2>2, <3>1 DEF Covers, Stamped
    <3>3. cache[path].content # note
      BY <2>2
    <3> QED  BY <3>2, <3>3 DEF Pending, AgentWritesSince, UnderAnotherPath
  <2> QED  BY <2>1, <2>2
<1> QED  BY <1>1, AcceptanceIsInvariant, PTL

-----------------------------------------------------------------------------
(* Where nothing strayed, whoever works on the note works at its path; the *)
(* baseline saved last is remembered, and alone where it is the only one;  *)
(* and the note has one, or a repair is to come, if there is any.          *)

Held == {p \in Paths : cache[p] # NoBaseline}

WorkHere ==
    /\ \A a \in Actors : job[a] # NoJob => job[a].path = path
    /\ \A s \in Savers : save[s] # Idle => save[s].path = path

Remembered ==
    /\ latest = NoBaseline <=> Held = {}
    /\ \A p \in Paths : Held = {p} => cache[p] = latest

AtNote == cache[path] # NoBaseline \/ Held = {} \/ repair

FollowsInv == ~strayed => WorkHere /\ Remembered /\ AtNote

LEMMA StrayedStays ==
    ASSUME TypeOK, [Next]_vars, strayed
    PROVE  strayed'
<1>1. CASE strayed' = strayed
  BY <1>1
<1>2. ASSUME NEW p \in Paths, Renames(p) PROVE strayed'
  BY <1>2 DEF Renames
<1>3. ASSUME NEW k \in Rekeys, MoveFails(k) PROVE strayed'
  BY <1>3 DEF MoveFails
<1>4. CASE Restarts
  BY <1>4 DEF Restarts
<1>5. ASSUME NEW e \in AgentEdits, AgentWrites(e) \/ Records(e) \/ Appends(e) \/ RecordAges(e)
      PROVE  strayed'
  BY <1>1, <1>5 DEF AgentWrites, Records, Appends, RecordAges, historyVars
<1>6. ASSUME NEW e \in HumanEdits, HumanTypes(e) \/ EditorSaves(e) PROVE strayed'
  BY <1>1, <1>6 DEF HumanTypes, EditorSaves, historyVars
<1>7. ASSUME NEW p \in Paths, InputAges(p) \/ ReconcileFires(p) PROVE strayed'
  BY <1>1, <1>7 DEF InputAges, ReconcileFires, historyVars
<1>8. ASSUME NEW s \in Savers, SaveLands(s) \/ SaveReturns(s) \/ SaveFails(s) PROVE strayed'
  BY <1>1, <1>8 DEF SaveLands, SaveReturns, SaveFails, historyVars
<1>9. CASE HumanAccepts \/ AcceptReads \/ AcceptAsItIs \/ AcceptRefused \/ AcceptStamps
           \/ AcceptRereads \/ AcceptEnds
  BY <1>1, <1>9 DEF HumanAccepts, AcceptReads, AcceptAsItIs, AcceptRefused, AcceptStamps,
     AcceptRereads, AcceptEnds, historyVars
<1>10. CASE ReconcileReads \/ ReconcileLeaves \/ ReconcileAdvances \/ ReconcileDefers \/ SweepBegins
  BY <1>1, <1>10 DEF ReconcileReads, ReconcileLeaves, ReconcileAdvances, ReconcileDefers,
     SweepBegins, historyVars
<1>11. ASSUME NEW a \in Automatic, AutoReads(a) \/ AutoAccepts(a) \/ AutoDeclines(a) PROVE strayed'
  BY <1>1, <1>11 DEF AutoReads, AutoAccepts, AutoDeclines, historyVars
<1>12. CASE HumanReverts \/ RevertReads \/ RevertKeeps \/ RevertWrites
  BY <1>1, <1>12 DEF HumanReverts, RevertReads, RevertKeeps, RevertWrites, historyVars
<1>13. ASSUME NEW k \in Rekeys, MoveLands(k) \/ MoveEnds(k) \/ MoveLeavesFile(k) PROVE strayed'
  BY <1>1, <1>13 DEF MoveLands, MoveEnds, MoveLeavesFile, historyVars
<1>14. CASE Repairs \/ UNCHANGED vars
  BY <1>1, <1>14 DEF Repairs, vars, historyVars
<1> QED
  BY <1>2, <1>3, <1>4, <1>5, <1>6, <1>7, <1>8, <1>9, <1>10, <1>11, <1>12, <1>13, <1>14 DEF Next

(* Who works goes on where he is; who begins begins at the note's path.    *)
LEMMA HereFrame ==
    ASSUME WorkHere, path' = path,
           \A a \in Actors : \/ job'[a] = NoJob \/ job'[a].path = path
                             \/ job[a] # NoJob /\ job'[a].path = job[a].path,
           \A s \in Savers : \/ save'[s] = Idle \/ save'[s].path = path
                             \/ save[s] # Idle /\ save'[s].path = save[s].path
    PROVE  WorkHere'
  BY DEF WorkHere

LEMMA HereTakes ==
    ASSUME WorkHere, WorkTypeOK, NEW a \in Actors, NEW j, job' = [job EXCEPT ![a] = j],
           \/ j = NoJob \/ j.path = path
           \/ job[a] # NoJob /\ j.path = job[a].path,
           path' = path, UNCHANGED save
    PROVE  WorkHere'
<1>1. \A c \in Actors : job'[c] = IF c = a THEN j ELSE job[c]
  BY DEF WorkTypeOK
<1> QED  BY <1>1 DEF WorkHere

LEMMA HereEnded ==
    ASSUME WorkHere, WorkTypeOK, StoreTypeOK, NEW a \in Actors, job[a].stage \in PlainStages \cup ReadStages,
           job' = Ended(a), path' = path,
           \/ UNCHANGED save
           \/ a \in Savers /\ save' = [save EXCEPT ![a] = Idle]
    PROVE  WorkHere'
<1>1. \A c \in Actors : \/ job'[c] = job[c] \/ job'[c] = NoJob
                        \/ c = a /\ job'[c] = Job("ending", job[a].path, NoBaseline)
  <2>1. \A c \in Actors \ {a} : job'[c] = job[c]
    BY EndedType
  <2>2. job'[a] = IF a = "accept" THEN Job("ending", job[a].path, NoBaseline) ELSE NoJob
    BY DEF Ended, WorkTypeOK
  <2> QED  BY <2>1, <2>2
<1>2. job[a] # NoJob
  BY DEF NoJob, PlainStages, ReadStages, HasRead
<1>3. \A s \in Savers : save'[s] = Idle \/ save'[s] = save[s]
  BY DEF StoreTypeOK
<1> QED  BY <1>1, <1>2, <1>3 DEF WorkHere, Job

LEMMA HereAdvances ==
    ASSUME WorkHere, WorkTypeOK, StoreTypeOK, NEW a \in Savers, job[a].stage \in ReadStages, NEW content,
           Advances(a, content), path' = path
    PROVE  WorkHere'
<1>1. job[a] \in ReadJobs /\ a \in Actors
  BY JobIs, AcceptanceAssumption
<1>2. \A c \in Actors : \/ job'[c] = job[c]
                        \/ c = a /\ job'[c].path = job[c].path
  BY <1>1 DEF Advances, WorkTypeOK, ReadJobs
<1>3. job[a] # NoJob
  BY <1>1 DEF ReadJobs, NoJob
<1>4. job[a].path = path
  BY <1>1, <1>3 DEF WorkHere
<1>5. \A s \in Savers : save'[s] = save[s] \/ save'[s].path = path
  BY <1>4 DEF Advances, SetBegins, StoreTypeOK
<1> QED  BY <1>2, <1>4, <1>5 DEF WorkHere

LEMMA HereStep ==
    ASSUME WorkHere, TypeOK, WorkTypeOK, StoreTypeOK, [Next]_vars, ~ strayed'
    PROVE  WorkHere'
<1>a. /\ {"accept", "reconcile", "sweep"} \subseteq Savers /\ Automatic \subseteq Savers
      /\ Savers \subseteq Actors /\ "revert" \in Actors
      /\ AgentEdits \subseteq Edits /\ HumanEdits \subseteq Edits
  BY AcceptanceAssumption DEF Actors, Automatic, Edits
<1>b. PlainStages \cup ReadStages =
        {"reading", "autoReading", "ending", "read", "folded", "judging", "autoJudging", "keeping", "writing",
         "stamped", "saving"}
  BY DEF PlainStages, ReadStages, HasRead
<1>c. /\ \A st, p, base : Job(st, p, base).path = p
      /\ \A a, st, base : Reads(a, st, base).path = job[a].path
  BY DEF Job, Reads
<1>d. \A a \in Actors : job[a].stage \in PlainStages \cup ReadStages => job[a] # NoJob
  BY DEF NoJob, PlainStages, ReadStages, HasRead
<1>1. CASE UNCHANGED << path, save, job >>
  BY <1>1, HereFrame
<1>2. ASSUME NEW e \in AgentEdits \cup HumanEdits, AgentWrites(e) \/ EditorSaves(e) PROVE WorkHere'
  <2>1. job' = Noticing(e) /\ UNCHANGED << path, save >>
    BY <1>2 DEF AgentWrites, EditorSaves, storeVars
  <2>2. \A a \in Actors : job'[a] = job[a] \/ job'[a] = [job[a] EXCEPT !.since = @ \cup {e}]
    BY <2>1 DEF Noticing
  <2>3. \A a \in Actors : job[a].stage \in HasRead =>
          job[a] # NoJob /\ [job[a] EXCEPT !.since = @ \cup {e}].path = job[a].path
    <3> TAKE a \in Actors
    <3> HAVE job[a].stage \in HasRead
    <3>1. job[a] \in ReadJobs /\ job[a] # NoJob
      BY <1>d, JobIs DEF ReadStages
    <3> QED  BY <3>1 DEF ReadJobs
  <2>4. \A a \in Actors : job[a].stage \notin HasRead => job'[a] = job[a]
    BY <2>1 DEF Noticing
  <2> QED  BY <2>1, <2>2, <2>3, <2>4, HereFrame
<1>3. ASSUME NEW s \in Savers, SaveReturns(s) \/ SaveFails(s) PROVE WorkHere'
  <2>1. job[s].stage = "saving"
    BY <1>3 DEF SaveReturns, SetReturns, SaveFails, SetFails, TypeOK, Idle
  <2> QED  BY <1>a, <1>b, <1>3, <2>1, HereEnded DEF SaveReturns, SetReturns, SaveFails, SetFails, noteVars
<1>4. ASSUME NEW s \in Savers, SaveLands(s) PROVE WorkHere'
  <2>1. \A t \in Savers : \/ save'[t] = save[t]
                          \/ save[t] # Idle /\ save'[t].path = save[t].path
    BY <1>4 DEF SaveLands, SetLands, StoreTypeOK, Idle
  <2> QED  BY <1>4, <2>1, HereFrame DEF SaveLands, noteVars
<1>5. CASE AcceptAsItIs
  BY <1>a, <1>5, HereAdvances DEF AcceptAsItIs, noteVars, ReadStages, HasRead
<1>6. CASE ReconcileAdvances
  BY <1>a, <1>6, HereAdvances DEF ReconcileAdvances, noteVars, ReadStages, HasRead
<1>7. ASSUME NEW a \in Automatic, AutoAccepts(a) PROVE WorkHere'
  BY <1>a, <1>7, HereAdvances DEF AutoAccepts, noteVars, ReadStages, HasRead
<1>8. CASE AcceptRefused
  BY <1>a, <1>b, <1>8, HereEnded DEF AcceptRefused, storeVars, noteVars
<1>9. CASE ReconcileLeaves
  BY <1>a, <1>b, <1>9, HereEnded DEF ReconcileLeaves, storeVars, noteVars
<1>10. CASE RevertWrites
  BY <1>a, <1>b, <1>10, HereEnded DEF RevertWrites, storeVars
<1>11. ASSUME NEW a \in Automatic, AutoDeclines(a) PROVE WorkHere'
  BY <1>a, <1>b, <1>11, HereEnded DEF AutoDeclines, storeVars, noteVars
<1>12. CASE HumanAccepts
  <2>1. job' = [job EXCEPT !["accept"] = Job("reading", path, NoBaseline)] /\ UNCHANGED << save, path >>
    BY <1>12 DEF HumanAccepts, storeVars
  <2>2. Job("reading", path, NoBaseline).path = path
    BY DEF Job
  <2> QED  BY <1>a, <2>1, <2>2, HereTakes
<1>13. CASE AcceptEnds
  BY <1>a, <1>13, HereTakes DEF AcceptEnds, storeVars
<1>14. ASSUME NEW p \in Paths, ReconcileFires(p) PROVE WorkHere'
  <2>1. /\ job' = [job EXCEPT !["reconcile"] = Job("reading", path, cache[path])]
        /\ UNCHANGED << save, path >>
    BY <1>14 DEF ReconcileFires, storeVars
  <2>2. Job("reading", path, cache[path]).path = path
    BY DEF Job
  <2> QED  BY <1>a, <2>1, <2>2, HereTakes
<1>15. CASE SweepBegins
  <2>1. \/ job' = [job EXCEPT !["sweep"] = NoJob]
        \/ job' = [job EXCEPT !["sweep"] = Job("autoReading", path, cache[path])]
    BY <1>15 DEF SweepBegins, AutoBegins
  <2> QED  BY <1>a, <1>c, <1>15, <2>1, HereTakes DEF SweepBegins, storeVars, noteVars
<1>16. CASE ReconcileDefers
  <2>1. \/ job' = [job EXCEPT !["reconcile"] = NoJob]
        \/ job' = [job EXCEPT !["reconcile"] =
                     Job("autoReading", job["reconcile"].path, cache[job["reconcile"].path])]
    BY <1>16 DEF ReconcileDefers, AutoBegins
  <2>2. job["reconcile"] # NoJob /\ UNCHANGED << save, path >>
    BY <1>a, <1>b, <1>d, <1>16 DEF ReconcileDefers, storeVars, noteVars
  <2> QED  BY <1>a, <1>c, <2>1, <2>2, HereTakes
<1>17. CASE ReconcileReads
  <2>1. \/ job' = [job EXCEPT !["reconcile"] = NoJob]
        \/ job' = [job EXCEPT !["reconcile"] =
                     Reads("reconcile", "judging", job["reconcile"].base)]
    BY <1>17 DEF ReconcileReads
  <2>2. job["reconcile"] # NoJob /\ UNCHANGED << save, path >>
    BY <1>a, <1>b, <1>d, <1>17 DEF ReconcileReads, storeVars, noteVars
  <2> QED  BY <1>a, <1>c, <2>1, <2>2, HereTakes
<1>18. CASE HumanReverts
  <2>1. /\ job' = [job EXCEPT !["revert"] = Job("reading", path, cache[path])]
        /\ UNCHANGED << save, path >>
    BY <1>18 DEF HumanReverts, storeVars, noteVars
  <2>2. Job("reading", path, cache[path]).path = path
    BY DEF Job
  <2> QED  BY <1>a, <2>1, <2>2, HereTakes
<1>19. CASE AcceptReads
  <2>1. CASE job' = Ended("accept")
    BY <1>a, <1>b, <1>19, <2>1, HereEnded DEF AcceptReads, storeVars, noteVars
  <2>2. CASE job' # Ended("accept")
    BY <1>a, <1>b, <1>c, <1>d, <1>19, <2>2, HereTakes DEF AcceptReads, storeVars, noteVars
  <2> QED  BY <2>1, <2>2
<1>20. CASE AcceptRereads
  <2>1. CASE job' = Ended("accept")
    BY <1>a, <1>b, <1>20, <2>1, HereEnded DEF AcceptRereads, storeVars, noteVars
  <2>2. CASE job' # Ended("accept")
    BY <1>a, <1>b, <1>c, <1>d, <1>20, <2>2, HereTakes DEF AcceptRereads, storeVars, noteVars
  <2> QED  BY <2>1, <2>2
<1>21. CASE RevertReads
  <2>1. CASE job' = Ended("revert")
    BY <1>a, <1>b, <1>21, <2>1, HereEnded DEF RevertReads, storeVars, noteVars
  <2>2. CASE job' # Ended("revert")
    BY <1>a, <1>b, <1>c, <1>d, <1>21, <2>2, HereTakes DEF RevertReads, storeVars, noteVars
  <2> QED  BY <2>1, <2>2
<1>22. ASSUME NEW a \in Automatic, AutoReads(a) PROVE WorkHere'
  <2>1. CASE job' = Ended(a)
    BY <1>a, <1>b, <1>22, <2>1, HereEnded DEF AutoReads, storeVars, noteVars
  <2>2. CASE job' # Ended(a)
    BY <1>a, <1>b, <1>c, <1>d, <1>22, <2>2, HereTakes DEF AutoReads, storeVars, noteVars
  <2> QED  BY <2>1, <2>2
<1>23. ASSUME NEW a \in Actors, NEW st, job[a].stage \in ReadStages, job' = [job EXCEPT ![a].stage = st],
              UNCHANGED << path, save >>
       PROVE  WorkHere'
  <2>1. job[a] \in ReadJobs /\ job[a] # NoJob
    BY <1>d, <1>23, JobIs
  <2>2. \A c \in Actors : job'[c] = job[c] \/ c = a
    BY <1>23 DEF WorkTypeOK
  <2>3. job'[a].path = job[a].path
    BY <1>23, <2>1 DEF WorkTypeOK, ReadJobs
  <2> QED  BY <1>23, <2>1, <2>2, <2>3, HereFrame
<1>24. CASE AcceptStamps
  BY <1>a, <1>23, <1>24 DEF AcceptStamps, storeVars, ReadStages, HasRead
<1>25. CASE RevertKeeps
  BY <1>a, <1>23, <1>25 DEF RevertKeeps, storeVars, noteVars, ReadStages, HasRead
<1>26. ASSUME NEW p \in Paths, Renames(p) PROVE WorkHere'
  <2>1. \A a \in Actors : job'[a] = NoJob
    BY <1>26 DEF Renames
  <2>2. \A s \in Savers : save'[s] = Idle
    BY <1>26, <1>a, <2>1 DEF Renames, RekeyBegins, storeVars, TypeOK, NoJob
  <2> QED  BY <2>1, <2>2 DEF WorkHere
<1>27. CASE Restarts
  BY <1>a, <1>27 DEF Restarts, Reload, WorkHere
<1>28. ASSUME NEW e \in AgentEdits, Records(e) \/ Appends(e) \/ RecordAges(e) PROVE WorkHere'
  BY <1>1, <1>28 DEF Records, Appends, RecordAges, storeVars
<1>29. ASSUME NEW e \in HumanEdits, HumanTypes(e) PROVE WorkHere'
  BY <1>1, <1>29 DEF HumanTypes, storeVars
<1>30. ASSUME NEW p \in Paths, InputAges(p) PROVE WorkHere'
  BY <1>1, <1>30 DEF InputAges, storeVars
<1>31. ASSUME NEW k \in Rekeys, MoveLands(k) \/ MoveEnds(k) \/ MoveFails(k) \/ MoveLeavesFile(k)
       PROVE  WorkHere'
  BY <1>1, <1>31 DEF MoveLands, MoveEnds, MoveFails, MoveLeavesFile, RekeyLands,
     RekeyRemoves, RekeyFails, RemoveFails, noteVars
<1>32. CASE Repairs \/ UNCHANGED vars
  BY <1>1, <1>32 DEF Repairs, RekeyBegins, vars, storeVars, noteVars
<1> QED
  BY <1>2, <1>3, <1>4, <1>5, <1>6, <1>7, <1>8, <1>9, <1>10, <1>11, <1>12, <1>13, <1>14, <1>15, <1>16,
     <1>17, <1>18, <1>19, <1>20, <1>21, <1>22, <1>24, <1>25, <1>26, <1>27, <1>28, <1>29, <1>30, <1>31,
     <1>32 DEF Next

(* A rekey moves the baseline of a path that has one, unless the other has.*)
LEMMA RekeyFollows ==
    ASSUME StoreTypeOK, NEW from \in Paths, NEW to \in Paths, from # to, RekeyBegins(from, to),
           Remembered, latest' = latest
    PROVE  /\ Remembered'
           /\ cache[from] # NoBaseline => cache'[to] # NoBaseline
           /\ cache[from] = NoBaseline => cache' = cache
<1>1. CASE cache[from] = NoBaseline \/ cache[to] # NoBaseline
  <2>1. cache' = cache
    BY <1>1 DEF RekeyBegins, storeVars
  <2> QED  BY <1>1, <2>1 DEF Remembered, Held
<1>2. CASE cache[from] # NoBaseline /\ cache[to] = NoBaseline
  <2>1. cache' = [cache EXCEPT ![to] = cache[from], ![from] = NoBaseline]
    BY <1>2 DEF RekeyBegins
  <2>2. \A p \in Paths : cache'[p] = IF p = from THEN NoBaseline
                                     ELSE IF p = to THEN cache[from] ELSE cache[p]
    BY <2>1 DEF StoreTypeOK
  <2>3. from \in Held /\ to \notin Held /\ from \notin Held' /\ to \in Held'
    BY <1>2, <2>2 DEF Held
  <2>4. \A p \in Paths \ {from, to} : p \in Held' <=> p \in Held
    BY <2>2 DEF Held
  <2>5. ASSUME NEW p \in Paths, Held' = {p} PROVE cache'[p] = latest'
    <3>1. p = to
      BY <2>3, <2>5
    <3>2. Held = {from}
      <4>1. \A x \in Held : x = from
        BY <2>3, <2>4, <2>5 DEF Held
      <4> QED  BY <2>3, <4>1
    <3> QED  BY <2>2, <3>1, <3>2 DEF Remembered
  <2> QED  BY <1>2, <2>2, <2>3, <2>5 DEF Remembered
<1> QED  BY <1>1, <1>2

LEMMA RememberedFrame ==
    ASSUME Remembered, AtNote, UNCHANGED << cache, latest, path, repair >>
    PROVE  Remembered' /\ AtNote'
  BY DEF Remembered, AtNote, Held

LEMMA RememberedStep ==
    ASSUME WorkHere, Remembered, AtNote, TypeOK, WorkTypeOK, StoreInv, [Next]_vars, ~ strayed'
    PROVE  Remembered' /\ AtNote'
<1>1. ASSUME NEW s \in Savers, SaveReturns(s) PROVE Remembered' /\ AtNote'
  <2>1. /\ save[s] # Idle /\ latest' = save[s].baseline /\ path' = path
        /\ cache' = [cache EXCEPT ![save[s].path] = save[s].baseline]
    BY <1>1 DEF SaveReturns, SetReturns, noteVars, Idle
  <2>2. save[s].path = path /\ save[s].baseline \in Baselines
    BY <2>1 DEF WorkHere, StoreInv, StoreTypeOK
  <2>3. save[s].baseline # NoBaseline
    BY <2>2, NoBaselineAssumption
  <2>4. cache'[path] = latest' /\ latest' # NoBaseline /\ path \in Paths
    BY <2>1, <2>2, <2>3 DEF StoreInv, StoreTypeOK, TypeOK
  <2> QED  BY <2>1, <2>4 DEF Remembered, AtNote, Held
<1>2. ASSUME NEW p \in Paths, Renames(p) PROVE Remembered' /\ AtNote'
  <2>1. /\ p # path /\ path \in Paths /\ path' = p /\ RekeyBegins(path, p)
        /\ latest' = latest /\ repair' = repair
    BY <1>2 DEF Renames, TypeOK
  <2>2. /\ Remembered'
        /\ cache[path] # NoBaseline => cache'[p] # NoBaseline
        /\ cache[path] = NoBaseline => cache' = cache
    BY <2>1, RekeyFollows DEF StoreInv
  <2> QED  BY <2>1, <2>2 DEF AtNote, Held
<1>3. CASE Repairs
  <2>1. UNCHANGED << latest, path >> /\ path \in Paths
    BY <1>3 DEF Repairs, noteVars, historyVars, TypeOK
  <2>2. CASE Drifted = {}
    <3>1. cache' = cache
      BY <1>3, <2>2 DEF Repairs, storeVars
    <3>2. cache[path] = NoBaseline => Held = {}
      BY <2>2 DEF Drifted, Held
    <3> QED  BY <2>1, <3>1, <3>2 DEF Remembered, AtNote, Held
  <2>3. CASE Drifted # {}
    <3>1. PICK p \in Drifted : RekeyBegins(p, path)
      BY <1>3, <2>3 DEF Repairs
    <3>2. p \in Paths /\ p # path /\ cache[p] # NoBaseline
      BY DEF Drifted
    <3>3. Remembered' /\ cache'[path] # NoBaseline
      BY <2>1, <3>1, <3>2, RekeyFollows DEF StoreInv
    <3> QED  BY <2>1, <3>3 DEF AtNote
  <2> QED  BY <2>2, <2>3
<1>4. CASE Restarts
  <2>1. StoreQuiet /\ unsure = {} /\ repair' /\ latest' = latest /\ cache' = blobs
    BY <1>4 DEF Restarts, Reload
  <2>2. \A p \in Paths : cache[p] = blobs[p]
    BY <2>1, QuietAgrees DEF CacheAgreesWithBlobs
  <2>3. cache' = cache
    BY <2>1, <2>2 DEF StoreInv, StoreTypeOK
  <2> QED  BY <2>1, <2>3 DEF Remembered, AtNote, Held
<1>5. ASSUME NEW k \in Rekeys, MoveFails(k) PROVE FALSE
  BY <1>5 DEF MoveFails
<1>6. ASSUME NEW e \in AgentEdits, AgentWrites(e) \/ Records(e) \/ Appends(e) \/ RecordAges(e)
      PROVE  Remembered' /\ AtNote'
  BY <1>6, RememberedFrame DEF AgentWrites, Records, Appends, RecordAges, historyVars, storeVars
<1>7. ASSUME NEW e \in HumanEdits, HumanTypes(e) \/ EditorSaves(e) PROVE Remembered' /\ AtNote'
  BY <1>7, RememberedFrame DEF HumanTypes, EditorSaves, historyVars, storeVars
<1>8. ASSUME NEW p \in Paths, InputAges(p) \/ ReconcileFires(p) PROVE Remembered' /\ AtNote'
  BY <1>8, RememberedFrame DEF InputAges, ReconcileFires, historyVars, storeVars
<1>9. ASSUME NEW s \in Savers, SaveLands(s) \/ SaveFails(s) PROVE Remembered' /\ AtNote'
  BY <1>9, RememberedFrame DEF SaveLands, SetLands, SaveFails, SetFails, noteVars, historyVars
<1>10. CASE HumanAccepts \/ AcceptReads \/ AcceptRefused \/ AcceptStamps \/ AcceptRereads \/ AcceptEnds
  BY <1>10, RememberedFrame DEF HumanAccepts, AcceptReads, AcceptRefused, AcceptStamps,
     AcceptRereads, AcceptEnds, noteVars, historyVars, storeVars
<1>11. CASE AcceptAsItIs \/ ReconcileAdvances
  BY <1>11, RememberedFrame DEF AcceptAsItIs, ReconcileAdvances, Advances, SetBegins, noteVars
<1>12. CASE ReconcileReads \/ ReconcileLeaves \/ ReconcileDefers \/ SweepBegins
  BY <1>12, RememberedFrame DEF ReconcileReads, ReconcileLeaves, ReconcileDefers,
     SweepBegins, noteVars, historyVars, storeVars
<1>13. ASSUME NEW a \in Automatic, AutoReads(a) \/ AutoDeclines(a) PROVE Remembered' /\ AtNote'
  BY <1>13, RememberedFrame DEF AutoReads, AutoDeclines, noteVars, historyVars, storeVars
<1>14. ASSUME NEW a \in Automatic, AutoAccepts(a) PROVE Remembered' /\ AtNote'
  BY <1>14, RememberedFrame DEF AutoAccepts, Advances, SetBegins, noteVars
<1>15. CASE HumanReverts \/ RevertReads \/ RevertKeeps \/ RevertWrites
  BY <1>15, RememberedFrame DEF HumanReverts, RevertReads, RevertKeeps, RevertWrites,
     noteVars, historyVars, storeVars
<1>16. ASSUME NEW k \in Rekeys, MoveLands(k) \/ MoveEnds(k) \/ MoveLeavesFile(k)
       PROVE  Remembered' /\ AtNote'
  BY <1>16, RememberedFrame DEF MoveLands, MoveEnds, MoveLeavesFile, RekeyLands, RekeyRemoves,
     RemoveFails, noteVars, historyVars
<1>17. CASE UNCHANGED vars
  BY <1>17, RememberedFrame DEF vars, noteVars, historyVars, storeVars
<1> QED
  BY <1>1, <1>2, <1>3, <1>4, <1>5, <1>6, <1>7, <1>8, <1>9, <1>10, <1>11, <1>12, <1>13, <1>14, <1>15,
     <1>16, <1>17 DEF Next

LEMMA FollowsIsInvariant == Spec => []FollowsInv
<1>1. Init => FollowsInv
  <2> SUFFICES ASSUME Init PROVE FollowsInv
    OBVIOUS
  <2>1. /\ path \in Paths /\ latest = cache[path]
        /\ \A p \in Paths \ {path} : cache[p] = NoBaseline
        /\ \A s \in Savers : save[s] = Idle
        /\ \A a \in Actors : job[a] = NoJob
    BY DEF Init, StoreInit
  <2> QED  BY <2>1 DEF FollowsInv, WorkHere, Remembered, AtNote, Held
<1>2. AcceptanceInv /\ FollowsInv /\ [Next]_vars => FollowsInv'
  <2> SUFFICES ASSUME AcceptanceInv, FollowsInv, [Next]_vars, ~ strayed'
               PROVE  WorkHere' /\ Remembered' /\ AtNote'
    BY DEF FollowsInv
  <2>1. TypeOK /\ WorkTypeOK /\ StoreInv /\ StoreTypeOK
    BY DEF AcceptanceInv, StoreInv
  <2>2. WorkHere /\ Remembered /\ AtNote
    BY <2>1, StrayedStays DEF FollowsInv
  <2> QED  BY <2>1, <2>2, HereStep, RememberedStep
<1> QED  BY <1>1, <1>2, AcceptanceIsInvariant, PTL DEF Spec

(* The note has the baseline saved last, wherever it was moved and however *)
(* often the process was restarted, unless it found another at its path.   *)
THEOREM BaselineFollows == Spec => []AcceptanceFollowsNote
<1>1. AcceptanceInv /\ FollowsInv => AcceptanceFollowsNote
  <2> SUFFICES ASSUME AcceptanceInv, FollowsInv, ~ strayed, ~ repair, Drifted = {} \/ cache[path] = NoBaseline
               PROVE  cache[path] = latest
    BY DEF AcceptanceFollowsNote, Quiet
  <2>1. Remembered /\ (cache[path] # NoBaseline \/ Held = {}) /\ path \in Paths
    BY DEF FollowsInv, AtNote, AcceptanceInv, TypeOK
  <2>2. CASE Held = {}
    BY <2>1, <2>2 DEF Remembered, Held
  <2>3. CASE cache[path] # NoBaseline
    <3>1. Held = {path}
      BY <2>1, <2>3 DEF Held, Drifted
    <3> QED  BY <2>1, <3>1 DEF Remembered
  <2> QED  BY <2>1, <2>2, <2>3
<1> QED  BY <1>1, AcceptanceIsInvariant, FollowsIsInvariant, PTL
=============================================================================
