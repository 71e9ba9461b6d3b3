-------------------------- MODULE ReviewQueueProofs --------------------------
(***************************************************************************)
(* Proofs about the pending-review queue, for any notes and any number of  *)
(* polls, gestures and passes at once: its variables keep their types, and *)
(* the list that is shown never goes back.                                 *)
(***************************************************************************)
EXTENDS ReviewQueue, TLAPS

LEMMA PassKinds ==
    /\ Polls \subseteq Procs /\ Gestures \subseteq Procs
    /\ Trail \in Procs \ Polls /\ Del \in Procs \ Polls
    /\ Gestures \cap Polls = {}
  BY ProcsAssumption DEF Polls, Procs

LEMMA InitListInv == Init => ListInv
<1> SUFFICES ASSUME Init PROVE ListInv
  OBVIOUS
<1> USE DEF Init
<1>1. Landed = {} /\ Signature = [notes |-> {}, others |-> 0] /\ Tick \in Procs
  BY DEF Landed, Signature, Procs, Polls
<1>2. others \in 0..MaxOthers /\ lastSig \in [notes : SUBSET Notes, others : 0..MaxOthers]
  BY <1>1, BoundsAssumption
<1>3. pc \in [Procs -> Stages] /\ \A p \in Procs : pc[p] \notin PassStages
  BY DEF Stages, PassStages
<1>4. TypeOK
  BY <1>1, <1>2, <1>3 DEF TypeOK
<1> QED  BY <1>1, <1>3, <1>4 DEF ListInv, PassStages

(* A pass that begins lists what there is, and becomes the newest.         *)
LEMMA BeginKeepsInv ==
    ASSUME ListInv, NEW p \in Procs, Begin(p),
           UNCHANGED << record, others, gone, missed >>,
           written' \subseteq Notes, accepted' \subseteq Notes,
           due' \subseteq Notes \cup {Trail, Del}, UNCHANGED << todo, swept >>,
           lastSig' \in {lastSig, Signature}, inFlight' \in BOOLEAN
    PROVE  ListInv'
<1> USE DEF ListInv, TypeOK, Begin, PassStages, Stages
<1>1. Landed' = Landed /\ Signature \in [notes : SUBSET Notes, others : 0..MaxOthers]
  BY DEF Landed, Signature
<1>2. TypeOK'
  BY <1>1, PassKinds
<1>3. Notes \ gone' \subseteq shownFiles' /\ shownLog' \subseteq Landed'
  BY <1>1
<1>4. ASSUME NEW q \in Procs
      PROVE  /\ pc'[q] \in PassStages => Notes \ gone' \subseteq files'[q]
             /\ pc'[q] = "publish" => log'[q] \subseteq Landed'
  BY <1>1
<1>5. /\ pc'[newest'] \in PassStages => files'[newest'] \subseteq shownFiles'
      /\ pc'[newest'] = "publish" => shownLog' \subseteq log'[newest']
  OBVIOUS
<1> QED  BY <1>2, <1>3, <1>4, <1>5

(* A step that lets passes alone, and at most starts a poll's look at the  *)
(* signature, keeps the invariant while notes go and records come.         *)
LEMMA OutsidePassKeepsInv ==
    ASSUME ListInv, UNCHANGED << readVars, listVars >>,
           written' \subseteq Notes, accepted' \subseteq Notes, gone' \subseteq Notes,
           record' \in [Notes -> {"none", "due", "landed"}], others' \in 0..MaxOthers,
           due' \subseteq Notes \cup {Trail, Del},
           gone \subseteq gone', missed' \subseteq gone', Landed \subseteq Landed',
           UNCHANGED pc \/ \E p \in Procs :
               /\ pc[p] \notin PassStages
               /\ \/ pc' = [pc EXCEPT ![p] = "sig"] /\ pc[p] = "idle"
                  \/ pc' = [pc EXCEPT ![p] = "idle"] /\ p \notin swept'
                  \/ pc' = [pc EXCEPT ![p] = "sweep"],
           todo' \in [Polls -> SUBSET Notes],
           swept' \subseteq {p \in Polls : pc[p] \in PassStages \cup {"shown", "sweep"}},
           UNCHANGED lastSig, inFlight' \in BOOLEAN
    PROVE  ListInv'
<1> USE DEF ListInv, TypeOK, PassStages, Stages, readVars, listVars
<1>1. pc' \in [Procs -> Stages] /\ \A q \in Procs : pc'[q] \in PassStages => pc'[q] = pc[q]
  OBVIOUS
<1>2. swept' \subseteq {p \in Polls : pc'[p] \in PassStages \cup {"shown", "sweep"}}
  BY PassKinds
<1>3. TypeOK'
  BY <1>1, <1>2
<1>4. Notes \ gone' \subseteq shownFiles' /\ shownLog' \subseteq Landed'
  OBVIOUS
<1>5. ASSUME NEW q \in Procs
      PROVE  /\ pc'[q] \in PassStages => Notes \ gone' \subseteq files'[q]
             /\ pc'[q] = "publish" => log'[q] \subseteq Landed'
  BY <1>1
<1>6. /\ pc'[newest'] \in PassStages => files'[newest'] \subseteq shownFiles'
      /\ pc'[newest'] = "publish" => shownLog' \subseteq log'[newest']
  BY <1>1
<1> QED  BY <1>3, <1>4, <1>5, <1>6

(* The steps of a pass keep the invariant, and the list does not go back.  *)
LEMMA PassKeepsInv ==
    ASSUME ListInv, NEW p \in Procs, PassStep(p)
    PROVE  /\ ListInv'
           /\ shownLog \subseteq shownLog' /\ shownFiles' \subseteq shownFiles
<1> USE DEF ListInv, TypeOK, PassStages, Stages, noteVars, readVars, pollVars, listVars
<1>1. CASE ReadNotes(p)
  <2>1. Landed' = Landed
    BY <1>1 DEF ReadNotes, Landed
  <2> QED  BY <1>1, <2>1, PassKinds DEF ReadNotes
<1>2. CASE ReadJournal(p)
  <2>1. Landed' = Landed /\ Landed \subseteq Notes
    BY <1>2 DEF ReadJournal, Landed
  <2> QED  BY <1>2, <2>1, PassKinds DEF ReadJournal
<1>3. CASE ReadNotesThrows(p)
  <2>1. Landed' = Landed
    BY <1>3 DEF ReadNotesThrows, Landed
  <2>2. pc' \in [Procs -> Stages] /\ pc'[p] \notin PassStages
        /\ \A q \in Procs \ {p} : pc'[q] = pc[q] /\ files'[q] = files[q] /\ log'[q] = log[q]
    BY <1>3 DEF ReadNotesThrows, Over, Forget
  <2>3. TypeOK'
    <3>1. CASE p \in Polls
      <4>1. /\ todo' \in [Polls -> SUBSET Notes] /\ swept' = swept \ {p}
            /\ inFlight' = FALSE /\ lastSig' = lastSig
        BY <1>3, <3>1 DEF ReadNotesThrows, PollEnds
      <4>2. swept' \subseteq {q \in Polls : pc'[q] \in PassStages \cup {"shown", "sweep"}}
        BY <4>1, <2>2, PassKinds
      <4> QED  BY <1>3, <4>1, <4>2, <2>2 DEF ReadNotesThrows, Forget
    <3>2. CASE p \notin Polls
      BY <1>3, <3>2, <2>2, PassKinds DEF ReadNotesThrows, Forget
    <3> QED  BY <3>1, <3>2
  <2> QED  BY <1>3, <2>1, <2>2, <2>3 DEF ReadNotesThrows
<1>4. CASE Publish(p)
  <2>1. Landed' = Landed
    BY <1>4 DEF Publish, Landed
  <2>2. pc' \in [Procs -> Stages] /\ pc'[p] \notin PassStages
        /\ \A q \in Procs \ {p} : pc'[q] = pc[q] /\ files'[q] = files[q] /\ log'[q] = log[q]
    BY <1>4, PassKinds DEF Publish, Over, Forget
  <2>3. /\ shownLog \subseteq shownLog' /\ shownFiles' \subseteq shownFiles
        /\ shownLog' \subseteq Landed' /\ Notes \ gone' \subseteq shownFiles'
        /\ newest' = newest
        /\ cachedPending' \subseteq Notes /\ shownFiles' \subseteq Notes /\ shownLog' \subseteq Notes
    BY <1>4, <2>1 DEF Publish, MayPublish, Rows
  <2>4. newest # p => UNCHANGED << shownFiles, shownLog >>
    BY <1>4 DEF Publish, MayPublish
  <2>5. TypeOK'
    BY <1>4, <2>2, <2>3, PassKinds DEF Publish, Forget
  <2>6. gone' = gone
    BY <1>4 DEF Publish
  <2> QED  BY <2>1, <2>2, <2>3, <2>4, <2>5, <2>6
<1> QED  BY <1>1, <1>2, <1>3, <1>4 DEF PassStep

(* Every step keeps the invariant, and the list does not go back.          *)
LEMMA ListStep ==
    ASSUME ListInv, [Next]_vars
    PROVE  /\ ListInv'
           /\ shownLog \subseteq shownLog' /\ shownFiles' \subseteq shownFiles
<1> USE PassKinds DEF ListInv, TypeOK
<1>1. ASSUME NEW p \in Procs, PassStep(p)
      PROVE  ListInv' /\ shownLog \subseteq shownLog' /\ shownFiles' \subseteq shownFiles
  BY <1>1, PassKeepsInv
<1>2. ASSUME NEW p \in Polls, PollProceeds(p)
      PROVE  ListInv' /\ UNCHANGED << shownFiles, shownLog >>
  <2>1. Begin(p) /\ UNCHANGED << written, record, others, gone, missed, accepted, due, todo, swept >>
        /\ lastSig' = Signature /\ inFlight' = TRUE
    BY <1>2 DEF PollProceeds, noteVars
  <2> QED  BY <2>1, BeginKeepsInv DEF Begin
<1>3. ASSUME NEW p \in Polls, PollGivesUp(p)
      PROVE  ListInv' /\ UNCHANGED << shownFiles, shownLog >>
  <2>1. pc[p] = "sig" /\ p \notin swept
    BY <1>3 DEF PollGivesUp, PassStages
  <2> QED  BY <1>3, <2>1, OutsidePassKeepsInv
           DEF PollGivesUp, noteVars, readVars, pollVars, listVars, Landed, PassStages
<1>4. ASSUME NEW p \in Polls, NEW n \in Notes, SweepRow(p, n)
      PROVE  ListInv' /\ UNCHANGED << shownFiles, shownLog >>
  BY <1>4, OutsidePassKeepsInv
     DEF SweepRow, readVars, listVars, Landed
<1>5. ASSUME NEW p \in Polls, SweepEnds(p)
      PROVE  ListInv' /\ UNCHANGED << shownFiles, shownLog >>
  <2>1. CASE p \in swept
    BY <1>5, <2>1, BeginKeepsInv DEF SweepEnds, Begin, noteVars, pollVars
  <2>2. CASE p \notin swept
    <3>1. /\ pc[p] = "sweep" /\ pc' = [pc EXCEPT ![p] = "idle"]
          /\ todo' = [todo EXCEPT ![p] = {}] /\ swept' = swept \ {p}
          /\ UNCHANGED << noteVars, due, readVars, listVars, lastSig >> /\ inFlight' = FALSE
      BY <1>5, <2>2 DEF SweepEnds, PollEnds
    <3>3. todo' \in [Polls -> SUBSET Notes] /\ swept' = swept
      BY <3>1, <2>2
    <3>2. Landed' = Landed
      BY <3>1 DEF Landed, noteVars
    <3> QED  BY <3>1, <3>2, <3>3, <2>2, OutsidePassKeepsInv DEF noteVars, readVars, listVars, PassStages
  <2> QED  BY <2>1, <2>2
<1>6. ASSUME IntervalFires
      PROVE  ListInv' /\ UNCHANGED << shownFiles, shownLog >>
  <2>1. Tick \in Procs
    BY DEF Procs, Polls
  <2> QED  BY <1>6, <2>1, OutsidePassKeepsInv
           DEF IntervalFires, PollStarts, noteVars, readVars, pollVars, listVars, Landed, PassStages
<1>7. ASSUME NEW p \in {Trail, Del}, PassFires(p)
      PROVE  ListInv' /\ UNCHANGED << shownFiles, shownLog >>
  BY <1>7, BeginKeepsInv DEF PassFires, Begin, noteVars, pollVars
<1>8. ASSUME NEW n \in Notes, ReconcileFires(n)
      PROVE  ListInv' /\ UNCHANGED << shownFiles, shownLog >>
  BY <1>8, OutsidePassKeepsInv DEF ReconcileFires, readVars, pollVars, listVars, Landed
<1>9. ASSUME NEW n \in Notes, AgentWrites(n)
      PROVE  ListInv' /\ UNCHANGED << shownFiles, shownLog >>
  BY <1>9, OutsidePassKeepsInv DEF AgentWrites, readVars, pollVars, listVars, Landed
<1>10. ASSUME NEW n \in Notes, NEW paneOpen \in BOOLEAN, NoteDeleted(n, paneOpen)
      PROVE  ListInv' /\ UNCHANGED << shownFiles, shownLog >>
  BY <1>10, OutsidePassKeepsInv DEF NoteDeleted, readVars, pollVars, listVars, Landed
<1>11. ASSUME Nudged
      PROVE  UNCHANGED pc \/ \E p \in Procs :
                 pc[p] = "idle" /\ pc' = [pc EXCEPT ![p] = "sig"]
  BY <1>11 DEF Nudged, PollStarts, Polls, Procs
<1>12. ASSUME NEW n \in Notes, RecordLands(n)
      PROVE  ListInv' /\ UNCHANGED << shownFiles, shownLog >>
  <2>1. Nudged /\ Landed \subseteq Landed'
    BY <1>12 DEF RecordLands, Landed
  <2> QED  BY <1>12, <1>11, <2>1, OutsidePassKeepsInv
           DEF RecordLands, readVars, pollVars, listVars, PassStages
<1>13. ASSUME OtherRecordLands
      PROVE  ListInv' /\ UNCHANGED << shownFiles, shownLog >>
  <2>1. Nudged /\ others' \in 0..MaxOthers
    BY <1>13, BoundsAssumption DEF OtherRecordLands
  <2> QED  BY <1>13, <1>11, <2>1, OutsidePassKeepsInv
           DEF OtherRecordLands, readVars, pollVars, listVars, Landed, PassStages
<1>14. ASSUME NEW g \in Gestures, NEW n \in Notes, HumanAccepts(g, n) \/ HumanReverts(g, n)
      PROVE  ListInv' /\ UNCHANGED << shownFiles, shownLog >>
  <2>1. CASE HumanAccepts(g, n)
    BY <1>14, <2>1, BeginKeepsInv DEF HumanAccepts, Begin, pollVars
  <2>2. CASE HumanReverts(g, n)
    BY <1>14, <2>2, BeginKeepsInv, ZenonT(40) DEF HumanReverts, Begin, pollVars
  <2> QED  BY <1>14, <2>1, <2>2
<1>15. ASSUME NEW p \in Polls, AfterPass(p)
       PROVE  ListInv' /\ UNCHANGED << shownFiles, shownLog >>
  <2>1. Landed' = Landed
    BY <1>15 DEF AfterPass, noteVars, Landed
  <2>2. CASE p \in swept
    BY <1>15, <2>1, <2>2, OutsidePassKeepsInv, ZenonT(40)
       DEF AfterPass, PollEnds, noteVars, readVars, listVars, PassStages
  <2>3. CASE p \notin swept
    BY <1>15, <2>1, <2>3, OutsidePassKeepsInv
       DEF AfterPass, noteVars, readVars, listVars, PassStages
  <2> QED  BY <2>2, <2>3
<1>16. CASE UNCHANGED vars
  BY <1>16 DEF vars, noteVars, readVars, pollVars, listVars, Landed, PassStages
<1> QED  BY <1>1, <1>2, <1>3, <1>4, <1>5, <1>6, <1>7, <1>8, <1>9, <1>10, <1>12, <1>13,
            <1>14, <1>15, <1>16 DEF Next, PollStep

LEMMA ListAlways == Spec => []ListInv
<1>1. ListInv /\ [Next]_vars => ListInv'
  BY ListStep
<1> QED  BY InitListInv, <1>1, PTL DEF Spec

(* The variables of the queue keep their types.                            *)
THEOREM ReviewTypeCorrect == Spec => []TypeOK
<1>1. ListInv => TypeOK
  BY DEF ListInv
<1> QED  BY ListAlways, <1>1, PTL

(* refresh(): whatever passes overlap, for as long as they take, the list  *)
(* shown is never replaced by one computed from less.                      *)
THEOREM ListMonotone == Spec => ListNeverGoesBack
<1>1. ListInv /\ [Next]_vars =>
          [shownLog \subseteq shownLog' /\ shownFiles' \subseteq shownFiles]_vars
  BY ListStep
<1> QED  BY ListAlways, <1>1, PTL DEF Spec, ListNeverGoesBack
=============================================================================
