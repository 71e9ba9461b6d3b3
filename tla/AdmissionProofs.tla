--------------------------- MODULE AdmissionProofs ---------------------------
(***************************************************************************)
(* Proofs that the admission protocol keeps its evidence straight for any  *)
(* proposals, acts and failures: every safety property that Admission      *)
(* states as holding.                                                      *)
(* In the second part, proofs that the cutover, which hands authority to   *)
(* admission, does so for any clicks, readers, records, failures and       *)
(* restarts: everything that Cutover states.                               *)
(***************************************************************************)
EXTENDS Admission, Cutover, FiniteSetTheorems, TLAPS

-----------------------------------------------------------------------------
(* Facts about the sequences the state is made of.                         *)

(* What Tail leaves.                                                       *)
LEMMA TailFacts ==
    ASSUME NEW S, NEW s \in Seq(S), s # << >>
    PROVE  /\ Tail(s) \in Seq(S)
           /\ Head(s) \in S
           /\ Len(Tail(s)) = Len(s) - 1
           /\ Len(s) \in Nat \ {0}
           /\ \A i \in 1..Len(Tail(s)) : Tail(s)[i] = s[i + 1] /\ i + 1 \in 1..Len(s)
  OBVIOUS

(* A sequence one longer.                                                  *)
LEMMA AppendType ==
    ASSUME NEW S, NEW s \in Seq(S), NEW e \in S
    PROVE  Append(s, e) \in Seq(S)
  OBVIOUS

(* The elements of a sequence one longer.                                  *)
LEMMA ElementsOfAppend ==
    ASSUME NEW S, NEW s \in Seq(S), NEW e
    PROVE  {Append(s, e)[i] : i \in 1..Len(Append(s, e))} = {s[i] : i \in 1..Len(s)} \cup {e}
<1>1. Len(Append(s, e)) = Len(s) + 1 /\ Len(s) \in Nat
  OBVIOUS
<1>2. \A i \in 1..Len(s) : Append(s, e)[i] = s[i]
  OBVIOUS
<1>3. Append(s, e)[Len(s) + 1] = e
  OBVIOUS
<1>4. 1..(Len(s) + 1) = 1..Len(s) \cup {Len(s) + 1}
  BY <1>1
<1> QED  BY <1>1, <1>2, <1>3, <1>4

(* What an act charges is a number of items.                               *)
LEMMA ItemsCounted ==
    ASSUME NEW a \in Acts
    PROVE  Cardinality(Members(a)) \in Nat
<1>1. Members(a) \subseteq Proposals
  BY ActAssumption DEF Members
<1>2. IsFiniteSet(Members(a))
  BY <1>1, FiniteAssumption, FS_Subset
<1> QED  BY <1>2, FS_CardinalityType

(* A charge counts up, and is of somebody.                                 *)
LEMMA CountsTyped ==
    ASSUME TypeOK, NEW x \in Acts \cup Writes, NEW n \in Nat, Counts(x, n)
    PROVE  /\ used' \in Nat
           /\ letIn' \subseteq Acts \cup Writes
           /\ over' \subseteq Acts \cup Writes
<1>1. PastCheck \subseteq Acts \cup Writes
  BY DEF PastCheck
<1> QED  BY <1>1 DEF Counts, TypeOK

-----------------------------------------------------------------------------
(* Every step keeps every variable within its type.                        *)
LEMMA TypeStep == ASSUME TypeOK, OneTurnAtATime, [Next]_vars PROVE TypeOK'
<1>0. CASE UNCHANGED vars
  BY <1>0 DEF TypeOK, vars, storeVars, evidenceVars, mandateVars, actVars
<1>1. ASSUME NEW a \in Acts, ActStep(a) PROVE TypeOK'
  <2> USE DEF TypeOK, PCs, Reports, Heads, Authorities, storeVars, evidenceVars, mandateVars,
          Goto, Answer, EndTurn
  <2>1. CASE Fetch(a)
    BY <2>1 DEF Fetch
  <2>0. line # << >> => Tail(line) \in Seq(Acts)
    BY TailFacts
  <2>1a. Head0 \in Heads
    BY DEF Head0
  <2>1b. pc[a] \in InTurn => line # << >>
    BY DEF OneTurnAtATime, HasTurn
  <2>2. CASE Look(a)
    <3>1. PICK head \in {Head0, Unread} : preHead' = [preHead EXCEPT ![a] = head]
      BY <2>2 DEF Look
    <3>2. preHead' \in [Acts -> Heads \cup {Unread}]
      BY <3>1, <2>1a
    <3>3. /\ pc' \in [Acts -> PCs]
          /\ report' \in [Acts -> Reports]
          /\ line' \in Seq(Acts)
      <4>1. pc' \in [Acts -> PCs] /\ report' \in [Acts -> Reports]
        BY <2>2 DEF Look
      <4>2. line' = line \/ line' = Append(line, a)
        BY <2>2 DEF Look
      <4>3. Append(line, a) \in Seq(Acts)
        BY AppendType
      <4> QED  BY <4>1, <4>2, <4>3
    <3>4. UNCHANGED << note, authority, storeVars, seen, expected >>
      BY <2>2 DEF Look
    <3> HIDE DEF Goto, Answer, EndTurn, PCs, Reports, Heads, Authorities
    <3> QED  BY <3>2, <3>3, <3>4
  <2>3. CASE Heal(a)
    BY <2>3 DEF Heal, Project
  <2>4. CASE Judge(a)
    <3>1. pc' \in [Acts -> PCs] /\ report' \in [Acts -> Reports]
      BY <2>4 DEF Judge
    <3>2. line' \in Seq(Acts)
      <4>1. line # << >> /\ (line' = line \/ line' = Tail(line))
        BY <2>4 DEF Judge, HasTurn
      <4>2. line \in Seq(Acts) /\ Tail(line) \in Seq(Acts)
        BY <4>1, <2>0
      <4> QED  BY <4>1, <4>2
    <3>2a. expected' \in [Acts -> Heads]
      BY <2>4, <2>1a DEF Judge
    <3>3. UNCHANGED << note, authority, storeVars, seen, preHead >>
      BY <2>4 DEF Judge
    <3> HIDE DEF Goto, Answer, EndTurn, PCs, Reports, Heads, Authorities
    <3> QED  BY <3>1, <3>2, <3>2a, <3>3
  <2>5. CASE Throws(a)
    BY <2>5, <2>0, <2>1b DEF Throws, InTurn
  <2>6. CASE AppendClaim(a)
    BY <2>6 DEF AppendClaim
  <2>7. CASE Advance(a)
    <3>1. pc' \in [Acts -> PCs] /\ report' \in [Acts -> Reports] /\ line' \in Seq(Acts)
      BY <2>7, <2>0, <2>1b DEF Advance, InTurn
    <3>2. standing' \in Seq(Acts \cup {Elsewhere})
      <4>1. standing' = standing \/ standing' = Append(standing, a)
        BY <2>7 DEF Advance
      <4>2. Append(standing, a) \in Seq(Acts \cup {Elsewhere})
        BY AppendType
      <4> HIDE DEF Goto, Answer, EndTurn, PCs, Reports, Heads, Authorities
      <4> QED  BY <4>1, <4>2
    <3>3. UNCHANGED << note, authority, claims, settlements, mandateVars, seen, preHead, expected >>
      BY <2>7 DEF Advance
    <3> HIDE DEF Goto, Answer, EndTurn, PCs, Reports, Heads, Authorities
    <3> QED  BY <3>1, <3>2, <3>3
  <2>8. CASE Settle(a)
    BY <2>8, <2>0, <2>1b DEF Settle, InTurn
  <2>9. CASE Charge(a)
    <3>1. pc' \in [Acts -> PCs] /\ line' \in Seq(Acts)
      BY <2>9, <2>0, <2>1b DEF Charge, InTurn
    <3>2. used' \in Nat /\ letIn' \subseteq Acts \cup Writes /\ over' \subseteq Acts \cup Writes
      <4>1. Cardinality(Members(a)) \in Nat
        BY ItemsCounted
      <4> QED  BY <2>9, <4>1, CountsTyped DEF Charge
    <3>3. UNCHANGED << note, authority, evidenceVars, mandate, produced, seen, preHead, expected, report >>
      BY <2>9 DEF Charge
    <3> HIDE DEF Goto, Answer, EndTurn, PCs, Reports, Heads, Authorities
    <3> QED  BY <3>1, <3>2, <3>3 DEF evidenceVars
  <2>15. CASE Observe(a)
    BY <2>15, <2>0, <2>1b DEF Observe, Observes, InTurn, evidenceVars
  <2>10. CASE Projects(a)
    BY <2>10 DEF Projects, Project
  <2>11. CASE Catch(a)
    <3>1. pc' \in [Acts -> PCs] /\ report' \in [Acts -> Reports]
      BY <2>11 DEF Catch
    <3>2. authority' \in [Proposals -> Authorities]
      BY <2>11 DEF Catch, Project
    <3>3. UNCHANGED << note, storeVars, line, seen, preHead, expected >>
      BY <2>11 DEF Catch
    <3> HIDE DEF Goto, Answer, EndTurn, PCs, Reports, Heads, Authorities
    <3> QED  BY <3>1, <3>2, <3>3
  <2>12. CASE RevertStarts(a)
    BY <2>12 DEF RevertStarts
  <2>13. CASE RevertWrites(a)
    <3>1. pc' \in [Acts -> PCs] /\ report' \in [Acts -> Reports]
      BY <2>13 DEF RevertWrites
    <3>2. note' \in [Proposals -> {"proposed", "other"}]
      BY <2>13 DEF RevertWrites
    <3>3. UNCHANGED << authority, storeVars, line, seen, preHead, expected >>
      BY <2>13 DEF RevertWrites
    <3> HIDE DEF Goto, Answer, EndTurn, PCs, Reports, Heads, Authorities
    <3> QED  BY <3>1, <3>2, <3>3
  <2>14. CASE RevertSupersedes(a)
    <3>1. pc' \in [Acts -> PCs] /\ report' \in [Acts -> Reports]
      BY <2>14 DEF RevertSupersedes
    <3>2. authority' \in [Proposals -> Authorities]
      BY <2>14 DEF RevertSupersedes
    <3>3. UNCHANGED << note, storeVars, line, seen, preHead, expected >>
      BY <2>14 DEF RevertSupersedes
    <3> HIDE DEF Goto, Answer, EndTurn, PCs, Reports, Heads, Authorities
    <3> QED  BY <3>1, <3>2, <3>3
  <2> QED  BY <1>1, <2>1, <2>2, <2>3, <2>4, <2>5, <2>6, <2>7, <2>8, <2>9, <2>10, <2>11,
              <2>12, <2>13, <2>14, <2>15 DEF ActStep
<1>2. ASSUME NEW p \in Edited, Edit(p) PROVE TypeOK'
  BY <1>2, EditedAssumption DEF Edit, TypeOK, storeVars, evidenceVars, mandateVars, actVars
<1>3. CASE Revoke
  BY <1>3 DEF Revoke, TypeOK, evidenceVars, actVars
<1>4. CASE MovedElsewhere
  BY <1>4 DEF MovedElsewhere, TypeOK, mandateVars, actVars
<1>5. CASE Crash
  BY <1>5 DEF Crash, TypeOK, evidenceVars, PCs, Productions
<1>6. ASSUME NEW w \in Writes, WriteStep(w) PROVE TypeOK'
  <2>1. produced' \in [Writes -> Productions] /\ mandate' \in {"active", "revoked", "exhausted"}
    BY <1>6 DEF WriteStep, StampWrite, ChargeWrite, ObserveBreach, Observes, Advances, TypeOK,
       Productions
  <2>2. used' \in Nat /\ letIn' \subseteq Acts \cup Writes /\ over' \subseteq Acts \cup Writes
    <3>1. CASE Counts(w, 1)
      BY <3>1, CountsTyped
    <3>2. CASE UNCHANGED << used, letIn, over >>
      BY <3>2 DEF TypeOK
    <3> QED  BY <1>6, <3>1, <3>2 DEF WriteStep, StampWrite, ChargeWrite, ObserveBreach
  <2>3. UNCHANGED << note, authority, evidenceVars, actVars >>
    BY <1>6 DEF WriteStep, StampWrite, ChargeWrite, ObserveBreach
  <2> QED  BY <2>1, <2>2, <2>3 DEF TypeOK, evidenceVars, actVars
<1> QED  BY <1>0, <1>1, <1>2, <1>3, <1>4, <1>5, <1>6 DEF Next

-----------------------------------------------------------------------------
(* The service's chain.                                                    *)

InChain == InTurn \cup {"waiting"}

(* An act that moves on without joining or leaving the chain.              *)
LEMMA ChainKept ==
    ASSUME TypeOK, OneTurnAtATime, NEW a \in Acts, NEW where, line' = line,
           pc' = [pc EXCEPT ![a] = where],
           \/ pc[a] \notin InChain /\ where \notin InChain
           \/ pc[a] \in InTurn /\ where \in InTurn
           \/ pc[a] = "waiting" /\ HasTurn(a) /\ where \in InTurn
    PROVE  OneTurnAtATime'
<1>1. pc \in [Acts -> PCs]
  BY DEF TypeOK
<1>2. HasTurn(a) \/ where \notin InTurn
  BY DEF OneTurnAtATime, InChain
<1> QED  BY <1>1, <1>2 DEF OneTurnAtATime, HasTurn, InChain

(* An act that joins the chain, at its end.                                *)
LEMMA ChainJoined ==
    ASSUME TypeOK, OneTurnAtATime, NEW a \in Acts, line' = Append(line, a),
           pc[a] \notin InChain, pc' = [pc EXCEPT ![a] = "waiting"]
    PROVE  OneTurnAtATime'
<1>1. pc \in [Acts -> PCs] /\ line \in Seq(Acts) /\ "waiting" \notin InTurn
  BY DEF TypeOK, InTurn
<1>2. Len(line') = Len(line) + 1 /\ Len(line) \in Nat
  BY <1>1
<1>3. \A i \in 1..Len(line) : line'[i] = line[i]
  BY <1>1
<1>4. line'[Len(line) + 1] = a
  BY <1>1
<1>5. \A i \in 1..Len(line) : line[i] # a
  BY DEF OneTurnAtATime, InChain
<1>6. \A i, j \in 1..Len(line') : line'[i] = line'[j] => i = j
  BY <1>2, <1>3, <1>4, <1>5 DEF OneTurnAtATime
<1>7. \A b \in Acts : (\E i \in 1..Len(line') : line'[i] = b) <=> pc'[b] \in InChain
  <2> TAKE b \in Acts
  <2>1. (\E i \in 1..Len(line') : line'[i] = b) <=> (b = a \/ \E i \in 1..Len(line) : line[i] = b)
    BY <1>2, <1>3, <1>4
  <2>2. pc'[b] \in InChain <=> (b = a \/ pc[b] \in InChain)
    BY <1>1 DEF InChain
  <2> QED  BY <2>1, <2>2 DEF OneTurnAtATime, InChain
<1>8. \A b \in Acts : pc'[b] \in InTurn => line' # << >> /\ Head(line') = b
  <2> SUFFICES ASSUME NEW b \in Acts, pc'[b] \in InTurn PROVE line' # << >> /\ Head(line') = b
    OBVIOUS
  <2>1. b # a /\ pc[b] \in InTurn
    BY <1>1
  <2>2. line # << >> /\ Head(line) = b
    BY <2>1 DEF OneTurnAtATime, HasTurn
  <2> QED  BY <2>2, <1>1, <1>2, <1>3
<1> QED  BY <1>6, <1>7, <1>8 DEF OneTurnAtATime, InChain, HasTurn

(* The act whose turn it is leaves the chain.                              *)
LEMMA ChainLeft ==
    ASSUME TypeOK, OneTurnAtATime, NEW a \in Acts, NEW where, HasTurn(a),
           line' = Tail(line), where \notin InChain, pc' = [pc EXCEPT ![a] = where]
    PROVE  OneTurnAtATime'
<1>1. pc \in [Acts -> PCs] /\ line \in Seq(Acts)
  BY DEF TypeOK
<1>2. line # << >> /\ line[1] = a
  BY <1>1 DEF HasTurn
<1>3. /\ Len(line') = Len(line) - 1
      /\ Len(line) \in Nat \ {0}
      /\ \A i \in 1..Len(line') : line'[i] = line[i + 1] /\ i + 1 \in 1..Len(line)
  BY <1>1, <1>2, TailFacts
<1>4. \A i, j \in 1..Len(line') : line'[i] = line'[j] => i = j
  BY <1>3 DEF OneTurnAtATime
<1>5. \A b \in Acts : pc'[b] = IF b = a THEN where ELSE pc[b]
  BY <1>1
<1>6. \A b \in Acts : (\E i \in 1..Len(line') : line'[i] = b) <=> pc'[b] \in InChain
  <2> TAKE b \in Acts
  <2>1. (\E i \in 1..Len(line') : line'[i] = b)
          <=> (b # a /\ \E i \in 1..Len(line) : line[i] = b)
    <3>1. ASSUME NEW i \in 1..Len(line'), line'[i] = b
          PROVE  b # a /\ \E j \in 1..Len(line) : line[j] = b
      <4>1. line[i + 1] = b /\ i + 1 \in 1..Len(line) /\ 1 \in 1..Len(line) /\ i + 1 # 1
        BY <3>1, <1>3
      <4> QED  BY <4>1, <1>2 DEF OneTurnAtATime
    <3>2. ASSUME b # a, NEW j \in 1..Len(line), line[j] = b
          PROVE  \E i \in 1..Len(line') : line'[i] = b
      <4>1. j # 1 /\ j - 1 \in 1..Len(line')
        BY <3>2, <1>2, <1>3
      <4>2. line'[j - 1] = b
        BY <4>1, <3>2, <1>3
      <4> QED  BY <4>1, <4>2
    <3> QED  BY <3>1, <3>2
  <2> QED  BY <2>1, <1>5 DEF OneTurnAtATime, InChain
<1>7. \A b \in Acts : pc'[b] \notin InTurn
  BY <1>5 DEF OneTurnAtATime, HasTurn, InChain
<1> QED  BY <1>4, <1>6, <1>7 DEF OneTurnAtATime, InChain

(* Every step keeps the chain in order.                                    *)
LEMMA TurnStep == ASSUME TypeOK, OneTurnAtATime, [Next]_vars PROVE OneTurnAtATime'
<1> USE DEF InChain, InTurn, Goto, Answer, EndTurn
<1>0. ASSUME UNCHANGED << line, pc >> PROVE OneTurnAtATime'
  BY <1>0 DEF OneTurnAtATime, HasTurn
<1>1. ASSUME NEW a \in Acts, ActStep(a) PROVE OneTurnAtATime'
  <2>0. pc[a] \in InTurn => HasTurn(a)
    BY DEF OneTurnAtATime
  <2>1. CASE Fetch(a)
    BY <2>1, ChainKept DEF Fetch
  <2>2. CASE Look(a)
    BY <2>2, ChainKept, ChainJoined DEF Look
  <2>3. CASE Heal(a)
    BY <2>3, ChainKept DEF Heal
  <2>4. CASE Judge(a)
    BY <2>4, ChainKept, ChainLeft DEF Judge
  <2>5. CASE Throws(a)
    BY <2>5, <2>0, ChainLeft DEF Throws
  <2>6. CASE AppendClaim(a)
    BY <2>6, ChainKept DEF AppendClaim
  <2>7. CASE Advance(a)
    BY <2>7, <2>0, ChainKept, ChainLeft DEF Advance
  <2>8. CASE Settle(a)
    BY <2>8, <2>0, ChainKept, ChainLeft DEF Settle
  <2>9. CASE Charge(a)
    BY <2>9, <2>0, ChainKept, ChainLeft DEF Charge
  <2>15. CASE Observe(a)
    BY <2>15, <2>0, ChainLeft DEF Observe
  <2>10. CASE Projects(a)
    BY <2>10, ChainKept DEF Projects
  <2>11. CASE Catch(a)
    BY <2>11, ChainKept DEF Catch
  <2>12. CASE RevertStarts(a)
    BY <2>12, ChainKept DEF RevertStarts
  <2>13. CASE RevertWrites(a)
    BY <2>13, ChainKept DEF RevertWrites
  <2>14. CASE RevertSupersedes(a)
    BY <2>14, ChainKept DEF RevertSupersedes
  <2> QED  BY <1>1, <2>1, <2>2, <2>3, <2>4, <2>5, <2>6, <2>7, <2>8, <2>9, <2>10, <2>11,
              <2>12, <2>13, <2>14, <2>15 DEF ActStep
<1>2. CASE Crash
  <2>1. line' = << >> /\ \A a \in Acts : pc'[a] \in {"absent", "idle", "done", "killed"}
    BY <1>2 DEF Crash, Ended
  <2> QED  BY <2>1 DEF OneTurnAtATime, HasTurn
<1> QED  BY <1>0, <1>1, <1>2 DEF Next, WriteStep, StampWrite, ChargeWrite, ObserveBreach, Edit,
            Revoke, MovedElsewhere, vars, actVars

-----------------------------------------------------------------------------
(* The evidence.                                                           *)

Evidence == EvidencePlaces /\ StandingHasEvidence /\ OneSubjectOneClaim

(* An act that moves on without touching the stores.                       *)
LEMMA StoresKept ==
    ASSUME TypeOK, Evidence, NEW a \in Acts, NEW where \in PCs,
           UNCHANGED << claims, standing, settlements >>,
           pc' = [pc EXCEPT ![a] = where],
           \A b \in Acts : b # a => report'[b] = report[b],
           \A b \in Acts : preHead'[b] \in {preHead[b], Head0, Unread},
           report'[a] # "none" => where = "done",
           \/ pc[a] \in {"idle", "fetched"} /\ where \in {"fetched", "healing", "waiting", "reverting"}
           \/ pc[a] = "reverting" /\ where = "written"
           \/ /\ pc[a] = "waiting" /\ where = "judged"
              /\ SameSubject(Digest(a)) = {} /\ GestureUnused(a)
           \/ pc[a] = "settled" /\ where \in {"counted", "projecting"}
           \/ pc[a] = "counted" /\ where = "projecting"
           \/ where \in {"threw", "done", "killed"}
    PROVE  Evidence'
<1>1. pc \in [Acts -> PCs]
  BY DEF TypeOK
<1>2. Claimed' = Claimed /\ Standing' = Standing
  BY DEF Claimed, Standing
<1>4. ASSUME NEW b \in Acts, SameSubject(Digest(b)) = {}, GestureUnused(b)
      PROVE  (SameSubject(Digest(b)) = {} /\ GestureUnused(b))'
  BY <1>2, <1>4 DEF SameSubject, GestureUnused
<1>3. Head0 \in Standing \cup {Nobody}
  <2>1. standing # << >> => Len(standing) \in 1..Len(standing)
    BY DEF TypeOK
  <2> QED  BY <2>1 DEF Head0, Standing
<1>5. EvidencePlaces'
  BY <1>1, <1>2, <1>3, <1>4 DEF Evidence, EvidencePlaces
<1> QED  BY <1>2, <1>5 DEF Evidence, StandingHasEvidence, OneSubjectOneClaim

(* The claim of an act whose turn it is, and who found neither its subject *)
(* nor its gesture claimed, is appended.                                   *)
LEMMA ClaimStored ==
    ASSUME TypeOK, OneTurnAtATime, Evidence, NEW a \in Acts, AppendClaim(a)
    PROVE  Evidence'
<1>1. pc \in [Acts -> PCs] /\ claims \in Seq(Acts) /\ pc[a] = "judged"
  BY DEF TypeOK, AppendClaim
<1>2. claims' = Append(claims, a) /\ UNCHANGED << standing, settlements, preHead, report >>
  BY DEF AppendClaim
<1>3. pc' = [pc EXCEPT ![a] = "claimed"]
  BY DEF AppendClaim, Goto
<1>4. Claimed' = Claimed \cup {a} /\ Standing' = Standing
  BY <1>1, <1>2, ElementsOfAppend, SMTT(30) DEF Claimed, Standing
<1>5. SameSubject(Digest(a)) = {} /\ GestureUnused(a) /\ a \notin Claimed
  BY <1>1 DEF Evidence, EvidencePlaces
<1>6. \A b \in Acts : b # a => pc'[b] \notin InTurn
  BY <1>1, <1>3 DEF OneTurnAtATime, HasTurn, InTurn
<1>7. a \notin Standing
  <2>1. a # Elsewhere
    BY NamesAssumption
  <2> QED  BY <2>1, <1>5 DEF Evidence, StandingHasEvidence
<1>8. EvidencePlaces'
  BY <1>1, <1>2, <1>3, <1>4, <1>6, <1>7 DEF Evidence, EvidencePlaces, InTurn
<1>9. StandingHasEvidence'
  BY <1>2, <1>4 DEF Evidence, StandingHasEvidence
<1>10. OneSubjectOneClaim'
  <2>1. Len(claims') = Len(claims) + 1 /\ Len(claims) \in Nat
    BY <1>1, <1>2
  <2>2. \A i \in 1..Len(claims) : claims'[i] = claims[i] /\ claims[i] \in Claimed
    BY <1>1, <1>2 DEF Claimed
  <2>3. claims'[Len(claims) + 1] = a
    BY <1>1, <1>2
  <2>4. \A c \in Claimed : Digest(c) # Digest(a)
    BY <1>5 DEF SameSubject
  <2>5. \A c \in Claimed : Gesture(a) # NoGesture => Gesture(c) # Gesture(a)
    BY <1>5 DEF GestureUnused
  <2> QED  BY <2>1, <2>2, <2>3, <2>4, <2>5 DEF Evidence, OneSubjectOneClaim
<1> QED  BY <1>8, <1>9, <1>10 DEF Evidence

(* Every step keeps the evidence.                                          *)
LEMMA EvidenceStep ==
    ASSUME TypeOK, OneTurnAtATime, Evidence, [Next]_vars
    PROVE  Evidence'
<1> USE DEF Goto, Answer
<1>0. ASSUME UNCHANGED << claims, standing, settlements, pc, preHead, report >> PROVE Evidence'
  <2>1. Claimed' = Claimed /\ Standing' = Standing
    BY <1>0 DEF Claimed, Standing
  <2>2. EvidencePlaces'
    BY <1>0, <2>1 DEF Evidence, EvidencePlaces, SameSubject, GestureUnused
  <2>3. StandingHasEvidence' /\ OneSubjectOneClaim'
    BY <1>0, <2>1 DEF Evidence, StandingHasEvidence, OneSubjectOneClaim
  <2> QED  BY <2>2, <2>3 DEF Evidence
<1>1. ASSUME NEW a \in Acts, ActStep(a) PROVE Evidence'
  <2> USE DEF TypeOK, PCs, storeVars, evidenceVars
  <2>1. CASE Fetch(a)
    BY <2>1, StoresKept DEF Fetch, Evidence, EvidencePlaces
  <2>2. CASE Look(a)
    BY <2>2, StoresKept DEF Look, Evidence, EvidencePlaces
  <2>3. CASE Heal(a)
    BY <2>3, StoresKept DEF Heal, Evidence, EvidencePlaces
  <2>4. CASE Judge(a)
    BY <2>4, StoresKept DEF Judge, Admissible, Evidence, EvidencePlaces
  <2>5. CASE Throws(a)
    BY <2>5, StoresKept DEF Throws, Evidence, EvidencePlaces
  <2>6. CASE AppendClaim(a)
    BY <2>6, ClaimStored
  <2>7. CASE Advance(a)
    <3>1. CASE Answer(a, "moved") /\ UNCHANGED standing
      BY <2>7, <3>1, StoresKept DEF Advance, Evidence, EvidencePlaces
    <3>2. CASE standing' = Append(standing, a) /\ pc' = [pc EXCEPT ![a] = "advanced"]
      <4>0. standing \in Seq(Acts \cup {Elsewhere})
        BY DEF TypeOK
      <4>1a. Standing' = Standing \cup {a}
        BY <3>2, <4>0, ElementsOfAppend, SMTT(30) DEF Standing
      <4>1b. Claimed' = Claimed
        BY <2>7 DEF Advance, Claimed
      <4>1. Standing' = Standing \cup {a} /\ Claimed' = Claimed
        BY <4>1a, <4>1b
      <4>2. a \in Claimed /\ UNCHANGED << claims, settlements, preHead, report >>
        BY <2>7, <3>2 DEF Advance, Evidence, EvidencePlaces
      <4>3. EvidencePlaces'
        BY <2>7, <3>2, <4>1, <4>2 DEF Advance, Evidence, EvidencePlaces, SameSubject, GestureUnused
      <4> QED  BY <4>1, <4>2, <4>3 DEF Evidence, StandingHasEvidence, OneSubjectOneClaim
    <3> QED  BY <2>7, <3>1, <3>2 DEF Advance
  <2>8. CASE Settle(a)
    <3>1. /\ Standing' = Standing /\ Claimed' = Claimed
          /\ UNCHANGED << claims, standing, preHead, report >>
      BY <2>8 DEF Settle, Standing, Claimed
    <3>2. \E where \in {"settled", "projecting"} : pc' = [pc EXCEPT ![a] = where]
      BY <2>8 DEF Settle
    <3>3. settlements' = settlements \cup {a} /\ a \in Standing /\ a \in Claimed
      BY <2>8 DEF Settle, Evidence, EvidencePlaces
    <3>4. EvidencePlaces'
      BY <2>8, <3>1, <3>2, <3>3 DEF Settle, Evidence, EvidencePlaces, SameSubject, GestureUnused
    <3> QED  BY <3>1, <3>3, <3>4 DEF Evidence, StandingHasEvidence, OneSubjectOneClaim
  <2>9. CASE Charge(a)
    BY <2>9, StoresKept DEF Charge, Evidence, EvidencePlaces
  <2>15. CASE Observe(a)
    BY <2>15, StoresKept DEF Observe, Evidence, EvidencePlaces
  <2>10. CASE Projects(a)
    BY <2>10, StoresKept DEF Projects, Evidence, EvidencePlaces
  <2>11. CASE Catch(a)
    BY <2>11, StoresKept DEF Catch, Evidence, EvidencePlaces
  <2>12. CASE RevertStarts(a)
    BY <2>12, StoresKept DEF RevertStarts, Evidence, EvidencePlaces
  <2>13. CASE RevertWrites(a)
    BY <2>13, StoresKept DEF RevertWrites, Evidence, EvidencePlaces
  <2>14. CASE RevertSupersedes(a)
    BY <2>14, StoresKept DEF RevertSupersedes, Evidence, EvidencePlaces
  <2> QED  BY <1>1, <2>1, <2>2, <2>3, <2>4, <2>5, <2>6, <2>7, <2>8, <2>9, <2>10, <2>11,
              <2>12, <2>13, <2>14, <2>15 DEF ActStep
<1>2. CASE MovedElsewhere
  <2>1. Claimed' = Claimed /\ UNCHANGED << claims, settlements, pc, preHead, report >>
    BY <1>2 DEF MovedElsewhere, actVars, Claimed
  <2>2. Standing' = Standing \cup {Elsewhere}
    <3>1. standing \in Seq(Acts \cup {Elsewhere}) /\ standing' = Append(standing, Elsewhere)
      BY <1>2 DEF MovedElsewhere, TypeOK
    <3> QED  BY <3>1, ElementsOfAppend, SMTT(30) DEF Standing
  <2>3. \A b \in Acts : b \in Standing' <=> b \in Standing
    BY <2>2, NamesAssumption
  <2> QED  BY <2>1, <2>2, <2>3 DEF Evidence, EvidencePlaces, StandingHasEvidence,
              OneSubjectOneClaim, SameSubject, GestureUnused
<1>3. CASE Crash
  <2>1. /\ Claimed' = Claimed /\ Standing' = Standing
        /\ UNCHANGED << claims, standing, settlements, preHead, report >>
    BY <1>3 DEF Crash, evidenceVars, Claimed, Standing
  <2>2. \A b \in Acts : pc'[b] = IF pc[b] \in {"absent", "idle", "done", "killed"}
                                   THEN pc[b] ELSE "killed"
    BY <1>3 DEF Crash, Ended
  <2>3. EvidencePlaces'
    BY <2>1, <2>2 DEF Evidence, EvidencePlaces
  <2> QED  BY <2>3, <2>1, <2>2 DEF Evidence, EvidencePlaces, StandingHasEvidence, OneSubjectOneClaim
<1> QED  BY <1>0, <1>1, <1>2, <1>3 DEF Next, WriteStep, StampWrite, ChargeWrite, ObserveBreach, Edit,
            Revoke, vars, actVars, storeVars, evidenceVars

-----------------------------------------------------------------------------
(* The chain of claims and the reports.                                    *)

(* A claim put on the ref was built on the one under it, and what an act   *)
(* expected does not change once it has a claim.                           *)
LEMMA ChainStep ==
    ASSUME TypeOK, Evidence, StandsOnWhatItSaw, [Next]_vars
    PROVE  StandsOnWhatItSaw'
<1>1. standing \in Seq(Acts \cup {Elsewhere}) /\ Len(standing) \in Nat
  BY DEF TypeOK
<1>2. ASSUME UNCHANGED << standing, expected >> PROVE StandsOnWhatItSaw'
  BY <1>2 DEF StandsOnWhatItSaw
<1>3. ASSUME NEW a \in Acts, Judge(a) PROVE StandsOnWhatItSaw'
  <2>1. a \notin Standing
    <3>1. a \notin Claimed /\ a # Elsewhere
      BY <1>3, NamesAssumption DEF Judge, Evidence, EvidencePlaces
    <3> QED  BY <3>1 DEF Evidence, StandingHasEvidence
  <2>2. standing' = standing
    BY <1>3 DEF Judge, storeVars, evidenceVars
  <2>3. \A b \in Acts : b # a => expected'[b] = expected[b]
    BY <1>3 DEF Judge, TypeOK
  <2>4. \A i \in 1..Len(standing) : standing[i] # Elsewhere => standing[i] \in Acts /\ standing[i] # a
    BY <1>1, <2>1 DEF Standing
  <2> QED  BY <2>2, <2>3, <2>4 DEF StandsOnWhatItSaw
<1>4. ASSUME NEW a \in Acts \cup {Elsewhere}, standing' = Append(standing, a), expected' = expected,
             a # Elsewhere => Head0 = expected[a]
      PROVE  StandsOnWhatItSaw'
  <2>1. /\ Len(standing') = Len(standing) + 1
        /\ \A i \in 1..Len(standing) : standing'[i] = standing[i]
        /\ standing'[Len(standing) + 1] = a
    BY <1>1, <1>4
  <2>2. Head0 = IF Len(standing) = 0 THEN Nobody ELSE standing[Len(standing)]
    BY <1>1 DEF Head0
  <2>3. \A i \in 1..Len(standing) : i - 1 \in 1..Len(standing) \/ i = 1
    BY <1>1
  <2> QED  BY <1>1, <1>4, <2>1, <2>2, <2>3 DEF StandsOnWhatItSaw
<1>5. ASSUME NEW a \in Acts, Advance(a) PROVE StandsOnWhatItSaw'
  BY <1>5, <1>2, <1>4 DEF Advance
<1>6. CASE MovedElsewhere
  BY <1>6, <1>4 DEF MovedElsewhere, actVars
<1>7. ASSUME NEW a \in Acts, ActStep(a) PROVE StandsOnWhatItSaw'
  <2>1. CASE Judge(a)
    BY <2>1, <1>3
  <2>2. CASE Advance(a)
    BY <2>2, <1>5
  <2>3. CASE ~ Judge(a) /\ ~ Advance(a)
    <3>1. UNCHANGED << standing, expected >>
      BY <1>7, <2>3 DEF ActStep, Fetch, Look, Heal, Throws, AppendClaim, Settle, Charge, Observe,
         Projects, Catch, RevertStarts, RevertWrites, RevertSupersedes, storeVars, evidenceVars
    <3> QED  BY <3>1, <1>2
  <2> QED  BY <2>1, <2>2, <2>3
<1> QED  BY <1>2, <1>6, <1>7 DEF Next, WriteStep, StampWrite, ChargeWrite, ObserveBreach, Edit,
            Revoke, Crash, vars, storeVars, evidenceVars, actVars

(* How a step leaves what the reports go by: claims, standing ones and     *)
(* settlements are only added, each by its own act, and an act that is     *)
(* done has no more to say.                                                *)
StoresGrow ==
    /\ \/ claims' = claims
       \/ \E a \in Acts : pc[a] = "judged" /\ claims' = Append(claims, a)
    /\ \/ standing' = standing
       \/ \E e \in Acts \cup {Elsewhere} :
             (e # Elsewhere => pc[e] = "claimed") /\ standing' = Append(standing, e)
    /\ settlements \subseteq settlements'
    /\ \A a \in Acts : pc[a] = "done" => report'[a] = report[a] /\ preHead'[a] = preHead[a]

LEMMA StoresGrowStep ==
    ASSUME TypeOK, [Next]_vars
    PROVE  StoresGrow
<1> USE DEF Goto, Answer
<1>1. ASSUME NEW a \in Acts, ActStep(a) PROVE StoresGrow
  <2>1. \/ UNCHANGED << claims, standing, settlements >>
        \/ pc[a] = "judged" /\ claims' = Append(claims, a) /\ UNCHANGED << standing, settlements >>
        \/ pc[a] = "claimed" /\ standing' = Append(standing, a) /\ UNCHANGED << claims, settlements >>
        \/ settlements' = settlements \cup {a} /\ UNCHANGED << claims, standing >>
    BY <1>1 DEF ActStep, Fetch, Look, Heal, Judge, Throws, AppendClaim, Advance, Settle, Charge,
       Observe, Projects, Catch, RevertStarts, RevertWrites, RevertSupersedes, storeVars, evidenceVars
  <2>2. pc[a] # "done"
    BY <1>1 DEF ActStep, Fetch, Look, Heal, Judge, Throws, AppendClaim, Advance, Settle, Charge,
       Observe, Projects, Catch, RevertStarts, RevertWrites, RevertSupersedes
  <2>3. \A b \in Acts : b # a => report'[b] = report[b]
    BY <1>1 DEF ActStep, Fetch, Look, Heal, Judge, Throws, AppendClaim, Advance, Settle, Charge,
       Observe, Projects, Catch, RevertStarts, RevertWrites, RevertSupersedes, TypeOK
  <2>4. \A b \in Acts : b # a => preHead'[b] = preHead[b]
    BY <1>1 DEF ActStep, Fetch, Look, Heal, Judge, Throws, AppendClaim, Advance, Settle, Charge,
       Observe, Projects, Catch, RevertStarts, RevertWrites, RevertSupersedes, TypeOK
  <2>5. a # Elsewhere
    BY NamesAssumption
  <2> QED  BY <2>1, <2>2, <2>3, <2>4, <2>5 DEF StoresGrow
<1>2. CASE MovedElsewhere
  BY <1>2 DEF MovedElsewhere, actVars, StoresGrow
<1>3. ASSUME UNCHANGED << claims, standing, settlements, report, preHead >> PROVE StoresGrow
  BY <1>3 DEF StoresGrow
<1> QED  BY <1>1, <1>2, <1>3 DEF Next, WriteStep, StampWrite, ChargeWrite, ObserveBreach, Edit,
            Revoke, Crash, vars, storeVars, evidenceVars, actVars

(* What such growth means for the claims and for what stands.              *)
LEMMA GrownStores ==
    ASSUME TypeOK, StoresGrow
    PROVE  /\ Claimed \subseteq Claimed'
           /\ \A b \in Acts : b \in Claimed' => b \in Claimed \/ pc[b] = "judged"
           /\ Standing \subseteq Standing'
           /\ \A b \in Acts : b \in Standing' => b \in Standing \/ pc[b] = "claimed"
           /\ Len(standing) <= Len(standing')
           /\ \A i \in 1..Len(standing) : standing'[i] = standing[i]
<1>1. claims \in Seq(Acts) /\ standing \in Seq(Acts \cup {Elsewhere})
  BY DEF TypeOK
<1>2. /\ Claimed \subseteq Claimed'
      /\ \A b \in Acts : b \in Claimed' => b \in Claimed \/ pc[b] = "judged"
  <2>1. CASE claims' = claims
    BY <2>1 DEF Claimed
  <2>2. ASSUME NEW a \in Acts, pc[a] = "judged", claims' = Append(claims, a)
        PROVE  /\ Claimed \subseteq Claimed'
               /\ \A b \in Acts : b \in Claimed' => b \in Claimed \/ pc[b] = "judged"
    <3>1. Claimed' = Claimed \cup {a}
      BY <1>1, <2>2, ElementsOfAppend, SMTT(30) DEF Claimed
    <3>2. Claimed \subseteq Claimed'
      BY <3>1
    <3>3. ASSUME NEW b \in Acts, b \in Claimed'
          PROVE  b \in Claimed \/ pc[b] = "judged"
      <4>1. b \in Claimed \/ b = a
        BY <3>1, <3>3
      <4> QED  BY <2>2, <4>1
    <3> QED  BY <3>2, <3>3
  <2> QED  BY <2>1, <2>2 DEF StoresGrow
<1>3. CASE standing' = standing
  <2>1. Standing' = Standing /\ Len(standing') = Len(standing) /\ Len(standing) \in Nat
    BY <1>1, <1>3 DEF Standing
  <2> QED  BY <1>2, <1>3, <2>1
<1>4. ASSUME NEW e \in Acts \cup {Elsewhere}, e # Elsewhere => pc[e] = "claimed",
             standing' = Append(standing, e)
      PROVE  /\ Standing \subseteq Standing'
             /\ \A b \in Acts : b \in Standing' => b \in Standing \/ pc[b] = "claimed"
             /\ Len(standing) <= Len(standing')
             /\ \A i \in 1..Len(standing) : standing'[i] = standing[i]
  <2>1. Standing' = Standing \cup {e}
    BY <1>1, <1>4, ElementsOfAppend, SMTT(30) DEF Standing
  <2>2. \A b \in Acts : b # Elsewhere
    BY NamesAssumption
  <2>3. Len(standing') = Len(standing) + 1 /\ Len(standing) \in Nat
    BY <1>1, <1>4
  <2>4. \A i \in 1..Len(standing) : standing'[i] = standing[i]
    BY <1>1, <1>4
  <2> QED  BY <1>4, <2>1, <2>2, <2>3, <2>4
<1> QED  BY <1>2, <1>3, <1>4 DEF StoresGrow

(* An answer that has been given stays as good as it was.                  *)
LEMMA ReportKept ==
    ASSUME TypeOK, Evidence, StoresGrow, NEW a \in Acts, report[a] # "none", ReportIsTrue(a)
    PROVE  ReportIsTrue(a)'
<1>1. pc[a] = "done"
  BY DEF Evidence, EvidencePlaces
<1>2. report'[a] = report[a] /\ preHead'[a] = preHead[a] /\ settlements \subseteq settlements'
  BY <1>1 DEF StoresGrow
<1>3. /\ Claimed \subseteq Claimed' /\ Standing \subseteq Standing'
      /\ a \in Claimed' => a \in Claimed
      /\ a \in Standing' => a \in Standing
      /\ Len(standing) <= Len(standing')
      /\ \A i \in 1..Len(standing) : standing'[i] = standing[i]
  BY <1>1, GrownStores
<1>4. SameSubject(Digest(a)) \subseteq SameSubject(Digest(a))'
  BY <1>3 DEF SameSubject, Digest
<1>5. StoodMeanwhile(a) => StoodMeanwhile(a)'
  <2> SUFFICES ASSUME NEW i \in 1..Len(standing),
                      standing[i] \in SameSubject(Digest(a)),
                      preHead[a] # Nobody => \E j \in 1..(i - 1) : standing[j] = preHead[a]
               PROVE  StoodMeanwhile(a)'
    BY DEF StoodMeanwhile
  <2>1. Len(standing) \in Nat /\ Len(standing') \in Nat
    <3>1. standing \in Seq(Acts \cup {Elsewhere})
      BY DEF TypeOK
    <3>2. \A e : Append(standing, e) # << >> /\ Len(Append(standing, e)) = Len(standing) + 1
      BY <3>1
    <3> QED  BY <3>1, <3>2 DEF StoresGrow
  <2>2. i \in 1..Len(standing') /\ standing'[i] \in SameSubject(Digest(a))'
    BY <1>3, <1>4, <2>1
  <2>3. \A j \in 1..(i - 1) : j \in 1..Len(standing) /\ standing'[j] = standing[j]
    BY <1>3, <2>1
  <2> QED  BY <1>2, <2>2, <2>3 DEF StoodMeanwhile
<1> QED  BY <1>2, <1>3, <1>4, <1>5 DEF ReportIsTrue

(* The catch credits what came to stand after the act had looked.          *)
LEMMA CreditIsDue ==
    ASSUME TypeOK, Evidence, NEW a \in Acts, TookEffect(a)
    PROVE  StoodMeanwhile(a)
<1>1. standing # << >> /\ Head0 \in Acts
  <2>1. Claimed \subseteq Acts
    BY DEF Claimed, TypeOK
  <2> QED  BY <2>1, NamesAssumption DEF TookEffect, Head0
<1>2. Head0 = standing[Len(standing)] /\ Len(standing) \in 1..Len(standing)
  BY <1>1 DEF Head0, TypeOK
<1>3. Head0 \in SameSubject(Digest(a)) /\ Head0 # preHead[a] /\ preHead[a] # Unread
  BY DEF TookEffect, SameSubject
<1>4. ASSUME preHead[a] # Nobody PROVE \E j \in 1..(Len(standing) - 1) : standing[j] = preHead[a]
  <2>1. preHead[a] \in Standing
    BY <1>3, <1>4 DEF Evidence, EvidencePlaces
  <2>2. PICK j \in 1..Len(standing) : standing[j] = preHead[a]
    BY <2>1 DEF Standing
  <2>3. j # Len(standing)
    BY <1>2, <1>3, <2>2
  <2>4. j \in 1..(Len(standing) - 1)
    BY <1>2, <2>2, <2>3
  <2> QED  BY <2>2, <2>4
<1> QED  BY <1>2, <1>3, <1>4 DEF StoodMeanwhile

(* An answer that leaves the stores alone, given as its act stands.        *)
LEMMA ReportGiven ==
    ASSUME TypeOK, Evidence, NEW a \in Acts, UNCHANGED evidenceVars, preHead'[a] = preHead[a],
           \/ report'[a] \in {"none", "error", "reverted", "partial"}
           \/ report'[a] = "ok" /\ a \in Standing /\ a \in settlements
           \/ report'[a] = "degraded" /\ StoodMeanwhile(a)
           \/ report'[a] = "refused" /\ a \notin Claimed
           \/ report'[a] = "already" /\ a \notin Claimed /\ SameSubject(Digest(a)) # {}
           \/ report'[a] = "moved" /\ a \in Claimed \ Standing
    PROVE  ReportIsTrue(a)'
<1>1. Claimed' = Claimed /\ Standing' = Standing /\ settlements' = settlements /\ standing' = standing
  BY DEF evidenceVars, Claimed, Standing
<1>2. SameSubject(Digest(a))' = SameSubject(Digest(a))
  BY <1>1 DEF SameSubject, Digest
<1>3. StoodMeanwhile(a) => StoodMeanwhile(a)'
  BY <1>1, <1>2 DEF StoodMeanwhile
<1> QED  BY <1>1, <1>2, <1>3 DEF ReportIsTrue

(* Claims of the same subject cover the same members.                      *)
LEMMA SameMembers ==
    ASSUME NEW a \in Acts, NEW c \in Acts, Digest(c) = Digest(a)
    PROVE  Members(c) = Members(a)
  BY SameDigestAssumption DEF Digest, Members

(* A claim seen to stand is in the store.                                  *)
LEMMA HeadHasClaim ==
    ASSUME TypeOK, StandingHasEvidence, Head0 \in Acts
    PROVE  Head0 \in Claimed
<1>1. standing # << >>
  BY NamesAssumption DEF Head0
<1>2. Head0 = standing[Len(standing)] /\ Len(standing) \in 1..Len(standing)
  BY <1>1 DEF Head0, TypeOK
<1>3. Head0 \in Standing /\ Head0 # Elsewhere
  BY <1>2, NamesAssumption DEF Standing
<1> QED  BY <1>3 DEF StandingHasEvidence

(* An act goes healing only when it has seen a claim of its subject.       *)
LEMMA HealStep ==
    ASSUME TypeOK, StandingHasEvidence, HealsUnderClaim, [Next]_vars
    PROVE  HealsUnderClaim'
<1>0. Claimed \subseteq Claimed'
  BY StoresGrowStep, GrownStores
<1>1. ASSUME NEW a \in Acts, pc'[a] = "healing"
      PROVE  (SameSubject(Digest(a)) # {})'
  <2>1. CASE pc[a] = "healing"
    BY <1>0, <2>1 DEF HealsUnderClaim, SameSubject
  <2>2. CASE pc[a] # "healing"
    <3>1. Look(a)
      <4>1. ASSUME NEW b \in Acts, ActStep(b), ~ Look(a)
            PROVE  FALSE
        <5> USE DEF TypeOK, Goto, Answer
        <5>1. b = a \/ pc'[a] = pc[a]
          BY <4>1 DEF ActStep, Fetch, Look, Heal, Judge, Throws, AppendClaim, Advance, Settle, Charge,
             Observe, Projects, Catch, RevertStarts, RevertWrites, RevertSupersedes
        <5>2. b = a
          BY <1>1, <2>2, <5>1
        <5> QED  BY <1>1, <4>1, <5>2 DEF ActStep, Fetch, Heal, Judge, Throws, AppendClaim, Advance,
                    Settle, Charge, Observe, Projects, Catch, RevertStarts, RevertWrites, RevertSupersedes
      <4>2. CASE Crash
        BY <1>1, <2>2, <4>2 DEF Crash
      <4>3. CASE \/ MovedElsewhere \/ Revoke \/ UNCHANGED vars
                 \/ \E p \in Edited : Edit(p)
                 \/ \E w \in Writes : WriteStep(w)
        BY <1>1, <2>2, <4>3 DEF MovedElsewhere, Revoke, Edit, WriteStep, StampWrite, ChargeWrite, ObserveBreach, vars, actVars
      <4> QED  BY <4>1, <4>2, <4>3 DEF Next
    <3>2. PICK head \in {Head0, Unread} : Already(a, head)
      BY <1>1, <3>1 DEF Look, Goto, Answer, TypeOK
    <3>3. SameSubject(Digest(a)) # {}
      <4>1. CASE ActOf[a].kind = "item"
        <5>1. head \in Acts /\ Digest(head) = Digest(a)
          BY <3>2, <4>1 DEF Already
        <5>2. head = Head0
          BY <3>2, <5>1, NamesAssumption DEF Unread
        <5> QED  BY <5>1, <5>2, HeadHasClaim DEF SameSubject
      <4>2. CASE ActOf[a].kind # "item"
        BY <3>2, <4>2 DEF Already
      <4> QED  BY <4>1, <4>2
    <3> QED  BY <1>0, <3>3 DEF SameSubject
  <2> QED  BY <2>1, <2>2
<1> QED  BY <1>1 DEF HealsUnderClaim

(* What is reported of an act that has just ended is so, and stays so.     *)
LEMMA ReportStep ==
    ASSUME TypeOK, Evidence, HealsUnderClaim, ReportsAreTrue, [Next]_vars
    PROVE  ReportsAreTrue'
<1> USE DEF Goto, Answer
<1>1. StoresGrow
  BY StoresGrowStep
<1>2. ASSUME NEW b \in Acts, report[b] # "none" PROVE ReportIsTrue(b)'
  BY <1>1, <1>2, ReportKept DEF ReportsAreTrue
<1>3. ASSUME NEW b \in Acts, report'[b] = "none" PROVE ReportIsTrue(b)'
  BY <1>3 DEF ReportIsTrue
<1>4. ASSUME NEW a \in Acts, ActStep(a), report[a] = "none" PROVE ReportIsTrue(a)'
  <2> USE DEF storeVars
  <2>0. report \in [Acts -> Reports] /\ pc \in [Acts -> PCs] /\ preHead \in [Acts -> Heads \cup {Unread}]
    BY DEF TypeOK
  <2>1. /\ pc[a] \in {"idle", "fetched", "healing", "waiting"} => a \notin Claimed
        /\ pc[a] = "claimed" => a \in Claimed \ Standing
        /\ pc[a] = "projecting" => a \in Standing /\ a \in settlements
    BY DEF Evidence, EvidencePlaces
  <2>2. CASE report'[a] = "none"
    BY <1>3, <2>2
  <2>3. CASE Fetch(a) \/ RevertStarts(a)
    BY <1>4, <2>0, <2>1, <2>3, ReportGiven DEF Fetch, RevertStarts
  <2>4. CASE Look(a)
    <3>1. report'[a] \in {"none", "refused"} /\ a \notin Claimed /\ UNCHANGED evidenceVars
      BY <1>4, <2>0, <2>1, <2>4 DEF Look
    <3>2. Claimed' = Claimed
      BY <3>1 DEF evidenceVars, Claimed
    <3> QED  BY <3>1, <3>2 DEF ReportIsTrue
  <2>5. CASE Heal(a)
    BY <1>4, <2>0, <2>1, <2>5, ReportGiven DEF Heal, HealsUnderClaim
  <2>6. CASE Judge(a)
    BY <1>4, <2>0, <2>1, <2>6, ReportGiven DEF Judge
  <2>7. CASE Advance(a)
    <3>1. CASE UNCHANGED standing /\ Answer(a, "moved")
      BY <1>4, <2>0, <2>1, <2>7, <3>1, ReportGiven DEF Advance, evidenceVars
    <3>2. CASE report' = report
      BY <1>4, <2>2, <3>2
    <3> QED  BY <2>7, <3>1, <3>2 DEF Advance
  <2>8. CASE Projects(a)
    BY <1>4, <2>0, <2>1, <2>8, ReportGiven DEF Projects
  <2>9. CASE Catch(a)
    BY <1>4, <2>0, <2>9, CreditIsDue, ReportGiven DEF Catch
  <2>10. CASE RevertWrites(a) \/ RevertSupersedes(a)
    BY <1>4, <2>0, <2>10, ReportGiven DEF RevertWrites, RevertSupersedes
  <2>11. CASE Throws(a) \/ AppendClaim(a) \/ Settle(a) \/ Charge(a) \/ Observe(a)
    BY <1>4, <2>2, <2>11 DEF Throws, AppendClaim, Settle, Charge, Observe
  <2> QED  BY <1>4, <2>3, <2>4, <2>5, <2>6, <2>7, <2>8, <2>9, <2>10, <2>11 DEF ActStep
<1>5. ASSUME NEW a \in Acts, ActStep(a), NEW b \in Acts, b # a PROVE report'[b] = report[b]
  BY <1>5 DEF ActStep, Fetch, Look, Heal, Judge, Throws, AppendClaim, Advance, Settle, Charge,
     Observe, Projects, Catch, RevertStarts, RevertWrites, RevertSupersedes, TypeOK
<1>6. ASSUME NEW a \in Acts, ActStep(a), NEW b \in Acts PROVE ReportIsTrue(b)'
  BY <1>2, <1>3, <1>4, <1>5, <1>6
<1>7. ASSUME report' = report, NEW b \in Acts PROVE ReportIsTrue(b)'
  BY <1>2, <1>3, <1>7
<1>8. (\E a \in Acts : ActStep(a)) \/ report' = report
  BY DEF Next, WriteStep, StampWrite, ChargeWrite, ObserveBreach, Edit, Revoke, MovedElsewhere,
     Crash, vars, actVars
<1> QED  BY <1>6, <1>7, <1>8 DEF ReportsAreTrue

-----------------------------------------------------------------------------
(* The theorems.                                                           *)

(* The inductive invariant holds of every behaviour of the protocol.       *)
THEOREM AdmissionInvariant == Spec => []AdmissionInv
<1>1. Init => AdmissionInv
  <2> SUFFICES ASSUME Init PROVE AdmissionInv
    OBVIOUS
  <2> USE DEF Init
  <2>1. TypeOK
    BY DEF TypeOK, PCs, Productions, Reports, Heads, Authorities
  <2>2. OneTurnAtATime
    BY DEF OneTurnAtATime, InTurn
  <2>3. Claimed = {} /\ Standing = {}
    BY DEF Claimed, Standing
  <2>4. EvidencePlaces /\ StandingHasEvidence /\ OneSubjectOneClaim
    BY <2>3 DEF EvidencePlaces, StandingHasEvidence, OneSubjectOneClaim
  <2>6. HealsUnderClaim
    BY DEF HealsUnderClaim
  <2>5. StandsOnWhatItSaw /\ ReportsAreTrue
    BY DEF StandsOnWhatItSaw, ReportsAreTrue, ReportIsTrue
  <2> QED  BY <2>1, <2>2, <2>4, <2>5, <2>6 DEF AdmissionInv
<1>2. AdmissionInv /\ [Next]_vars => AdmissionInv'
  BY TypeStep, TurnStep, EvidenceStep, ChainStep, HealStep, ReportStep DEF AdmissionInv, Evidence
<1> QED  BY <1>1, <1>2, PTL DEF Spec

(* The variables keep their types, whatever fails and whenever it dies.    *)
THEOREM AdmissionTypeCorrect == Spec => []TypeOK
<1>1. AdmissionInv => TypeOK
  BY DEF AdmissionInv
<1> QED  BY <1>1, AdmissionInvariant, PTL

(* No reference ever points at evidence that does not exist.               *)
THEOREM EvidenceFirst == Spec => []StandingHasEvidence
<1>1. AdmissionInv => StandingHasEvidence
  BY DEF AdmissionInv
<1> QED  BY <1>1, AdmissionInvariant, PTL

(* No subject and no gesture is ever claimed twice.                        *)
THEOREM OneShot == Spec => []OneSubjectOneClaim
<1>1. AdmissionInv => OneSubjectOneClaim
  BY DEF AdmissionInv
<1> QED  BY <1>1, AdmissionInvariant, PTL

(* The chain links each claim to the one it was decided against, although  *)
(* others move the standing ref.                                           *)
THEOREM ChainLinked == Spec => []StandsOnWhatItSaw
<1>1. AdmissionInv => StandsOnWhatItSaw
  BY DEF AdmissionInv
<1> QED  BY <1>1, AdmissionInvariant, PTL

(* Each answer of the door is worth what ReportsAreTrue says, and an error *)
(* promises nothing.                                                       *)
THEOREM TrueReports == Spec => []ReportsAreTrue
<1>1. AdmissionInv => ReportsAreTrue
  BY DEF AdmissionInv
<1> QED  BY <1>1, AdmissionInvariant, PTL

(* The service takes one act at a time.                                    *)
THEOREM OneTurn == Spec => []OneTurnAtATime
<1>1. AdmissionInv => OneTurnAtATime
  BY DEF AdmissionInv
<1> QED  BY <1>1, AdmissionInvariant, PTL

-----------------------------------------------------------------------------
(* What is shown as admitted, and what a budget is charged with.           *)

LEMMA AdmittedStep ==
    ASSUME AdmissionInv, AdmittedUnderClaim, [Next]_vars
    PROVE  AdmittedUnderClaim'
<1> USE DEF AdmissionInv
<1>0. Claimed \subseteq Claimed' /\ Claimed \subseteq Acts
  <2>1. claims \in Seq(Acts)
    BY DEF TypeOK
  <2>2. Claimed \subseteq Acts
    BY <2>1 DEF Claimed
  <2> QED  BY <2>2, StoresGrowStep, GrownStores
<1>1. ASSUME NEW a \in Acts, SameSubject(Digest(a)) # {}, Project(Members(a))
      PROVE  AdmittedUnderClaim'
  <2>1. PICK c \in Claimed : Digest(c) = Digest(a)
    BY <1>1 DEF SameSubject
  <2>2. Members(c) = Members(a)
    BY <1>0, <2>1, SameMembers
  <2>3. \A p \in Proposals : authority'[p] = "admitted" => authority[p] = "admitted" \/ p \in Members(a)
    BY <1>1 DEF Project
  <2> QED  BY <1>0, <2>1, <2>2, <2>3 DEF AdmittedUnderClaim
<1>2. ASSUME \A p \in Proposals : authority'[p] = "admitted" => authority[p] = "admitted"
      PROVE  AdmittedUnderClaim'
  BY <1>0, <1>2 DEF AdmittedUnderClaim
<1>3. ASSUME NEW a \in Acts, Heal(a) PROVE AdmittedUnderClaim'
  BY <1>1, <1>3 DEF Heal, HealsUnderClaim
<1>4. ASSUME NEW a \in Acts, Projects(a) PROVE AdmittedUnderClaim'
  <2>1. a \in SameSubject(Digest(a))
    BY <1>4 DEF Projects, EvidencePlaces, SameSubject
  <2> QED  BY <1>1, <1>4, <2>1 DEF Projects
<1>5. ASSUME NEW a \in Acts, Catch(a) PROVE AdmittedUnderClaim'
  <2>1. TookEffect(a) => Head0 \in SameSubject(Digest(a))
    BY DEF TookEffect, SameSubject
  <2> QED  BY <1>1, <1>2, <1>5, <2>1 DEF Catch
<1>6. ASSUME NEW a \in Acts, RevertSupersedes(a) PROVE AdmittedUnderClaim'
  BY <1>2, <1>6 DEF RevertSupersedes
<1>7. ASSUME NEW a \in Acts, ActStep(a), ~ Heal(a), ~ Projects(a), ~ Catch(a), ~ RevertSupersedes(a)
      PROVE  UNCHANGED authority
  BY <1>7 DEF ActStep, Fetch, Look, Judge, Throws, AppendClaim, Advance, Settle, Charge,
     Observe, RevertStarts, RevertWrites
<1>8. CASE \/ MovedElsewhere \/ Crash \/ Revoke \/ UNCHANGED vars
           \/ \E p \in Edited : Edit(p)
           \/ \E w \in Writes : WriteStep(w)
  BY <1>2, <1>8 DEF MovedElsewhere, Crash, Revoke, Edit, WriteStep, StampWrite,
     ChargeWrite, ObserveBreach, vars
<1> QED  BY <1>2, <1>3, <1>4, <1>5, <1>6, <1>7, <1>8 DEF Next

(* Past the check of a spent budget are only those who were when it came   *)
(* to be spent.                                                            *)
SpendingInv ==
    /\ used < Budget \/ PastCheck \subseteq letIn
    /\ letIn \cup over # {} => used >= Budget
    /\ \A a \in Acts : pc[a] = "settled" => ActOf[a].kind = "mandate"

(* A step that charges nothing, and lets nobody past the check of a budget *)
(* that is spent.                                                          *)
LEMMA SpendingKept ==
    ASSUME SpendingInv, BudgetOvershotByThoseLetIn, UNCHANGED << used, letIn, over >>,
           used < Budget \/ PastCheck' \subseteq PastCheck,
           \A a \in Acts : pc'[a] = "settled" => pc[a] = "settled" \/ ActOf[a].kind = "mandate"
    PROVE  SpendingInv' /\ BudgetOvershotByThoseLetIn'
  BY DEF SpendingInv, BudgetOvershotByThoseLetIn

(* A charge by somebody past the check.  Of acts there is one there at     *)
(* most, the one that has its turn.                                        *)
LEMMA SpendingCounts ==
    ASSUME TypeOK, OneTurnAtATime, SpendingInv, BudgetOvershotByThoseLetIn,
           NEW x \in PastCheck, NEW n \in Nat, Counts(x, n),
           PastCheck' \subseteq PastCheck,
           \A a \in Acts : pc'[a] = "settled" => pc[a] = "settled"
    PROVE  SpendingInv' /\ BudgetOvershotByThoseLetIn'
<1>1. used \in Nat /\ Budget \in Nat /\ used' = used + n
  BY BoundAssumption DEF TypeOK, Counts
<1>2. \A a, b \in PastCheck \cap Acts : a = b
  <2>1. \A a \in PastCheck \cap Acts : pc[a] \in InTurn
    BY NamesAssumption DEF PastCheck, InTurn
  <2> QED  BY <2>1 DEF OneTurnAtATime, HasTurn
<1>3. \A a \in Acts : pc'[a] = "settled" => ActOf[a].kind = "mandate"
  BY DEF SpendingInv
<1>4. CASE used < Budget /\ used' >= Budget
  <2>1. letIn' = PastCheck /\ over' = over \cup {x} /\ over = {}
    BY <1>1, <1>4 DEF Counts, SpendingInv
  <2> QED  BY <1>2, <1>3, <1>4, <2>1 DEF SpendingInv, BudgetOvershotByThoseLetIn
<1>5. CASE used' < Budget
  <2>1. letIn' = letIn /\ over' = over /\ letIn \cup over = {}
    BY <1>1, <1>5 DEF Counts, SpendingInv
  <2> QED  BY <1>3, <1>5, <2>1 DEF SpendingInv, BudgetOvershotByThoseLetIn
<1>6. CASE used >= Budget
  <2>1. letIn' = letIn /\ over' = over \cup {x} /\ x \in letIn /\ PastCheck \subseteq letIn
    BY <1>1, <1>6 DEF Counts, SpendingInv
  <2>2. used' >= Budget
    BY <1>1, <1>6
  <2> QED  BY <1>3, <2>1, <2>2 DEF SpendingInv, BudgetOvershotByThoseLetIn
<1> QED  BY <1>1, <1>4, <1>5, <1>6

(* What an act does to the mandate's accounts.                             *)
LEMMA SpendingOfActs ==
    ASSUME TypeOK, OneTurnAtATime, SpendingInv, BudgetOvershotByThoseLetIn,
           NEW a \in Acts, ActStep(a)
    PROVE  SpendingInv' /\ BudgetOvershotByThoseLetIn'
<1> USE DEF Goto, Answer
<1>0. pc \in [Acts -> PCs]
  BY DEF TypeOK
<1>1. \A b \in Acts : b # a => pc'[b] = pc[b]
  BY DEF ActStep, Fetch, Look, Heal, Judge, Throws, AppendClaim, Advance, Settle, Charge,
     Observe, Projects, Catch, RevertStarts, RevertWrites, RevertSupersedes, TypeOK
<1>2. produced' = produced
  BY DEF ActStep, Fetch, Look, Heal, Judge, Throws, AppendClaim, Advance, Settle, Charge,
     Observe, Projects, Catch, RevertStarts, RevertWrites, RevertSupersedes, storeVars, mandateVars
<1>3. pc'[a] = "settled" => ActOf[a].kind = "mandate"
  BY <1>0 DEF ActStep, Fetch, Look, Heal, Judge, Throws, AppendClaim, Advance, Settle, Charge,
     Observe, Projects, Catch, RevertStarts, RevertWrites, RevertSupersedes
<1>4. ASSUME pc'[a] \in {"judged", "claimed", "advanced", "settled"}
             => \/ pc[a] \in {"judged", "claimed", "advanced", "settled"}
                \/ ActOf[a].kind # "mandate"
      PROVE  PastCheck' \subseteq PastCheck
  BY <1>1, <1>2, <1>4 DEF PastCheck
<1>5. CASE Charge(a) /\ Counts(a, Cardinality(Members(a)))
  <2>1. a \in PastCheck
    BY <1>5 DEF Charge, PastCheck, SpendingInv
  <2>2. Cardinality(Members(a)) \in Nat
    BY ItemsCounted
  <2>3. pc'[a] \in {"counted", "projecting"}
    BY <1>0, <1>5 DEF Charge
  <2>4. PastCheck' \subseteq PastCheck
    BY <1>4, <2>3
  <2>5. \A b \in Acts : pc'[b] = "settled" => pc[b] = "settled"
    BY <1>1, <2>3
  <2> QED  BY <1>5, <2>1, <2>2, <2>4, <2>5, SpendingCounts
<1>6. CASE UNCHANGED << used, letIn, over >>
  <2>1. used < Budget \/ PastCheck' \subseteq PastCheck
    <3>1. CASE Judge(a)
      BY <1>0, <1>4, <3>1 DEF Judge, Admissible, MandateAllows
    <3>2. CASE ~ Judge(a)
      BY <1>0, <1>4, <3>2 DEF ActStep, Fetch, Look, Heal, Throws, AppendClaim, Advance, Settle,
         Charge, Observe, Projects, Catch, RevertStarts, RevertWrites, RevertSupersedes
    <3> QED  BY <3>1, <3>2
  <2>2. \A b \in Acts : pc'[b] = "settled" => pc[b] = "settled" \/ ActOf[b].kind = "mandate"
    BY <1>1, <1>3
  <2> QED  BY <1>6, <2>1, <2>2, SpendingKept
<1> QED  BY <1>5, <1>6 DEF ActStep, Fetch, Look, Heal, Judge, Throws, AppendClaim, Advance, Settle,
            Charge, Observe, Projects, Catch, RevertStarts, RevertWrites, RevertSupersedes,
            storeVars, mandateVars

(* What a write under the mandate does to them.                            *)
LEMMA SpendingOfWrites ==
    ASSUME TypeOK, OneTurnAtATime, SpendingInv, BudgetOvershotByThoseLetIn,
           NEW w \in Writes, WriteStep(w)
    PROVE  SpendingInv' /\ BudgetOvershotByThoseLetIn'
<1>0. produced \in [Writes -> Productions] /\ pc' = pc
  BY DEF TypeOK, WriteStep, StampWrite, ChargeWrite, ObserveBreach, actVars
<1>1. CASE StampWrite(w)
  <2>1. used < Budget /\ UNCHANGED << used, letIn, over >>
    BY <1>1 DEF StampWrite
  <2> QED  BY <1>0, <2>1, SpendingKept
<1>2. ASSUME produced'[w] # "stamped", \A v \in Writes : v # w => produced'[v] = produced[v]
      PROVE  PastCheck' \subseteq PastCheck
  BY <1>0, <1>2 DEF PastCheck
<1>3. CASE ChargeWrite(w)
  <2>1. PastCheck' \subseteq PastCheck /\ w \in PastCheck
    BY <1>0, <1>2, <1>3 DEF ChargeWrite, Advances, PastCheck
  <2>2. CASE Counts(w, 1)
    BY <1>0, <2>1, <2>2, SpendingCounts
  <2>3. CASE UNCHANGED << used, letIn, over >>
    BY <1>0, <2>1, <2>3, SpendingKept
  <2> QED  BY <1>3, <2>2, <2>3 DEF ChargeWrite
<1>4. CASE ObserveBreach(w)
  <2>1. PastCheck' \subseteq PastCheck /\ UNCHANGED << used, letIn, over >>
    BY <1>0, <1>2, <1>4 DEF ObserveBreach, Advances
  <2> QED  BY <1>0, <2>1, SpendingKept
<1> QED  BY <1>1, <1>3, <1>4 DEF WriteStep

(* Whoever does what, a spent budget is charged only by those let in.      *)
LEMMA SpendingStep ==
    ASSUME TypeOK, OneTurnAtATime, SpendingInv, BudgetOvershotByThoseLetIn, [Next]_vars
    PROVE  SpendingInv' /\ BudgetOvershotByThoseLetIn'
<1>1. CASE Crash
  <2>1. PastCheck' \subseteq PastCheck /\ \A a \in Acts : pc'[a] = "settled" => pc[a] = "settled"
    BY <1>1 DEF Crash, PastCheck, Ended, InFlight
  <2> QED  BY <1>1, <2>1, SpendingKept DEF Crash
<1>2. CASE MovedElsewhere \/ Revoke \/ (\E p \in Edited : Edit(p)) \/ UNCHANGED vars
  <2>1. UNCHANGED << used, letIn, over, produced, pc >>
    BY <1>2 DEF MovedElsewhere, Revoke, Edit, vars, storeVars, mandateVars, actVars
  <2>2. PastCheck' = PastCheck
    BY <2>1 DEF PastCheck
  <2> QED  BY <2>1, <2>2, SpendingKept
<1> QED  BY <1>1, <1>2, SpendingOfActs, SpendingOfWrites DEF Next

LEMMA AuthorityAndBudget ==
    Spec => [](AdmittedUnderClaim /\ SpendingInv /\ BudgetOvershotByThoseLetIn)
<1> DEFINE I == AdmittedUnderClaim /\ SpendingInv /\ BudgetOvershotByThoseLetIn
<1>1. ASSUME Init PROVE I
  <2>1. AdmittedUnderClaim
    BY <1>1 DEF Init, AdmittedUnderClaim
  <2>2. PastCheck = {} /\ \A a \in Acts : pc[a] # "settled"
    BY <1>1 DEF Init, PastCheck
  <2> QED  BY <1>1, <2>1, <2>2 DEF Init, SpendingInv, BudgetOvershotByThoseLetIn
<1>2. AdmissionInv /\ I /\ [Next]_vars => I'
  BY AdmittedStep, SpendingStep DEF AdmissionInv
<1> QED  BY <1>1, <1>2, AdmissionInvariant, PTL DEF Spec

(* A proposal is shown as admitted only under a claim that covers it.      *)
THEOREM ShownUnderClaim == Spec => []AdmittedUnderClaim
  BY AuthorityAndBudget, PTL

(* A spent budget is charged only by those past the check when it came to  *)
(* be spent: the writes in flight then, and one cohort at most.            *)
THEOREM BudgetHolds == Spec => []BudgetOvershotByThoseLetIn
  BY AuthorityAndBudget, PTL

-----------------------------------------------------------------------------
(***************************************************************************)
(* The cutover.  Each action's effect on the clicks is stated first: the   *)
(* other clicks stay as they are, but for what those of them that had read *)
(* the marker know of it.                                                  *)
(***************************************************************************)
ActsTyped == act \in [Clicks -> Clicked]

OthersStay(g) == \A h \in Clicks \ {g} : act'[h] = act[h]

Becomes(g, r) == ActsTyped' /\ OthersStay(g) /\ act'[g] = r

(* A click is replaced.                                                    *)
LEMMA ClickReplaced ==
    ASSUME ActsTyped, NEW g \in Clicks, NEW r \in Clicked, act' = [act EXCEPT ![g] = r]
    PROVE  Becomes(g, r)
  BY DEF ActsTyped, Becomes, OthersStay

(* What a click may hold at any step.                                      *)
LEMMA ClickHolds ==
    ASSUME NEW r \in Clicked, NEW s \in Steps, NEW p \in SUBSET Records,
           NEW k \in SUBSET Records, NEW i \in Stores, NEW b \in BOOLEAN,
           NEW c \in SUBSET Records
    PROVE  /\ [r EXCEPT !.step = s, !.plan = p] \in Clicked
           /\ [r EXCEPT !.step = s, !.keys = k] \in Clicked
           /\ [r EXCEPT !.keys = k] \in Clicked
           /\ [r EXCEPT !.step = s, !.plan = p, !.keys = k] \in Clicked
           /\ [r EXCEPT !.step = s, !.sure = b, !.plan = p, !.confirmed = c] \in Clicked
           /\ [r EXCEPT !.id = i, !.step = s] \in Clicked
           /\ [r EXCEPT !.step = s, !.id = i, !.stale = b] \in Clicked
           /\ [r EXCEPT !.stale = b] \in Clicked
           /\ [r EXCEPT !.step = s] \in Clicked
  BY Zenon DEF Clicked

(* The two ends of a click.                                                *)
LEMMA IdleAndDone == Idle \in Clicked /\ Done \in Clicked
<1>1. "idle" \in Steps /\ "done" \in Steps /\ NoStore \in Stores
  BY CutoverAssumption DEF Steps, Stores
<1>2. Idle \in Clicked
  BY <1>1, Zenon DEF Idle, Clicked
<1> QED  BY <1>1, <1>2 DEF Done, Clicked

(* A click ends.                                                           *)
LEMMA ClickEnds ==
    ASSUME ActsTyped, NEW g \in Clicks, Ends(g)
    PROVE  Becomes(g, Done)
  BY IdleAndDone, ClickReplaced DEF Ends

(* A click goes on to its next step, and changes nothing else.             *)
LEMMA ClickGoes ==
    ASSUME ActsTyped, NEW g \in Clicks, NEW s \in Steps, act' = [act EXCEPT ![g].step = s]
    PROVE  Becomes(g, [act[g] EXCEPT !.step = s])
<1>1. [act[g] EXCEPT !.step = s] \in Clicked
  BY DEF ActsTyped, Clicked
<1> QED  BY <1>1, ClickReplaced


-----------------------------------------------------------------------------
(* Which clicks come where: an import is a cutover's, a rollback mints     *)
(* nothing, and who stores an id has minted it.                            *)
OwnSteps ==
    \A g \in Clicks :
        /\ act[g].step \in {"queued", "appending", "asked"} => g \in Cutovers
        /\ act[g].step \in {"minting", "storing"} => g \notin Rollbacks
        /\ act[g].step = "storing" => act[g].id = g

TornIsTorn == marker.torn => marker = Torn

(* What a click has read of the marker is so while it is not stale.        *)
ReadIsSo ==
    \A g \in Clicks : ~act[g].stale =>
        /\ act[g].step = "writing" =>
             MayMark(g, marker) /\ (g \in Rollbacks => act[g].id = marker.store)
        /\ act[g].step \in {"minting", "storing", "marking", "writing"}
             /\ g \notin Cutovers => ~marker.torn

(* Only one store id is ever minted, and whoever is about to mark has it.  *)
OneStore ==
    ~crossed =>
        /\ marker.store \in Clicks => marker.store = storeId
        /\ \A g \in Cutovers \cup Binds :
             act[g].step \in {"marking", "writing"} =>
                 act[g].id = storeId /\ storeId # NoStore

(* What is cached is what the marker says, or that it could not be read.   *)
CacheTells ==
    ~crossed /\ ~unread /\ (\A g \in Clicks : act[g].step # "returning")
        => \/ cached.cut = marker.cut
           \/ cached.cut /\ cached.store = NoStore

(* The chain holds the clicks that wait for their import, each once, and   *)
(* only its head imports.                                                  *)
OneImport ==
    /\ IsInjective(imports)
    /\ \A g \in Clicks :
         /\ g \in ToSet(imports) <=> act[g].step \in {"queued", "appending"}
         /\ act[g].step = "appending" => g = Head(imports)

KeysKnown ==
    /\ IsInjective(evidence)
    /\ \A g \in Clicks :
         act[g].step = "appending" => act[g].keys = ToSet(evidence)

(* What was confirmed is on its way to being evidence, or is.              *)
ConfirmedHeld ==
    \A g \in Cutovers :
        /\ act[g].step \in {"queued", "appending"} /\ act[g].sure =>
             act[g].confirmed \subseteq act[g].plan
        /\ act[g].step \in {"minting", "storing", "marking", "writing", "returning"} =>
             act[g].confirmed \subseteq ToSet(evidence)


LEMMA StepNames ==
    /\ "queued" \in Steps /\ "appending" \in Steps /\ "asked" \in Steps
    /\ "minting" \in Steps /\ "storing" \in Steps /\ "marking" \in Steps
    /\ "writing" \in Steps /\ "returning" \in Steps
  BY DEF Steps

KeepsImport(g) == act'[g].plan = act[g].plan /\ act'[g].keys = act[g].keys
KeepsMark(g) == act'[g].id = act[g].id /\ act'[g].stale = act[g].stale
KeepsConfirmed(g) ==
    act'[g].sure = act[g].sure /\ act'[g].confirmed = act[g].confirmed

(* How each action moves the click it is of, field by field.               *)
Moves(g, to) == ActsTyped' /\ OthersStay(g) /\ act'[g].step = to

LEMMA RunImportMoves ==
    ASSUME CutoverTypeOK, NEW g \in Clicks, RunImport(g)
    PROVE  /\ act[g] = Idle /\ g \in Cutovers
           /\ Moves(g, "queued") /\ KeepsMark(g) /\ KeepsConfirmed(g)
<1> DEFINE r == [act[g] EXCEPT !.step = "queued", !.plan = baselines]
<1>1. act[g] \in Clicked /\ ActsTyped
  BY DEF CutoverTypeOK, ActsTyped
<1>2. r \in Clicked
  BY <1>1, ClickHolds, StepNames, Zenon DEF CutoverTypeOK
<1>3. Becomes(g, r)
  BY <1>1, <1>2, ClickReplaced, Zenon DEF RunImport
<1> QED
  BY <1>1, <1>3, ZenonT(40) DEF RunImport, MayBegin, Becomes, Moves, KeepsMark, KeepsConfirmed, Clicked

LEMMA ExistingKeysMoves ==
    ASSUME CutoverTypeOK, NEW g \in Clicks, ExistingKeys(g)
    PROVE  /\ act[g].step = "queued" /\ Head(imports) = g /\ imports # << >>
           /\ Moves(g, "appending") /\ act'[g].keys = ToSet(evidence)
           /\ act'[g].plan = act[g].plan /\ KeepsMark(g) /\ KeepsConfirmed(g)
<1> DEFINE r == [act[g] EXCEPT !.step = "appending", !.keys = ToSet(evidence)]
<1>1. act[g] \in Clicked /\ ActsTyped /\ ToSet(evidence) \in SUBSET Records
  BY DEF CutoverTypeOK, ActsTyped, ToSet
<1>2. r \in Clicked
  BY <1>1, StepNames, Zenon DEF Clicked
<1>3. Becomes(g, r)
  BY <1>1, <1>2, ClickReplaced, Zenon DEF ExistingKeys
<1>4. /\ Moves(g, "appending") /\ act'[g].keys = ToSet(evidence)
      /\ act'[g].plan = act[g].plan /\ KeepsMark(g) /\ KeepsConfirmed(g)
  BY <1>1, <1>3 DEF Becomes, Moves, KeepsMark, KeepsConfirmed, Clicked
<1> QED  BY <1>4 DEF ExistingKeys, At

LEMMA AppendRecordMoves ==
    ASSUME CutoverTypeOK, NEW g \in Clicks, AppendRecord(g)
    PROVE  /\ act[g].step = "appending" /\ Moves(g, "appending")
           /\ act'[g].plan = act[g].plan /\ KeepsMark(g) /\ KeepsConfirmed(g)
           /\ \E r \in act[g].plan \ act[g].keys :
                /\ evidence' = Append(evidence, r)
                /\ act'[g].keys = act[g].keys \cup {r}
<1>1. act[g] \in Clicked /\ ActsTyped
  BY DEF CutoverTypeOK, ActsTyped
<1>2. PICK r \in act[g].plan \ act[g].keys :
        /\ evidence' = Append(evidence, r)
        /\ act' = [act EXCEPT ![g] = [@ EXCEPT !.keys = act[g].keys \cup {r}]]
  BY Zenon DEF AppendRecord
<1>3. act[g].keys \cup {r} \in SUBSET Records
  BY <1>1, <1>2 DEF Clicked
<1>4. [act[g] EXCEPT !.keys = act[g].keys \cup {r}] \in Clicked
  BY <1>1, <1>3, Zenon DEF Clicked
<1>5. Becomes(g, [act[g] EXCEPT !.keys = act[g].keys \cup {r}])
  BY <1>1, <1>2, <1>4, ClickReplaced, Zenon
<1>6. act[g].step = "appending"
  BY DEF AppendRecord, At
<1> QED
  BY <1>1, <1>2, <1>5, <1>6 DEF Becomes, Moves, KeepsMark, KeepsConfirmed, Clicked

LEMMA ImportEndsMoves ==
    ASSUME CutoverTypeOK, NEW g \in Clicks, ImportEnds(g)
    PROVE  /\ act[g].step = "appending" /\ act[g].plan \subseteq act[g].keys
           /\ Moves(g, IF act[g].sure THEN "minting" ELSE "asked")
           /\ KeepsMark(g) /\ KeepsConfirmed(g)
<1> DEFINE r == [act[g] EXCEPT !.step = IF act[g].sure THEN "minting" ELSE "asked",
                               !.plan = {}, !.keys = {}]
<1>1. act[g] \in Clicked /\ ActsTyped
  BY DEF CutoverTypeOK, ActsTyped
<1>2. (IF act[g].sure THEN "minting" ELSE "asked") \in Steps
  BY StepNames
<1>3. r \in Clicked
  BY <1>1, <1>2, Zenon DEF Clicked
<1>4. Becomes(g, r)
  BY <1>1, <1>3, ClickReplaced, Zenon DEF ImportEnds
<1>5. /\ Moves(g, IF act[g].sure THEN "minting" ELSE "asked")
      /\ KeepsMark(g) /\ KeepsConfirmed(g)
  BY <1>1, <1>2, <1>4 DEF Becomes, Moves, KeepsMark, KeepsConfirmed, Clicked
<1> QED  BY <1>5 DEF ImportEnds, At

LEMMA ConfirmCutoverMoves ==
    ASSUME CutoverTypeOK, NEW g \in Clicks, ConfirmCutover(g)
    PROVE  /\ act[g].step = "asked"
           /\ \/ /\ Moves(g, "queued") /\ KeepsMark(g)
                 /\ act'[g].plan = baselines /\ act'[g].confirmed = baselines
                 /\ imports' = Append(imports, g)
              \/ Becomes(g, Done) /\ imports' = imports
<1> DEFINE r == [act[g] EXCEPT !.step = "queued", !.sure = TRUE,
                               !.plan = baselines, !.confirmed = baselines]
<1>1. act[g] \in Clicked /\ ActsTyped
  BY DEF CutoverTypeOK, ActsTyped
<1>2. CASE act' = [act EXCEPT ![g] = r] /\ imports' = Append(imports, g)
  <2>1. r \in Clicked
    BY <1>1, ClickHolds, StepNames, Zenon DEF CutoverTypeOK
  <2>2. Becomes(g, r)
    BY <1>1, <1>2, <2>1, ClickReplaced, Zenon
  <2>3. /\ Moves(g, "queued") /\ KeepsMark(g)
        /\ act'[g].plan = baselines /\ act'[g].confirmed = baselines
    BY <1>1, <2>2 DEF Becomes, Moves, KeepsMark, Clicked
  <2> QED  BY <1>2, <2>3 DEF ConfirmCutover, At
<1>3. CASE Ends(g) /\ imports' = imports
  BY <1>1, <1>3, ClickEnds, Zenon DEF ConfirmCutover, At
<1> QED  BY <1>2, <1>3 DEF ConfirmCutover

LEMMA MintStoreIdMoves ==
    ASSUME CutoverTypeOK, OwnSteps, NEW g \in Clicks, MintStoreId(g)
    PROVE  /\ act[g].step = "minting" /\ g \notin Rollbacks
           /\ KeepsImport(g) /\ KeepsConfirmed(g) /\ act'[g].stale = act[g].stale
           /\ \/ /\ Moves(g, "marking") /\ act'[g].id = storeId
                 /\ storeId # NoStore
              \/ Moves(g, "storing") /\ act'[g].id = g
<1>1. act[g] \in Clicked /\ ActsTyped /\ act[g].step = "minting"
  BY DEF CutoverTypeOK, ActsTyped, MintStoreId, At
<1>2. g \notin Rollbacks
  BY <1>1 DEF OwnSteps
<1>3. ASSUME NEW i \in Stores, NEW t \in Steps,
             act' = [act EXCEPT ![g] = [act[g] EXCEPT !.id = i, !.step = t]]
      PROVE  /\ Moves(g, t) /\ act'[g].id = i
             /\ KeepsImport(g) /\ KeepsConfirmed(g) /\ act'[g].stale = act[g].stale
  <2>1. [act[g] EXCEPT !.id = i, !.step = t] \in Clicked
    BY <1>1, ClickHolds, Zenon
  <2>2. Becomes(g, [act[g] EXCEPT !.id = i, !.step = t])
    BY <1>1, <1>3, <2>1, ClickReplaced, Zenon
  <2> QED  BY <1>1, <2>2 DEF Becomes, Moves, KeepsImport, KeepsConfirmed, Clicked
<1>4. storeId \in Stores /\ g \in Stores
  BY <1>2 DEF CutoverTypeOK, Stores, Clicks
<1> QED  BY <1>1, <1>2, <1>3, <1>4, StepNames DEF MintStoreId

LEMMA ReadToMarkMoves ==
    ASSUME CutoverTypeOK, NEW g \in Clicks, ReadToMark(g)
    PROVE  /\ act[g].step = "marking"
           /\ \/ Becomes(g, Done)
              \/ \E m \in Readings :
                    /\ MayMark(g, m)
                    /\ Moves(g, "writing") /\ KeepsConfirmed(g)
                    /\ act'[g].id = Naming(g, m)
                    /\ act'[g].stale = ((act[g].stale /\ g \notin Cutovers) \/ m # marker)
<1>1. act[g] \in Clicked /\ ActsTyped /\ act[g].step = "marking"
  BY DEF CutoverTypeOK, ActsTyped, ReadToMark, At
<1>2. PICK m \in Readings :
        IF MayMark(g, m)
        THEN act' = [act EXCEPT ![g] =
               [@ EXCEPT !.step = "writing",
                  !.id = Naming(g, m),
                  !.stale = \/ act[g].stale /\ g \notin Cutovers
                            \/ m # marker]]
        ELSE Ends(g)
  BY Zenon DEF ReadToMark
<1>3. CASE ~MayMark(g, m)
  BY <1>1, <1>2, <1>3, ClickEnds
<1>4. CASE MayMark(g, m)
  <2> DEFINE i == Naming(g, m)
             b == (act[g].stale /\ g \notin Cutovers) \/ m # marker
             r == [act[g] EXCEPT !.step = "writing", !.id = i, !.stale = b]
  <2>1. m.store \in Stores
    BY DEF CutoverTypeOK, Readings, Markers, Torn, Stores
  <2>2. act[g].id \in Stores
    BY <1>1 DEF Clicked
  <2>3. i \in Stores /\ b \in BOOLEAN
    BY <2>1, <2>2 DEF Naming
  <2>4. r \in Clicked
    <3> HIDE DEF i, b
    <3> QED  BY <1>1, <2>3, StepNames, Zenon DEF Clicked
  <2>5. act' = [act EXCEPT ![g] = r]
    BY <1>2, <1>4, Zenon
  <2>6. Becomes(g, r)
    <3> HIDE DEF r
    <3> QED  BY <1>1, <2>4, <2>5, ClickReplaced, Zenon
  <2>7. Moves(g, "writing") /\ KeepsConfirmed(g) /\ act'[g].id = i /\ act'[g].stale = b
    <3> HIDE DEF i, b
    <3> QED  BY <1>1, <2>6 DEF Becomes, Moves, KeepsConfirmed, Clicked
  <2> QED  BY <1>1, <1>4, <2>7
<1> QED  BY <1>3, <1>4

LEMMA CheckMoves ==
    ASSUME CutoverTypeOK, NEW g \in Clicks, Check(g)
    PROVE  /\ act[g] = Idle /\ g \in Binds \cup Rollbacks
           /\ \/ Becomes(g, Done)
              \/ /\ Moves(g, IF g \in Binds THEN "minting" ELSE "marking")
                 /\ KeepsMark(g) /\ KeepsConfirmed(g)
                 /\ \E m \in Readings : ~m.torn
<1>1. act[g] \in Clicked /\ ActsTyped
  BY DEF CutoverTypeOK, ActsTyped
<1>2. ASSUME NEW s \in Steps, act' = [act EXCEPT ![g].step = s]
      PROVE  Moves(g, s) /\ KeepsMark(g) /\ KeepsConfirmed(g)
  <2>1. Becomes(g, [act[g] EXCEPT !.step = s])
    BY <1>1, <1>2, ClickGoes
  <2> QED  BY <1>1, <2>1 DEF Becomes, Moves, KeepsMark, KeepsConfirmed, Clicked
<1>3. (IF g \in Binds THEN "minting" ELSE "marking") \in Steps
  BY StepNames
<1> QED  BY <1>1, <1>2, <1>3, ClickEnds DEF Check, MayBegin

LEMMA StoreMintMoves ==
    ASSUME CutoverTypeOK, NEW g \in Clicks, StoreMint(g)
    PROVE  /\ act[g].step = "storing"
           /\ Moves(g, "marking") /\ KeepsMark(g) /\ KeepsConfirmed(g)
<1>1. act[g] \in Clicked /\ ActsTyped
  BY DEF CutoverTypeOK, ActsTyped
<1>2. Becomes(g, [act[g] EXCEPT !.step = "marking"])
  BY <1>1, ClickGoes, StepNames DEF StoreMint, Goes
<1> QED
  BY <1>1, <1>2 DEF StoreMint, Goes, At, Becomes, Moves, KeepsMark, KeepsConfirmed, Clicked

(* Whoever had read the marker is stale once it has changed.               *)
AllStale ==
    \A h \in Clicks :
        ~act'[h].stale => act'[h].step \notin {"minting", "storing", "marking", "writing"}

SameSteps(S) ==
    \A h \in S : /\ act'[h].step = act[h].step /\ act'[h].id = act[h].id
                 /\ KeepsImport(h) /\ KeepsConfirmed(h)

LEMMA MadeStale ==
    ASSUME NEW a \in [Clicks -> Clicked], act' = Stale(a)
    PROVE  /\ ActsTyped' /\ AllStale
           /\ \A h \in Clicks :
                /\ act'[h].step = a[h].step /\ act'[h].id = a[h].id
                /\ act'[h].plan = a[h].plan /\ act'[h].keys = a[h].keys
                /\ act'[h].sure = a[h].sure /\ act'[h].confirmed = a[h].confirmed
<1> DEFINE Off(h) == a[h].step \in {"minting", "storing", "marking", "writing"}
<1>1. \A h \in Clicks : act'[h] = [a[h] EXCEPT !.stale = Off(h)]
  BY DEF Stale
<1>2. \A h \in Clicks : Off(h) \in BOOLEAN /\ a[h] \in Clicked
  OBVIOUS
<1>3. \A h \in Clicks : [a[h] EXCEPT !.stale = Off(h)] \in Clicked
  <2> HIDE DEF Off
  <2> QED  BY <1>2, Zenon DEF Clicked
<1>4. ActsTyped'
  BY <1>1, <1>3 DEF ActsTyped, Stale
<1>5. \A h \in Clicks :
        /\ act'[h].step = a[h].step /\ act'[h].id = a[h].id
        /\ act'[h].plan = a[h].plan /\ act'[h].keys = a[h].keys
        /\ act'[h].sure = a[h].sure /\ act'[h].confirmed = a[h].confirmed
        /\ act'[h].stale = Off(h)
  <2> HIDE DEF Off
  <2> QED  BY <1>1, <1>2, ZenonT(40) DEF Clicked
<1> QED  BY <1>4, <1>5 DEF AllStale

LEMMA WriteLandsMoves ==
    ASSUME CutoverTypeOK, NEW g \in Clicks, WriteLands(g)
    PROVE  /\ act[g].step = "writing" /\ act'[g].step = "returning"
           /\ ActsTyped' /\ AllStale /\ SameSteps(Clicks \ {g})
           /\ KeepsConfirmed(g)
<1> DEFINE a == [act EXCEPT ![g].step = "returning"]
<1>1. act[g] \in Clicked /\ act \in [Clicks -> Clicked]
  BY DEF CutoverTypeOK
<1>2. [act[g] EXCEPT !.step = "returning"] \in Clicked
  BY <1>1, StepNames, Zenon DEF Clicked
<1>3. /\ a \in [Clicks -> Clicked] /\ a[g] = [act[g] EXCEPT !.step = "returning"]
      /\ \A h \in Clicks \ {g} : a[h] = act[h]
  BY <1>1, <1>2
<1>4. act' = Stale(a)
  BY DEF WriteLands
<1>5. a[g].step = "returning" /\ a[g].sure = act[g].sure /\ a[g].confirmed = act[g].confirmed
  BY <1>1, <1>3 DEF Clicked
<1> HIDE DEF a
<1>6. /\ ActsTyped' /\ AllStale
      /\ \A h \in Clicks :
           /\ act'[h].step = a[h].step /\ act'[h].id = a[h].id
           /\ act'[h].plan = a[h].plan /\ act'[h].keys = a[h].keys
           /\ act'[h].sure = a[h].sure /\ act'[h].confirmed = a[h].confirmed
  BY <1>3, <1>4, MadeStale
<1>7. SameSteps(Clicks \ {g})
  BY <1>3, <1>6 DEF SameSteps, KeepsImport, KeepsConfirmed
<1>8. act'[g].step = "returning" /\ KeepsConfirmed(g)
  BY <1>5, <1>6 DEF KeepsConfirmed
<1> QED  BY <1>6, <1>7, <1>8 DEF WriteLands, At

LEMMA ArrivesMoves ==
    ASSUME CutoverTypeOK, Arrives
    PROVE  ActsTyped' /\ AllStale /\ SameSteps(Clicks)
  BY MadeStale DEF Arrives, CutoverTypeOK, SameSteps, KeepsImport, KeepsConfirmed

LEMMA RestartMoves ==
    ASSUME Restart
    PROVE  ActsTyped' /\ \A h \in Clicks : act'[h] \in {Idle, Done}
  BY IdleAndDone DEF Restart, ActsTyped

LEMMA EndsMoves ==
    ASSUME CutoverTypeOK, NEW g \in Clicks, ImportFails(g) \/ WriteFails(g) \/ WriteReturns(g)
    PROVE  Becomes(g, Done)
  BY ClickEnds DEF ImportFails, WriteFails, WriteReturns, CutoverTypeOK, ActsTyped

-----------------------------------------------------------------------------
(* Sequences without duplicates.                                           *)
LEMMA AppendDistinct ==
    ASSUME NEW S, NEW s \in Seq(S), NEW e \in S
    PROVE  /\ Append(s, e) \in Seq(S)
           /\ ToSet(Append(s, e)) = ToSet(s) \cup {e}
           /\ IsInjective(s) /\ e \notin ToSet(s) => IsInjective(Append(s, e))
           /\ s # << >> => Append(s, e) # << >> /\ Head(Append(s, e)) = Head(s)
<1>1. Append(s, e) \in Seq(S)
  OBVIOUS
<1>2. /\ Len(Append(s, e)) = Len(s) + 1 /\ Len(s) \in Nat
      /\ DOMAIN s = 1..Len(s) /\ DOMAIN Append(s, e) = 1..(Len(s) + 1)
      /\ \A i \in 1..Len(s) : Append(s, e)[i] = s[i]
      /\ Append(s, e)[Len(s) + 1] = e
  OBVIOUS
<1>3. ToSet(Append(s, e)) = ToSet(s) \cup {e}
  <2>1. \A x \in ToSet(Append(s, e)) : x \in ToSet(s) \cup {e}
    BY <1>2 DEF ToSet
  <2>2. \A x \in ToSet(s) : x \in ToSet(Append(s, e))
    BY <1>2 DEF ToSet
  <2>3. e \in ToSet(Append(s, e))
    BY <1>2 DEF ToSet
  <2> QED  BY <2>1, <2>2, <2>3
<1>4. IsInjective(s) /\ e \notin ToSet(s) => IsInjective(Append(s, e))
  BY <1>2 DEF IsInjective, ToSet
<1>5. s # << >> => Append(s, e) # << >> /\ Head(Append(s, e)) = Head(s)
  OBVIOUS
<1> QED  BY <1>1, <1>3, <1>4, <1>5

LEMMA TailDistinct ==
    ASSUME NEW S, NEW s \in Seq(S), s # << >>, IsInjective(s)
    PROVE  /\ Tail(s) \in Seq(S) /\ IsInjective(Tail(s))
           /\ ToSet(Tail(s)) = ToSet(s) \ {Head(s)}
<1>1. /\ Tail(s) \in Seq(S) /\ Head(s) = s[1]
      /\ Len(s) \in Nat \ {0}
      /\ DOMAIN s = 1..Len(s) /\ DOMAIN Tail(s) = 1..(Len(s) - 1)
      /\ \A i \in 1..(Len(s) - 1) : Tail(s)[i] = s[i + 1]
  OBVIOUS
<1>2. IsInjective(Tail(s))
  BY <1>1 DEF IsInjective
<1>3. \A x \in ToSet(Tail(s)) : x \in ToSet(s) \ {Head(s)}
  BY <1>1 DEF ToSet, IsInjective
<1>4. ASSUME NEW x \in ToSet(s), x # Head(s)
      PROVE  x \in ToSet(Tail(s))
  <2>1. PICK i \in 1..Len(s) : x = s[i]
    BY <1>1 DEF ToSet
  <2>2. i - 1 \in 1..(Len(s) - 1) /\ (i - 1) + 1 = i
    BY <1>1, <1>4, <2>1
  <2> QED  BY <1>1, <2>1, <2>2 DEF ToSet
<1> QED  BY <1>1, <1>2, <1>3, <1>4

(* Markers.                                                                *)
LEMMA MarkersTyped ==
    /\ NeverCut \in Markers /\ Torn \in Markers
    /\ Arriving \subseteq Markers
    /\ \A m \in Arriving : m.store \notin Clicks /\ (m.torn => m = Torn)
  BY CutoverAssumption
     DEF NeverCut, Torn, CutFor, Arriving, Markers, Stores

LEMMA MarksTyped ==
    ASSUME NEW g \in Clicks, act[g] \in Clicked
    PROVE  /\ Marks(g) \in Markers /\ ~Marks(g).torn
           /\ Marks(g).cut = (g \notin Rollbacks) /\ Marks(g).store = act[g].id
  BY DEF Marks, CutFor, Markers, Clicked

LEMMA ReadsTyped ==
    ASSUME cached \in Markers, marker \in Markers, NEW m \in Readings, Reads(m)
    PROVE  /\ m \in Markers /\ cached' \in Markers
           /\ cached'.cut = cached.cut /\ cached'.store = cached.store
  BY MarkersTyped DEF Reads, Readings, Markers

LEMMA NamesApart == \A g \in Clicks : g # NoStore /\ g # OtherStore
  BY CutoverAssumption

-----------------------------------------------------------------------------
(* Types.                                                                  *)
FilesTyped ==
    /\ marker \in Markers /\ cached \in Markers
    /\ storeId \in Stores \ {OtherStore}
    /\ baselines \subseteq Records /\ writing \subseteq Records
    /\ evidence \in Seq(Records) /\ imports \in Seq(Cutovers)
LooksTyped == \A l \in Looks : look[l] \subseteq Markers /\ Cardinality(look[l]) <= 1
HistoryTyped ==
    /\ arrivals \in 0..MaxArrivals /\ unread \in BOOLEAN /\ crossed \in BOOLEAN

LEMMA TypeParts == CutoverTypeOK <=> FilesTyped /\ ActsTyped /\ LooksTyped /\ HistoryTyped
  BY Zenon DEF CutoverTypeOK, FilesTyped, ActsTyped, LooksTyped, HistoryTyped

LEMMA NothingLooked ==
    ASSUME NEW m \in Markers
    PROVE  /\ {} \subseteq Markers /\ Cardinality({}) <= 1
           /\ {m} \subseteq Markers /\ Cardinality({m}) <= 1
<1>1. Cardinality({}) = 0 /\ Cardinality({m}) = 1
  BY FS_EmptySet, FS_Singleton
<1> QED  BY <1>1

(* The clicks are typed after each step.                                   *)
LEMMA ActsTypedStep ==
    ASSUME CutoverTypeOK, OwnSteps, [CutoverNext]_cutoverVars
    PROVE  ActsTyped'
<1>1. ASSUME NEW g \in Clicks,
             \/ RunImport(g) \/ ExistingKeys(g) \/ AppendRecord(g) \/ ImportEnds(g)
             \/ ImportFails(g) \/ ConfirmCutover(g) \/ Check(g) \/ MintStoreId(g)
             \/ StoreMint(g) \/ ReadToMark(g) \/ WriteLands(g) \/ WriteReturns(g)
             \/ WriteFails(g)
      PROVE  ActsTyped'
  BY <1>1, RunImportMoves, ExistingKeysMoves, AppendRecordMoves, ImportEndsMoves,
     ConfirmCutoverMoves, CheckMoves, MintStoreIdMoves, StoreMintMoves,
     ReadToMarkMoves, WriteLandsMoves, EndsMoves, Zenon DEF Moves, Becomes
<1>2. ASSUME UNCHANGED act
      PROVE  ActsTyped'
  BY <1>2, TypeParts DEF ActsTyped
<1>3. ASSUME NEW l \in Looks, LookReads(l) \/ LookReturns(l)
      PROVE  ActsTyped'
  BY <1>2, <1>3 DEF LookReads, LookReturns
<1>4. ASSUME NEW r \in Records, LegacyBegins(r) \/ LegacyLands(r)
      PROVE  ActsTyped'
  BY <1>2, <1>4 DEF LegacyBegins, LegacyLands
<1>5. Arrives => ActsTyped'
  BY ArrivesMoves
<1>6. Restart => ActsTyped'
  BY RestartMoves
<1>7. UNCHANGED cutoverVars => ActsTyped'
  BY <1>2 DEF cutoverVars
<1> QED  BY <1>1, <1>3, <1>4, <1>5, <1>6, <1>7, Zenon DEF CutoverNext

LEMMA FilesTypedStep ==
    ASSUME CutoverTypeOK, OwnSteps, OneImport, [CutoverNext]_cutoverVars
    PROVE  FilesTyped'
<1> USE DEF FilesTyped, disk, legacy, told
<1>0. FilesTyped /\ ActsTyped
  BY TypeParts
<1>1. ASSUME NEW g \in Clicks, RunImport(g) PROVE FilesTyped'
  BY <1>0, <1>1, AppendDistinct DEF RunImport
<1>2. ASSUME NEW g \in Clicks, ExistingKeys(g) PROVE FilesTyped'
  BY <1>0, <1>2 DEF ExistingKeys
<1>3. ASSUME NEW g \in Clicks, AppendRecord(g) PROVE FilesTyped'
  <2>1. PICK r \in act[g].plan : evidence' = Append(evidence, r)
    BY <1>3, AppendRecordMoves
  <2>2. r \in Records
    BY <1>0, <2>1 DEF ActsTyped, Clicked
  <2> QED  BY <1>0, <1>3, <2>1, <2>2, AppendDistinct DEF AppendRecord
<1>4. ASSUME NEW g \in Clicks, ImportEnds(g) \/ ImportFails(g) PROVE FilesTyped'
  <2>1. act[g].step = "appending"
    BY <1>4 DEF ImportEnds, ImportFails, At
  <2>2. imports # << >> /\ IsInjective(imports)
    <3>1. g \in ToSet(imports) /\ IsInjective(imports)
      BY <2>1 DEF OneImport
    <3>2. ToSet(<< >>) = {}
      BY DEF ToSet
    <3> QED  BY <3>1, <3>2
  <2>3. imports' = Tail(imports)
    BY <1>4 DEF ImportEnds, ImportFails
  <2> QED  BY <1>0, <1>4, <2>2, <2>3, TailDistinct DEF ImportEnds, ImportFails
<1>5. ASSUME NEW g \in Clicks, ConfirmCutover(g) PROVE FilesTyped'
  <2>1. g \in Cutovers
    BY <1>5, ConfirmCutoverMoves DEF OwnSteps
  <2>2. imports' \in Seq(Cutovers)
    BY <1>0, <1>5, <2>1, ConfirmCutoverMoves, AppendDistinct
  <2> QED  BY <1>0, <1>5, <2>2 DEF ConfirmCutover
<1>6. ASSUME NEW g \in Clicks, Check(g) \/ ReadToMark(g) PROVE FilesTyped'
  <2>1. PICK m \in Readings : Reads(m)
    BY <1>6 DEF Check, ReadToMark
  <2>2. cached' \in Markers
    BY <1>0, <2>1, ReadsTyped
  <2> QED  BY <1>0, <1>6, <2>2 DEF Check, ReadToMark
<1>7. ASSUME NEW g \in Clicks, MintStoreId(g) PROVE FilesTyped'
  BY <1>0, <1>7 DEF MintStoreId
<1>8. ASSUME NEW g \in Clicks, StoreMint(g) PROVE FilesTyped'
  <2>1. act[g].id = g /\ g \notin Rollbacks
    BY <1>8, StoreMintMoves DEF OwnSteps
  <2>2. storeId' \in Stores \ {OtherStore}
    BY <1>8, <2>1, NamesApart DEF StoreMint, Stores, Clicks
  <2> QED  BY <1>0, <1>8, <2>2 DEF StoreMint
<1>9. ASSUME NEW g \in Clicks, WriteLands(g) \/ WriteReturns(g) PROVE FilesTyped'
  <2>1. Marks(g) \in Markers
    BY <1>0, MarksTyped DEF ActsTyped
  <2> QED  BY <1>0, <1>9, <2>1 DEF WriteLands, WriteReturns
<1>10. ASSUME NEW g \in Clicks, WriteFails(g) PROVE FilesTyped'
  BY <1>0, <1>10 DEF WriteFails
<1>11. ASSUME NEW l \in Looks, LookReads(l) \/ LookReturns(l) PROVE FilesTyped'
  <2>1. cached' \in Markers
    BY <1>0, <1>11, MarkersTyped, TypeParts DEF LookReads, LookReturns, LooksTyped
  <2> QED  BY <1>0, <1>11, <2>1 DEF LookReads, LookReturns
<1>12. ASSUME NEW r \in Records, LegacyBegins(r) \/ LegacyLands(r) PROVE FilesTyped'
  BY <1>0, <1>12 DEF LegacyBegins, LegacyLands
<1>13. ASSUME Arrives PROVE FilesTyped'
  <2>1. marker' \in Markers
    BY <1>13, MarkersTyped DEF Arrives
  <2> QED  BY <1>0, <1>13, <2>1 DEF Arrives
<1>14. ASSUME Restart PROVE FilesTyped'
  <2>1. marker' \in Markers /\ cached' \in Markers
    BY <1>0, <1>14, MarkersTyped DEF Restart
  <2>2. << >> \in Seq(Cutovers)
    OBVIOUS
  <2> QED  BY <1>0, <1>14, <2>1, <2>2 DEF Restart
<1>15. ASSUME UNCHANGED cutoverVars PROVE FilesTyped'
  BY <1>0, <1>15 DEF cutoverVars
<1> HIDE DEF FilesTyped
<1> QED
  BY <1>1, <1>2, <1>3, <1>4, <1>5, <1>6, <1>7, <1>8, <1>9, <1>10, <1>11, <1>12,
     <1>13, <1>14, <1>15, Zenon DEF CutoverNext

LEMMA LooksTypedStep ==
    ASSUME CutoverTypeOK, [CutoverNext]_cutoverVars
    PROVE  LooksTyped' /\ HistoryTyped'
<1>0. FilesTyped /\ LooksTyped /\ HistoryTyped
  BY TypeParts
<1>1. ASSUME look' = look PROVE LooksTyped'
  BY <1>0, <1>1 DEF LooksTyped
<1>2. ASSUME NEW l \in Looks, LookReads(l) \/ LookReturns(l) PROVE LooksTyped'
  <2>1. PICK s \in {{}, {marker}} : look' = [look EXCEPT ![l] = s]
    BY <1>2 DEF LookReads, LookReturns
  <2>2. s \subseteq Markers /\ Cardinality(s) <= 1
    BY <1>0, NothingLooked DEF FilesTyped
  <2>3. \A k \in Looks : look'[k] = look[k] \/ look'[k] = s
    BY <2>1 
  <2> QED  BY <1>0, <2>2, <2>3 DEF LooksTyped
<1>3. ASSUME Restart PROVE LooksTyped'
  BY <1>0, <1>3, NothingLooked DEF LooksTyped, Restart, FilesTyped
<1>4. look' = look \/ Restart \/ \E l \in Looks : LookReads(l) \/ LookReturns(l)
  BY Zenon DEF CutoverNext, cutoverVars, RunImport, ExistingKeys, AppendRecord, ImportEnds,
     ImportFails, ConfirmCutover, Check, MintStoreId, StoreMint, ReadToMark,
     WriteLands, WriteReturns, WriteFails, LegacyBegins, LegacyLands, Arrives
<1>5. HistoryTyped'
  <2>1. arrivals' \in 0..MaxArrivals
    <3>1. UNCHANGED arrivals \/ (arrivals < MaxArrivals /\ arrivals' = arrivals + 1)
      BY DEF CutoverNext, cutoverVars, told, RunImport, ExistingKeys, AppendRecord,
         ImportEnds, ImportFails, ConfirmCutover, Check, MintStoreId, StoreMint,
         ReadToMark, WriteLands, WriteReturns, WriteFails, LookReads, LookReturns,
         LegacyBegins, LegacyLands, Arrives, Restart
    <3> QED  BY <1>0, <3>1, CutoverAssumption DEF HistoryTyped
  <2>2. unread' \in BOOLEAN
    BY <1>0 DEF HistoryTyped, CutoverNext, cutoverVars, told, RunImport, ExistingKeys,
         AppendRecord, ImportEnds, ImportFails, ConfirmCutover, Check, MintStoreId,
         StoreMint, ReadToMark, WriteLands, WriteReturns, WriteFails, LookReads,
         LookReturns, LegacyBegins, LegacyLands, Arrives, Restart
  <2>3. \A g \in Clicks : act[g].stale \in BOOLEAN
    BY DEF CutoverTypeOK, Clicked
  <2>4. crossed' \in BOOLEAN
    BY <1>0, <2>3 DEF HistoryTyped, CutoverNext, cutoverVars, told, RunImport,
         ExistingKeys, AppendRecord, ImportEnds, ImportFails, ConfirmCutover, Check,
         MintStoreId, StoreMint, ReadToMark, WriteLands, WriteReturns, WriteFails,
         LookReads, LookReturns, LegacyBegins, LegacyLands, Arrives, Restart
  <2> QED  BY <2>1, <2>2, <2>4 DEF HistoryTyped
<1> QED  BY <1>1, <1>2, <1>3, <1>4, <1>5, Zenon

LEMMA CutoverTypeStep ==
    ASSUME CutoverTypeOK, OwnSteps, OneImport, [CutoverNext]_cutoverVars
    PROVE  CutoverTypeOK'
<1>1. ActsTyped' /\ FilesTyped' /\ LooksTyped' /\ HistoryTyped'
  BY ActsTypedStep, FilesTypedStep, LooksTypedStep
<1> QED
  BY <1>1, Zenon DEF CutoverTypeOK, FilesTyped, ActsTyped, LooksTyped, HistoryTyped
-----------------------------------------------------------------------------
(* Which clicks come where.                                                *)
OwnStep(h) ==
    /\ act[h].step \in {"queued", "appending", "asked"} => h \in Cutovers
    /\ act[h].step \in {"minting", "storing"} => h \notin Rollbacks
    /\ act[h].step = "storing" => act[h].id = h

LEMMA IdleSteps ==
    /\ Idle.step = "idle" /\ ~Idle.stale /\ ~Idle.sure /\ Idle.confirmed = {}
    /\ Done.step = "done" /\ ~Done.stale /\ ~Done.sure /\ Done.confirmed = {}
  BY DEF Idle, Done

LEMMA OwnStepsStep ==
    ASSUME CutoverTypeOK, OwnSteps, OneImport, [CutoverNext]_cutoverVars
    PROVE  OwnSteps'
<1>0. \A h \in Clicks : OwnStep(h)
  BY DEF OwnSteps, OwnStep
<1>1. ASSUME NEW g \in Clicks, OthersStay(g), OwnStep(g)' PROVE \A h \in Clicks : OwnStep(h)'
  BY <1>0, <1>1 DEF OthersStay, OwnStep
<1>2. ASSUME NEW g \in Clicks, Becomes(g, Done) PROVE \A h \in Clicks : OwnStep(h)'
  BY <1>1, <1>2, IdleSteps DEF Becomes, OwnStep
<1>3. ASSUME NEW g \in Clicks, RunImport(g) PROVE \A h \in Clicks : OwnStep(h)'
  BY <1>1, <1>3, RunImportMoves DEF Moves, OwnStep
<1>4. ASSUME NEW g \in Clicks, ExistingKeys(g) PROVE \A h \in Clicks : OwnStep(h)'
  BY <1>0, <1>1, <1>4, ExistingKeysMoves DEF Moves, OwnStep
<1>5. ASSUME NEW g \in Clicks, AppendRecord(g) PROVE \A h \in Clicks : OwnStep(h)'
  BY <1>0, <1>1, <1>5, AppendRecordMoves DEF Moves, OwnStep
<1>6. ASSUME NEW g \in Clicks, ImportEnds(g) PROVE \A h \in Clicks : OwnStep(h)'
  <2>1. g \in Cutovers /\ g \notin Rollbacks
    BY <1>0, <1>6, ImportEndsMoves, CutoverAssumption DEF OwnStep
  <2> QED  BY <1>1, <1>6, <2>1, ImportEndsMoves DEF Moves, OwnStep
<1>7. ASSUME NEW g \in Clicks, ConfirmCutover(g) PROVE \A h \in Clicks : OwnStep(h)'
  <2>1. CASE Becomes(g, Done)
    BY <1>2, <2>1
  <2>2. CASE Moves(g, "queued")
    BY <1>0, <1>1, <1>7, <2>2, ConfirmCutoverMoves DEF Moves, OwnStep
  <2> QED  BY <1>7, <2>1, <2>2, ConfirmCutoverMoves
<1>8. ASSUME NEW g \in Clicks, Check(g) PROVE \A h \in Clicks : OwnStep(h)'
  <2>1. CASE Becomes(g, Done)
    BY <1>2, <2>1
  <2>2. CASE Moves(g, IF g \in Binds THEN "minting" ELSE "marking")
    BY <1>1, <1>8, <2>2, CutoverAssumption DEF Moves, OwnStep
  <2> QED  BY <1>8, <2>1, <2>2, CheckMoves
<1>9. ASSUME NEW g \in Clicks, MintStoreId(g) PROVE \A h \in Clicks : OwnStep(h)'
  BY <1>1, <1>9, MintStoreIdMoves DEF Moves, OwnStep
<1>10. ASSUME NEW g \in Clicks, StoreMint(g) PROVE \A h \in Clicks : OwnStep(h)'
  BY <1>1, <1>10, StoreMintMoves DEF Moves, OwnStep
<1>11. ASSUME NEW g \in Clicks, ReadToMark(g) PROVE \A h \in Clicks : OwnStep(h)'
  <2>1. CASE Becomes(g, Done)
    BY <1>2, <2>1
  <2>2. CASE Moves(g, "writing")
    BY <1>1, <2>2 DEF Moves, OwnStep
  <2> QED  BY <1>11, <2>1, <2>2, ReadToMarkMoves
<1>12. ASSUME NEW g \in Clicks, WriteLands(g) PROVE \A h \in Clicks : OwnStep(h)'
  BY <1>0, <1>12, WriteLandsMoves DEF SameSteps, OwnStep
<1>13. ASSUME NEW g \in Clicks, ImportFails(g) \/ WriteFails(g) \/ WriteReturns(g)
       PROVE \A h \in Clicks : OwnStep(h)'
  BY <1>2, <1>13, EndsMoves
<1>14. ASSUME Arrives PROVE \A h \in Clicks : OwnStep(h)'
  BY <1>0, <1>14, ArrivesMoves DEF SameSteps, OwnStep
<1>15. ASSUME Restart PROVE \A h \in Clicks : OwnStep(h)'
  BY <1>15, RestartMoves, IdleSteps DEF OwnStep
<1>16. ASSUME UNCHANGED act PROVE \A h \in Clicks : OwnStep(h)'
  BY <1>0, <1>16 DEF OwnStep
<1>17. (\E l \in Looks : LookReads(l) \/ LookReturns(l))
         \/ (\E r \in Records : LegacyBegins(r) \/ LegacyLands(r))
         \/ UNCHANGED cutoverVars
       => UNCHANGED act
  BY DEF LookReads, LookReturns, LegacyBegins, LegacyLands, cutoverVars
<1>18. \A h \in Clicks : OwnStep(h)'
  BY <1>3, <1>4, <1>5, <1>6, <1>7, <1>8, <1>9, <1>10, <1>11, <1>12, <1>13, <1>14,
     <1>15, <1>16, <1>17, Zenon DEF CutoverNext
<1> QED  BY <1>18 DEF OwnSteps, OwnStep

-----------------------------------------------------------------------------
(* The marker.                                                             *)
LEMMA MarkerKept ==
    ASSUME [CutoverNext]_cutoverVars
    PROVE  \/ marker' = marker
           \/ Arrives \/ Restart \/ \E g \in Clicks : WriteLands(g)
  BY DEF CutoverNext, cutoverVars, disk, RunImport, ExistingKeys, AppendRecord,
     ImportEnds, ImportFails, ConfirmCutover, Check, MintStoreId, StoreMint,
     ReadToMark, WriteReturns, WriteFails, LookReads, LookReturns, LegacyBegins,
     LegacyLands

LEMMA StoreIdKept ==
    ASSUME [CutoverNext]_cutoverVars
    PROVE  UNCHANGED storeId \/ \E g \in Clicks : StoreMint(g)
  BY DEF CutoverNext, cutoverVars, disk, RunImport, ExistingKeys, AppendRecord,
     ImportEnds, ImportFails, ConfirmCutover, Check, MintStoreId, WriteLands,
     ReadToMark, WriteReturns, WriteFails, LookReads, LookReturns, LegacyBegins,
     LegacyLands, Arrives, Restart

LEMMA OnceCrossed ==
    ASSUME [CutoverNext]_cutoverVars, ~crossed'
    PROVE  ~crossed
  BY DEF CutoverNext, cutoverVars, told, RunImport, ExistingKeys, AppendRecord,
     ImportEnds, ImportFails, ConfirmCutover, Check, MintStoreId, StoreMint,
     WriteLands, ReadToMark, WriteReturns, WriteFails, LookReads, LookReturns,
     LegacyBegins, LegacyLands, Arrives, Restart

LEMMA TornStep ==
    ASSUME CutoverTypeOK, TornIsTorn, [CutoverNext]_cutoverVars
    PROVE  TornIsTorn'
<1>1. ASSUME NEW g \in Clicks, WriteLands(g) PROVE TornIsTorn'
  <2>1. ~Marks(g).torn
    BY MarksTyped DEF CutoverTypeOK
  <2> QED  BY <1>1, <2>1 DEF WriteLands, TornIsTorn
<1>2. Arrives => TornIsTorn'
  BY MarkersTyped DEF Arrives, TornIsTorn
<1>3. Restart => TornIsTorn'
  BY DEF Restart, TornIsTorn
<1> QED  BY <1>1, <1>2, <1>3, MarkerKept DEF TornIsTorn

HasRead(h) ==
    ~act[h].stale =>
        /\ act[h].step = "writing" =>
             MayMark(h, marker) /\ (h \in Rollbacks => act[h].id = marker.store)
        /\ act[h].step \in {"minting", "storing", "marking", "writing"}
             /\ h \notin Cutovers => ~marker.torn

LEMMA ReadIsSoStep ==
    ASSUME CutoverTypeOK, OwnSteps, TornIsTorn, ReadIsSo, [CutoverNext]_cutoverVars
    PROVE  ReadIsSo'
<1>0. \A h \in Clicks : HasRead(h)
  BY DEF ReadIsSo, HasRead
<1> DEFINE Kept == \A h \in Clicks : HasRead(h)'
<1>1. ASSUME NEW g \in Clicks, OthersStay(g), HasRead(g)', marker' = marker PROVE Kept
  BY <1>0, <1>1 DEF OthersStay, HasRead, MayMark
<1>2. ASSUME NEW g \in Clicks, Becomes(g, Done), marker' = marker PROVE Kept
  BY <1>1, <1>2, IdleSteps DEF Becomes, HasRead
<1>3. ASSUME NEW g \in Clicks, RunImport(g) PROVE Kept
  BY <1>1, <1>3, RunImportMoves DEF Moves, HasRead, RunImport, disk
<1>4. ASSUME NEW g \in Clicks, ExistingKeys(g) PROVE Kept
  BY <1>1, <1>4, ExistingKeysMoves DEF Moves, HasRead, ExistingKeys, disk
<1>5. ASSUME NEW g \in Clicks, AppendRecord(g) PROVE Kept
  BY <1>1, <1>5, AppendRecordMoves DEF Moves, HasRead, AppendRecord
<1>6. ASSUME NEW g \in Clicks, ImportEnds(g) PROVE Kept
  <2>1. g \in Cutovers
    BY <1>6, ImportEndsMoves DEF OwnSteps
  <2>2. marker' = marker /\ OthersStay(g)
    BY <1>6, ImportEndsMoves DEF Moves, ImportEnds, disk
  <2>3. act'[g].step \in {"minting", "asked"}
    BY <1>6, ImportEndsMoves DEF Moves
  <2>4. HasRead(g)'
    BY <2>1, <2>3 DEF HasRead
  <2> QED  BY <1>1, <2>2, <2>4
<1>7. ASSUME NEW g \in Clicks, ConfirmCutover(g) PROVE Kept
  <2>0. marker' = marker
    BY <1>7 DEF ConfirmCutover, disk
  <2>1. CASE Becomes(g, Done)
    BY <1>2, <2>0, <2>1
  <2>2. CASE Moves(g, "queued")
    BY <1>1, <2>0, <2>2 DEF Moves, HasRead
  <2> QED  BY <1>7, <2>1, <2>2, ConfirmCutoverMoves
<1>8. ASSUME NEW g \in Clicks, Check(g) PROVE Kept
  <2>0. marker' = marker
    BY <1>8 DEF Check, disk
  <2>1. CASE Becomes(g, Done)
    BY <1>2, <2>0, <2>1
  <2>2. CASE /\ Moves(g, IF g \in Binds THEN "minting" ELSE "marking")
             /\ \E m \in Readings : ~m.torn
    <3>1. ~marker.torn
      BY <2>2 DEF Readings, Torn
    <3> QED  BY <1>1, <2>0, <2>2, <3>1 DEF Moves, HasRead
  <2> QED  BY <1>8, <2>1, <2>2, CheckMoves
<1>9. ASSUME NEW g \in Clicks, MintStoreId(g) PROVE Kept
  <2>1. HasRead(g)'
    BY <1>0, <1>9, MintStoreIdMoves DEF Moves, HasRead, MintStoreId, disk
  <2> QED  BY <1>1, <1>9, <2>1, MintStoreIdMoves DEF Moves, MintStoreId, disk
<1>10. ASSUME NEW g \in Clicks, StoreMint(g) PROVE Kept
  <2>1. HasRead(g)'
    BY <1>0, <1>10, StoreMintMoves DEF Moves, HasRead, KeepsMark, StoreMint
  <2> QED  BY <1>1, <1>10, <2>1, StoreMintMoves DEF Moves, StoreMint
<1>11. ASSUME NEW g \in Clicks, ReadToMark(g) PROVE Kept
  <2>0. marker' = marker
    BY <1>11 DEF ReadToMark, disk
  <2>1. CASE Becomes(g, Done)
    BY <1>2, <2>0, <2>1
  <2>2. ASSUME NEW m \in Readings, MayMark(g, m), Moves(g, "writing"),
               act'[g].id = Naming(g, m),
               act'[g].stale = ((act[g].stale /\ g \notin Cutovers) \/ m # marker)
        PROVE  Kept
    <3>1. ~act'[g].stale => m = marker /\ (g \notin Cutovers => ~act[g].stale)
      BY <2>2
    <3>2. g \notin Cutovers /\ ~act[g].stale => ~marker.torn
      BY <1>0, <1>11, ReadToMarkMoves DEF HasRead
    <3>3. ~act'[g].stale =>
            /\ MayMark(g, marker')
            /\ g \in Rollbacks => act'[g].id = marker'.store
      BY <2>0, <2>2, <3>1 DEF Naming
    <3>4. ~act'[g].stale /\ g \notin Cutovers => ~marker'.torn
      BY <2>0, <3>1, <3>2
    <3>5. HasRead(g)'
      BY <3>3, <3>4 DEF HasRead, MayMark
    <3> QED  BY <1>1, <2>0, <2>2, <3>5 DEF Moves
  <2> QED  BY <1>11, <2>1, <2>2, ReadToMarkMoves
<1>12. ASSUME AllStale PROVE Kept
  BY <1>12 DEF AllStale, HasRead
<1>13. ASSUME NEW g \in Clicks, WriteLands(g) PROVE Kept
  BY <1>12, <1>13, WriteLandsMoves
<1>14. ASSUME NEW g \in Clicks, ImportFails(g) \/ WriteFails(g) \/ WriteReturns(g)
       PROVE Kept
  BY <1>2, <1>14, EndsMoves DEF ImportFails, WriteFails, WriteReturns, disk
<1>15. ASSUME Arrives PROVE Kept
  BY <1>12, <1>15, ArrivesMoves
<1>16. ASSUME Restart PROVE Kept
  BY <1>16, RestartMoves, IdleSteps DEF HasRead
<1>17. ASSUME UNCHANGED << act, marker >> PROVE Kept
  BY <1>0, <1>17 DEF HasRead, MayMark
<1>18. (\E l \in Looks : LookReads(l) \/ LookReturns(l))
         \/ (\E r \in Records : LegacyBegins(r) \/ LegacyLands(r))
         \/ UNCHANGED cutoverVars
       => UNCHANGED << act, marker >>
  BY DEF LookReads, LookReturns, LegacyBegins, LegacyLands, cutoverVars, disk
<1>19. Kept
  BY <1>3, <1>4, <1>5, <1>6, <1>7, <1>8, <1>9, <1>10, <1>11, <1>13, <1>14, <1>15,
     <1>16, <1>17, <1>18, Zenon DEF CutoverNext
<1> QED  BY <1>19 DEF ReadIsSo, HasRead

HasStore(h) ==
    act[h].step \in {"marking", "writing"} => act[h].id = storeId /\ storeId # NoStore

LEMMA OneStoreStep ==
    ASSUME CutoverTypeOK, OwnSteps, ReadIsSo, OneStore, [CutoverNext]_cutoverVars
    PROVE  OneStore'
<1> DEFINE Markers0 == marker.store \in Clicks => marker.store = storeId
           Kept == \A h \in Cutovers \cup Binds : HasStore(h)'
<1> SUFFICES ASSUME ~crossed'
             PROVE  Markers0' /\ Kept
  BY DEF OneStore, HasStore
<1>0. Markers0 /\ \A h \in Cutovers \cup Binds : h \in Clicks /\ HasStore(h)
  BY OnceCrossed DEF OneStore, HasStore, Clicks
<1>1. ASSUME NEW g \in Clicks, OthersStay(g), storeId' = storeId, marker' = marker,
             g \in Cutovers \cup Binds => HasStore(g)'
      PROVE  Markers0' /\ Kept
  BY <1>0, <1>1 DEF OthersStay, HasStore
<1>2. ASSUME NEW g \in Clicks, Becomes(g, Done), storeId' = storeId, marker' = marker
      PROVE  Markers0' /\ Kept
  BY <1>1, <1>2, IdleSteps DEF Becomes, HasStore
<1>3. ASSUME NEW g \in Clicks, RunImport(g) PROVE Markers0' /\ Kept
  BY <1>1, <1>3, RunImportMoves DEF Moves, HasStore, RunImport, disk
<1>4. ASSUME NEW g \in Clicks, ExistingKeys(g) PROVE Markers0' /\ Kept
  BY <1>1, <1>4, ExistingKeysMoves DEF Moves, HasStore, ExistingKeys, disk
<1>5. ASSUME NEW g \in Clicks, AppendRecord(g) PROVE Markers0' /\ Kept
  BY <1>1, <1>5, AppendRecordMoves DEF Moves, HasStore, AppendRecord
<1>6. ASSUME NEW g \in Clicks, ImportEnds(g) PROVE Markers0' /\ Kept
  <2>1. marker' = marker /\ storeId' = storeId /\ OthersStay(g)
    BY <1>6, ImportEndsMoves DEF Moves, ImportEnds, disk
  <2>2. act'[g].step \in {"minting", "asked"}
    BY <1>6, ImportEndsMoves DEF Moves
  <2> QED  BY <1>1, <2>1, <2>2 DEF HasStore
<1>7. ASSUME NEW g \in Clicks, ConfirmCutover(g) PROVE Markers0' /\ Kept
  <2>0. marker' = marker /\ storeId' = storeId
    BY <1>7 DEF ConfirmCutover, disk
  <2>1. CASE Becomes(g, Done)
    BY <1>2, <2>0, <2>1
  <2>2. CASE Moves(g, "queued")
    BY <1>1, <2>0, <2>2 DEF Moves, HasStore
  <2> QED  BY <1>7, <2>1, <2>2, ConfirmCutoverMoves
<1>8. ASSUME NEW g \in Clicks, Check(g) PROVE Markers0' /\ Kept
  <2>0. marker' = marker /\ storeId' = storeId
    BY <1>8 DEF Check, disk
  <2>1. CASE Becomes(g, Done)
    BY <1>2, <2>0, <2>1
  <2>2. CASE Moves(g, IF g \in Binds THEN "minting" ELSE "marking")
    <3>1. g \in Cutovers \cup Binds => act'[g].step = "minting"
      BY <1>8, <2>2, CheckMoves, CutoverAssumption DEF Moves
    <3> QED  BY <1>1, <2>0, <2>2, <3>1 DEF Moves, HasStore
  <2> QED  BY <1>8, <2>1, <2>2, CheckMoves
<1>9. ASSUME NEW g \in Clicks, MintStoreId(g) PROVE Markers0' /\ Kept
  <2>1. marker' = marker /\ storeId' = storeId /\ OthersStay(g)
    BY <1>9, MintStoreIdMoves DEF MintStoreId, disk, Moves
  <2>2. HasStore(g)'
    BY <1>9, <2>1, MintStoreIdMoves DEF HasStore, Moves
  <2> QED  BY <1>1, <2>1, <2>2
<1>10. ASSUME NEW g \in Clicks, StoreMint(g) PROVE Markers0' /\ Kept
  <2>1. marker' = marker /\ storeId' = act[g].id /\ storeId = NoStore /\ OthersStay(g)
    BY <1>10, StoreMintMoves DEF StoreMint, Moves
  <2>2. act[g].id = g /\ act'[g].id = g
    BY <1>10, StoreMintMoves DEF OwnSteps, KeepsMark
  <2>3. Markers0'
    BY <1>0, <2>1, NamesApart
  <2>4. \A h \in Cutovers \cup Binds : h # g => act'[h].step \notin {"marking", "writing"}
    BY <1>0, <2>1 DEF OthersStay, HasStore
  <2> QED  BY <2>1, <2>2, <2>3, <2>4, NamesApart DEF HasStore
<1>11. ASSUME NEW g \in Clicks, ReadToMark(g) PROVE Markers0' /\ Kept
  <2>0. marker' = marker /\ storeId' = storeId
    BY <1>11 DEF ReadToMark, disk
  <2>1. CASE Becomes(g, Done)
    BY <1>2, <2>0, <2>1
  <2>2. ASSUME NEW m \in Readings, Moves(g, "writing"), act'[g].id = Naming(g, m)
        PROVE  Markers0' /\ Kept
    <3>1. g \in Cutovers \cup Binds => act'[g].id = act[g].id
      BY <2>2, CutoverAssumption DEF Naming
    <3>2. g \in Cutovers \cup Binds => HasStore(g)'
      BY <1>0, <1>11, <2>0, <3>1, ReadToMarkMoves DEF HasStore
    <3> QED  BY <1>1, <2>0, <2>2, <3>2 DEF Moves
  <2> QED  BY <1>11, <2>1, <2>2, ReadToMarkMoves
<1>12. ASSUME NEW g \in Clicks, WriteLands(g) PROVE Markers0' /\ Kept
  <2>1. marker' = Marks(g) /\ storeId' = storeId /\ ~act[g].stale
    BY <1>12 DEF WriteLands
  <2>2. Marks(g).store = act[g].id
    BY MarksTyped DEF CutoverTypeOK
  <2>3. g \in Rollbacks => act[g].id = marker.store
    BY <1>12, <2>1, WriteLandsMoves DEF ReadIsSo
  <2>4. g \notin Rollbacks => act[g].id = storeId
    BY <1>0, <1>12, WriteLandsMoves DEF HasStore, Clicks
  <2>5. Kept
    BY <1>0, <1>12, <2>1, WriteLandsMoves DEF SameSteps, HasStore
  <2> QED  BY <1>0, <2>1, <2>2, <2>3, <2>4, <2>5
<1>13. ASSUME NEW g \in Clicks, ImportFails(g) \/ WriteFails(g) \/ WriteReturns(g)
       PROVE Markers0' /\ Kept
  BY <1>2, <1>13, EndsMoves DEF ImportFails, WriteFails, WriteReturns, disk
<1>14. ASSUME Arrives PROVE Markers0' /\ Kept
  <2>1. marker'.store \notin Clicks /\ storeId' = storeId
    BY <1>14, MarkersTyped DEF Arrives
  <2> QED  BY <1>0, <1>14, <2>1, ArrivesMoves DEF SameSteps, HasStore
<1>15. ASSUME Restart PROVE Markers0' /\ Kept
  <2>1. Kept
    BY <1>0, <1>15, RestartMoves, IdleSteps DEF HasStore
  <2>2. Torn.store \notin Clicks
    BY MarkersTyped DEF Arriving
  <2> QED  BY <1>0, <1>15, <2>1, <2>2 DEF Restart
<1>16. ASSUME UNCHANGED << act, marker, storeId >> PROVE Markers0' /\ Kept
  BY <1>0, <1>16 DEF HasStore
<1>17. (\E l \in Looks : LookReads(l) \/ LookReturns(l))
         \/ (\E r \in Records : LegacyBegins(r) \/ LegacyLands(r))
         \/ UNCHANGED cutoverVars
       => UNCHANGED << act, marker, storeId >>
  BY DEF LookReads, LookReturns, LegacyBegins, LegacyLands, cutoverVars, disk
<1> HIDE DEF Markers0, Kept
<1> QED
  BY <1>3, <1>4, <1>5, <1>6, <1>7, <1>8, <1>9, <1>10, <1>11, <1>12, <1>13, <1>14, <1>15,
     <1>16, <1>17, Zenon DEF CutoverNext

-----------------------------------------------------------------------------
(* What is cached of it.                                                   *)
LEMMA CacheStep ==
    ASSUME CutoverTypeOK, CacheTells, [CutoverNext]_cutoverVars
    PROVE  CacheTells'
<1> DEFINE Told == \/ cached.cut = marker.cut
                   \/ cached.cut /\ cached.store = NoStore
           Nobody0 == \A g \in Clicks : act[g].step # "returning"
<1> SUFFICES ASSUME ~crossed', ~unread', Nobody0'
             PROVE  Told'
  BY DEF CacheTells
<1>1. ~crossed
  BY OnceCrossed
<1>2. ASSUME ~unread, Nobody0 PROVE Told
  BY <1>1, <1>2 DEF CacheTells
<1>3. ASSUME NEW g \in Clicks, OthersStay(g), act[g].step # "returning", unread' = unread
      PROVE  Told
  BY <1>2, <1>3 DEF OthersStay
<1>4. ASSUME NEW g \in Clicks, OthersStay(g), act[g].step # "returning", unread' = unread,
             marker' = marker, cached'.cut = cached.cut, cached'.store = cached.store
      PROVE  Told'
  BY <1>3, <1>4
<1>5. Idle.step # "returning"
  BY IdleSteps
<1>6. ASSUME NEW g \in Clicks, RunImport(g) PROVE Told'
  BY <1>4, <1>5, <1>6, RunImportMoves DEF Moves, RunImport, disk, told
<1>7. ASSUME NEW g \in Clicks, ExistingKeys(g) PROVE Told'
  BY <1>4, <1>7, ExistingKeysMoves DEF Moves, ExistingKeys, disk, told
<1>8. ASSUME NEW g \in Clicks, AppendRecord(g) PROVE Told'
  BY <1>4, <1>8, AppendRecordMoves DEF Moves, AppendRecord, told
<1>9. ASSUME NEW g \in Clicks, ImportEnds(g) PROVE Told'
  BY <1>4, <1>9, ImportEndsMoves DEF Moves, ImportEnds, disk, told
<1>10. ASSUME NEW g \in Clicks, ConfirmCutover(g) PROVE Told'
  BY <1>4, <1>10, ConfirmCutoverMoves DEF Moves, Becomes, ConfirmCutover, disk, told
<1>11. ASSUME NEW g \in Clicks, Check(g) \/ ReadToMark(g) PROVE Told'
  <2>1. PICK m \in Readings : Reads(m)
    BY <1>11 DEF Check, ReadToMark
  <2>2. cached'.cut = cached.cut /\ cached'.store = cached.store
    BY <2>1, ReadsTyped DEF CutoverTypeOK
  <2>3. OthersStay(g) /\ act[g].step # "returning"
    BY <1>5, <1>11, CheckMoves, ReadToMarkMoves DEF Moves, Becomes
  <2> QED  BY <1>4, <1>11, <2>2, <2>3 DEF Check, ReadToMark, disk, told
<1>12. ASSUME NEW g \in Clicks, MintStoreId(g) PROVE Told'
  <2>1. OthersStay(g) /\ act[g].step # "returning"
    BY <1>12, ClickReplaced DEF MintStoreId, At, OthersStay, CutoverTypeOK
  <2> QED  BY <1>4, <1>12, <2>1 DEF MintStoreId, disk, told
<1>13. ASSUME NEW g \in Clicks, StoreMint(g) PROVE Told'
  BY <1>4, <1>13, StoreMintMoves DEF Moves, StoreMint
<1>14. ASSUME NEW g \in Clicks, WriteLands(g) PROVE Told'
  BY <1>14, WriteLandsMoves
<1>15. ASSUME NEW g \in Clicks, WriteReturns(g) PROVE Told'
  BY <1>15 DEF WriteReturns, disk
<1>16. ASSUME NEW g \in Clicks, ImportFails(g) \/ WriteFails(g) PROVE Told'
  <2>1. OthersStay(g) /\ act[g].step # "returning"
    BY <1>16, EndsMoves DEF ImportFails, WriteFails, At, Becomes
  <2> QED  BY <1>4, <1>16, <2>1 DEF ImportFails, WriteFails, disk, told
<1>17. ASSUME NEW l \in Looks, LookReads(l) PROVE Told'
  BY <1>2, <1>17 DEF LookReads, disk, told
<1>18. ASSUME NEW l \in Looks, LookReturns(l) PROVE Told'
  <2>1. cached' \in {marker, Torn} /\ marker' = marker
    BY <1>18 DEF LookReturns, disk, Readings
  <2>2. Torn.cut /\ Torn.store = NoStore
    BY DEF Torn
  <2> QED  BY <2>1, <2>2
<1>19. ASSUME NEW r \in Records, LegacyBegins(r) \/ LegacyLands(r) PROVE Told'
  BY <1>2, <1>19 DEF LegacyBegins, LegacyLands, disk, told
<1>20. ~Arrives
  BY DEF Arrives
<1>21. ASSUME Restart PROVE Told'
  BY <1>21 DEF Restart, Torn
<1>22. ASSUME UNCHANGED cutoverVars PROVE Told'
  BY <1>2, <1>22 DEF cutoverVars
<1> HIDE DEF Told
<1> QED
  BY <1>6, <1>7, <1>8, <1>9, <1>10, <1>11, <1>12, <1>13, <1>14, <1>15, <1>16, <1>17,
     <1>18, <1>19, <1>20, <1>21, <1>22, Zenon DEF CutoverNext
-----------------------------------------------------------------------------
(* The imports.                                                            *)
Waits(h) ==
    /\ h \in ToSet(imports) <=> act[h].step \in {"queued", "appending"}
    /\ act[h].step = "appending" => h = Head(imports)

LEMMA OnlyCutoversWait ==
    ASSUME imports \in Seq(Cutovers)
    PROVE  ToSet(imports) \subseteq Cutovers
  BY DEF ToSet

LEMMA NobodyWaits == ToSet(<< >>) = {} /\ IsInjective(<< >>)
  BY DEF ToSet, IsInjective

(* A click joins the chain.                                                *)
LEMMA ChainGrows ==
    ASSUME CutoverTypeOK, OneImport, NEW g \in Cutovers,
           act[g].step \notin {"queued", "appending"},
           imports' = Append(imports, g), OthersStay(g), act'[g].step = "queued"
    PROVE  OneImport'
<1>1. imports \in Seq(Cutovers) /\ g \in Clicks /\ g \notin ToSet(imports)
  BY DEF CutoverTypeOK, OneImport, Clicks
<1>2. /\ ToSet(imports') = ToSet(imports) \cup {g} /\ IsInjective(imports')
      /\ imports # << >> => Head(imports') = Head(imports)
  BY <1>1, AppendDistinct DEF OneImport
<1>3. \A h \in Clicks : act[h].step = "appending" => imports # << >>
  BY NobodyWaits DEF OneImport
<1>4. \A h \in Clicks \ {g} : Waits(h)'
  BY <1>2, <1>3 DEF OneImport, Waits, OthersStay
<1>5. Waits(g)'
  BY <1>2 DEF Waits
<1> QED  BY <1>2, <1>4, <1>5 DEF OneImport, Waits

(* The importing click leaves it.                                          *)
LEMMA ChainShrinks ==
    ASSUME CutoverTypeOK, OneImport, NEW g \in Clicks, act[g].step = "appending",
           imports' = Tail(imports), OthersStay(g),
           act'[g].step \notin {"queued", "appending"}
    PROVE  OneImport'
<1>1. imports \in Seq(Cutovers) /\ imports # << >> /\ g = Head(imports)
  BY NobodyWaits DEF CutoverTypeOK, OneImport
<1>2. ToSet(imports') = ToSet(imports) \ {g} /\ IsInjective(imports')
  BY <1>1, TailDistinct DEF OneImport
<1>3. \A h \in Clicks \ {g} : act[h].step # "appending"
  BY <1>1 DEF OneImport
<1>4. \A h \in Clicks \ {g} : Waits(h)'
  BY <1>2, <1>3 DEF OneImport, Waits, OthersStay
<1>5. Waits(g)'
  BY <1>2 DEF Waits
<1> QED  BY <1>2, <1>4, <1>5 DEF OneImport, Waits

(* The chain stays as it is.                                               *)
LEMMA ChainStays ==
    ASSUME OneImport, NEW g \in Clicks, imports' = imports, OthersStay(g),
           \/ /\ act[g].step \notin {"queued", "appending"}
              /\ act'[g].step \notin {"queued", "appending"}
           \/ /\ act[g].step \in {"queued", "appending"}
              /\ act'[g].step = "appending" /\ g = Head(imports)
    PROVE  OneImport'
<1>1. \A h \in Clicks : Waits(h)'
  BY DEF OneImport, Waits, OthersStay
<1> QED  BY <1>1 DEF OneImport, Waits

LEMMA OneImportStep ==
    ASSUME CutoverTypeOK, OwnSteps, OneImport, [CutoverNext]_cutoverVars
    PROVE  OneImport'
<1>1. ASSUME NEW g \in Clicks, RunImport(g) PROVE OneImport'
  BY <1>1, RunImportMoves, ChainGrows, IdleSteps DEF RunImport, Moves
<1>2. ASSUME NEW g \in Clicks, ExistingKeys(g) PROVE OneImport'
  BY <1>2, ExistingKeysMoves, ChainStays DEF ExistingKeys, Moves
<1>3. ASSUME NEW g \in Clicks, AppendRecord(g) PROVE OneImport'
  <2>1. g = Head(imports)
    BY <1>3, AppendRecordMoves DEF OneImport
  <2> QED  BY <1>3, <2>1, AppendRecordMoves, ChainStays DEF AppendRecord, Moves
<1>4. ASSUME NEW g \in Clicks, ImportEnds(g) PROVE OneImport'
  <2>1. act'[g].step \in {"minting", "asked"}
    BY <1>4, ImportEndsMoves DEF Moves
  <2> QED  BY <1>4, <2>1, ImportEndsMoves, ChainShrinks DEF ImportEnds, Moves
<1>5. ASSUME NEW g \in Clicks, ImportFails(g) PROVE OneImport'
  BY <1>5, EndsMoves, ChainShrinks, IdleSteps DEF ImportFails, At, Becomes
<1>6. ASSUME NEW g \in Clicks, ConfirmCutover(g) PROVE OneImport'
  <2>1. g \in Cutovers /\ act[g].step = "asked"
    BY <1>6, ConfirmCutoverMoves DEF OwnSteps
  <2>2. CASE Becomes(g, Done) /\ imports' = imports
    BY <2>1, <2>2, ChainStays, IdleSteps DEF Becomes
  <2>3. CASE Moves(g, "queued") /\ imports' = Append(imports, g)
    BY <2>1, <2>3, ChainGrows DEF Moves
  <2> QED  BY <1>6, <2>2, <2>3, ConfirmCutoverMoves
<1>7. ASSUME NEW g \in Clicks, Check(g) PROVE OneImport'
  <2>1. CASE Becomes(g, Done)
    BY <1>7, <2>1, CheckMoves, ChainStays, IdleSteps DEF Becomes, Check
  <2>2. CASE Moves(g, IF g \in Binds THEN "minting" ELSE "marking")
    <3>1. act'[g].step \in {"minting", "marking"}
      BY <2>2 DEF Moves
    <3> QED  BY <1>7, <2>2, <3>1, CheckMoves, ChainStays, IdleSteps DEF Moves, Check
  <2> QED  BY <1>7, <2>1, <2>2, CheckMoves
<1>8. ASSUME NEW g \in Clicks, MintStoreId(g) PROVE OneImport'
  <2>1. act[g].step = "minting" /\ act'[g].step \in {"marking", "storing"} /\ OthersStay(g)
    BY <1>8, MintStoreIdMoves DEF Moves
  <2> QED  BY <1>8, <2>1, ChainStays DEF MintStoreId
<1>9. ASSUME NEW g \in Clicks, StoreMint(g) PROVE OneImport'
  BY <1>9, StoreMintMoves, ChainStays DEF StoreMint, Moves
<1>10. ASSUME NEW g \in Clicks, ReadToMark(g) PROVE OneImport'
  <2>1. act[g].step = "marking" /\ act'[g].step \in {"writing", "done"} /\ OthersStay(g)
    BY <1>10, ReadToMarkMoves, IdleSteps DEF Moves, Becomes
  <2> QED  BY <1>10, <2>1, ChainStays DEF ReadToMark
<1>11. ASSUME NEW g \in Clicks, WriteLands(g) PROVE OneImport'
  <2>1. \A h \in Clicks : Waits(h)'
    BY <1>11, WriteLandsMoves DEF OneImport, Waits, SameSteps, WriteLands
  <2> QED  BY <1>11, <2>1 DEF OneImport, Waits, WriteLands
<1>12. ASSUME NEW g \in Clicks, WriteFails(g) \/ WriteReturns(g) PROVE OneImport'
  BY <1>12, EndsMoves, ChainStays, IdleSteps DEF WriteFails, WriteReturns, At, Becomes
<1>13. ASSUME Arrives PROVE OneImport'
  <2>1. \A h \in Clicks : Waits(h)'
    BY <1>13, ArrivesMoves DEF OneImport, Waits, SameSteps, Arrives
  <2> QED  BY <1>13, <2>1 DEF OneImport, Waits, Arrives
<1>14. ASSUME Restart PROVE OneImport'
  <2>1. \A h \in Clicks : Waits(h)'
    BY <1>14, RestartMoves, IdleSteps, NobodyWaits DEF Waits, Restart
  <2> QED  BY <1>14, <2>1, NobodyWaits DEF OneImport, Waits, Restart
<1>15. ASSUME UNCHANGED << act, imports >> PROVE OneImport'
  BY <1>15 DEF OneImport
<1>16. (\E l \in Looks : LookReads(l) \/ LookReturns(l))
         \/ (\E r \in Records : LegacyBegins(r) \/ LegacyLands(r))
         \/ UNCHANGED cutoverVars
       => UNCHANGED << act, imports >>
  BY DEF LookReads, LookReturns, LegacyBegins, LegacyLands, cutoverVars
<1> QED
  BY <1>1, <1>2, <1>3, <1>4, <1>5, <1>6, <1>7, <1>8, <1>9, <1>10, <1>11, <1>12,
     <1>13, <1>14, <1>15, <1>16, Zenon DEF CutoverNext

(* Evidence grows by what was not known yet.                               *)
LEMMA EvidenceGrows ==
    ASSUME CutoverTypeOK, OneImport, KeysKnown, [CutoverNext]_cutoverVars
    PROVE  \/ evidence' = evidence
           \/ \E g \in Clicks : AppendRecord(g)
  BY DEF CutoverNext, cutoverVars, disk, RunImport, ExistingKeys, ImportEnds,
     ImportFails, ConfirmCutover, Check, MintStoreId, StoreMint, WriteLands,
     ReadToMark, WriteReturns, WriteFails, LookReads, LookReturns, LegacyBegins,
     LegacyLands, Arrives, Restart

LEMMA Appended ==
    ASSUME CutoverTypeOK, OneImport, KeysKnown, NEW g \in Clicks, AppendRecord(g)
    PROVE  /\ IsInjective(evidence') /\ ToSet(evidence) \subseteq ToSet(evidence')
           /\ act'[g].keys = ToSet(evidence')
           /\ \A h \in Clicks \ {g} : act[h].step # "appending"
<1>1. /\ act[g].step = "appending" /\ act[g].keys = ToSet(evidence)
      /\ IsInjective(evidence)
  BY AppendRecordMoves DEF KeysKnown
<1>2. PICK r \in act[g].plan \ act[g].keys :
        evidence' = Append(evidence, r) /\ act'[g].keys = act[g].keys \cup {r}
  BY AppendRecordMoves
<1>3. r \in Records /\ evidence \in Seq(Records)
  BY <1>2 DEF CutoverTypeOK, Clicked
<1>4. ToSet(evidence') = ToSet(evidence) \cup {r} /\ IsInjective(evidence')
  BY <1>1, <1>2, <1>3, AppendDistinct
<1>5. \A h \in Clicks \ {g} : act[h].step # "appending"
  BY <1>1 DEF OneImport
<1> QED  BY <1>1, <1>2, <1>4, <1>5

LEMMA KeysStep ==
    ASSUME CutoverTypeOK, OwnSteps, OneImport, KeysKnown, [CutoverNext]_cutoverVars
    PROVE  KeysKnown'
<1> DEFINE Knows(h) == act[h].step = "appending" => act[h].keys = ToSet(evidence)
<1>0. IsInjective(evidence) /\ \A h \in Clicks : Knows(h)
  BY DEF KeysKnown
<1>1. ASSUME NEW g \in Clicks, AppendRecord(g) PROVE KeysKnown'
  <2>1. \A h \in Clicks \ {g} : act'[h].step # "appending"
    BY <1>1, Appended, AppendRecordMoves DEF Moves, OthersStay
  <2> QED  BY <1>1, <2>1, Appended DEF KeysKnown
<1>2. ASSUME evidence' = evidence, NEW g \in Clicks, OthersStay(g), Knows(g)'
      PROVE  KeysKnown'
  BY <1>0, <1>2 DEF KeysKnown, OthersStay
<1>3. ASSUME evidence' = evidence, NEW g \in Clicks, OthersStay(g),
             act'[g].step # "appending"
      PROVE  KeysKnown'
  BY <1>2, <1>3
<1>4. ASSUME evidence' = evidence, NEW g \in Clicks, RunImport(g) PROVE KeysKnown'
  BY <1>3, <1>4, RunImportMoves DEF Moves
<1>5. ASSUME evidence' = evidence, NEW g \in Clicks, ExistingKeys(g) PROVE KeysKnown'
  BY <1>2, <1>5, ExistingKeysMoves DEF Moves
<1>6. ASSUME evidence' = evidence, NEW g \in Clicks, ImportEnds(g) PROVE KeysKnown'
  BY <1>3, <1>6, ImportEndsMoves DEF Moves
<1>7. ASSUME evidence' = evidence, NEW g \in Clicks, ConfirmCutover(g) PROVE KeysKnown'
  BY <1>3, <1>7, ConfirmCutoverMoves, IdleSteps DEF Moves, Becomes
<1>8. ASSUME evidence' = evidence, NEW g \in Clicks, Check(g) PROVE KeysKnown'
  BY <1>3, <1>8, CheckMoves, IdleSteps DEF Moves, Becomes
<1>9. ASSUME evidence' = evidence, NEW g \in Clicks, MintStoreId(g) PROVE KeysKnown'
  BY <1>3, <1>9, MintStoreIdMoves DEF Moves
<1>10. ASSUME evidence' = evidence, NEW g \in Clicks, StoreMint(g) PROVE KeysKnown'
  BY <1>3, <1>10, StoreMintMoves DEF Moves
<1>11. ASSUME evidence' = evidence, NEW g \in Clicks, ReadToMark(g) PROVE KeysKnown'
  BY <1>3, <1>11, ReadToMarkMoves, IdleSteps DEF Moves, Becomes
<1>12. ASSUME evidence' = evidence, NEW g \in Clicks, WriteLands(g) PROVE KeysKnown'
  BY <1>0, <1>12, WriteLandsMoves DEF KeysKnown, SameSteps, KeepsImport
<1>13. ASSUME evidence' = evidence, NEW g \in Clicks,
              ImportFails(g) \/ WriteFails(g) \/ WriteReturns(g)
       PROVE  KeysKnown'
  BY <1>3, <1>13, EndsMoves, IdleSteps DEF Becomes
<1>14. ASSUME evidence' = evidence, Arrives PROVE KeysKnown'
  BY <1>0, <1>14, ArrivesMoves DEF KeysKnown, SameSteps, KeepsImport
<1>15. ASSUME evidence' = evidence, Restart PROVE KeysKnown'
  BY <1>0, <1>15, RestartMoves, IdleSteps DEF KeysKnown
<1>16. ASSUME evidence' = evidence, act' = act PROVE KeysKnown'
  BY <1>16 DEF KeysKnown
<1>17. (\E l \in Looks : LookReads(l) \/ LookReturns(l))
         \/ (\E r \in Records : LegacyBegins(r) \/ LegacyLands(r))
         \/ UNCHANGED cutoverVars
       => act' = act
  BY DEF LookReads, LookReturns, LegacyBegins, LegacyLands, cutoverVars
<1>18. CASE evidence' = evidence
  BY <1>1, <1>4, <1>5, <1>6, <1>7, <1>8, <1>9, <1>10, <1>11, <1>12, <1>13, <1>14,
     <1>15, <1>16, <1>17, <1>18, Zenon DEF CutoverNext
<1> QED  BY <1>1, <1>18, EvidenceGrows

LEMMA ConfirmedStep ==
    ASSUME CutoverTypeOK, OwnSteps, OneImport, KeysKnown, ConfirmedHeld,
           [CutoverNext]_cutoverVars
    PROVE  ConfirmedHeld'
<1> DEFINE Held(h) ==
      /\ act[h].step \in {"queued", "appending"} /\ act[h].sure =>
           act[h].confirmed \subseteq act[h].plan
      /\ act[h].step \in {"minting", "storing", "marking", "writing", "returning"} =>
           act[h].confirmed \subseteq ToSet(evidence)
<1>0. \A h \in Cutovers : h \in Clicks /\ Held(h)
  BY DEF ConfirmedHeld, Clicks
<1>1. ToSet(evidence) \subseteq ToSet(evidence')
  BY EvidenceGrows, Appended
<1>2. ASSUME NEW g \in Clicks, OthersStay(g), g \in Cutovers => Held(g)'
      PROVE  ConfirmedHeld'
  <2>1. \A h \in Cutovers : Held(h)'
    BY <1>0, <1>1, <1>2 DEF OthersStay
  <2> QED  BY <2>1 DEF ConfirmedHeld
<1>3. ASSUME NEW g \in Clicks, Becomes(g, Done) PROVE ConfirmedHeld'
  BY <1>2, <1>3, IdleSteps DEF Becomes
<1>4. ASSUME NEW g \in Clicks, RunImport(g) PROVE ConfirmedHeld'
  BY <1>2, <1>4, RunImportMoves, IdleSteps DEF Moves, KeepsConfirmed
<1>5. ASSUME NEW g \in Clicks, ExistingKeys(g) PROVE ConfirmedHeld'
  BY <1>0, <1>2, <1>5, ExistingKeysMoves DEF Moves, KeepsConfirmed
<1>6. ASSUME NEW g \in Clicks, AppendRecord(g) PROVE ConfirmedHeld'
  BY <1>0, <1>2, <1>6, AppendRecordMoves DEF Moves, KeepsConfirmed
<1>7. ASSUME NEW g \in Clicks, ImportEnds(g) PROVE ConfirmedHeld'
  <2>1. /\ act[g].step = "appending" /\ act[g].plan \subseteq ToSet(evidence)
        /\ OthersStay(g) /\ KeepsConfirmed(g)
        /\ act'[g].step = IF act[g].sure THEN "minting" ELSE "asked"
    BY <1>7, ImportEndsMoves DEF Moves, KeysKnown
  <2>2. g \in Cutovers /\ act[g].sure => act'[g].confirmed \subseteq ToSet(evidence')
    BY <1>0, <1>1, <2>1 DEF KeepsConfirmed
  <2>3. CASE act[g].sure
    BY <1>2, <2>1, <2>2, <2>3
  <2>4. CASE ~act[g].sure
    BY <1>2, <2>1, <2>4
  <2> QED  BY <2>3, <2>4
<1>8. ASSUME NEW g \in Clicks, ConfirmCutover(g) PROVE ConfirmedHeld'
  <2>1. CASE Becomes(g, Done)
    BY <1>3, <2>1
  <2>2. CASE /\ Moves(g, "queued")
             /\ act'[g].plan = baselines /\ act'[g].confirmed = baselines
    BY <1>2, <2>2 DEF Moves
  <2> QED  BY <1>8, <2>1, <2>2, ConfirmCutoverMoves
<1>9. ASSUME NEW g \in Clicks, Check(g) PROVE ConfirmedHeld'
  <2>1. g \notin Cutovers /\ OthersStay(g)
    BY <1>9, CheckMoves, CutoverAssumption DEF Becomes, Moves
  <2> QED  BY <1>2, <2>1
<1>10. ASSUME NEW g \in Clicks, MintStoreId(g) PROVE ConfirmedHeld'
  <2>1. /\ act[g].step = "minting" /\ act'[g].step \in {"marking", "storing"}
        /\ OthersStay(g) /\ KeepsConfirmed(g)
    BY <1>10, MintStoreIdMoves DEF Moves
  <2> QED  BY <1>0, <1>1, <1>2, <2>1 DEF KeepsConfirmed
<1>11. ASSUME NEW g \in Clicks, StoreMint(g) PROVE ConfirmedHeld'
  BY <1>0, <1>1, <1>2, <1>11, StoreMintMoves DEF Moves, KeepsConfirmed
<1>12. ASSUME NEW g \in Clicks, ReadToMark(g) PROVE ConfirmedHeld'
  <2>1. CASE Becomes(g, Done)
    BY <1>3, <2>1
  <2>2. CASE act[g].step = "marking" /\ Moves(g, "writing") /\ KeepsConfirmed(g)
    BY <1>0, <1>1, <1>2, <2>2 DEF Moves, KeepsConfirmed
  <2> QED  BY <1>12, <2>1, <2>2, ReadToMarkMoves
<1>13. ASSUME NEW g \in Clicks, WriteLands(g) PROVE ConfirmedHeld'
  <2>1. \A h \in Cutovers : h # g => Held(h)'
    BY <1>0, <1>1, <1>13, WriteLandsMoves DEF SameSteps, KeepsImport, KeepsConfirmed
  <2>2. g \in Cutovers => Held(g)'
    BY <1>0, <1>1, <1>13, WriteLandsMoves DEF KeepsConfirmed
  <2> QED  BY <2>1, <2>2 DEF ConfirmedHeld
<1>14. ASSUME NEW g \in Clicks, ImportFails(g) \/ WriteFails(g) \/ WriteReturns(g)
       PROVE  ConfirmedHeld'
  BY <1>3, <1>14, EndsMoves
<1>15. ASSUME Arrives PROVE ConfirmedHeld'
  <2>1. \A h \in Cutovers : Held(h)'
    BY <1>0, <1>1, <1>15, ArrivesMoves DEF SameSteps, KeepsImport, KeepsConfirmed
  <2> QED  BY <2>1 DEF ConfirmedHeld
<1>16. ASSUME Restart PROVE ConfirmedHeld'
  <2>1. \A h \in Cutovers : Held(h)'
    BY <1>0, <1>16, RestartMoves, IdleSteps
  <2> QED  BY <2>1 DEF ConfirmedHeld
<1>17. ASSUME act' = act PROVE ConfirmedHeld'
  <2>1. \A h \in Cutovers : Held(h)'
    BY <1>0, <1>1, <1>17
  <2> QED  BY <2>1 DEF ConfirmedHeld
<1>18. (\E l \in Looks : LookReads(l) \/ LookReturns(l))
         \/ (\E r \in Records : LegacyBegins(r) \/ LegacyLands(r))
         \/ UNCHANGED cutoverVars
       => act' = act
  BY DEF LookReads, LookReturns, LegacyBegins, LegacyLands, cutoverVars
<1> QED
  BY <1>4, <1>5, <1>6, <1>7, <1>8, <1>9, <1>10, <1>11, <1>12, <1>13, <1>14,
     <1>15, <1>16, <1>17, <1>18, Zenon DEF CutoverNext

-----------------------------------------------------------------------------
CutoverInv ==
    /\ CutoverTypeOK /\ OwnSteps
    /\ TornIsTorn /\ ReadIsSo /\ OneStore /\ CacheTells
    /\ OneImport /\ KeysKnown /\ ConfirmedHeld

LEMMA CutoverInvInit == CutoverInit => CutoverInv
<1> SUFFICES ASSUME CutoverInit
             PROVE  CutoverInv
  OBVIOUS
<1>1. CutFor(NoStore) \in Markers /\ ~CutFor(NoStore).torn
      /\ CutFor(NoStore).store = NoStore /\ NeverCut.store = NoStore /\ ~NeverCut.torn
  BY DEF CutFor, NeverCut, Markers, Stores
<1>2. \A g \in Clicks : act[g] = Idle
  BY DEF CutoverInit
<1>3. FilesTyped
  BY <1>1, MarkersTyped, NamesApart, CutoverAssumption DEF CutoverInit, FilesTyped, Stores
<1>4. ActsTyped
  BY IdleAndDone DEF CutoverInit, ActsTyped
<1>5. LooksTyped
  BY NothingLooked, MarkersTyped DEF CutoverInit, LooksTyped
<1>6. HistoryTyped
  <2>1. arrivals \in 0..MaxArrivals
    BY CutoverAssumption DEF CutoverInit
  <2>2. unread \in BOOLEAN /\ crossed \in BOOLEAN
    BY DEF CutoverInit
  <2> QED  BY <2>1, <2>2 DEF HistoryTyped
<1>7. CutoverTypeOK
  BY <1>3, <1>4, <1>5, <1>6, TypeParts
<1>8. OwnSteps /\ ReadIsSo
  BY <1>2, IdleSteps DEF OwnSteps, ReadIsSo
<1>9. TornIsTorn /\ CacheTells
  BY <1>1 DEF CutoverInit, TornIsTorn, CacheTells
<1>10. OneStore
  BY <1>1, <1>2, IdleSteps, NamesApart DEF CutoverInit, OneStore, Clicks
<1>11. OneImport
  BY <1>2, IdleSteps, NobodyWaits DEF CutoverInit, OneImport
<1>12. KeysKnown /\ ConfirmedHeld
  BY <1>2, IdleSteps, NobodyWaits DEF CutoverInit, KeysKnown, ConfirmedHeld, Clicks
<1> QED  BY <1>7, <1>8, <1>9, <1>10, <1>11, <1>12 DEF CutoverInv

LEMMA CutoverInvStep == CutoverInv /\ [CutoverNext]_cutoverVars => CutoverInv'
  BY CutoverTypeStep, OwnStepsStep, TornStep, ReadIsSoStep, OneStoreStep, CacheStep,
     OneImportStep, KeysStep, ConfirmedStep DEF CutoverInv

(* The inductive invariant of the cutover.                                 *)
THEOREM CutoverInvariant == CutoverSpec => []CutoverInv
  BY CutoverInvInit, CutoverInvStep, PTL DEF CutoverSpec

(* Type correctness: every variable of the cutover keeps its type.         *)
THEOREM CutoverTypeCorrect == CutoverSpec => []CutoverTypeOK
<1>1. CutoverInv => CutoverTypeOK
  BY DEF CutoverInv
<1> QED  BY <1>1, CutoverInvariant, PTL

(* The legacy writers follow the marker.                                   *)
THEOREM GuardFollowsMarker == CutoverSpec => []GuardTellsTheMarker
<1>1. CutoverInv => GuardTellsTheMarker
  BY DEF CutoverInv, CacheTells, GuardTellsTheMarker, IsCutOver, At
<1> QED  BY <1>1, CutoverInvariant, PTL

(* A marker this machine cut over names the store it has.                  *)
THEOREM NeverNeither == CutoverSpec => []BoundToThisStore
<1>1. CutoverInv => BoundToThisStore
  <2> SUFFICES ASSUME CutoverInv, ~crossed, marker.cut, marker.store \in Clicks
               PROVE  BindingVerdict(marker) = "bound"
    BY DEF BoundToThisStore
  <2>1. marker.store = storeId /\ marker.store # NoStore
    BY NamesApart DEF CutoverInv, OneStore
  <2> QED  BY <2>1 DEF BindingVerdict
<1> QED  BY <1>1, CutoverInvariant, PTL

(* Clicks replace only the marker they may.                                *)
THEOREM NothingLaundered == CutoverSpec => OverwritesOnlyWhatItMay
<1> DEFINE Allowed ==
      arrivals' = arrivals /\ ~crossed' /\ ~marker'.torn =>
         /\ marker.torn => FALSE
         /\ marker.cut /\ marker.store # NoStore =>
                marker' \in {marker, [marker EXCEPT !.cut = FALSE]}
<1>1. CutoverInv /\ [CutoverNext]_cutoverVars => [Allowed]_marker
  <2> SUFFICES ASSUME CutoverInv, [CutoverNext]_cutoverVars, marker' # marker,
                      arrivals' = arrivals, ~crossed', ~marker'.torn
               PROVE  /\ ~marker.torn
                      /\ marker.cut /\ marker.store # NoStore =>
                           marker' \in {marker, [marker EXCEPT !.cut = FALSE]}
    OBVIOUS
  <2>1. ~Arrives
    BY CutoverAssumption DEF Arrives, CutoverInv, CutoverTypeOK
  <2>2. ~Restart
    BY DEF Restart, Torn
  <2>3. PICK g \in Clicks : WriteLands(g)
    BY <2>1, <2>2, MarkerKept
  <2>4. marker' = Marks(g) /\ ~act[g].stale /\ act[g].step = "writing"
    BY <2>3 DEF WriteLands, At
  <2>5. /\ MayMark(g, marker) /\ (g \in Rollbacks => act[g].id = marker.store)
        /\ g \notin Cutovers => ~marker.torn
    BY <2>4 DEF CutoverInv, ReadIsSo
  <2>6. marker.torn => marker = Torn
    BY DEF CutoverInv, TornIsTorn
  <2>7. ~marker.torn
    BY <2>5, <2>6, CutoverAssumption DEF MayMark, Torn
  <2>8. ASSUME marker.cut, marker.store # NoStore
        PROVE  marker' = [marker EXCEPT !.cut = FALSE]
    <3>1. g \in Rollbacks /\ act[g].id = marker.store
      BY <2>5, <2>8 DEF MayMark
    <3>2. marker \in Markers /\ act[g] \in Clicked
      BY DEF CutoverInv, CutoverTypeOK
    <3>3. Marks(g) \in Markers /\ ~Marks(g).torn /\ ~Marks(g).cut /\ Marks(g).store = marker.store
      BY <3>1, <3>2, MarksTyped
    <3> QED  BY <2>4, <2>7, <3>2, <3>3 DEF Markers
  <2> QED  BY <2>7, <2>8
<1> QED  BY <1>1, CutoverInvariant, PTL DEF CutoverSpec, OverwritesOnlyWhatItMay

(* No record is imported twice, and what was confirmed is evidence.        *)
THEOREM ImportedOnce == CutoverSpec => []ImportedOnceAndWhole
<1>1. CutoverInv => ImportedOnceAndWhole
  BY DEF CutoverInv, KeysKnown, ConfirmedHeld, ImportedOnceAndWhole, At
<1> QED  BY <1>1, CutoverInvariant, PTL
=============================================================================
