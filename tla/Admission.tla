------------------------------ MODULE Admission ------------------------------
(***************************************************************************)
(* Admission: how a proposal comes to stand                                *)
(* (governor/kernel/admission and governor/wiring/admission-wiring.ts).    *)
(*                                                                         *)
(* An act is one call of admitWithGesture, admitCohortWithGesture,         *)
(* admitCohortUnderMandate or revertToBase.  The acts run concurrently,    *)
(* interleaved at every await; the admission service serializes its own    *)
(* part of them.  Claims, the standing ref, settlement records, proposal   *)
(* events and mandate usage are on disk and survive a crash; the acts      *)
(* under way do not.  Beside them, outside the chain, the observer stamps  *)
(* what agents write with the same mandate and charges it to the budget.   *)
(*                                                                         *)
(* A claim is named by the act that made it, since an act makes at most    *)
(* one.  Bytes of a note are what was proposed, or something else.         *)
(***************************************************************************)
EXTENDS Naturals, Sequences, FiniteSets

CONSTANTS
    Proposals,
    Edited,         \* those whose notes others edit meanwhile
    Acts,
    ActOf,          \* what each act decides: its kind, members, digest, gesture
    Writes,         \* writes of agents under the mandate, stamped and charged to it
    Occasions,      \* which acts and writes come about in one behaviour
    Digests,        \* digests of decision subjects
    Gestures, NoGesture,
    Nobody,         \* no claim: the standing ref is absent
    Elsewhere,      \* a claim put on the standing ref by somebody else
    MaxElsewhere,   \* bound on those
    Budget          \* the mandate's limit on items

Kinds == {"item", "cohort", "mandate", "revert"}

ASSUME EditedAssumption == Edited \subseteq Proposals
ASSUME ActAssumption ==
    ActOf \in [Acts -> [kind : Kinds, members : SUBSET Proposals, digest : Digests,
                        gesture : Gestures \cup {NoGesture}]]
ASSUME GestureAssumption ==
    \A a \in Acts : ActOf[a].kind = "mandate" <=> ActOf[a].gesture = NoGesture
ASSUME SameDigestAssumption ==
    \A a, b \in Acts : ActOf[a].digest = ActOf[b].digest => ActOf[a].members = ActOf[b].members
ASSUME NamesAssumption ==
    /\ {Nobody, Elsewhere, "unread"} \cap Acts = {} /\ Nobody # Elsewhere
    /\ Acts \cap Writes = {}
    /\ NoGesture \notin Gestures
ASSUME FiniteAssumption == IsFiniteSet(Proposals)
ASSUME OccasionAssumption == Occasions \subseteq SUBSET (Acts \cup Writes)
ASSUME BoundAssumption == MaxElsewhere \in Nat /\ Budget \in Nat

VARIABLES
    note,           \* whether a note has the bytes that were proposed
    authority,      \* the proposal store: each proposal's authority axis
    claims,         \* the claim store, oldest first
    standing,       \* the claims on the standing ref's chain, oldest first
    settlements,    \* acts whose settlement record was written
    mandate,        \* status of the mandate
    used,           \* items charged to the mandate
    produced,       \* how far each write under the mandate has come
    line,           \* the service's chain: acts in it, the head having its turn
    pc,             \* how far each act has come
    seen,           \* the members' authority when the act fetched them
    preHead,        \* the standing claim when the act began, if it could be read
    expected,       \* the standing claim the act's own claim was built on
    report,         \* what the act's caller was told
    letIn,          \* history: those past their check when the budget was reached
    over            \* history: those whose charge reached the budget or passed it

evidenceVars == << claims, standing, settlements >>
mandateVars == << mandate, used, produced, letIn, over >>
storeVars == << evidenceVars, mandateVars >>
actVars == << line, pc, seen, preHead, expected, report >>
vars == << note, authority, storeVars, actVars >>

Heads == Acts \cup {Nobody, Elsewhere}
Unread == "unread"
Authorities == {"proposed", "admitted", "superseded"}
PCs == {"absent", "idle", "fetched", "healing", "waiting", "judged", "claimed", "advanced",
        "settled", "counted", "projecting", "threw", "reverting", "written", "done", "killed"}
Productions == {"absent", "none", "stamped", "counted", "ended"}
Reports == {"none", "ok", "degraded", "refused", "already", "moved", "error",
            "reverted", "partial"}

TypeOK ==
    /\ note \in [Proposals -> {"proposed", "other"}]
    /\ authority \in [Proposals -> Authorities]
    /\ claims \in Seq(Acts)
    /\ standing \in Seq(Acts \cup {Elsewhere})
    /\ settlements \in SUBSET Acts
    /\ mandate \in {"active", "revoked", "exhausted"}
    /\ used \in Nat
    /\ produced \in [Writes -> Productions]
    /\ line \in Seq(Acts)
    /\ pc \in [Acts -> PCs]
    /\ seen \in [Acts -> [Proposals -> Authorities]]
    /\ preHead \in [Acts -> Heads \cup {Unread}]
    /\ expected \in [Acts -> Heads]
    /\ report \in [Acts -> Reports]
    /\ letIn \subseteq Acts \cup Writes
    /\ over \subseteq Acts \cup Writes

Init ==
    /\ note = [p \in Proposals |-> "proposed"]
    /\ authority = [p \in Proposals |-> "proposed"]
    /\ claims = << >>
    /\ standing = << >>
    /\ settlements = {}
    /\ mandate = "active"
    /\ used = 0
    /\ line = << >>
    /\ \E occasion \in Occasions :
          /\ pc = [a \in Acts |-> IF a \in occasion THEN "idle" ELSE "absent"]
          /\ produced = [w \in Writes |-> IF w \in occasion THEN "none" ELSE "absent"]
    /\ seen = [a \in Acts |-> authority]
    /\ preHead = [a \in Acts |-> Unread]
    /\ expected = [a \in Acts |-> Nobody]
    /\ report = [a \in Acts |-> "none"]
    /\ letIn = {}
    /\ over = {}

-----------------------------------------------------------------------------
Members(a) == ActOf[a].members
Digest(a) == ActOf[a].digest
Admits(a) == ActOf[a].kind # "revert"

Claimed == {claims[i] : i \in 1..Len(claims)}
Standing == {standing[i] : i \in 1..Len(standing)}
Head0 == IF standing = << >> THEN Nobody ELSE standing[Len(standing)]
(* Mutant: only the standing claim is looked at, not the whole store.      *)
SameSubjectAsHead(d) == {c \in Claimed : c = Head0 /\ Digest(c) = d}

SameSubject(d) == {c \in Claimed : Digest(c) = d}
Drifted(a) == \E p \in Members(a) : note[p] # "proposed"

Goto(a, where) == pc' = [pc EXCEPT ![a] = where]
Answer(a, what) ==
    /\ Goto(a, "done")
    /\ report' = [report EXCEPT ![a] = what]

HasTurn(a) == line # << >> /\ Head(line) = a
(* Mutant: the turn is not given up.                                       *)
EndTurnNever == UNCHANGED line

EndTurn == line' = Tail(line)

(* setVerification and markAdmitted on each of the members: a store that   *)
(* fails, or a proposal that is no longer proposed, leaves it as it is.    *)
Project(members) ==
    \E done \in SUBSET {p \in members : authority[p] = "proposed"} :
        authority' = [p \in Proposals |-> IF p \in done THEN "admitted" ELSE authority[p]]

-----------------------------------------------------------------------------
(* Outside the service.                                                    *)

(* The binding gate, and the proposals as the store has them now.          *)
Fetch(a) ==
    /\ Admits(a)
    /\ pc[a] = "idle"
    /\ \/ Goto(a, "fetched") /\ UNCHANGED report
       \/ Answer(a, "refused")
    /\ seen' = [seen EXCEPT ![a] = authority]
    /\ UNCHANGED << note, authority, storeVars, line, preHead, expected >>

(* Mutant: any claim at all is taken for a claim of this cohort.           *)
AlreadyAny(a, head) ==
    IF ActOf[a].kind = "item"
    THEN head \in Acts /\ Digest(head) = Digest(a)
    ELSE Claimed # {}

(* Does this subject stand already?  A single proposal is looked for at    *)
(* the head of the chain, a cohort in the whole claim store.               *)
Already(a, head) ==
    IF ActOf[a].kind = "item"
    THEN head \in Acts /\ Digest(head) = Digest(a)
    ELSE SameSubject(Digest(a)) # {}

(* The standing claim is read, if it can be; a subject that is claimed     *)
(* already has its projections caught up; a note that has changed refuses; *)
(* anything else joins the service's chain.                                *)
Look(a) ==
    /\ pc[a] = "fetched"
    /\ \E head \in {Head0, Unread} :
          /\ preHead' = [preHead EXCEPT ![a] = head]
          /\ \/ /\ Already(a, head)
                /\ Goto(a, "healing")
                /\ UNCHANGED << line, report >>
             \/ /\ ~ Already(a, head)
                /\ Drifted(a)
                /\ Answer(a, "refused")
                /\ UNCHANGED line
             \/ /\ ~ Already(a, head)
                /\ ~ Drifted(a)
                /\ Goto(a, "waiting")
                /\ line' = Append(line, a)
                /\ UNCHANGED report
    /\ UNCHANGED << note, authority, storeVars, seen, expected >>

Heal(a) ==
    /\ pc[a] = "healing"
    /\ Project(Members(a))
    /\ Answer(a, "already")
    /\ UNCHANGED << note, storeVars, line, seen, preHead, expected >>

-----------------------------------------------------------------------------
(* The service's turn.                                                     *)

Gesture(a) == ActOf[a].gesture
GestureUnused(a) == Gesture(a) # NoGesture => \A c \in Claimed : Gesture(c) # Gesture(a)

(* Mutant: a mandate is trusted to be marked exhausted when it is.         *)
MandateAllowsUncounted(a) == ActOf[a].kind = "mandate" => mandate = "active"

MandateAllows(a) ==
    ActOf[a].kind = "mandate" => mandate = "active" /\ used < Budget

(* Verification of the notes as they are, and the refusal tables over the  *)
(* proposals as they were fetched.                                         *)
Admissible(a) ==
    /\ ~ Drifted(a)
    /\ \A p \in Members(a) : seen[a][p] = "proposed"
    /\ GestureUnused(a)
    /\ MandateAllows(a)

(* The refusal tables pass and the subject has no claim yet; or it has; or *)
(* some row refuses, be it one of the many not told apart here; or an      *)
(* evidence source throws.                                                 *)
Judge(a) ==
    /\ pc[a] = "waiting"
    /\ HasTurn(a)
    /\ \/ /\ Admissible(a)
          /\ SameSubject(Digest(a)) = {}
          /\ Goto(a, "judged")
          /\ expected' = [expected EXCEPT ![a] = Head0]
          /\ UNCHANGED << line, report >>
       \/ /\ Admissible(a)
          /\ SameSubject(Digest(a)) # {}
          /\ EndTurn
          /\ Answer(a, "already")
          /\ UNCHANGED expected
       \/ /\ EndTurn
          /\ Answer(a, "refused")
          /\ UNCHANGED expected
       \/ /\ EndTurn
          /\ Goto(a, "threw")
          /\ UNCHANGED << expected, report >>
    /\ UNCHANGED << note, authority, storeVars, seen, preHead >>

(* A step of the turn whose I/O fails: the turn ends, and the caller's     *)
(* catch goes on.                                                          *)
Throws(a) ==
    /\ pc[a] \in {"judged", "claimed", "advanced"}
    /\ EndTurn
    /\ Goto(a, "threw")
    /\ UNCHANGED << note, authority, storeVars, seen, preHead, expected, report >>

(* Mutant: the write of the claim is not waited for.                       *)
AppendClaimUnawaited(a) ==
    /\ pc[a] = "judged"
    /\ Goto(a, "claimed")
    /\ UNCHANGED << note, authority, evidenceVars, mandateVars, line, seen, preHead, expected,
                    report >>

(* Step 2: the claim, durable before anything moves.                       *)
AppendClaim(a) ==
    /\ pc[a] = "judged"
    /\ claims' = Append(claims, a)
    /\ Goto(a, "claimed")
    /\ UNCHANGED << note, authority, standing, settlements, mandateVars, line, seen, preHead,
                    expected, report >>

(* Mutant: the ref is written without comparing.                           *)
AdvanceBlindly(a) ==
    /\ pc[a] = "claimed"
    /\ standing' = Append(standing, a)
    /\ Goto(a, "advanced")
    /\ UNCHANGED << note, authority, claims, settlements, mandateVars, line, seen, preHead,
                    expected, report >>

(* Step 3: compare-and-swap of the standing ref.                           *)
Advance(a) ==
    /\ pc[a] = "claimed"
    /\ \/ /\ Head0 = expected[a]
          /\ standing' = Append(standing, a)
          /\ Goto(a, "advanced")
          /\ UNCHANGED << line, report >>
       \/ /\ Head0 # expected[a]
          /\ EndTurn
          /\ Answer(a, "moved")
          /\ UNCHANGED standing
    /\ UNCHANGED << note, authority, claims, settlements, mandateVars, seen, preHead, expected >>

(* Step 4: the settlement record; the turn of an act by gesture is over.   *)
Settle(a) ==
    /\ pc[a] = "advanced"
    /\ settlements' = settlements \cup {a}
    /\ IF ActOf[a].kind = "mandate"
       THEN Goto(a, "settled") /\ UNCHANGED line
       ELSE Goto(a, "projecting") /\ EndTurn
    /\ UNCHANGED << note, authority, claims, standing, mandateVars, seen, preHead,
                    expected, report >>

(* Those past the check of the budget and not charged yet.                 *)
PastCheck ==
    {a \in Acts : ActOf[a].kind = "mandate" /\ pc[a] \in {"judged", "claimed", "advanced", "settled"}}
        \cup {w \in Writes : produced[w] = "stamped"}

(* An active mandate is charged; the charge is of an act or a write.       *)
Counts(x, items) ==
    /\ mandate = "active"
    /\ used' = used + items
    /\ letIn' = IF used < Budget /\ used' >= Budget THEN PastCheck ELSE letIn
    /\ over' = IF used' >= Budget THEN over \cup {x} ELSE over

(* A breach that is seen stops the mandate; a store that fails leaves it.  *)
Observes ==
    \/ mandate = "active" /\ used >= Budget /\ mandate' = "exhausted"
    \/ UNCHANGED mandate

(* The charge, and then the observation of what it came to.  The failure   *)
(* of either - the mandate was revoked, the store failed - is only logged. *)
Charge(a) ==
    /\ pc[a] = "settled"
    /\ \/ /\ Counts(a, Cardinality(Members(a)))
          /\ Goto(a, "counted")
          /\ UNCHANGED line
       \/ /\ Goto(a, "projecting")
          /\ EndTurn
          /\ UNCHANGED << used, letIn, over >>
    /\ UNCHANGED << note, authority, evidenceVars, mandate, produced, seen, preHead, expected, report >>

Observe(a) ==
    /\ pc[a] = "counted"
    /\ Observes
    /\ Goto(a, "projecting")
    /\ EndTurn
    /\ UNCHANGED << note, authority, evidenceVars, used, produced, letIn, over, seen, preHead,
                    expected, report >>

-----------------------------------------------------------------------------
(* The observer: a write of an agent whose session runs under the mandate. *)

Advances(w, from, to) ==
    /\ produced[w] = from
    /\ produced' = [produced EXCEPT ![w] = to]

(* The write fits and is stamped; its snapshots and its proposal follow.   *)
(* One that does not fit is proposed unstamped, and nothing comes of it    *)
(* here.                                                                   *)
StampWrite(w) ==
    /\ Advances(w, "none", "stamped")
    /\ mandate = "active"
    /\ used < Budget
    /\ UNCHANGED << note, authority, evidenceVars, mandate, used, letIn, over, actVars >>

(* The stamped proposal is open and is charged; or something failed on the *)
(* way, and it never is.                                                   *)
ChargeWrite(w) ==
    /\ \/ Advances(w, "stamped", "counted") /\ Counts(w, 1)
       \/ Advances(w, "stamped", "ended") /\ UNCHANGED << used, letIn, over >>
    /\ UNCHANGED << note, authority, evidenceVars, mandate, actVars >>

ObserveBreach(w) ==
    /\ Advances(w, "counted", "ended")
    /\ Observes
    /\ UNCHANGED << note, authority, evidenceVars, used, letIn, over, actVars >>

WriteStep(w) == StampWrite(w) \/ ChargeWrite(w) \/ ObserveBreach(w)

-----------------------------------------------------------------------------
(* Back in the caller.                                                     *)

Projects(a) ==
    /\ pc[a] = "projecting"
    /\ Project(Members(a))
    /\ Answer(a, "ok")
    /\ UNCHANGED << note, storeVars, line, seen, preHead, expected >>

(* Mutant: any movement of the standing ref is taken for this act's.       *)
TookEffectIfMoved(a) ==
    /\ preHead[a] # Unread
    /\ Head0 # preHead[a]
    /\ Head0 \in Claimed

(* The catch: if the standing claim can be read and is another one than    *)
(* when the act began, and is for this subject, the act is taken to have   *)
(* succeeded without its record; a cohort's projections catch up.          *)
TookEffect(a) ==
    /\ preHead[a] # Unread
    /\ Head0 # preHead[a]
    /\ Head0 \in Claimed
    /\ Digest(Head0) = Digest(a)

Catch(a) ==
    /\ pc[a] = "threw"
    /\ \/ /\ TookEffect(a)
          /\ Answer(a, "degraded")
          /\ IF ActOf[a].kind = "item" THEN UNCHANGED authority ELSE Project(Members(a))
       \/ /\ Answer(a, "error")
          /\ UNCHANGED authority
    /\ UNCHANGED << note, storeVars, line, seen, preHead, expected >>

-----------------------------------------------------------------------------
(* revertToBase: a proposed change is written back and superseded.         *)

RevertStarts(a) ==
    /\ ~ Admits(a)
    /\ pc[a] = "idle"
    /\ \/ /\ \A p \in Members(a) : authority[p] = "proposed"
          /\ Goto(a, "reverting")
          /\ UNCHANGED report
       \/ Answer(a, "refused")
    /\ UNCHANGED << note, authority, storeVars, line, seen, preHead, expected >>

RevertWrites(a) ==
    /\ pc[a] = "reverting"
    /\ \/ /\ note' = [p \in Proposals |-> IF p \in Members(a) THEN "other" ELSE note[p]]
          /\ Goto(a, "written")
          /\ UNCHANGED report
       \/ /\ Answer(a, "error")
          /\ UNCHANGED note
    /\ UNCHANGED << authority, storeVars, line, seen, preHead, expected >>

RevertSupersedes(a) ==
    /\ pc[a] = "written"
    /\ \/ /\ \A p \in Members(a) : authority[p] # "admitted"
          /\ authority' = [p \in Proposals |->
                              IF p \in Members(a) THEN "superseded" ELSE authority[p]]
          /\ Answer(a, "reverted")
       \/ /\ Answer(a, "partial")
          /\ UNCHANGED authority
    /\ UNCHANGED << note, storeVars, line, seen, preHead, expected >>

-----------------------------------------------------------------------------
(* The surroundings.                                                       *)

(* A note is edited, or restored.                                          *)
Edit(p) ==
    /\ note' = [note EXCEPT ![p] = IF @ = "proposed" THEN "other" ELSE "proposed"]
    /\ UNCHANGED << authority, storeVars, actVars >>

Revoke ==
    /\ mandate = "active"
    /\ \E a \in Acts : ActOf[a].kind = "mandate" /\ pc[a] # "absent"
    /\ mandate' = "revoked"
    /\ UNCHANGED << note, authority, evidenceVars, used, produced, letIn, over, actVars >>

(* The standing ref is moved by something that is not this service.        *)
MovedElsewhere ==
    /\ Cardinality({i \in 1..Len(standing) : standing[i] = Elsewhere}) < MaxElsewhere
    /\ standing' = Append(standing, Elsewhere)
    /\ UNCHANGED << note, authority, claims, settlements, mandateVars, actVars >>

Ended(a) == pc[a] \in {"absent", "idle", "done", "killed"}
InFlight(w) == produced[w] \in {"stamped", "counted"}

(* The process dies and the plugin starts again.                           *)
Crash ==
    /\ (\E a \in Acts : ~ Ended(a)) \/ \E w \in Writes : InFlight(w)
    /\ pc' = [a \in Acts |-> IF Ended(a) THEN pc[a] ELSE "killed"]
    /\ produced' = [w \in Writes |-> IF InFlight(w) THEN "ended" ELSE produced[w]]
    /\ line' = << >>
    /\ UNCHANGED << note, authority, evidenceVars, mandate, used, letIn, over, seen, preHead,
                    expected, report >>

ActStep(a) ==
    \/ Fetch(a)
    \/ Look(a)
    \/ Heal(a)
    \/ Judge(a)
    \/ Throws(a)
    \/ AppendClaim(a)
    \/ Advance(a)
    \/ Settle(a)
    \/ Charge(a)
    \/ Observe(a)
    \/ Projects(a)
    \/ Catch(a)
    \/ RevertStarts(a)
    \/ RevertWrites(a)
    \/ RevertSupersedes(a)

Next ==
    \/ \E a \in Acts : ActStep(a)
    \/ \E w \in Writes : WriteStep(w)
    \/ \E p \in Edited : Edit(p)
    \/ Revoke
    \/ MovedElsewhere
    \/ Crash

Spec == Init /\ [][Next]_vars

(* Every read and write of an act that has begun is answered, one way or   *)
(* the other.                                                              *)
Fairness == \A a \in Acts : WF_vars(pc[a] # "idle" /\ ActStep(a))
FairSpec == Spec /\ Fairness

-----------------------------------------------------------------------------
(* Properties that hold.                                                   *)

(* "No window leaves a ref pointing at evidence that does not exist": with *)
(* crashes and failures anywhere, what stands has its claim in the store,  *)
(* and what is on record as settled stands.                                *)
StandingHasEvidence == Standing \ {Elsewhere} \subseteq Claimed /\ settlements \subseteq Standing

(* Two claims never decide the same subject, nor rest on the same gesture, *)
(* whoever raced and whichever checks outside the service were passed.     *)
OneSubjectOneClaim ==
    \A i, j \in 1..Len(claims) : i # j =>
        /\ Digest(claims[i]) # Digest(claims[j])
        /\ Gesture(claims[i]) # NoGesture => Gesture(claims[i]) # Gesture(claims[j])

(* A claim stands on top of the very claim it was decided against.         *)
StandsOnWhatItSaw ==
    \A i \in 1..Len(standing) : standing[i] # Elsewhere =>
        expected[standing[i]] = IF i = 1 THEN Nobody ELSE standing[i-1]

(* A claim of this subject came to stand after the act had looked.         *)
StoodMeanwhile(a) ==
    \E i \in 1..Len(standing) :
        /\ standing[i] \in SameSubject(Digest(a))
        /\ preHead[a] # Nobody => \E j \in 1..(i - 1) : standing[j] = preHead[a]

(* What an answer is worth.                                                *)
ReportIsTrue(a) ==
    /\ report[a] = "ok" => a \in Standing /\ a \in settlements
    /\ report[a] = "degraded" => StoodMeanwhile(a)
    /\ report[a] = "refused" => a \notin Claimed
    /\ report[a] = "already" => a \notin Claimed /\ SameSubject(Digest(a)) # {}
    /\ report[a] = "moved" => a \in Claimed \ Standing

(* What each answer of the door is worth.  An act reported as admitted     *)
(* stands and is settled.  Reported as degraded: while it was under way    *)
(* its subject came to stand, by this act or by another one's.  Refused:   *)
(* it left no claim behind.  Already admitted: nor did it, and the claim   *)
(* of another act is on file for the subject - on file, which is not to    *)
(* say that it ever stood.  Moved: its own claim is on file and does not   *)
(* stand.  An answer of error promises nothing.                            *)
ReportsAreTrue == \A a \in Acts : ReportIsTrue(a)

(* A proposal is shown as admitted only under a claim that covers it.      *)
AdmittedUnderClaim ==
    \A p \in Proposals : authority[p] = "admitted" => \E c \in Claimed : p \in Members(c)

(* A budget stops a mandate however many spend it at once: whoever charges *)
(* what reaches the budget, or comes after that, was past the check when   *)
(* it was reached - the writes in flight then, and one cohort at most.     *)
BudgetOvershotByThoseLetIn ==
    /\ over \subseteq letIn
    /\ \A a, b \in letIn \cap Acts : a = b

(* The service's chain holds those that have their turn or wait for it,    *)
(* once each, and only the head is past waiting.                           *)
InTurn == {"judged", "claimed", "advanced", "settled", "counted"}
OneTurnAtATime ==
    /\ \A i, j \in 1..Len(line) : line[i] = line[j] => i = j
    /\ \A a \in Acts : (\E i \in 1..Len(line) : line[i] = a) <=> pc[a] \in InTurn \cup {"waiting"}
    /\ \A a \in Acts : pc[a] \in InTurn => HasTurn(a)

(* Where an act is tells whether its claim is stored, stands and is        *)
(* settled; and a subject judged admissible stays so until its claim is    *)
(* stored, because nobody else has a turn.                                 *)
EvidencePlaces ==
    \A a \in Acts :
        /\ pc[a] \in {"claimed", "advanced", "settled", "counted", "projecting"} => a \in Claimed
        /\ pc[a] \in {"absent", "idle", "fetched", "healing", "waiting", "judged", "reverting", "written"}
              => a \notin Claimed
        /\ pc[a] \in {"advanced", "settled", "counted", "projecting"} => a \in Standing
        /\ pc[a] = "claimed" => a \notin Standing
        /\ pc[a] \in {"settled", "counted", "projecting"} => a \in settlements
        /\ pc[a] = "judged" => SameSubject(Digest(a)) = {} /\ GestureUnused(a)
        /\ preHead[a] \in Standing \cup {Nobody, Unread}
        /\ report[a] # "none" => pc[a] = "done"

(* What is being healed has its claim.                                     *)
HealsUnderClaim ==
    \A a \in Acts : pc[a] = "healing" => SameSubject(Digest(a)) # {}

(* The inductive invariant behind the theorems.                            *)
AdmissionInv ==
    /\ TypeOK
    /\ OneTurnAtATime
    /\ EvidencePlaces
    /\ StandingHasEvidence
    /\ OneSubjectOneClaim
    /\ StandsOnWhatItSaw
    /\ HealsUnderClaim
    /\ ReportsAreTrue

(* Every act is answered unless the process dies: neither a refusal nor a  *)
(* failure wedges the acts behind it.                                      *)
EveryActIsAnswered ==
    \A a \in Acts : pc[a] \notin {"absent", "idle"} ~> pc[a] \in {"done", "killed"}
=============================================================================
