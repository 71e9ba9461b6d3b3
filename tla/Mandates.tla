------------------------------- MODULE Mandates -------------------------------
(***************************************************************************)
(* Bounded delegation: an agent drafts a mandate or counters a draft, a    *)
(* human grants, declines or revokes in the pane, and the proposals an     *)
(* agent produces under a grant are stamped with it and charged to it.     *)
(* All of it is one event log (module EventLog) and a fold over it.        *)
(*                                                                         *)
(* The fold is stated by position rather than by replay.  Every transition *)
(* is kept by the first event that makes it, except that a revocation      *)
(* overrides, so a status is the first event that settled the draft or     *)
(* the mandate.                                                            *)
(*                                                                         *)
(* A decision - the folds, the checks and the queueing of the append - is  *)
(* one step: with the cache filled its awaits are of values already there, *)
(* and nothing that waits for the file can come in between.  Expiry is     *)
(* left out: a grant's lifetime only adds refusals to those modelled.      *)
(***************************************************************************)
EXTENDS EventLog, FiniteSets, FiniteSetsExt

CONSTANTS
    Agents,     \* calls of agents: drafts, and writes seen by the observer
    Humans,     \* gestures in the pane that may be under way at once
    Ids,        \* identifiers, of drafts and of mandates
    None,       \* no identifier
    Budget,     \* proposals a mandate allows
    MaxEvents,  \* bound on the events recorded or about to be
    MaxMisled   \* the same, once something was decided on an overtaken cache

ASSUME MandatesAssumption ==
    /\ Callers = Agents \cup Humans
    /\ Agents \cap Humans = {}
    /\ IsFiniteSet(Callers)
    /\ Ids \subseteq Nat \ {0}
    /\ IsFiniteSet(Ids)
    /\ None = 0
    /\ Budget \in Nat \ {0}
    /\ MaxEvents \in Nat /\ MaxMisled \in Nat

VARIABLES
    pc,       \* caller -> where it is
    job,      \* caller -> what it does, and to which draft or mandate
    cut,      \* history: mandates whose observation was cut off
    misled    \* history: something was decided on an overtaken cache

callVars == << pc, job, cut, misled >>
vars == << logVars, callVars >>

PCs == {"idle", "deciding", "recording", "landing"}
Ops == {"none", "draft", "activate", "decline", "revoke", "stamp", "charge", "observe"}
Kinds == {"drafted", "declined", "activated", "usage", "revoked", "exhausted"}
IdOrNone == Ids \cup {None}

(* `refers` is what a draft counters, or what an activation supersedes.    *)
MandateEvents ==
    [kind : Kinds, draft : IdOrNone, mandate : IdOrNone, refers : IdOrNone]

ASSUME EventsAssumption == Events = MandateEvents

EventOf(kind, draft, mandate, refers) ==
    [kind |-> kind, draft |-> draft, mandate |-> mandate, refers |-> refers]

-----------------------------------------------------------------------------
(* The fold.                                                               *)

Places(log, P(_)) == {i \in DOMAIN log : P(log[i])}

DraftedAt(log, d) == Places(log, LAMBDA e : e.kind = "drafted" /\ e.draft = d)
GrantedAt(log, m) == Places(log, LAMBDA e : e.kind = "activated" /\ e.mandate = m)
Drafts(log) == {d \in Ids : DraftedAt(log, d) # {}}
Mandates(log) == {m \in Ids : GrantedAt(log, m) # {}}

CounterOf(log, d) == log[Min(DraftedAt(log, d))].refers
DraftOf(log, m) == log[Min(GrantedAt(log, m))].draft

(* A draft is settled by its counter, by a decline or by its activation.   *)
SettlesDraft(e, d) ==
    \/ e.kind = "drafted" /\ e.refers = d
    \/ e.kind \in {"declined", "activated"} /\ e.draft = d
IsOpen(log, d) ==
    d \in Drafts(log) /\ Places(log, LAMBDA e : SettlesDraft(e, d)) = {}

EndsMandate(e, m) ==
    \/ e.kind = "activated" /\ e.refers = m
    \/ e.kind \in {"revoked", "exhausted"} /\ e.mandate = m
EndedAt(log, m) == Places(log, LAMBDA e : EndsMandate(e, m))
IsActive(log, m) == m \in Mandates(log) /\ EndedAt(log, m) = {}

UsageAt(log, m) == Places(log, LAMBDA e : e.kind = "usage" /\ e.mandate = m)
Used(log, m) == Cardinality(UsageAt(log, m))

(* The drafts a draft descends from, nearest first; None once past the     *)
(* first.                                                                  *)
Lineage(log, d) ==
    LET up[k \in 1..Cardinality(Ids)] ==
            LET below == IF k = 1 THEN d ELSE up[k - 1]
            IN  IF below \in Drafts(log) THEN CounterOf(log, below) ELSE None
    IN  up

GrantsOf(log, d) == {m \in Mandates(log) : DraftOf(log, m) = d /\ IsActive(log, m)}

(* Mutant: only the draft it counters is looked at.                        *)
PriorOfParent(log, d) ==
    LET grants == GrantsOf(log, Lineage(log, d)[1])
    IN  IF grants = {} THEN None ELSE CHOOSE m \in grants : TRUE

(* The active grant nearest up the chain of counters.                      *)
Prior(log, d) ==
    LET up == Lineage(log, d)
        with == {k \in 1..Cardinality(Ids) : GrantsOf(log, up[k]) # {}}
    IN  IF with = {} THEN None
        ELSE CHOOSE m \in GrantsOf(log, up[Min(with)]) :
                \A n \in GrantsOf(log, up[Min(with)]) :
                    Min(GrantedAt(log, m)) <= Min(GrantedAt(log, n))

-----------------------------------------------------------------------------
(* State.                                                                  *)

TypeOK ==
    /\ LogTypeOK
    /\ pc \in [Callers -> PCs]
    /\ job \in [Callers -> [op : Ops, id : IdOrNone]]
    /\ cut \subseteq Ids
    /\ misled \in BOOLEAN
    /\ \A c \in Callers : pc[c] = "idle" <=> job[c].op = "none"
    /\ \A c \in Callers : pc[c] = "landing" <=> \E i \in DOMAIN chain : chain[i].by = c

NoJob == [op |-> "none", id |-> None]
Job(op, id) == [op |-> op, id |-> id]

Init ==
    /\ LogInit
    /\ pc = [c \in Callers |-> "idle"]
    /\ job = [c \in Callers |-> NoJob]
    /\ cut = {}
    /\ misled = FALSE

Ends(c) ==
    /\ pc' = [pc EXCEPT ![c] = "idle"]
    /\ job' = [job EXCEPT ![c] = NoJob]

(* Identifiers are minted, never used before.                              *)
Unused ==
    LET used == {disk[i].draft : i \in DOMAIN disk} \cup {disk[i].mandate : i \in DOMAIN disk}
                \cup {chain[i].event.draft : i \in DOMAIN chain}
                \cup {chain[i].event.mandate : i \in DOMAIN chain}
    IN  Ids \ used

Busy == {c \in Callers : pc[c] # "idle"}
HasRoom ==
    Len(disk) + Cardinality(Busy) < IF misled THEN MaxMisled ELSE MaxEvents

-----------------------------------------------------------------------------
(* Starting.                                                               *)

Starts(c, op, id) ==
    /\ pc[c] = "idle"
    /\ pc' = [pc EXCEPT ![c] = "deciding"]
    /\ job' = [job EXCEPT ![c] = Job(op, id)]
    /\ UNCHANGED << logVars, cut, misled >>

(* An agent drafts, or counters a draft it was told of.                    *)
AuthorDraft(c, counterOf) ==
    /\ Starts(c, "draft", counterOf)
    /\ counterOf \in Drafts(disk) \cup {None}

(* The observer has seen an agent's write whose session runs under m.      *)
ObserveWrite(c, m) ==
    /\ Starts(c, "stamp", m)
    /\ m \in Mandates(disk)

Gestures == {"activate", "decline", "revoke"}

(* A row of the pane, perhaps no longer true, is acted upon.               *)
Gesture(c, op, id) ==
    /\ Starts(c, op, id)
    /\ id \in IF op = "revoke" THEN Mandates(disk) ELSE Drafts(disk)

-----------------------------------------------------------------------------
(* Deciding: fold, check, and queue the event or stop.                     *)

Records(c, event) ==
    /\ Enqueue(c, event)
    /\ pc' = [pc EXCEPT ![c] = "landing"]
    /\ UNCHANGED << job, cut >>

Declines(c) ==
    /\ Ends(c)
    /\ UNCHANGED << logVars, cut >>

Deciding(c, op) == pc[c] = "deciding" /\ job[c].op = op

DecideDraft(c) ==
    /\ Deciding(c, "draft")
    /\ LET of == job[c].id
       IN  IF of # None /\ of \notin Drafts(lines)
             THEN Declines(c)
             ELSE /\ Unused # {}
                  /\ Records(c, EventOf("drafted", Min(Unused), None, of))

DecideActivate(c) ==
    /\ Deciding(c, "activate")
    /\ LET d == job[c].id
       IN  IF ~ IsOpen(lines, d)
             THEN Declines(c)
             ELSE /\ Unused # {}
                  /\ Records(c, EventOf("activated", d, Min(Unused), Prior(lines, d)))

DecideDecline(c) ==
    /\ Deciding(c, "decline")
    /\ IF IsOpen(lines, job[c].id)
         THEN Records(c, EventOf("declined", job[c].id, None, None))
         ELSE Declines(c)

DecideRevoke(c) ==
    /\ Deciding(c, "revoke")
    /\ IF job[c].id \in Mandates(lines)
         THEN Records(c, EventOf("revoked", None, job[c].id, None))
         ELSE Declines(c)

(* Mutant: the production fit does not ask what has been used.             *)
FitsByStatus(log, m) == IsActive(log, m)

(* The production fit, as far as status and budget go.                     *)
Fits(log, m) == IsActive(log, m) /\ Used(log, m) < Budget

(* A write that does not fit is proposed unstamped, and charges nothing.   *)
DecideStamp(c) ==
    /\ Deciding(c, "stamp")
    /\ IF Fits(lines, job[c].id)
         THEN /\ pc' = [pc EXCEPT ![c] = "recording"]
              /\ UNCHANGED << logVars, job, cut >>
         ELSE Declines(c)

(* The charge is refused, and swallowed, if the grant has ended meanwhile. *)
DecideCharge(c) ==
    /\ Deciding(c, "charge")
    /\ IF IsActive(lines, job[c].id)
         THEN Records(c, EventOf("usage", None, job[c].id, None))
         ELSE Declines(c)

(* Mutant: the budget must be exceeded to be breached.                     *)
BreachedBeyond(log, m) == IsActive(log, m) /\ Used(log, m) > Budget

Breached(log, m) == IsActive(log, m) /\ Used(log, m) >= Budget

(* After its charge the producer looks whether the budget is spent.        *)
DecideObserve(c) ==
    /\ Deciding(c, "observe")
    /\ IF Breached(lines, job[c].id)
         THEN Records(c, EventOf("exhausted", None, job[c].id, None))
         ELSE Declines(c)

Decide(c) ==
    /\ warm /\ reading[c] = "none"
    /\ \/ DecideDraft(c)
       \/ DecideActivate(c)
       \/ DecideDecline(c)
       \/ DecideRevoke(c)
       \/ DecideStamp(c)
       \/ DecideCharge(c)
       \/ DecideObserve(c)
    /\ misled' = (misled \/ overtaken)

-----------------------------------------------------------------------------
(* The rest of a call.                                                     *)

(* The first fold of a call fills the cache when nothing has.              *)
Fetch(c) ==
    /\ pc[c] = "deciding"
    /\ Fill(c)
    /\ UNCHANGED callVars

(* The snapshots are recorded and the stamped proposal opened, or they are *)
(* not and nothing is charged.                                             *)
OpenProposal(c) ==
    /\ pc[c] = "recording"
    /\ \/ /\ pc' = [pc EXCEPT ![c] = "deciding"]
          /\ job' = [job EXCEPT ![c].op = "charge"]
       \/ Ends(c)
    /\ UNCHANGED << logVars, cut, misled >>

(* The next append of the chain reaches the file; who charged goes on to   *)
(* observe the budget.                                                     *)
AppendLands ==
    /\ Land
    /\ LET c == Head(chain).by
       IN  IF job[c].op = "charge"
             THEN /\ pc' = [pc EXCEPT ![c] = "deciding"]
                  /\ job' = [job EXCEPT ![c].op = "observe"]
             ELSE Ends(c)
    /\ UNCHANGED << cut, misled >>

Observing(c) == job[c].op = "observe" \/ (pc[c] = "landing" /\ job[c].op = "charge")

AppendRejected ==
    /\ AppendFails
    /\ Ends(Head(chain).by)
    /\ cut' = cut \cup {job[c].id : c \in {d \in {Head(chain).by} : Observing(d)}}
    /\ UNCHANGED misled

Crash ==
    /\ warm \/ Busy # {}
    /\ Restart
    /\ pc' = [c \in Callers |-> "idle"]
    /\ job' = [c \in Callers |-> NoJob]
    /\ cut' = cut \cup {job[c].id : c \in {d \in Callers : Observing(d)}}
    /\ UNCHANGED misled

CallStep(c) == Fetch(c) \/ Decide(c) \/ OpenProposal(c)

CallStarts ==
    /\ HasRoom
    /\ \/ \E c \in Agents, of \in IdOrNone : AuthorDraft(c, of)
       \/ \E c \in Agents, m \in Ids : ObserveWrite(c, m)
       \/ \E c \in Humans, op \in Gestures, id \in Ids : Gesture(c, op, id)

Next ==
    \/ CallStarts
    \/ \E c \in Callers : CallStep(c)
    \/ AppendLands
    \/ AppendRejected
    \/ Crash

Spec == Init /\ [][Next]_vars

-----------------------------------------------------------------------------
(* Properties, as long as nothing was decided on an overtaken cache.       *)

Descends(log, d, old) == \E k \in DOMAIN Lineage(log, d) : Lineage(log, d)[k] = old

(* Amendment by replacement: however drafts are countered while a grant is *)
(* on its way, of two active grants neither is of a draft the other's      *)
(* draft descends from, and no draft has two.                              *)
AmendmentReplaces ==
    ~ misled =>
        \A m, n \in Mandates(disk) :
            (m # n /\ IsActive(disk, m) /\ IsActive(disk, n)) =>
                /\ DraftOf(disk, m) # DraftOf(disk, n)
                /\ ~ Descends(disk, DraftOf(disk, m), DraftOf(disk, n))

(* The durable usage of a mandate exceeds its budget by at most the        *)
(* producers that were past the fit when the last of it was spent.         *)
OvershootBounded ==
    ~ misled =>
        \A m \in Mandates(disk) : Used(disk, m) <= Budget + Cardinality(Agents) - 1

(* A spent budget stops: once nobody is between a charge and its           *)
(* observation, a mandate used up is not active - unless that observation  *)
(* was itself cut off, by a failed append or a restart.                    *)
SpentBudgetStops ==
    ~ misled =>
        \A m \in Mandates(disk) \ cut :
            (Used(disk, m) >= Budget /\ \A c \in Callers : job[c].id = m => ~ Observing(c))
                => ~ IsActive(disk, m)

(* No charge is queued against a grant whose end is on record, however     *)
(* long the production it pays for took, unless the cache is overtaken     *)
(* just then.                                                              *)
NoChargeAfterEnd ==
    [][\A m \in Mandates(disk) :
        (/\ ~ overtaken
         /\ Len(chain') > Len(chain)
         /\ chain'[Len(chain')].event = EventOf("usage", None, m, None))
            => IsActive(disk, m)]_vars
=============================================================================
