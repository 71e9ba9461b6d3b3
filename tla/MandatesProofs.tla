---------------------------- MODULE MandatesProofs ----------------------------
(***************************************************************************)
(* Proofs about the event log, for any callers and any events - the        *)
(* variables keep their types, and the cache is the file until a read that *)
(* overlapped another takes it back behind an append - and about the       *)
(* mandates folded from it: what is used of a budget, what happens when it *)
(* is spent, and that an amendment replaces the grant it amends.           *)
(***************************************************************************)
EXTENDS Mandates, FiniteSetTheorems, WellFoundedInduction, TLAPS

-----------------------------------------------------------------------------
(* The event log.                                                          *)

(* Every entry of the chain is its caller's only one, and the caller holds *)
(* an array: the cached one, unless the cache was overtaken.               *)
ChainHeld ==
    /\ \A i \in DOMAIN chain : held[chain[i].by] # "none"
    /\ ~ overtaken => \A i \in DOMAIN chain : held[chain[i].by] = "current"
    /\ \A i, j \in DOMAIN chain : i # j => chain[i].by # chain[j].by

(* Nothing is appended before the cache is filled, so until then what any  *)
(* read returned is still the file.                                        *)
ReadsFresh ==
    /\ ~ warm => chain = << >>
    /\ ~ warm => \A c \in Callers : reading[c] = "answered" => copy[c] = disk

CacheInv == LogTypeOK /\ ChainHeld /\ ReadsFresh /\ CacheIsTheRecord

-----------------------------------------------------------------------------
(* What Tail leaves.                                                       *)
LEMMA TailFacts ==
    ASSUME NEW S, NEW s \in Seq(S), s # << >>
    PROVE  /\ Tail(s) \in Seq(S)
           /\ Head(s) \in S /\ Head(s) = s[1] /\ 1 \in DOMAIN s
           /\ \A i \in DOMAIN Tail(s) : Tail(s)[i] = s[i + 1] /\ i + 1 \in DOMAIN s /\ i + 1 # 1
           /\ DOMAIN Tail(s) \subseteq Nat /\ DOMAIN s \subseteq Nat
  OBVIOUS

(* The record starts and restarts from empty sequences.                    *)
LEMMA EmptyReads == [c \in Callers |-> << >>] \in [Callers -> Seq(Events)]
<1>1. << >> \in Seq(Events)
  OBVIOUS
<1> QED  BY <1>1, Zenon

(* Every step keeps every variable within its type.                        *)
LEMMA LogTypeStep == ASSUME LogTypeOK, [LogNext]_logVars PROVE LogTypeOK'
<1> USE DEF LogTypeOK, ReadStates, Arrays, Entry
<1>1. CASE UNCHANGED logVars
  BY <1>1 DEF logVars
<1>2. ASSUME NEW c \in Callers, Fill(c) PROVE LogTypeOK'
  <2>1. CASE Ask(c)
    BY <2>1 DEF Ask
  <2>2. CASE FileRead(c)
    BY <2>2 DEF FileRead
  <2>3. CASE Take(c)
    <3>1. copy' \in [Callers -> Seq(Events)]
      <4>1. << >> \in Seq(Events)
        OBVIOUS
      <4> QED  BY <4>1, <2>3 DEF Take
    <3> QED  BY <2>3, <3>1 DEF Take
  <2> QED  BY <1>2, <2>1, <2>2, <2>3 DEF Fill
<1>3. ASSUME NEW c \in Callers, NEW e \in Events, Enqueue(c, e) PROVE LogTypeOK'
  BY <1>3 DEF Enqueue
<1>4. CASE AppendFails
  BY <1>4, TailFacts DEF AppendFails, Released
<1>5. CASE Land
  <2>1. chain \in Seq(Entry) /\ chain # << >>
    BY <1>5 DEF Land
  <2>2. Head(chain) \in Entry /\ Tail(chain) \in Seq(Entry)
    BY <2>1, TailFacts
  <2>3. Head(chain).event \in Events
    BY <2>2
  <2>4. disk' \in Seq(Events) /\ lines' \in Seq(Events)
    BY <1>5, <2>3 DEF Land
  <2> QED  BY <1>5, <2>2, <2>4 DEF Land, Released
<1>6. CASE Restart
  <2>1. copy' \in [Callers -> Seq(Events)]
    BY <1>6, EmptyReads DEF Restart
  <2>2. lines' \in Seq(Events) /\ chain' \in Seq(Entry) /\ UNCHANGED disk
    BY <1>6 DEF Restart
  <2>3. /\ warm' \in BOOLEAN /\ reading' \in [Callers -> ReadStates]
        /\ held' \in [Callers -> Arrays] /\ overtaken' \in BOOLEAN
    BY <1>6 DEF Restart
  <2> QED  BY <2>1, <2>2, <2>3
<1> QED  BY <1>1, <1>2, <1>3, <1>4, <1>5, <1>6 DEF LogNext

(* What the chain loses at its head leaves the rest held.                  *)
LEMMA TailHeld ==
    ASSUME LogTypeOK, ChainHeld, chain # << >>, chain' = Tail(chain), held' = Released,
           overtaken' = overtaken
    PROVE  ChainHeld'
<1>1. /\ \A i \in DOMAIN chain' : chain'[i] = chain[i + 1] /\ i + 1 \in DOMAIN chain /\ i + 1 # 1
      /\ Head(chain) = chain[1] /\ 1 \in DOMAIN chain
      /\ DOMAIN chain' \subseteq Nat
  BY TailFacts DEF LogTypeOK
<1>2. \A i \in DOMAIN chain : chain[i] \in Entry
  BY DEF LogTypeOK
<1>3. ASSUME NEW i \in DOMAIN chain'
      PROVE  held'[chain'[i].by] # "none" /\ (~ overtaken => held'[chain'[i].by] = "current")
  <2>1. /\ chain'[i].by # Head(chain).by /\ chain'[i].by \in Callers
        /\ held[chain'[i].by] # "none" /\ (~ overtaken => held[chain'[i].by] = "current")
    BY <1>1, <1>2 DEF ChainHeld, Entry
  <2> QED  BY <2>1 DEF Released, LogTypeOK
<1>4. ASSUME NEW i \in DOMAIN chain', NEW j \in DOMAIN chain', i # j
      PROVE  chain'[i].by # chain'[j].by
  <2>1. i \in Nat /\ j \in Nat /\ i + 1 # j + 1
    BY <1>1, <1>4
  <2> QED  BY <1>1, <2>1 DEF ChainHeld
<1> QED  BY <1>3, <1>4 DEF ChainHeld

(* Every step keeps the cache the record, or overtakes it.                 *)
LEMMA CacheStep ==
    ASSUME CacheInv, [LogNext]_logVars
    PROVE  CacheInv'
<1> USE DEF CacheInv, ReadsFresh, CacheIsTheRecord
<1>0. LogTypeOK'
  BY LogTypeStep
<1>1. CASE UNCHANGED logVars
  BY <1>0, <1>1 DEF logVars, ChainHeld
<1>2. ASSUME NEW c \in Callers, Ask(c) PROVE CacheInv'
  BY <1>0, <1>2 DEF Ask, ChainHeld, LogTypeOK
<1>3. ASSUME NEW c \in Callers, FileRead(c) PROVE CacheInv'
  BY <1>0, <1>3 DEF FileRead, ChainHeld, LogTypeOK
<1>4. ASSUME NEW c \in Callers, Take(c) PROVE CacheInv'
  <2>1. ~ warm => chain = << >> /\ copy[c] = disk
    BY <1>4 DEF Take
  <2>2. ~ overtaken' => chain = << >> /\ copy[c] = disk
    BY <1>4, <2>1 DEF Take
  <2>3. UNCHANGED << disk, chain >> /\ warm' /\ lines' = copy[c]
    BY <1>4 DEF Take
  <2>4. \A i \in DOMAIN chain : chain[i].by \in Callers
    <3>1. \A i \in DOMAIN chain : chain[i] \in Entry
      BY <1>0 DEF LogTypeOK
    <3> QED  BY <3>1 DEF Entry
  <2>5. \A d \in Callers : held[d] # "none" => held'[d] # "none"
    BY <1>4 DEF Take, LogTypeOK
  <2>6. \A i \in DOMAIN chain' : held'[chain'[i].by] # "none"
    BY <2>3, <2>4, <2>5 DEF ChainHeld
  <2>7. ~ overtaken' => DOMAIN chain' = {}
    BY <2>2, <2>3
  <2>8. ChainHeld'
    BY <2>3, <2>6, <2>7 DEF ChainHeld
  <2> QED  BY <1>0, <2>2, <2>3, <2>8
<1>5. ASSUME NEW c \in Callers, NEW e \in Events, Enqueue(c, e) PROVE CacheInv'
  <2>1. /\ \A i \in DOMAIN chain : chain[i] \in Entry /\ chain'[i] = chain[i] /\ chain[i].by # c
        /\ DOMAIN chain' = DOMAIN chain \cup {Len(chain) + 1}
        /\ chain'[Len(chain) + 1].by = c
    <3>1. DOMAIN chain = 1..Len(chain) /\ Len(chain) \in Nat /\ chain \in Seq(Entry)
      BY DEF LogTypeOK
    <3>2. DOMAIN chain' = 1..(Len(chain) + 1) /\ \A i \in 1..Len(chain) : chain'[i] = chain[i]
      BY <1>5, <3>1 DEF Enqueue
    <3>3. chain'[Len(chain) + 1] = [by |-> c, event |-> e]
      BY <1>5, <3>1 DEF Enqueue
    <3> QED  BY <1>5, <3>1, <3>2, <3>3 DEF Enqueue, ChainHeld
  <2>2. ChainHeld'
    BY <1>5, <2>1 DEF Enqueue, ChainHeld, LogTypeOK, Entry
  <2> QED  BY <1>0, <1>5, <2>2 DEF Enqueue
<1>6. CASE AppendFails
  <2>1. ChainHeld'
    BY <1>6, TailHeld DEF AppendFails
  <2>2. warm
    BY <1>6 DEF AppendFails
  <2> QED  BY <1>0, <1>6, <2>1, <2>2 DEF AppendFails
<1>7. CASE Land
  <2>1. ChainHeld'
    BY <1>7, TailHeld DEF Land
  <2>2. warm /\ (~ overtaken => held[Head(chain).by] = "current")
    BY <1>7, TailFacts DEF Land, ChainHeld, LogTypeOK
  <2> QED  BY <1>0, <1>7, <2>1, <2>2 DEF Land
<1>8. CASE Restart
  BY <1>0, <1>8 DEF Restart, ChainHeld
<1> QED  BY <1>1, <1>2, <1>3, <1>4, <1>5, <1>6, <1>7, <1>8 DEF LogNext, Fill

LEMMA CacheInit == LogInit => CacheInv
<1> SUFFICES ASSUME LogInit PROVE CacheInv
  OBVIOUS
<1>1. copy \in [Callers -> Seq(Events)]
  BY EmptyReads DEF LogInit
<1>2. disk \in Seq(Events) /\ lines \in Seq(Events) /\ chain \in Seq(Entry)
  BY DEF LogInit
<1>3. LogTypeOK
  BY <1>1, <1>2 DEF LogInit, LogTypeOK, ReadStates, Arrays
<1>4. DOMAIN chain = {} /\ \A c \in Callers : reading[c] = "none"
  BY DEF LogInit
<1> QED  BY <1>3, <1>4 DEF LogInit, CacheInv, ChainHeld, ReadsFresh, CacheIsTheRecord

-----------------------------------------------------------------------------
(* The variables of the log keep their types.                              *)
THEOREM LogTypeCorrect == LogSpec => []LogTypeOK
<1>1. LogInit => LogTypeOK
  BY CacheInit DEF CacheInv
<1> QED  BY <1>1, LogTypeStep, PTL DEF LogSpec

(* Memory is the durable record, whatever calls, failures and restarts     *)
(* interleave, until a read that was out beside another's takes it back    *)
(* behind an append; a restart makes it good.                              *)
THEOREM CacheCorrect == LogSpec => []CacheIsTheRecord
<1>1. CacheInv /\ [LogNext]_logVars => CacheInv'
  BY CacheStep
<1>2. CacheInv => CacheIsTheRecord
  BY DEF CacheInv
<1> QED  BY <1>1, <1>2, CacheInit, PTL DEF LogSpec

-----------------------------------------------------------------------------
(* The fold.                                                               *)

(* A nonempty set of naturals has a least member.                          *)
LEMMA LeastNatural ==
    ASSUME NEW S \in SUBSET Nat, S # {}
    PROVE  Min(S) \in S /\ \A x \in S : Min(S) <= x
<1>1. PICK x \in S : \A y \in S : ~ (<< y, x >> \in OpToRel(<, Nat))
  BY NatLessThanWellFounded, WFMin
<1>2. ASSUME NEW y \in S PROVE x <= y
  <2>1. ~ (<< y, x >> \in OpToRel(<, Nat))
    BY <1>1
  <2>2. ~ (y < x)
    BY <2>1 DEF OpToRel
  <2> QED  BY <2>2
<1> QED  BY <1>1, <1>2, Zenon DEF Min

(* An identifier minted is one of the identifiers.                         *)
LEMMA MintedIsId == ASSUME Unused # {} PROVE Min(Unused) \in Ids
<1>1. Unused \in SUBSET Nat /\ Unused \subseteq Ids
  BY MandatesAssumption DEF Unused
<1> QED  BY <1>1, LeastNatural

LEMMA FirstGrantOf ==
    ASSUME NEW log, DOMAIN log \subseteq Nat, NEW m \in Mandates(log)
    PROVE  Min(GrantedAt(log, m)) \in Nat
<1>1. GrantedAt(log, m) \in SUBSET Nat /\ GrantedAt(log, m) # {}
  BY DEF Mandates, GrantedAt, Places
<1> QED  BY <1>1, LeastNatural

(* The grant an activation supersedes is of the nearest ancestor that has  *)
(* one active.                                                             *)
LEMMA PriorIsNearest ==
    ASSUME NEW log, DOMAIN log \subseteq Nat, NEW d,
           {k \in 1..Cardinality(Ids) : GrantsOf(log, Lineage(log, d)[k]) # {}} # {}
    PROVE  LET with == {k \in 1..Cardinality(Ids) : GrantsOf(log, Lineage(log, d)[k]) # {}}
           IN  Prior(log, d) \in GrantsOf(log, Lineage(log, d)[Min(with)])
<1> DEFINE up == Lineage(log, d)
           with == {k \in 1..Cardinality(Ids) : GrantsOf(log, up[k]) # {}}
           grants == GrantsOf(log, up[Min(with)])
           first == {Min(GrantedAt(log, m)) : m \in grants}
<1>1. with \in SUBSET Nat
  OBVIOUS
<1>2. Min(with) \in with
  BY <1>1, LeastNatural
<1>3. grants # {} /\ grants \subseteq Mandates(log)
  BY <1>2 DEF GrantsOf
<1>4. first \in SUBSET Nat /\ first # {}
  BY <1>3, FirstGrantOf
<1>5. \E m \in grants : \A n \in grants : Min(GrantedAt(log, m)) <= Min(GrantedAt(log, n))
  <2>1. Min(first) \in first /\ \A x \in first : Min(first) <= x
    BY <1>4, LeastNatural
  <2> QED  BY <2>1
<1>6. Prior(log, d) \in grants
  <2>1. Prior(log, d) = CHOOSE m \in grants :
                           \A n \in grants : Min(GrantedAt(log, m)) <= Min(GrantedAt(log, n))
    BY DEF Prior
  <2> HIDE DEF grants
  <2> QED  BY <1>5, <2>1
<1> QED  BY <1>6

(* It is an identifier, or none.                                           *)
LEMMA PriorIsId ==
    ASSUME NEW log, DOMAIN log \subseteq Nat, NEW d
    PROVE  Prior(log, d) \in IdOrNone
<1> DEFINE with == {k \in 1..Cardinality(Ids) : GrantsOf(log, Lineage(log, d)[k]) # {}}
<1>1. CASE with = {}
  BY <1>1 DEF Prior, IdOrNone
<1>2. CASE with # {}
  BY <1>2, PriorIsNearest DEF GrantsOf, Mandates, IdOrNone
<1> QED  BY <1>1, <1>2

(* What one more event does to the places of a kind.                       *)
LEMMA PlacesAppend ==
    ASSUME NEW log \in Seq(MandateEvents), NEW e \in MandateEvents, NEW m
    PROVE  LET longer == Append(log, e)
           IN  /\ UsageAt(longer, m) = UsageAt(log, m)
                     \cup (IF e.kind = "usage" /\ e.mandate = m THEN {Len(log) + 1} ELSE {})
               /\ EndedAt(longer, m) = EndedAt(log, m)
                     \cup (IF EndsMandate(e, m) THEN {Len(log) + 1} ELSE {})
               /\ GrantedAt(log, m) \subseteq GrantedAt(longer, m)
               /\ DraftedAt(log, m) \subseteq DraftedAt(longer, m)
               /\ UsageAt(log, m) \subseteq 1..Len(log)
<1> DEFINE longer == Append(log, e)
<1>1. /\ DOMAIN log = 1..Len(log) /\ Len(log) \in Nat
      /\ DOMAIN longer = 1..(Len(log) + 1)
      /\ longer[Len(log) + 1] = e
      /\ \A i \in 1..Len(log) : longer[i] = log[i]
  OBVIOUS
<1>2. DOMAIN longer = DOMAIN log \cup {Len(log) + 1} /\ Len(log) + 1 \notin DOMAIN log
  BY <1>1
<1> HIDE DEF longer
<1>3. UsageAt(longer, m) = UsageAt(log, m)
                     \cup (IF e.kind = "usage" /\ e.mandate = m THEN {Len(log) + 1} ELSE {})
  BY <1>1, <1>2 DEF UsageAt, Places
<1>4. EndedAt(longer, m) = EndedAt(log, m)
                     \cup (IF EndsMandate(e, m) THEN {Len(log) + 1} ELSE {})
  <2>1. \A i \in DOMAIN log : EndsMandate(longer[i], m) <=> EndsMandate(log[i], m)
    BY <1>1
  <2> QED  BY <1>1, <1>2, <2>1 DEF EndedAt, Places
<1>5. GrantedAt(log, m) \subseteq GrantedAt(longer, m) /\ DraftedAt(log, m) \subseteq DraftedAt(longer, m)
  BY <1>1, <1>2 DEF GrantedAt, DraftedAt, Places
<1>6. UsageAt(log, m) \subseteq 1..Len(log)
  BY <1>1 DEF UsageAt, Places
<1> QED  BY <1>3, <1>4, <1>5, <1>6 DEF longer

-----------------------------------------------------------------------------
(* The inductive invariant.                                                *)

Producing == {"stamp", "charge", "observe"}

(* Producers are agents, and what they produce under was granted; only a   *)
(* stamped write is between the fit and its charge without an append.      *)
Roles ==
    /\ \A c \in Callers : job[c].op \in Producing => c \in Agents /\ job[c].id \in Mandates(disk)
    /\ \A c \in Callers : pc[c] = "recording" => job[c].op = "stamp"
    /\ \A c \in Callers : pc[c] = "landing" => job[c].op # "stamp"

(* The event `e` says what the job `j` is.                                 *)
Says(e, j) ==
    /\ e.kind = "usage" <=> j.op = "charge"
    /\ j.op = "charge" => e = EventOf("usage", None, j.id, None)
    /\ j.op = "observe" => e.kind = "exhausted" /\ e.mandate = j.id

(* The appends on the chain say what the jobs of their callers are.        *)
Matches == \A i \in DOMAIN chain : Says(chain[i].event, job[chain[i].by])

(* The producers past the fit of `m` whose charge is not durable yet.      *)
Past(m) ==
    {c \in Callers :
        /\ job[c].id = m
        /\ job[c].op = "charge" \/ (job[c].op = "stamp" /\ pc[c] = "recording")}

(* Whoever is past the fit saw room in the budget.                         *)
RoomForAll == \A m \in Ids : Used(disk, m) + Cardinality(Past(m)) <= Budget - 1 + Cardinality(Agents)

(* A spent budget is ended, or somebody is on the way to end it.           *)
SpentIsSeen ==
    \A m \in Ids \ cut :
        Used(disk, m) >= Budget =>
            EndedAt(disk, m) # {} \/ \E c \in Callers : job[c].id = m /\ Observing(c)

MandatesInv ==
    /\ CacheInv /\ TypeOK /\ Roles /\ Matches
    /\ ~ misled => RoomForAll /\ SpentIsSeen

(* The drafts on record, and none.                                         *)
Known(log) == Drafts(log) \cup {None}

(* What the event `e` of the job `j` was decided on.                       *)
Grounded(log, e, j) ==
    /\ e.kind = "drafted" => e.refers \in Known(log)
    /\ e.kind = "activated" =>
          j.op = "activate" /\ IsOpen(log, e.draft) /\ e.refers = Prior(log, e.draft)

-----------------------------------------------------------------------------
(* The steps.                                                              *)

(* A decision stops, queues an event that says what was asked for, or lets *)
(* a write through to its stamp.                                           *)
LEMMA Decisions ==
    ASSUME TypeOK, NEW c \in Callers, Decide(c)
    PROVE  /\ pc[c] = "deciding" /\ warm /\ misled' = (misled \/ overtaken)
           /\ \/ Declines(c) /\ (job[c].op = "observe" => ~ Breached(lines, job[c].id))
              \/ \E e \in MandateEvents :
                    /\ Records(c, e) /\ Says(e, job[c]) /\ Grounded(lines, e, job[c])
                    /\ job[c].op # "stamp"
                    /\ job[c].op = "charge" => IsActive(lines, job[c].id)
              \/ /\ job[c].op = "stamp" /\ Fits(lines, job[c].id)
                 /\ pc' = [pc EXCEPT ![c] = "recording"]
                 /\ UNCHANGED << logVars, job, cut >>
<1>0. job[c].id \in IdOrNone /\ None \in IdOrNone /\ DOMAIN lines \subseteq Nat
  BY DEF TypeOK, LogTypeOK, IdOrNone
<1>a. warm /\ misled' = (misled \/ overtaken)
  BY DEF Decide
<1>1. CASE DecideDraft(c)
  <2>1. pc[c] = "deciding" /\ warm /\ job[c].op = "draft"
    BY <1>a, <1>1 DEF DecideDraft, Deciding
  <2>2. CASE Declines(c)
    BY <1>a, <2>1, <2>2
  <2>3. CASE /\ Unused # {} /\ (job[c].id = None \/ job[c].id \in Drafts(lines))
             /\ Records(c, EventOf("drafted", Min(Unused), None, job[c].id))
    <3>1. EventOf("drafted", Min(Unused), None, job[c].id) \in MandateEvents
      BY <1>0, <2>3, MintedIsId DEF EventOf, MandateEvents, Kinds, IdOrNone
    <3>2. Says(EventOf("drafted", Min(Unused), None, job[c].id), job[c])
      BY <2>1 DEF EventOf, Says
    <3>3. Grounded(lines, EventOf("drafted", Min(Unused), None, job[c].id), job[c])
      BY <2>3 DEF EventOf, Grounded, Known
    <3> QED  BY <1>a, <2>1, <2>3, <3>1, <3>2, <3>3
  <2> QED  BY <1>1, <2>2, <2>3 DEF DecideDraft
<1>2. CASE DecideActivate(c)
  <2>1. pc[c] = "deciding" /\ warm /\ job[c].op = "activate"
    BY <1>a, <1>2 DEF DecideActivate, Deciding
  <2>2. CASE Declines(c)
    BY <1>a, <2>1, <2>2
  <2>3. CASE /\ Unused # {} /\ IsOpen(lines, job[c].id)
             /\ Records(c, EventOf("activated", job[c].id, Min(Unused), Prior(lines, job[c].id)))
    <3>1. EventOf("activated", job[c].id, Min(Unused), Prior(lines, job[c].id)) \in MandateEvents
      <4>1. Prior(lines, job[c].id) \in IdOrNone
        BY <1>0, PriorIsId
      <4>2. Min(Unused) \in IdOrNone
        BY <2>3, MintedIsId DEF IdOrNone
      <4> QED  BY <1>0, <4>1, <4>2 DEF EventOf, MandateEvents, Kinds
    <3>2. Says(EventOf("activated", job[c].id, Min(Unused), Prior(lines, job[c].id)), job[c])
      BY <2>1 DEF EventOf, Says
    <3>3. Grounded(lines, EventOf("activated", job[c].id, Min(Unused), Prior(lines, job[c].id)), job[c])
      BY <2>1, <2>3 DEF EventOf, Grounded
    <3> QED  BY <1>a, <2>1, <2>3, <3>1, <3>2, <3>3
  <2> QED  BY <1>2, <2>2, <2>3 DEF DecideActivate
<1>3. CASE DecideDecline(c)
  <2>1. pc[c] = "deciding" /\ warm /\ job[c].op = "decline"
    BY <1>a, <1>3 DEF DecideDecline, Deciding
  <2>2. /\ EventOf("declined", job[c].id, None, None) \in MandateEvents
        /\ Says(EventOf("declined", job[c].id, None, None), job[c])
        /\ Grounded(lines, EventOf("declined", job[c].id, None, None), job[c])
    BY <1>0, <2>1 DEF EventOf, MandateEvents, Kinds, Says, Grounded
  <2> QED  BY <1>a, <1>3, <2>1, <2>2 DEF DecideDecline
<1>4. CASE DecideRevoke(c)
  <2>1. pc[c] = "deciding" /\ warm /\ job[c].op = "revoke"
    BY <1>a, <1>4 DEF DecideRevoke, Deciding
  <2>2. /\ EventOf("revoked", None, job[c].id, None) \in MandateEvents
        /\ Says(EventOf("revoked", None, job[c].id, None), job[c])
        /\ Grounded(lines, EventOf("revoked", None, job[c].id, None), job[c])
    BY <1>0, <2>1 DEF EventOf, MandateEvents, Kinds, Says, Grounded
  <2> QED  BY <1>a, <1>4, <2>1, <2>2 DEF DecideRevoke
<1>5. CASE DecideStamp(c)
  BY <1>a, <1>5 DEF DecideStamp, Deciding
<1>6. CASE DecideCharge(c)
  <2>1. pc[c] = "deciding" /\ warm /\ job[c].op = "charge"
    BY <1>a, <1>6 DEF DecideCharge, Deciding
  <2>2. /\ EventOf("usage", None, job[c].id, None) \in MandateEvents
        /\ Says(EventOf("usage", None, job[c].id, None), job[c])
        /\ Grounded(lines, EventOf("usage", None, job[c].id, None), job[c])
    BY <1>0, <2>1 DEF EventOf, MandateEvents, Kinds, Says, Grounded
  <2> QED  BY <1>a, <1>6, <2>1, <2>2 DEF DecideCharge
<1>7. CASE DecideObserve(c)
  <2>1. pc[c] = "deciding" /\ warm /\ job[c].op = "observe"
    BY <1>a, <1>7 DEF DecideObserve, Deciding
  <2>2. /\ EventOf("exhausted", None, job[c].id, None) \in MandateEvents
        /\ Says(EventOf("exhausted", None, job[c].id, None), job[c])
        /\ Grounded(lines, EventOf("exhausted", None, job[c].id, None), job[c])
    BY <1>0, <2>1 DEF EventOf, MandateEvents, Kinds, Says, Grounded
  <2> QED  BY <1>a, <1>7, <2>1, <2>2 DEF DecideObserve
<1> QED  BY <1>1, <1>2, <1>3, <1>4, <1>5, <1>6, <1>7 DEF Decide

(* A call starts as what it is: only writes are stamped, only agents'.     *)
Begins(c) ==
    \E op \in Ops \ {"none"}, id \in IdOrNone :
        /\ Starts(c, op, id)
        /\ op \in Producing => op = "stamp" /\ c \in Agents /\ id \in Mandates(disk)
        /\ op = "activate" => c \in Humans

LEMMA Beginnings ==
    ASSUME CallStarts
    PROVE  \E c \in Callers : Begins(c)
<1>0. Agents \subseteq Callers /\ Humans \subseteq Callers /\ Gestures \subseteq Ops \ {"none"}
  BY MandatesAssumption DEF Gestures, Ops
<1>1. ASSUME NEW c \in Agents, NEW of \in IdOrNone, AuthorDraft(c, of) PROVE Begins(c)
  BY <1>1 DEF AuthorDraft, Begins, Ops, Producing
<1>2. ASSUME NEW c \in Agents, NEW m \in Ids, ObserveWrite(c, m) PROVE Begins(c)
  BY <1>2 DEF ObserveWrite, Begins, Ops, Producing, IdOrNone
<1>3. ASSUME NEW c \in Humans, NEW op \in Gestures, NEW id \in Ids, Gesture(c, op, id)
      PROVE  Begins(c)
  <2>1. op \in Ops \ {"none"} /\ op \notin Producing /\ id \in IdOrNone
    BY DEF Gestures, Ops, Producing, IdOrNone
  <2> QED  BY <1>3, <2>1 DEF Gesture, Begins
<1> QED  BY <1>0, <1>1, <1>2, <1>3 DEF CallStarts

(* The ways a step can go.                                                 *)
LEMMA StepKinds ==
    ASSUME TypeOK, Next
    PROVE  \/ \E c \in Callers :
                \/ Begins(c)
                \/ Fetch(c)
                \/ Decide(c)
                \/ OpenProposal(c)
           \/ AppendLands
           \/ AppendRejected
           \/ Crash
  BY Beginnings DEF Next, CallStep

(* Only a decision taken on an overtaken cache misleads, and for good.     *)
LEMMA MisledSteps ==
    ASSUME TypeOK, Next
    PROVE  /\ misled => misled'
           /\ \A c \in Callers : Decide(c) => misled' = (misled \/ overtaken)
<1>1. ASSUME NEW c \in Callers, Decide(c) PROVE misled' = (misled \/ overtaken)
  BY <1>1, Decisions
<1>2. ASSUME NEW c \in Callers, Begins(c) \/ Fetch(c) \/ OpenProposal(c) PROVE UNCHANGED misled
  BY <1>2 DEF Begins, Starts, Fetch, callVars, OpenProposal
<1>3. ASSUME AppendLands \/ AppendRejected \/ Crash PROVE UNCHANGED misled
  BY <1>3 DEF AppendLands, AppendRejected, Crash
<1>4. misled => misled'
  BY <1>1, <1>2, <1>3, StepKinds
<1> QED  BY <1>1, <1>4

(* Whoever is not misled by a decision took it on the durable record.      *)
LEMMA NotMisled ==
    ASSUME CacheInv, TypeOK, NEW c \in Callers, Decide(c), ~ misled'
    PROVE  lines = disk
<1>1. warm /\ ~ overtaken
  BY Decisions
<1> QED  BY <1>1 DEF CacheInv, CacheIsTheRecord

(* Every step of the mandates is a step of their event log.                *)
LEMMA MandatesStepIsLogStep ==
    ASSUME TypeOK, [Next]_vars
    PROVE  [LogNext]_logVars
<1> USE EventsAssumption
<1>1. ASSUME NEW c \in Callers, Begins(c) PROVE [LogNext]_logVars
  BY <1>1 DEF Begins, Starts
<1>2. ASSUME NEW c \in Callers, Fetch(c) PROVE [LogNext]_logVars
  BY <1>2 DEF Fetch, LogNext
<1>3. ASSUME NEW c \in Callers, Decide(c) PROVE [LogNext]_logVars
  <2>1. CASE Declines(c)
    BY <2>1 DEF Declines
  <2>2. ASSUME NEW e \in MandateEvents, Records(c, e) PROVE [LogNext]_logVars
    BY <2>2 DEF Records, LogNext
  <2> QED  BY <1>3, <2>1, <2>2, Decisions
<1>4. ASSUME NEW c \in Callers, OpenProposal(c) PROVE [LogNext]_logVars
  BY <1>4 DEF OpenProposal
<1>5. CASE AppendLands \/ AppendRejected \/ Crash
  BY <1>5 DEF AppendLands, AppendRejected, Crash, LogNext
<1>6. CASE UNCHANGED vars
  BY <1>6 DEF vars
<1> QED  BY <1>1, <1>2, <1>3, <1>4, <1>5, <1>6, StepKinds

-----------------------------------------------------------------------------
(* The chain.                                                              *)

LEMMA ChainHead ==
    ASSUME CacheInv, TypeOK, chain # << >>
    PROVE  LET c == Head(chain).by
           IN  /\ c \in Callers /\ pc[c] = "landing" /\ Head(chain).event \in Events
               /\ Head(chain) = chain[1] /\ 1 \in DOMAIN chain
               /\ \A i \in DOMAIN Tail(chain) :
                     Tail(chain)[i] = chain[i + 1] /\ i + 1 \in DOMAIN chain /\ Tail(chain)[i].by # c
               /\ \A i \in DOMAIN chain : chain[i].by # c => \E j \in DOMAIN Tail(chain) : Tail(chain)[j] = chain[i]
<1>1. chain \in Seq(Entry) /\ DOMAIN chain = 1..Len(chain) /\ Len(chain) \in Nat \ {0}
  BY DEF CacheInv, LogTypeOK
<1>2. /\ Head(chain) = chain[1] /\ 1 \in DOMAIN chain /\ chain[1] \in Entry
      /\ DOMAIN Tail(chain) = 1..(Len(chain) - 1)
      /\ \A i \in 1..(Len(chain) - 1) : Tail(chain)[i] = chain[i + 1]
  BY <1>1
<1>3. Head(chain).by \in Callers /\ Head(chain).event \in Events
  BY <1>2 DEF Entry
<1>4. pc[Head(chain).by] = "landing"
  BY <1>2, <1>3 DEF TypeOK
<1>5. ASSUME NEW i \in DOMAIN Tail(chain)
      PROVE  Tail(chain)[i] = chain[i + 1] /\ i + 1 \in DOMAIN chain /\ Tail(chain)[i].by # Head(chain).by
  <2>1. i + 1 \in DOMAIN chain /\ i + 1 # 1 /\ Tail(chain)[i] = chain[i + 1]
    BY <1>1, <1>2
  <2> QED  BY <1>2, <2>1 DEF CacheInv, ChainHeld
<1>6. ASSUME NEW i \in DOMAIN chain, chain[i].by # Head(chain).by
      PROVE  \E j \in DOMAIN Tail(chain) : Tail(chain)[j] = chain[i]
  <2>1. i # 1 /\ i - 1 \in 1..(Len(chain) - 1) /\ (i - 1) + 1 = i
    BY <1>1, <1>2, <1>6
  <2> QED  BY <1>2, <2>1
<1> QED  BY <1>2, <1>3, <1>4, <1>5, <1>6

LEMMA ChainGrows ==
    ASSUME LogTypeOK, NEW c \in Callers, NEW e \in MandateEvents, Records(c, e)
    PROVE  /\ DOMAIN chain' = DOMAIN chain \cup {Len(chain) + 1}
           /\ Len(chain') = Len(chain) + 1
           /\ chain'[Len(chain) + 1] = [by |-> c, event |-> e]
           /\ \A i \in DOMAIN chain : chain'[i] = chain[i]
           /\ UNCHANGED << disk, job, cut >>
           /\ pc' = [pc EXCEPT ![c] = "landing"]
<1>1. /\ chain \in Seq(Entry) /\ [by |-> c, event |-> e] \in Entry
      /\ chain' = Append(chain, [by |-> c, event |-> e])
  BY EventsAssumption DEF LogTypeOK, Entry, Records, Enqueue
<1> QED  BY <1>1 DEF Records, Enqueue

(* What was granted stays granted.                                         *)
LEMMA GrantsStay ==
    ASSUME CacheInv, NEW e \in MandateEvents, disk' = Append(disk, e)
    PROVE  Mandates(disk) \subseteq Mandates(disk')
<1>1. disk \in Seq(MandateEvents)
  BY EventsAssumption DEF CacheInv, LogTypeOK
<1>2. \A m \in Ids : GrantedAt(disk, m) \subseteq GrantedAt(disk', m)
  BY <1>1, PlacesAppend
<1> QED  BY <1>2 DEF Mandates

LEMMA DiskStays ==
    ASSUME NEW c \in Callers, Begins(c) \/ Fetch(c) \/ Declines(c) \/ OpenProposal(c)
                                \/ (\E e \in MandateEvents : Records(c, e))
    PROVE  UNCHANGED << disk, cut >>
  BY DEF Begins, Starts, logVars, Fetch, callVars, Fill, Ask, FileRead, Take, Declines, OpenProposal,
         Records, Enqueue

LEMMA ChainStays ==
    ASSUME NEW c \in Callers, Begins(c) \/ Fetch(c) \/ Declines(c) \/ OpenProposal(c)
    PROVE  UNCHANGED chain
  BY DEF Begins, Starts, logVars, Fetch, callVars, Fill, Ask, FileRead, Take, Declines, OpenProposal

-----------------------------------------------------------------------------
(* Types.                                                                  *)

(* Whoever observes a budget observes that of a grant.                     *)
LEMMA ObservedIsGranted ==
    ASSUME Roles, NEW c \in Callers, Observing(c)
    PROVE  job[c].id \in Mandates(disk) /\ job[c].id \in Ids
  BY DEF Roles, Observing, Producing, Mandates

LEMMA TypeStep ==
    ASSUME CacheInv, TypeOK, Roles, Next, CacheInv'
    PROVE  TypeOK'
<1> DEFINE Calls == /\ pc' \in [Callers -> PCs]
                    /\ job' \in [Callers -> [op : Ops, id : IdOrNone]]
                    /\ \A c \in Callers : pc'[c] = "idle" <=> job'[c].op = "none"
           Landing == \A c \in Callers : pc'[c] = "landing" <=> \E i \in DOMAIN chain' : chain'[i].by = c
           Cut == cut' \subseteq Ids
<1>m. misled' \in BOOLEAN
  <2>1. misled \in BOOLEAN /\ overtaken \in BOOLEAN
    BY DEF TypeOK, LogTypeOK
  <2>2. ASSUME NEW c \in Callers, Decide(c) PROVE misled' \in BOOLEAN
    BY <2>2, Decisions
  <2>3. ASSUME NEW c \in Callers, Begins(c) \/ Fetch(c) \/ OpenProposal(c) PROVE UNCHANGED misled
    BY <2>3 DEF Begins, Starts, Fetch, callVars, OpenProposal
  <2>4. CASE AppendLands \/ AppendRejected \/ Crash
    BY <2>1, <2>4 DEF AppendLands, AppendRejected, Crash
  <2> QED  BY <2>1, <2>2, <2>3, <2>4, StepKinds
<1>0. /\ LogTypeOK /\ pc \in [Callers -> PCs] /\ job \in [Callers -> [op : Ops, id : IdOrNone]]
      /\ cut \subseteq Ids
      /\ \A c \in Callers : pc[c] = "idle" <=> job[c].op = "none"
      /\ \A c \in Callers : pc[c] = "landing" <=> \E i \in DOMAIN chain : chain[i].by = c
      /\ NoJob \in [op : Ops, id : IdOrNone] /\ NoJob.op = "none"
      /\ "idle" \in PCs /\ "deciding" \in PCs /\ "recording" \in PCs /\ "landing" \in PCs
      /\ LogTypeOK'
  BY DEF TypeOK, CacheInv, NoJob, Ops, IdOrNone, PCs
<1>1. ASSUME NEW c \in Callers, Begins(c) PROVE Calls /\ Landing /\ Cut
  <2>1. PICK op \in Ops \ {"none"}, id \in IdOrNone : Starts(c, op, id)
    BY <1>1 DEF Begins
  <2>2. /\ pc[c] = "idle" /\ pc' = [pc EXCEPT ![c] = "deciding"]
        /\ job' = [job EXCEPT ![c] = Job(op, id)]
        /\ chain' = chain /\ cut' = cut
    BY <2>1 DEF Starts, logVars
  <2>3. Job(op, id) \in [op : Ops, id : IdOrNone] /\ Job(op, id).op = op
    BY DEF Job
  <2> QED  BY <1>0, <2>2, <2>3
<1>2. ASSUME NEW c \in Callers, Fetch(c) PROVE Calls /\ Landing /\ Cut
  <2>1. UNCHANGED << pc, job, cut, chain >>
    BY <1>2, ChainStays DEF Fetch, callVars
  <2> QED  BY <1>0, <2>1
<1>3. ASSUME NEW c \in Callers, Ends(c), pc[c] # "landing", UNCHANGED << chain, cut >>
      PROVE  Calls /\ Landing /\ Cut
  BY <1>0, <1>3 DEF Ends
<1>4. ASSUME NEW c \in Callers, NEW e \in MandateEvents, Records(c, e), pc[c] = "deciding"
      PROVE  Calls /\ Landing /\ Cut
  <2>1. /\ DOMAIN chain' = DOMAIN chain \cup {Len(chain) + 1}
        /\ chain'[Len(chain) + 1].by = c
        /\ \A i \in DOMAIN chain : chain'[i] = chain[i]
        /\ UNCHANGED << job, cut >> /\ pc' = [pc EXCEPT ![c] = "landing"]
    <3>1. chain'[Len(chain) + 1] = [by |-> c, event |-> e]
      BY <1>0, <1>4, ChainGrows
    <3>2. [by |-> c, event |-> e].by = c
      OBVIOUS
    <3>3. /\ DOMAIN chain' = DOMAIN chain \cup {Len(chain) + 1}
          /\ \A i \in DOMAIN chain : chain'[i] = chain[i]
          /\ UNCHANGED << job, cut >> /\ pc' = [pc EXCEPT ![c] = "landing"]
      BY <1>0, <1>4, ChainGrows
    <3> QED  BY <3>1, <3>2, <3>3
  <2> QED  BY <1>0, <1>4, <2>1
<1>5. ASSUME NEW c \in Callers, Decide(c) PROVE Calls /\ Landing /\ Cut
  <2>1. pc[c] = "deciding"
    BY <1>5, Decisions
  <2>2. CASE Declines(c)
    BY <1>3, <2>1, <2>2, ChainStays, DiskStays DEF Declines
  <2>3. CASE \E e \in MandateEvents : Records(c, e)
    BY <1>4, <2>1, <2>3
  <2>4. CASE pc' = [pc EXCEPT ![c] = "recording"] /\ UNCHANGED << logVars, job, cut >>
    BY <1>0, <2>1, <2>4 DEF logVars
  <2> QED  BY <1>5, <2>2, <2>3, <2>4, Decisions
<1>6. ASSUME NEW c \in Callers, OpenProposal(c) PROVE Calls /\ Landing /\ Cut
  <2>1. pc[c] = "recording" /\ UNCHANGED << chain, cut >>
    BY <1>6 DEF OpenProposal, logVars
  <2>2. CASE Ends(c)
    BY <1>3, <2>1, <2>2
  <2>3. CASE pc' = [pc EXCEPT ![c] = "deciding"] /\ job' = [job EXCEPT ![c].op = "charge"]
    BY <1>0, <2>1, <2>3 DEF Ops
  <2> QED  BY <1>6, <2>2, <2>3 DEF OpenProposal
<1>7. ASSUME chain # << >>, chain' = Tail(chain),
             \/ Ends(Head(chain).by)
             \/ /\ pc' = [pc EXCEPT ![Head(chain).by] = "deciding"]
                /\ job' = [job EXCEPT ![Head(chain).by].op = "observe"]
      PROVE  Calls /\ Landing
  <2> DEFINE c == Head(chain).by
  <2>1. /\ c \in Callers /\ pc[c] = "landing"
        /\ \A i \in DOMAIN chain' :
              chain'[i] = chain[i + 1] /\ i + 1 \in DOMAIN chain /\ chain'[i].by # c
        /\ \A i \in DOMAIN chain : chain[i].by # c => \E j \in DOMAIN chain' : chain'[j] = chain[i]
    BY <1>7, ChainHead
  <2>2. \A d \in Callers :
            (\E i \in DOMAIN chain' : chain'[i].by = d)
                <=> d # c /\ \E i \in DOMAIN chain : chain[i].by = d
    BY <2>1
  <2> HIDE DEF c
  <2>3. Calls /\ pc'[c] # "landing" /\ \A d \in Callers \ {c} : pc'[d] = pc[d]
    <3>1. CASE Ends(c)
      BY <1>0, <2>1, <3>1 DEF Ends
    <3>2. CASE /\ pc' = [pc EXCEPT ![c] = "deciding"]
               /\ job' = [job EXCEPT ![c].op = "observe"]
      BY <1>0, <2>1, <3>2 DEF Ops
    <3> QED  BY <1>7, <3>1, <3>2 DEF c
  <2> QED  BY <1>0, <2>2, <2>3
<1>8. ASSUME AppendLands PROVE Calls /\ Landing /\ Cut
  BY <1>0, <1>7, <1>8 DEF AppendLands, Land
<1>9. ASSUME AppendRejected PROVE Calls /\ Landing /\ Cut
  <2>1. chain # << >> /\ Head(chain).by \in Callers
    BY <1>9, ChainHead DEF AppendRejected, AppendFails
  <2>2. Cut
    BY <1>0, <1>9, <2>1, ObservedIsGranted DEF AppendRejected
  <2> QED  BY <1>7, <1>9, <2>1, <2>2 DEF AppendRejected, AppendFails
<1>10. ASSUME Crash PROVE Calls /\ Landing /\ Cut
  <2>1. Cut
    BY <1>0, <1>10, ObservedIsGranted DEF Crash
  <2>2. DOMAIN chain' = {}
    BY <1>10 DEF Crash, Restart
  <2> QED  BY <1>0, <1>10, <2>1, <2>2 DEF Crash
<1>11. Calls /\ Landing /\ Cut
  BY <1>1, <1>2, <1>5, <1>6, <1>8, <1>9, <1>10, StepKinds
<1> QED  BY <1>m, <1>0, <1>11 DEF TypeOK

-----------------------------------------------------------------------------
(* The rest of the invariant.                                              *)

(* Where a call stands after a step, and what it does then.                *)
LEMMA JobSteps ==
    ASSUME CacheInv, TypeOK, Next, NEW c \in Callers
    PROVE  \/ job'[c] = job[c] /\ pc'[c] = pc[c]
           \/ job'[c] = NoJob /\ pc'[c] = "idle"
           \/ Begins(c)
           \/ job'[c] = job[c] /\ pc'[c] = "landing" /\ job[c].op # "stamp" /\ Decide(c)
           \/ job'[c] = job[c] /\ pc'[c] = "recording" /\ job[c].op = "stamp"
                /\ Fits(lines, job[c].id) /\ Decide(c)
           \/ pc[c] = "recording" /\ job'[c] = [job[c] EXCEPT !.op = "charge"] /\ pc'[c] = "deciding"
           \/ /\ AppendLands /\ c = Head(chain).by /\ job[c].op = "charge"
              /\ job'[c] = [job[c] EXCEPT !.op = "observe"] /\ pc'[c] = "deciding"
<1>0. pc \in [Callers -> PCs] /\ job \in [Callers -> [op : Ops, id : IdOrNone]]
  BY DEF TypeOK
<1> DEFINE Same == job'[c] = job[c] /\ pc'[c] = pc[c]
           Over == job'[c] = NoJob /\ pc'[c] = "idle"
<1>1. ASSUME NEW d \in Callers, Begins(d) PROVE Same \/ Begins(c)
  <2>1. CASE d # c
    BY <1>0, <1>1, <2>1 DEF Begins, Starts
  <2> QED  BY <1>1, <2>1
<1>2. ASSUME NEW d \in Callers, Fetch(d) PROVE Same
  BY <1>2 DEF Fetch, callVars
<1>3. ASSUME NEW d \in Callers, Ends(d) PROVE Same \/ Over
  BY <1>0, <1>3 DEF Ends
<1>4. ASSUME NEW d \in Callers, Decide(d), d # c PROVE Same
  <2>1. CASE Declines(d)
    BY <1>0, <1>4, <2>1 DEF Declines, Ends
  <2>2. CASE \E e \in MandateEvents : Records(d, e)
    BY <1>0, <1>4, <2>2 DEF Records
  <2>3. CASE pc' = [pc EXCEPT ![d] = "recording"] /\ UNCHANGED job
    BY <1>0, <1>4, <2>3
  <2> QED  BY <1>4, <2>1, <2>2, <2>3, Decisions
<1>5. ASSUME Decide(c)
      PROVE  \/ Over
             \/ job'[c] = job[c] /\ pc'[c] = "landing" /\ job[c].op # "stamp"
             \/ job'[c] = job[c] /\ pc'[c] = "recording" /\ job[c].op = "stamp" /\ Fits(lines, job[c].id)
  <2>1. CASE Declines(c)
    BY <1>0, <2>1 DEF Declines, Ends
  <2>2. CASE (\E e \in MandateEvents : Records(c, e)) /\ job[c].op # "stamp"
    BY <1>0, <2>2 DEF Records
  <2>3. CASE /\ job[c].op = "stamp" /\ Fits(lines, job[c].id)
             /\ pc' = [pc EXCEPT ![c] = "recording"] /\ UNCHANGED job
    BY <1>0, <2>3
  <2> QED  BY <1>5, <2>1, <2>2, <2>3, Decisions
<1>6. ASSUME NEW d \in Callers, OpenProposal(d)
      PROVE  \/ Same \/ Over
             \/ pc[c] = "recording" /\ job'[c] = [job[c] EXCEPT !.op = "charge"] /\ pc'[c] = "deciding"
  <2>1. CASE Ends(d)
    BY <1>3, <2>1
  <2>2. CASE pc[d] = "recording" /\ pc' = [pc EXCEPT ![d] = "deciding"] /\ job' = [job EXCEPT ![d].op = "charge"]
    BY <1>0, <2>2
  <2> QED  BY <1>6, <2>1, <2>2 DEF OpenProposal
<1>7. ASSUME AppendLands
      PROVE  \/ Same \/ Over
             \/ /\ c = Head(chain).by /\ job[c].op = "charge"
                /\ job'[c] = [job[c] EXCEPT !.op = "observe"] /\ pc'[c] = "deciding"
  <2>1. PICK d \in Callers :
           /\ d = Head(chain).by
           /\ \/ Ends(d)
              \/ /\ job[d].op = "charge" /\ pc' = [pc EXCEPT ![d] = "deciding"]
                 /\ job' = [job EXCEPT ![d].op = "observe"]
    BY <1>7, ChainHead DEF AppendLands, Land
  <2>2. CASE Ends(d)
    BY <1>3, <2>2
  <2>3. CASE ~ Ends(d)
    BY <1>0, <2>1, <2>3
  <2> QED  BY <2>2, <2>3
<1>8. ASSUME AppendRejected PROVE Same \/ Over
  BY <1>3, <1>8, ChainHead DEF AppendRejected, AppendFails
<1>9. ASSUME Crash PROVE Over
  BY <1>9 DEF Crash
<1> QED  BY <1>1, <1>2, <1>4, <1>5, <1>6, <1>7, <1>8, <1>9, StepKinds

(* The record grows by what lands, and by nothing else.                    *)
LEMMA RecordSteps ==
    ASSUME CacheInv, TypeOK, Next
    PROVE  \/ disk' = disk /\ ~ AppendLands
           \/ /\ AppendLands /\ chain # << >>
              /\ Head(chain).event \in MandateEvents /\ disk' = Append(disk, Head(chain).event)
<1>0. Head(chain).event \in MandateEvents \/ chain = << >>
  BY EventsAssumption, ChainHead
<1>1. ASSUME NEW c \in Callers, Decide(c) PROVE disk' = disk
  BY <1>1, Decisions, DiskStays DEF logVars
<1>2. ASSUME NEW c \in Callers, Begins(c) \/ Fetch(c) \/ OpenProposal(c) PROVE disk' = disk
  BY <1>2, DiskStays
<1>3. CASE AppendRejected \/ Crash
  <2>1. disk' = disk
    BY <1>3 DEF AppendRejected, AppendFails, Crash, Restart
  <2>2. ASSUME AppendLands PROVE FALSE
    <3>1. disk' = Append(disk, Head(chain).event) /\ disk \in Seq(Events) /\ Head(chain).event \in Events
      BY <2>2, ChainHead DEF AppendLands, Land, CacheInv, LogTypeOK
    <3>2. Len(Append(disk, Head(chain).event)) = Len(disk) + 1 /\ Len(disk) \in Nat
      BY <3>1
    <3> QED  BY <2>1, <3>1, <3>2
  <2> QED  BY <2>1, <2>2
<1>4. ASSUME AppendLands
      PROVE  chain # << >> /\ disk' = Append(disk, Head(chain).event)
  BY <1>4 DEF AppendLands, Land
<1> QED  BY <1>0, <1>1, <1>2, <1>3, <1>4, StepKinds

LEMMA GrantedStays ==
    ASSUME CacheInv, TypeOK, Next
    PROVE  Mandates(disk) \subseteq Mandates(disk')
<1>1. CASE disk' = disk
  BY <1>1
<1>2. CASE disk' # disk
  BY <1>2, RecordSteps, GrantsStay
<1> QED  BY <1>1, <1>2

LEMMA RolesStep ==
    ASSUME CacheInv, TypeOK, Roles, Next
    PROVE  Roles'
<1>0. job \in [Callers -> [op : Ops, id : IdOrNone]]
  BY DEF TypeOK
<1>1. Mandates(disk) \subseteq Mandates(disk')
  BY GrantedStays
<1>2. ASSUME NEW c \in Callers
      PROVE  /\ job'[c].op \in Producing => c \in Agents /\ job'[c].id \in Mandates(disk')
             /\ pc'[c] = "recording" => job'[c].op = "stamp"
             /\ pc'[c] = "landing" => job'[c].op # "stamp"
  <2>1. CASE job'[c] = job[c] /\ pc'[c] = pc[c]
    BY <1>1, <2>1 DEF Roles
  <2>2. CASE job'[c] = NoJob /\ pc'[c] = "idle"
    BY <2>2 DEF NoJob, Producing
  <2>3. CASE Begins(c)
    <3>1. PICK op \in Ops, id \in IdOrNone :
             Starts(c, op, id) /\ (op \in Producing => c \in Agents /\ id \in Mandates(disk))
      BY <2>3 DEF Begins
    <3>2. job'[c] = [op |-> op, id |-> id] /\ pc'[c] = "deciding"
      BY <1>0, <3>1 DEF Starts, Job, TypeOK
    <3> QED  BY <1>1, <3>1, <3>2
  <2>4. CASE job'[c] = job[c] /\ pc'[c] = "landing" /\ job[c].op # "stamp"
    BY <1>1, <2>4 DEF Roles
  <2>5. CASE job'[c] = job[c] /\ pc'[c] = "recording" /\ job[c].op = "stamp"
    BY <1>1, <2>5 DEF Roles
  <2>6. CASE pc[c] = "recording" /\ job'[c] = [job[c] EXCEPT !.op = "charge"] /\ pc'[c] = "deciding"
    BY <1>0, <1>1, <2>6 DEF Roles, Producing
  <2>7. CASE job[c].op = "charge" /\ job'[c] = [job[c] EXCEPT !.op = "observe"] /\ pc'[c] = "deciding"
    BY <1>0, <1>1, <2>7 DEF Roles, Producing
  <2> QED  BY <2>1, <2>2, <2>3, <2>4, <2>5, <2>6, <2>7, JobSteps
<1> QED  BY <1>2 DEF Roles

(* What is on the chain was there, or says what its caller decided - on    *)
(* the durable record, unless misled.                                      *)
LEMMA ChainSteps ==
    ASSUME CacheInv, TypeOK, Next, NEW i \in DOMAIN chain'
    PROVE  \/ \E j \in DOMAIN chain : chain'[i] = chain[j]
           \/ /\ Says(chain'[i].event, job[chain'[i].by])
              /\ ~ misled' => Grounded(disk, chain'[i].event, job[chain'[i].by])
              /\ chain'[i].by \in Callers /\ UNCHANGED disk
<1>1. CASE chain' = chain
  BY <1>1
<1>2. CASE chain # << >> /\ chain' = Tail(chain)
  BY <1>2, ChainHead
<1>3. ASSUME NEW c \in Callers, NEW e \in MandateEvents, Records(c, e), Says(e, job[c]),
             ~ misled' => Grounded(disk, e, job[c])
      PROVE  \/ \E j \in DOMAIN chain : chain'[i] = chain[j]
             \/ /\ Says(chain'[i].event, job[chain'[i].by])
                /\ ~ misled' => Grounded(disk, chain'[i].event, job[chain'[i].by])
                /\ chain'[i].by \in Callers /\ UNCHANGED disk
  <2>1. /\ DOMAIN chain' = DOMAIN chain \cup {Len(chain) + 1}
        /\ chain'[Len(chain) + 1] = [by |-> c, event |-> e]
        /\ \A j \in DOMAIN chain : chain'[j] = chain[j]
        /\ UNCHANGED disk
    <3>1. LogTypeOK /\ Records(c, e)
      BY <1>3 DEF TypeOK
    <3> QED  BY <3>1, ChainGrows
  <2>2. [by |-> c, event |-> e].by = c /\ [by |-> c, event |-> e].event = e
    OBVIOUS
  <2>3. CASE i \in DOMAIN chain
    BY <2>1, <2>3
  <2>4. CASE i = Len(chain) + 1
    BY <1>3, <2>1, <2>2, <2>4
  <2> QED  BY <2>1, <2>3, <2>4
<1>4. ASSUME NEW c \in Callers, Decide(c)
      PROVE  \/ chain' = chain
             \/ \E e \in MandateEvents :
                   Records(c, e) /\ Says(e, job[c]) /\ (~ misled' => Grounded(disk, e, job[c]))
  <2>1. ~ misled' => lines = disk
    BY <1>4, NotMisled
  <2> QED  BY <1>4, <2>1, Decisions DEF Declines, logVars
<1>5. CASE Crash
  BY <1>5 DEF Crash, Restart
<1> QED  BY <1>1, <1>2, <1>3, <1>4, <1>5, StepKinds, ChainStays
         DEF AppendLands, Land, AppendRejected, AppendFails

LEMMA MatchesStep ==
    ASSUME CacheInv, TypeOK, Matches, Next, TypeOK', CacheInv'
    PROVE  Matches'
<1>1. SUFFICES ASSUME NEW i \in DOMAIN chain'
               PROVE  Says(chain'[i].event, job'[chain'[i].by])
  BY DEF Matches, Says
<1> DEFINE d == chain'[i].by
<1>2. d \in Callers
  <2>1. chain' \in Seq(Entry)
    BY DEF CacheInv, LogTypeOK
  <2>2. chain'[i] \in Entry
    BY <2>1
  <2> QED  BY <2>2 DEF Entry
<1>3. pc'[d] = "landing"
  BY <1>2 DEF TypeOK
<1>4. job'[d] = job[d]
  <2>1. CASE Begins(d)
    <3>1. pc'[d] = "deciding"
      BY <1>2, <2>1 DEF Begins, Starts, TypeOK
    <3> QED  BY <1>3, <3>1
  <2> QED  BY <1>2, <1>3, <2>1, JobSteps
<1>5. Says(chain'[i].event, job[d])
  BY ChainSteps DEF Matches
<1> QED  BY <1>4, <1>5

(* Nothing used, nobody new past the fit: room is left as it was.          *)
LEMMA PastFinite ==
    /\ IsFiniteSet(Agents) /\ Cardinality(Agents) \in Nat
    /\ Roles => \A m : Past(m) \subseteq Agents /\ IsFiniteSet(Past(m)) /\ Cardinality(Past(m)) \in Nat
<1>1. IsFiniteSet(Agents)
  BY MandatesAssumption, FS_Subset
<1>2. ASSUME Roles, NEW m PROVE Past(m) \subseteq Agents
  BY <1>2 DEF Past, Roles, Producing
<1> QED  BY <1>1, <1>2, FS_Subset, FS_CardinalityType

LEMMA UsedIsNatural ==
    ASSUME NEW log \in Seq(MandateEvents), NEW m
    PROVE  /\ Used(log, m) \in Nat /\ IsFiniteSet(UsageAt(log, m))
           /\ UsageAt(log, m) \subseteq 1..Len(log) /\ Len(log) \in Nat
<1>1. UsageAt(log, m) \subseteq 1..Len(log) /\ Len(log) \in Nat
  BY DEF UsageAt, Places
<1>2. IsFiniteSet(1..Len(log))
  BY <1>1, FS_Interval
<1>3. IsFiniteSet(UsageAt(log, m))
  BY <1>1, <1>2, FS_Subset
<1> QED  BY <1>1, <1>3, FS_CardinalityType DEF Used

LEMMA UsedAppend ==
    ASSUME NEW log \in Seq(MandateEvents), NEW e \in MandateEvents, NEW m
    PROVE  Used(Append(log, e), m)
             = IF e.kind = "usage" /\ e.mandate = m THEN Used(log, m) + 1 ELSE Used(log, m)
<1>1. /\ UsageAt(log, m) \subseteq 1..Len(log) /\ Len(log) \in Nat
      /\ IsFiniteSet(UsageAt(log, m))
  BY UsedIsNatural
<1>2. UsageAt(Append(log, e), m) = UsageAt(log, m)
            \cup (IF e.kind = "usage" /\ e.mandate = m THEN {Len(log) + 1} ELSE {})
  BY PlacesAppend
<1>3. Len(log) + 1 \notin UsageAt(log, m)
  BY <1>1
<1>4. CASE e.kind = "usage" /\ e.mandate = m
  <2>1. UsageAt(Append(log, e), m) = UsageAt(log, m) \cup {Len(log) + 1}
    BY <1>2, <1>4
  <2>2. Cardinality(UsageAt(log, m) \cup {Len(log) + 1}) = Cardinality(UsageAt(log, m)) + 1
    BY <1>1, <1>3, FS_AddElement
  <2> QED  BY <1>4, <2>1, <2>2 DEF Used
<1>5. CASE ~ (e.kind = "usage" /\ e.mandate = m)
  <2>1. UsageAt(Append(log, e), m) = UsageAt(log, m)
    BY <1>2, <1>5
  <2> QED  BY <1>5, <2>1 DEF Used
<1> QED  BY <1>4, <1>5

LEMMA RoomStep ==
    ASSUME CacheInv, TypeOK, Roles, Matches, RoomForAll, Next, Roles', ~ misled'
    PROVE  RoomForAll'
<1>1. SUFFICES ASSUME NEW m \in Ids
               PROVE  Used(disk', m) + Cardinality(Past(m)') <= Budget - 1 + Cardinality(Agents)
  BY DEF RoomForAll
<1> DEFINE past == Past(m)
           next == Past(m)'
<1>2. /\ past \subseteq Agents /\ IsFiniteSet(past) /\ Cardinality(past) \in Nat
      /\ next \subseteq Agents /\ IsFiniteSet(next) /\ Cardinality(next) \in Nat
      /\ IsFiniteSet(Agents) /\ Cardinality(Agents) \in Nat /\ Budget \in Nat \ {0}
      /\ Cardinality(next) <= Cardinality(Agents)
  <2>1. next \subseteq Agents /\ IsFiniteSet(next) /\ Cardinality(next) \in Nat
    <3>1. next \subseteq Agents
      BY DEF Past, Roles, Producing
    <3> QED  BY <3>1, PastFinite, FS_Subset, FS_CardinalityType
  <2> QED  BY <2>1, PastFinite, MandatesAssumption, FS_Subset
<1>3. disk \in Seq(MandateEvents) /\ Used(disk, m) \in Nat
  <2>1. disk \in Seq(MandateEvents)
    BY EventsAssumption DEF CacheInv, LogTypeOK
  <2> QED  BY <2>1, UsedIsNatural
<1>4. Used(disk, m) + Cardinality(past) <= Budget - 1 + Cardinality(Agents)
  BY DEF RoomForAll
<1>5. CASE disk' = disk /\ next \subseteq past
  <2>1. Cardinality(next) <= Cardinality(past)
    BY <1>2, <1>5, FS_Subset
  <2> QED  BY <1>2, <1>3, <1>4, <1>5, <2>1
<1>6. CASE disk' = disk /\ Used(disk, m) < Budget
  BY <1>2, <1>3, <1>6
<1>7. CASE disk' = disk /\ ~ (next \subseteq past)
  <2>1. PICK c \in Callers : c \in next /\ c \notin past
    BY <1>7 DEF Past
  <2>2. job'[c].id = m /\ (job'[c].op = "charge" \/ (job'[c].op = "stamp" /\ pc'[c] = "recording"))
    BY <2>1 DEF Past
  <2>3. job \in [Callers -> [op : Ops, id : IdOrNone]] /\ pc \in [Callers -> PCs]
    BY DEF TypeOK
  <2>4. ~ Begins(c)
    <3>1. ASSUME NEW op \in Ops, NEW id \in IdOrNone, Starts(c, op, id),
                 op \in Producing => op = "stamp"
          PROVE  FALSE
      <4>1. pc'[c] = "deciding" /\ job'[c].op = op
        BY <2>3, <3>1 DEF Starts, Job
      <4> QED  BY <2>2, <3>1, <4>1 DEF Producing
    <3> QED  BY <3>1 DEF Begins
  <2>5. ~ (job'[c] = NoJob)
    BY <2>2 DEF NoJob
  <2>6. ~ (job'[c] = [job[c] EXCEPT !.op = "observe"])
    BY <2>2, <2>3
  <2>7. ~ (job'[c] = job[c] /\ pc'[c] = pc[c])
    BY <2>1, <2>2 DEF Past
  <2>8. ~ (job'[c] = job[c] /\ pc'[c] = "landing" /\ job[c].op # "stamp")
    BY <2>1, <2>2 DEF Past
  <2>9. ~ (pc[c] = "recording" /\ job'[c] = [job[c] EXCEPT !.op = "charge"])
    BY <2>1, <2>2, <2>3 DEF Past, Roles
  <2>10. Fits(lines, job[c].id) /\ job'[c] = job[c] /\ Decide(c)
    BY <2>4, <2>5, <2>6, <2>7, <2>8, <2>9, JobSteps
  <2>11. lines = disk
    BY <2>10, NotMisled
  <2> QED  BY <1>6, <1>7, <2>2, <2>10, <2>11 DEF Fits
<1>8. CASE /\ AppendLands /\ chain # << >>
           /\ Head(chain).event \in MandateEvents /\ disk' = Append(disk, Head(chain).event)
  <2> DEFINE c == Head(chain).by
             e == Head(chain).event
  <2>1. c \in Callers /\ pc[c] = "landing" /\ Says(e, job[c])
    BY <1>8, ChainHead DEF Matches
  <2>2. job \in [Callers -> [op : Ops, id : IdOrNone]] /\ pc \in [Callers -> PCs]
    BY DEF TypeOK
  <2>3. \A d \in Callers : d # c => job'[d] = job[d] /\ pc'[d] = pc[d]
    BY <1>8, <2>2 DEF AppendLands, Ends
  <2>4. job'[c].op \in {"observe", "none"}
    BY <1>8, <2>1, <2>2 DEF AppendLands, Ends, NoJob
  <2>5. next \subseteq past \ {c}
    BY <2>3, <2>4 DEF Past
  <2>6. Used(disk', m) = IF e.kind = "usage" /\ e.mandate = m THEN Used(disk, m) + 1 ELSE Used(disk, m)
    BY <1>3, <1>8, UsedAppend
  <2> HIDE DEF c, e
  <2>7. CASE e.kind = "usage" /\ e.mandate = m
    <3>1. c \in past
      BY <2>1, <2>7 DEF Says, EventOf, Past
    <3>2. Cardinality(past \ {c}) = Cardinality(past) - 1 /\ IsFiniteSet(past \ {c})
      BY <1>2, <3>1, FS_RemoveElement
    <3>3. Cardinality(next) <= Cardinality(past) - 1
      BY <2>5, <3>2, FS_Subset
    <3> QED  BY <1>2, <1>3, <1>4, <2>6, <2>7, <3>3
  <2>8. CASE ~ (e.kind = "usage" /\ e.mandate = m)
    <3>1. Cardinality(next) <= Cardinality(past)
      BY <1>2, <2>5, FS_Subset
    <3> QED  BY <1>2, <1>3, <1>4, <2>6, <2>8, <3>1
  <2> QED  BY <2>7, <2>8
<1> QED  BY <1>5, <1>7, <1>8, RecordSteps

(* Whoever is on the way to end a spent budget stays on it, ends it, finds *)
(* it ended, or is cut off.                                                *)
LEMMA ObserversStay ==
    ASSUME CacheInv, TypeOK, Roles, Matches, Next, ~ misled', NEW c \in Callers, Observing(c)
    PROVE  \/ job'[c].id = job[c].id /\ Observing(c)'
           \/ job[c].id \in cut'
           \/ ~ Breached(disk, job[c].id) /\ UNCHANGED disk
           \/ EndedAt(disk', job[c].id) # {}
<1>0. job \in [Callers -> [op : Ops, id : IdOrNone]] /\ pc \in [Callers -> PCs]
  BY DEF TypeOK
<1>1. job[c].op \in {"observe", "charge"} /\ job[c].op # "none" /\ job[c].op # "stamp"
      /\ (job[c].op = "charge" => pc[c] = "landing")
  BY DEF Observing
<1>2. CASE job'[c] = job[c] /\ (pc'[c] = pc[c] \/ pc'[c] = "landing")
  BY <1>1, <1>2 DEF Observing
<1>3. CASE job'[c] = NoJob /\ pc'[c] = "idle"
  <2>1. ASSUME NEW d \in Callers, Begins(d) PROVE FALSE
    <3>1. PICK op \in Ops \ {"none"}, id \in IdOrNone : Starts(d, op, id)
      BY <2>1 DEF Begins
    <3>2. job' = [job EXCEPT ![d] = Job(op, id)] /\ job[d].op = "none"
      BY <3>1 DEF Starts, TypeOK
    <3>3. c # d /\ job'[c] = job[c]
      BY <1>0, <1>1, <3>2
    <3> QED  BY <1>1, <1>3, <3>3 DEF NoJob
  <2>2. ASSUME NEW d \in Callers, Fetch(d) PROVE FALSE
    BY <1>1, <1>3, <2>2 DEF Fetch, callVars, NoJob
  <2>3. ASSUME NEW d \in Callers, Decide(d) PROVE ~ Breached(disk, job[c].id) /\ UNCHANGED disk
    <3>1. pc[d] = "deciding" /\ lines = disk
      BY <2>3, Decisions, NotMisled
    <3>2. job' # job
      BY <1>1, <1>3 DEF NoJob
    <3>3. Declines(d) /\ (job[d].op = "observe" => ~ Breached(lines, job[d].id))
      BY <2>3, <3>2, Decisions DEF Records
    <3>4. c = d
      BY <1>0, <1>1, <1>3, <3>3 DEF Declines, Ends, NoJob
    <3> QED  BY <1>1, <3>1, <3>3, <3>4 DEF Declines, logVars
  <2>4. ASSUME NEW d \in Callers, OpenProposal(d) PROVE FALSE
    <3>1. pc[d] = "recording"
      BY <2>4 DEF OpenProposal
    <3>2. c # d
      BY <1>1, <3>1 DEF Roles
    <3>3. job'[c] = job[c]
      BY <1>0, <2>4, <3>2 DEF OpenProposal, Ends
    <3> QED  BY <1>1, <1>3, <3>3 DEF NoJob
  <2>5. ASSUME AppendLands PROVE EndedAt(disk', job[c].id) # {}
    <3>1. /\ chain # << >> /\ Head(chain).event \in MandateEvents
          /\ disk' = Append(disk, Head(chain).event)
      BY <2>5, RecordSteps
    <3>2. disk \in Seq(MandateEvents)
      BY EventsAssumption DEF CacheInv, LogTypeOK
    <3>3. Head(chain).by \in Callers /\ Says(Head(chain).event, job[Head(chain).by])
      BY <3>1, ChainHead DEF Matches
    <3>4. c = Head(chain).by
      BY <1>0, <1>1, <1>3, <2>5, <3>3 DEF AppendLands, Ends, NoJob
    <3>5. job[c].op = "observe"
      BY <1>0, <1>1, <1>3, <2>5, <3>4 DEF AppendLands, NoJob
    <3>6. EndsMandate(Head(chain).event, job[c].id)
      BY <3>3, <3>4, <3>5 DEF Says, EndsMandate
    <3>7. EndedAt(disk', job[c].id) = EndedAt(disk, job[c].id) \cup {Len(disk) + 1}
      BY <3>1, <3>2, <3>6, PlacesAppend
    <3> QED  BY <3>7
  <2>6. ASSUME AppendRejected PROVE job[c].id \in cut'
    <3>1. Head(chain).by \in Callers /\ Ends(Head(chain).by)
      BY <2>6, ChainHead DEF AppendRejected, AppendFails
    <3>2. c = Head(chain).by
      BY <1>0, <1>1, <1>3, <3>1 DEF Ends, NoJob
    <3> QED  BY <2>6, <3>2 DEF AppendRejected
  <2>7. ASSUME Crash PROVE job[c].id \in cut'
    BY <2>7 DEF Crash
  <2> QED  BY <2>1, <2>2, <2>3, <2>4, <2>5, <2>6, <2>7, StepKinds
<1>4. ~ Begins(c)
  BY <1>1 DEF Begins, Starts, TypeOK
<1>5. ~ (pc[c] = "recording")
  BY <1>1 DEF Roles
<1>6. CASE job'[c] = [job[c] EXCEPT !.op = "observe"] /\ pc'[c] = "deciding"
  BY <1>0, <1>6 DEF Observing
<1> QED  BY <1>1, <1>2, <1>3, <1>4, <1>5, <1>6, JobSteps

LEMMA SeenStep ==
    ASSUME CacheInv, TypeOK, Roles, Matches, SpentIsSeen, Next, ~ misled'
    PROVE  SpentIsSeen'
<1>1. SUFFICES ASSUME NEW m \in Ids \ cut', Used(disk', m) >= Budget
               PROVE  \/ EndedAt(disk', m) # {}
                      \/ \E c \in Callers : job'[c].id = m /\ Observing(c)'
  BY DEF SpentIsSeen
<1>2. m \in Ids \ cut
  <2>1. cut \subseteq cut'
    <3>1. ASSUME NEW c \in Callers, Decide(c) PROVE cut' = cut
      BY <3>1, Decisions DEF Declines, Records
    <3> QED  BY <3>1, StepKinds DEF Begins, Starts, Fetch, callVars, OpenProposal, AppendLands,
                AppendRejected, Crash
  <2> QED  BY <2>1
<1>3. disk \in Seq(MandateEvents)
  BY EventsAssumption DEF CacheInv, LogTypeOK
<1>4. EndedAt(disk, m) \subseteq EndedAt(disk', m)
  <2>1. CASE disk' = disk
    BY <2>1
  <2>2. CASE disk' # disk
    <3>1. PICK e \in MandateEvents : disk' = Append(disk, e)
      BY <2>2, RecordSteps
    <3>2. EndedAt(Append(disk, e), m) = EndedAt(disk, m)
             \cup (IF EndsMandate(e, m) THEN {Len(disk) + 1} ELSE {})
      BY <1>3, PlacesAppend
    <3> QED  BY <3>1, <3>2
  <2> QED  BY <2>1, <2>2
<1>5. CASE Used(disk, m) >= Budget
  <2>1. CASE EndedAt(disk, m) # {}
    BY <1>4, <2>1
  <2>2. CASE \E c \in Callers : job[c].id = m /\ Observing(c)
    <3>1. PICK c \in Callers : job[c].id = m /\ Observing(c)
      BY <2>2
    <3>2. ASSUME ~ Breached(disk, m), UNCHANGED disk PROVE EndedAt(disk, m) # {}
      BY <1>5, <3>1, <3>2, ObservedIsGranted DEF Breached, IsActive
    <3> QED  BY <1>4, <3>1, <3>2, ObserversStay
  <2> QED  BY <1>2, <1>5, <2>1, <2>2 DEF SpentIsSeen
<1>6. CASE ~ (Used(disk, m) >= Budget)
  <2>1. /\ AppendLands /\ chain # << >> /\ Head(chain).event \in MandateEvents
        /\ disk' = Append(disk, Head(chain).event)
    BY <1>1, <1>6, RecordSteps
  <2> DEFINE c == Head(chain).by
             e == Head(chain).event
  <2>2. e.kind = "usage" /\ e.mandate = m
    BY <1>1, <1>3, <1>6, <2>1, UsedAppend
  <2>3. c \in Callers /\ Says(e, job[c])
    BY <2>1, ChainHead DEF Matches
  <2>4. job[c].op = "charge" /\ job[c].id = m
    BY <2>2, <2>3 DEF Says, EventOf
  <2>5. job'[c].id = m /\ job'[c].op = "observe"
    BY <2>1, <2>3, <2>4 DEF AppendLands, TypeOK
  <2> QED  BY <2>3, <2>5 DEF Observing
<1> QED  BY <1>5, <1>6

-----------------------------------------------------------------------------
(* The theorems about mandates.                                            *)

LEMMA MandatesInitially == Init => MandatesInv
<1> SUFFICES ASSUME Init PROVE MandatesInv
  OBVIOUS
<1>1. CacheInv
  BY CacheInit DEF Init
<1>2. \A c \in Callers : pc[c] = "idle" /\ job[c] = NoJob
  BY DEF Init
<1>3. NoJob.op = "none" /\ NoJob \in [op : Ops, id : IdOrNone] /\ "idle" \in PCs
  BY DEF NoJob, Ops, IdOrNone, PCs
<1>4. DOMAIN chain = {} /\ DOMAIN disk = {}
  BY DEF Init, LogInit
<1>5. TypeOK
  BY <1>1, <1>2, <1>3, <1>4 DEF Init, TypeOK, CacheInv
<1>6. Roles /\ Matches
  BY <1>2, <1>3, <1>4 DEF Roles, Matches, Producing
<1>7. \A m \in Ids : Used(disk, m) = 0 /\ Past(m) = {}
  <2>1. \A m \in Ids : UsageAt(disk, m) = {} /\ Past(m) = {}
    BY <1>2, <1>3, <1>4 DEF UsageAt, Places, Past
  <2> QED  BY <2>1, FS_EmptySet DEF Used
<1>8. RoomForAll /\ SpentIsSeen
  <2>1. Cardinality({}) = 0 /\ Cardinality(Agents) \in Nat /\ Budget \in Nat \ {0}
    BY PastFinite, FS_EmptySet, MandatesAssumption
  <2>2. \A m \in Ids : Used(disk, m) + Cardinality(Past(m)) = 0
    BY <1>7, <2>1
  <2>3. RoomForAll
    BY <2>1, <2>2 DEF RoomForAll
  <2>4. SpentIsSeen
    BY <1>7, <2>1 DEF SpentIsSeen
  <2> QED  BY <2>3, <2>4
<1> QED  BY <1>1, <1>5, <1>6, <1>8 DEF MandatesInv

LEMMA MandatesStep ==
    ASSUME MandatesInv, [Next]_vars
    PROVE  MandatesInv'
<1>1. CASE Next
  <2>1. CacheInv'
    BY MandatesStepIsLogStep, CacheStep DEF MandatesInv
  <2>2. TypeOK' /\ Roles'
    BY <1>1, <2>1, TypeStep, RolesStep DEF MandatesInv
  <2>3. Matches'
    BY <1>1, <2>1, <2>2, MatchesStep DEF MandatesInv
  <2>4. ASSUME ~ misled' PROVE RoomForAll' /\ SpentIsSeen'
    <3>1. ~ misled
      BY <1>1, <2>4, MisledSteps DEF MandatesInv
    <3> QED  BY <1>1, <2>2, <2>4, <3>1, RoomStep, SeenStep DEF MandatesInv
  <2> QED  BY <2>1, <2>2, <2>3, <2>4 DEF MandatesInv
<1>2. CASE UNCHANGED vars
  <2>1. UNCHANGED << disk, warm, lines, reading, copy, chain, held, overtaken, pc, job, cut, misled >>
    BY <1>2 DEF vars, logVars, callVars
  <2>2. CacheInv' /\ TypeOK'
    BY <2>1 DEF MandatesInv, CacheInv, LogTypeOK, ChainHeld, ReadsFresh, CacheIsTheRecord, TypeOK
  <2>3. Roles' /\ Matches'
    BY <2>1 DEF MandatesInv, Roles, Matches
  <2>4. \A m : Past(m)' = Past(m)
    BY <2>1 DEF Past
  <2>5. ~ misled => RoomForAll'
    BY <2>1, <2>4 DEF MandatesInv, RoomForAll
  <2>6. ~ misled => SpentIsSeen'
    BY <2>1 DEF MandatesInv, SpentIsSeen, Observing
  <2> QED  BY <2>1, <2>2, <2>3, <2>5, <2>6 DEF MandatesInv
<1> QED  BY <1>1, <1>2

(* The invariant holds throughout.                                         *)
THEOREM MandatesInvariant == Spec => []MandatesInv
<1>1. MandatesInv /\ [Next]_vars => MandatesInv'
  BY MandatesStep
<1> QED  BY <1>1, MandatesInitially, PTL DEF Spec

(* What is decided from memory is decided from the durable record, unless  *)
(* the cache is overtaken; and the variables have their types.             *)
THEOREM MandatesFoldTheRecord == Spec => [](TypeOK /\ CacheIsTheRecord)
<1>1. MandatesInv => TypeOK /\ CacheIsTheRecord
  BY DEF MandatesInv, CacheInv
<1> QED  BY <1>1, MandatesInvariant, PTL

(* A mandate is overdrawn by no more than the agents there are, less one,  *)
(* for any budget and any number of agents, drafts and amendments, while   *)
(* nothing was decided on an overtaken cache.                              *)
THEOREM OvershootHolds == Spec => []OvershootBounded
<1>1. MandatesInv => OvershootBounded
  <2> SUFFICES ASSUME MandatesInv, ~ misled, NEW m \in Mandates(disk)
               PROVE  Used(disk, m) <= Budget + Cardinality(Agents) - 1
    BY DEF OvershootBounded
  <2>1. m \in Ids /\ Used(disk, m) + Cardinality(Past(m)) <= Budget - 1 + Cardinality(Agents)
    BY DEF MandatesInv, RoomForAll, Mandates
  <2>2. Cardinality(Past(m)) \in Nat /\ Cardinality(Agents) \in Nat /\ Budget \in Nat
    BY PastFinite, MandatesAssumption DEF MandatesInv
  <2>3. Used(disk, m) \in Nat
    <3>1. disk \in Seq(MandateEvents)
      BY EventsAssumption DEF MandatesInv, CacheInv, LogTypeOK
    <3> QED  BY <3>1, UsedIsNatural
  <2> QED  BY <2>1, <2>2, <2>3
<1> QED  BY <1>1, MandatesInvariant, PTL

(* A spent budget ends its mandate, unless the observation was cut off, or *)
(* something was decided on an overtaken cache.                            *)
THEOREM SpentStops == Spec => []SpentBudgetStops
<1>1. MandatesInv => SpentBudgetStops
  BY DEF MandatesInv, SpentBudgetStops, SpentIsSeen, IsActive, Mandates
<1> QED  BY <1>1, MandatesInvariant, PTL

(* Nothing is charged to a mandate whose end is on record, unless the      *)
(* cache is overtaken just then.                                           *)
THEOREM ChargesStopAtTheEnd == Spec => NoChargeAfterEnd
<1>1. ASSUME MandatesInv, [Next]_vars, NEW m \in Mandates(disk), ~ overtaken, Len(chain') > Len(chain),
             chain'[Len(chain')].event = EventOf("usage", None, m, None)
      PROVE  IsActive(disk, m)
  <2>1. Len(chain) \in Nat /\ LogTypeOK
    BY <1>1 DEF MandatesInv, CacheInv, LogTypeOK
  <2>2. chain' # chain
    BY <1>1, <2>1
  <2>3. Next
    BY <1>1, <2>2 DEF vars, logVars
  <2>4. ASSUME chain # << >>, chain' = Tail(chain) PROVE FALSE
    BY <1>1, <2>1, <2>4 DEF LogTypeOK
  <2>5. ~ Crash
    BY <1>1, <2>1 DEF Crash, Restart
  <2>6. PICK c \in Callers : Decide(c)
    BY <1>1, <2>2, <2>3, <2>4, <2>5, StepKinds, ChainStays
    DEF MandatesInv, AppendLands, Land, AppendRejected, AppendFails
  <2>7. PICK e \in MandateEvents :
           /\ Records(c, e) /\ Says(e, job[c])
           /\ job[c].op = "charge" => IsActive(lines, job[c].id)
    BY <1>1, <2>2, <2>6, Decisions DEF MandatesInv, Declines, logVars
  <2>8. lines = disk
    BY <1>1, <2>6, Decisions DEF MandatesInv, CacheInv, CacheIsTheRecord
  <2>9. e = EventOf("usage", None, m, None)
    <3>1. /\ Len(chain') = Len(chain) + 1
          /\ chain'[Len(chain) + 1] = [by |-> c, event |-> e]
      BY <2>1, <2>7, ChainGrows
    <3>2. chain'[Len(chain')].event = e
      BY <3>1
    <3> QED  BY <1>1, <3>2
  <2>10. job[c].op = "charge" /\ job[c].id = m
    BY <2>7, <2>9 DEF Says, EventOf
  <2> QED  BY <2>7, <2>8, <2>10
<1>2. MandatesInv /\ [Next]_vars =>
        [\A m \in Mandates(disk) :
            (/\ ~ overtaken
             /\ Len(chain') > Len(chain)
             /\ chain'[Len(chain')].event = EventOf("usage", None, m, None))
                => IsActive(disk, m)]_vars
  BY <1>1
<1> QED  BY <1>2, MandatesInvariant, PTL DEF Spec, NoChargeAfterEnd

-----------------------------------------------------------------------------
(* Lineages.  A draft's ancestors are found one at a time.                 *)

(* The draft a draft counters.                                             *)
Up(log, x) == IF x \in Drafts(log) THEN CounterOf(log, x) ELSE None
Steps == Cardinality(Ids)

(* `up` leads n steps up from d.                                           *)
Climbs(log, d, n, up) == up = [k \in 1..n |-> Up(log, IF k = 1 THEN d ELSE up[k - 1])]

(* There is a climb of every length, so the recursion of Lineage has a     *)
(* solution, and Lineage is one.                                           *)
LEMMA CanClimb ==
    ASSUME NEW log, NEW d, NEW n \in Nat
    PROVE  \E up : Climbs(log, d, n, up)
<1> DEFINE Fails == {m \in Nat : ~ \E up : Climbs(log, d, m, up)}
<1>1. ASSUME Fails # {} PROVE FALSE
  <2> DEFINE m == Min(Fails)
  <2>1. m \in Nat /\ m \in Fails /\ \A x \in Fails : m <= x
    BY <1>1, LeastNatural
  <2> HIDE DEF m
  <2>2. m # 0
    <3>1. Climbs(log, d, 0, << >>)
      BY DEF Climbs
    <3> QED  BY <2>1, <3>1
  <2>3. m - 1 \in Nat /\ m - 1 \notin Fails
    BY <2>1, <2>2
  <2>4. PICK up : Climbs(log, d, m - 1, up)
    BY <2>3
  <2> DEFINE next == [k \in 1..m |-> IF k = m THEN Up(log, IF k = 1 THEN d ELSE up[k - 1]) ELSE up[k]]
  <2>5. ASSUME NEW k \in 1..m PROVE next[k] = Up(log, IF k = 1 THEN d ELSE next[k - 1])
    <3>1. k # 1 => k - 1 \in 1..(m - 1) /\ next[k - 1] = up[k - 1]
      BY <2>1
    <3>2. CASE k = m
      BY <3>1, <3>2
    <3>3. CASE k # m
      <4>1. k \in 1..(m - 1)
        BY <2>1, <3>3
      <4> QED  BY <2>4, <3>1, <3>3, <4>1 DEF Climbs
    <3> QED  BY <3>2, <3>3
  <2>6. Climbs(log, d, m, next)
    BY <2>5 DEF Climbs
  <2> QED  BY <2>1, <2>6
<1> QED  BY <1>1

LEMMA LineageClimbs ==
    ASSUME NEW log, NEW d, Steps \in Nat
    PROVE  \A k \in 1..Steps : Lineage(log, d)[k] = Up(log, IF k = 1 THEN d ELSE Lineage(log, d)[k - 1])
<1>1. Lineage(log, d) = CHOOSE up : Climbs(log, d, Steps, up)
  BY DEF Lineage, Climbs, Up, Steps
<1>2. Climbs(log, d, Steps, Lineage(log, d))
  BY <1>1, CanClimb
<1> QED  BY <1>2 DEF Climbs

(* The lineage of an ancestor is the rest of the lineage.                  *)
LEMMA LineageFrom ==
    ASSUME NEW log, NEW d, Steps \in Nat, NEW i \in 1..Steps, NEW k \in 1..Steps, i + k <= Steps
    PROVE  Lineage(log, Lineage(log, d)[i])[k] = Lineage(log, d)[i + k]
<1> DEFINE up == Lineage(log, d)
           on == Lineage(log, up[i])
           Fails == {j \in 1..Steps : i + j <= Steps /\ on[j] # up[i + j]}
<1>1. ASSUME Fails # {} PROVE FALSE
  <2>1. Fails \in SUBSET Nat
    OBVIOUS
  <2>2. PICK j \in Fails : \A x \in Fails : j <= x
    BY <1>1, <2>1, LeastNatural
  <2>3. j \in 1..Steps /\ i + j \in 1..Steps /\ i + j # 1 /\ on[j] # up[i + j]
    BY <2>2
  <2>4. /\ on[j] = Up(log, IF j = 1 THEN up[i] ELSE on[j - 1])
        /\ up[i + j] = Up(log, up[i + j - 1])
    <3>1. on[j] = Up(log, IF j = 1 THEN up[i] ELSE on[j - 1])
      BY <2>3, LineageClimbs
    <3>2. up[i + j] = Up(log, IF i + j = 1 THEN d ELSE up[i + j - 1])
      BY <2>3, LineageClimbs
    <3> QED  BY <2>3, <3>1, <3>2
  <2>5. CASE j = 1
    BY <2>3, <2>4, <2>5
  <2>6. CASE j # 1
    <3>1. j - 1 \in 1..Steps /\ i + (j - 1) <= Steps /\ i + (j - 1) = i + j - 1 /\ ~ (j <= j - 1)
      BY <2>3, <2>6
    <3>2. on[j - 1] = up[i + j - 1]
      BY <2>2, <3>1
    <3> QED  BY <2>3, <2>4, <2>6, <3>2
  <2> QED  BY <2>5, <2>6
<1>2. k \notin Fails
  BY <1>1
<1> QED  BY <1>2

CountersKnown(log) == \A x \in Drafts(log) : CounterOf(log, x) \in Known(log)

(* A lineage leads through drafts on record, and a longer record that      *)
(* tells the same of these has the same lineages.                          *)
LEMMA LineageStays ==
    ASSUME NEW log, NEW longer, Steps \in Nat, CountersKnown(log),
           \A x \in Drafts(log) : x \in Drafts(longer) /\ CounterOf(longer, x) = CounterOf(log, x),
           NEW d \in Drafts(log), NEW k \in 1..Steps
    PROVE  Lineage(log, d)[k] \in Known(log) /\ Lineage(longer, d)[k] = Lineage(log, d)[k]
<1> DEFINE up == Lineage(log, d)
           on == Lineage(longer, d)
           Fails == {j \in 1..Steps : ~ (up[j] \in Known(log) /\ on[j] = up[j])}
<1>0. None \notin Drafts(log) /\ None \notin Drafts(longer)
  BY MandatesAssumption DEF Drafts
<1>1. ASSUME Fails # {} PROVE FALSE
  <2>1. Fails \in SUBSET Nat
    OBVIOUS
  <2>2. PICK j \in Fails : \A x \in Fails : j <= x
    BY <1>1, <2>1, LeastNatural
  <2>3. j \in 1..Steps /\ ~ (up[j] \in Known(log) /\ on[j] = up[j])
    BY <2>2
  <2>4. /\ up[j] = Up(log, IF j = 1 THEN d ELSE up[j - 1])
        /\ on[j] = Up(longer, IF j = 1 THEN d ELSE on[j - 1])
    BY <2>3, LineageClimbs
  <2>5. ASSUME NEW x \in Known(log)
        PROVE  Up(log, x) \in Known(log) /\ Up(longer, x) = Up(log, x)
    BY <1>0, <2>5 DEF Up, Known, CountersKnown
  <2>6. CASE j = 1
    BY <2>3, <2>4, <2>5, <2>6 DEF Known
  <2>7. CASE j # 1
    <3>1. j - 1 \in 1..Steps /\ ~ (j <= j - 1)
      BY <2>3, <2>7
    <3>2. up[j - 1] \in Known(log) /\ on[j - 1] = up[j - 1]
      BY <2>2, <3>1
    <3> QED  BY <2>3, <2>4, <2>5, <2>7, <3>2
  <2> QED  BY <2>6, <2>7
<1>2. k \notin Fails
  BY <1>1
<1> QED  BY <1>2

(* A later place is the first only if there was none.                      *)
LEMMA FirstPlace ==
    ASSUME NEW n \in Nat, NEW S \in SUBSET (1..n), NEW T, T = S \/ T = S \cup {n + 1}
    PROVE  /\ S # {} => Min(T) = Min(S) /\ Min(S) \in S
           /\ S = {} /\ T # {} => Min(T) = n + 1
<1>1. /\ \A x \in S : x \in Nat /\ x <= n
      /\ \A x \in T : x \in Nat /\ (x \in S \/ x = n + 1)
  <2>1. \A x \in S : x \in 1..n
    OBVIOUS
  <2>2. \A x \in S : x \in Nat /\ x <= n
    BY <2>1
  <2>3. ASSUME NEW x \in T PROVE x \in Nat /\ (x \in S \/ x = n + 1)
    <3>1. x \in S \/ x = n + 1
      OBVIOUS
    <3>2. n + 1 \in Nat
      OBVIOUS
    <3> QED  BY <2>2, <3>1, <3>2
  <2> QED  BY <2>2, <2>3
<1>2. T \in SUBSET Nat /\ S \in SUBSET Nat
  BY <1>1
<1>3. CASE S # {}
  <2>1. /\ Min(S) \in S /\ \A x \in S : Min(S) <= x
        /\ Min(T) \in T /\ \A x \in T : Min(T) <= x
    BY <1>2, <1>3, LeastNatural
  <2>2. Min(S) \in T /\ Min(S) \in Nat /\ Min(T) \in Nat /\ Min(S) <= n
    BY <1>1, <2>1
  <2>3. Min(T) <= Min(S)
    BY <2>1, <2>2
  <2>4. Min(T) \in S
    BY <1>1, <2>1, <2>2, <2>3
  <2> QED  BY <1>3, <2>1, <2>2, <2>3, <2>4
<1>4. ASSUME S = {}, T # {} PROVE Min(T) = n + 1
  <2>1. Min(T) \in T
    BY <1>2, <1>4, LeastNatural
  <2> QED  BY <1>1, <1>4, <2>1
<1> QED  BY <1>3, <1>4

(* What one more event tells of drafts and mandates: the first to name one *)
(* says whose it is.                                                       *)
PlacesTold(log, e, longer, x) ==
    /\ Len(log) \in Nat /\ DOMAIN log = 1..Len(log)
    /\ longer[Len(log) + 1] = e /\ \A i \in 1..Len(log) : longer[i] = log[i]
    /\ DraftedAt(log, x) \in SUBSET (1..Len(log))
    /\ DraftedAt(longer, x) = DraftedAt(log, x)
          \cup (IF e.kind = "drafted" /\ e.draft = x THEN {Len(log) + 1} ELSE {})
    /\ GrantedAt(log, x) \in SUBSET (1..Len(log))
    /\ GrantedAt(longer, x) = GrantedAt(log, x)
          \cup (IF e.kind = "activated" /\ e.mandate = x THEN {Len(log) + 1} ELSE {})

LEMMA PlacesGrow ==
    ASSUME NEW log \in Seq(MandateEvents), NEW e \in MandateEvents, NEW longer, longer = Append(log, e), NEW x
    PROVE  PlacesTold(log, e, longer, x)
<1>1. /\ DOMAIN log = 1..Len(log) /\ Len(log) \in Nat
      /\ DOMAIN longer = 1..(Len(log) + 1)
      /\ longer[Len(log) + 1] = e
      /\ \A i \in 1..Len(log) : longer[i] = log[i]
  OBVIOUS
<1>2. DOMAIN longer = DOMAIN log \cup {Len(log) + 1} /\ Len(log) + 1 \notin DOMAIN log
  BY <1>1
<1> QED  BY <1>1, <1>2 DEF PlacesTold, DraftedAt, GrantedAt, Places

(* A draft on record stays, and counters what it countered.                *)
LEMMA DraftStays ==
    ASSUME NEW log \in Seq(MandateEvents), NEW e \in MandateEvents, NEW longer, longer = Append(log, e),
           NEW x \in Drafts(log)
    PROVE  x \in Drafts(longer) /\ CounterOf(longer, x) = CounterOf(log, x)
<1>0. PlacesTold(log, e, longer, x)
  BY PlacesGrow
<1>1. DraftedAt(log, x) # {} /\ x \in Ids
  BY DEF Drafts
<1>2. Min(DraftedAt(longer, x)) = Min(DraftedAt(log, x)) /\ Min(DraftedAt(log, x)) \in 1..Len(log)
  <2>1. \/ DraftedAt(longer, x) = DraftedAt(log, x)
        \/ DraftedAt(longer, x) = DraftedAt(log, x) \cup {Len(log) + 1}
    BY <1>0 DEF PlacesTold
  <2>2. DraftedAt(log, x) \in SUBSET (1..Len(log)) /\ Len(log) \in Nat
    BY <1>0 DEF PlacesTold
  <2>3. Min(DraftedAt(longer, x)) = Min(DraftedAt(log, x)) /\ Min(DraftedAt(log, x)) \in DraftedAt(log, x)
    BY <1>1, <2>1, <2>2, FirstPlace
  <2> QED  BY <2>2, <2>3
<1> QED  BY <1>1, <1>2, <1>0 DEF PlacesTold, Drafts, CounterOf

(* A draft comes on record by its event.                                   *)
LEMMA DraftComes ==
    ASSUME NEW log \in Seq(MandateEvents), NEW e \in MandateEvents, NEW longer, longer = Append(log, e),
           NEW x \in Drafts(longer) \ Drafts(log)
    PROVE  e.kind = "drafted" /\ CounterOf(longer, x) = e.refers
<1>0. PlacesTold(log, e, longer, x)
  BY PlacesGrow
<1>1. DraftedAt(log, x) = {} /\ DraftedAt(longer, x) # {}
  BY DEF Drafts
<1>2. /\ Len(log) \in Nat /\ longer[Len(log) + 1] = e
      /\ DraftedAt(longer, x) = DraftedAt(log, x)
            \cup (IF e.kind = "drafted" /\ e.draft = x THEN {Len(log) + 1} ELSE {})
  BY <1>0 DEF PlacesTold
<1>3. Min(DraftedAt(longer, x)) = Len(log) + 1
  BY <1>1, <1>2, FirstPlace
<1> QED  BY <1>1, <1>2, <1>3 DEF CounterOf

(* A grant on record stays, and is of the draft it was of.                 *)
LEMMA GrantStays ==
    ASSUME NEW log \in Seq(MandateEvents), NEW e \in MandateEvents, NEW longer, longer = Append(log, e),
           NEW n \in Mandates(log)
    PROVE  n \in Mandates(longer) /\ DraftOf(longer, n) = DraftOf(log, n)
<1>0. PlacesTold(log, e, longer, n)
  BY PlacesGrow
<1>1. GrantedAt(log, n) # {} /\ n \in Ids
  BY DEF Mandates
<1>2. Min(GrantedAt(longer, n)) = Min(GrantedAt(log, n)) /\ Min(GrantedAt(log, n)) \in 1..Len(log)
  <2>1. \/ GrantedAt(longer, n) = GrantedAt(log, n)
        \/ GrantedAt(longer, n) = GrantedAt(log, n) \cup {Len(log) + 1}
    BY <1>0 DEF PlacesTold
  <2>2. GrantedAt(log, n) \in SUBSET (1..Len(log)) /\ Len(log) \in Nat
    BY <1>0 DEF PlacesTold
  <2>3. Min(GrantedAt(longer, n)) = Min(GrantedAt(log, n)) /\ Min(GrantedAt(log, n)) \in GrantedAt(log, n)
    BY <1>1, <2>1, <2>2, FirstPlace
  <2> QED  BY <2>2, <2>3
<1> QED  BY <1>0, <1>1, <1>2 DEF PlacesTold, Mandates, DraftOf

(* What is active was active, and was not just ended.                      *)
LEMMA EndStays ==
    ASSUME NEW log \in Seq(MandateEvents), NEW e \in MandateEvents, NEW longer, longer = Append(log, e),
           NEW n \in Mandates(log), IsActive(longer, n)
    PROVE  IsActive(log, n) /\ ~ EndsMandate(e, n)
<1>1. EndedAt(longer, n) = EndedAt(log, n) \cup (IF EndsMandate(e, n) THEN {Len(log) + 1} ELSE {})
  BY PlacesAppend
<1> QED  BY <1>1 DEF IsActive

(* A grant comes on record by its event.                                   *)
LEMMA GrantComes ==
    ASSUME NEW log \in Seq(MandateEvents), NEW e \in MandateEvents, NEW longer, longer = Append(log, e),
           NEW n \in Mandates(longer) \ Mandates(log)
    PROVE  e.kind = "activated" /\ n = e.mandate /\ DraftOf(longer, n) = e.draft
<1>0. PlacesTold(log, e, longer, n)
  BY PlacesGrow
<1>1. GrantedAt(log, n) = {} /\ GrantedAt(longer, n) # {}
  BY DEF Mandates
<1>2. /\ Len(log) \in Nat /\ longer[Len(log) + 1] = e
      /\ GrantedAt(longer, n) = GrantedAt(log, n)
            \cup (IF e.kind = "activated" /\ e.mandate = n THEN {Len(log) + 1} ELSE {})
  BY <1>0 DEF PlacesTold
<1>3. Min(GrantedAt(longer, n)) = Len(log) + 1
  BY <1>1, <1>2, FirstPlace
<1> QED  BY <1>1, <1>2, <1>3 DEF DraftOf

-----------------------------------------------------------------------------
(* Amendment by replacement.  The decisions rest on the record: a counter  *)
(* names a draft on it, and an activation on its way grants a draft that   *)
(* nothing granted descends from, and replaces the one active grant it     *)
(* descends from.                                                          *)

GrantsKnown(log) == \A m \in Mandates(log) : DraftOf(log, m) \in Drafts(log)

Replaces(log) ==
    \A m, n \in Mandates(log) :
        (m # n /\ IsActive(log, m) /\ IsActive(log, n)) =>
            /\ DraftOf(log, m) # DraftOf(log, n)
            /\ ~ Descends(log, DraftOf(log, m), DraftOf(log, n))

Grants(log, e) ==
    /\ e.draft \in Drafts(log)
    /\ \A n \in Mandates(log) :
          DraftOf(log, n) # e.draft /\ ~ Descends(log, DraftOf(log, n), e.draft)
    /\ \A n \in Mandates(log) :
          IsActive(log, n) /\ Descends(log, e.draft, DraftOf(log, n)) => n = e.refers

OnTheWay ==
    \A i \in DOMAIN chain :
        /\ chain[i].event.kind = "drafted" => chain[i].event.refers \in Known(disk)
        /\ chain[i].event.kind = "activated" =>
              chain[i].by \in Humans /\ Grants(disk, chain[i].event)

HumansActivate == \A c \in Callers : job[c].op = "activate" => c \in Humans

Amended == CountersKnown(disk) /\ GrantsKnown(disk) /\ Replaces(disk) /\ OnTheWay

AmendmentInv == HumansActivate /\ (~ misled => Amended)

(* How far a lineage goes.                                                 *)
LEMMA LineageDomain ==
    ASSUME NEW log, NEW d, Steps \in Nat
    PROVE  DOMAIN Lineage(log, d) = 1..Steps
<1>1. Lineage(log, d) = CHOOSE up : Climbs(log, d, Steps, up)
  BY DEF Lineage, Climbs, Up, Steps
<1>2. Climbs(log, d, Steps, Lineage(log, d))
  BY <1>1, CanClimb
<1>3. DOMAIN [k \in 1..Steps |-> Up(log, IF k = 1 THEN d ELSE Lineage(log, d)[k - 1])] = 1..Steps
  OBVIOUS
<1> QED  BY <1>2, <1>3 DEF Climbs

(* An open draft has no counter, so nothing descends from it.              *)
LEMMA OpenHasNoHeirs ==
    ASSUME NEW log, DOMAIN log \subseteq Nat, Steps \in Nat, NEW d, IsOpen(log, d), NEW x
    PROVE  ~ Descends(log, x, d)
<1> SUFFICES ASSUME NEW k \in 1..Steps, Lineage(log, x)[k] = d
             PROVE  FALSE
  BY LineageDomain DEF Descends
<1>1. d # None /\ d \in Drafts(log)
  BY MandatesAssumption DEF IsOpen, Drafts
<1>2. PICK y : d = Up(log, y)
  BY LineageClimbs
<1>3. y \in Drafts(log) /\ CounterOf(log, y) = d
  BY <1>1, <1>2 DEF Up
<1> DEFINE i == Min(DraftedAt(log, y))
<1>4. i \in DraftedAt(log, y)
  <2>1. DraftedAt(log, y) \in SUBSET Nat /\ DraftedAt(log, y) # {}
    BY <1>3 DEF Drafts, DraftedAt, Places
  <2> QED  BY <2>1, LeastNatural
<1>5. i \in DOMAIN log /\ log[i].kind = "drafted" /\ log[i].refers = d
  <2>1. log[i].refers = d
    BY <1>3 DEF CounterOf
  <2> HIDE DEF i
  <2> QED  BY <1>4, <2>1 DEF DraftedAt, Places
<1> HIDE DEF i
<1>6. SettlesDraft(log[i], d)
  BY <1>5 DEF SettlesDraft
<1> QED  BY <1>5, <1>6 DEF IsOpen, Places

(* Nothing has granted an open draft.                                      *)
LEMMA OpenIsUngranted ==
    ASSUME NEW log, DOMAIN log \subseteq Nat, NEW d, IsOpen(log, d), NEW n \in Mandates(log)
    PROVE  DraftOf(log, n) # d
<1> DEFINE i == Min(GrantedAt(log, n))
<1>1. i \in GrantedAt(log, n)
  <2>1. GrantedAt(log, n) \in SUBSET Nat /\ GrantedAt(log, n) # {}
    BY DEF Mandates, GrantedAt, Places
  <2> QED  BY <2>1, LeastNatural
<1>2. DraftOf(log, n) = log[i].draft
  BY DEF DraftOf
<1> HIDE DEF i
<1>3. i \in DOMAIN log /\ log[i].kind = "activated"
  BY <1>1 DEF GrantedAt, Places
<1>4. ASSUME DraftOf(log, n) = d PROVE FALSE
  <2>1. SettlesDraft(log[i], d)
    BY <1>2, <1>3, <1>4 DEF SettlesDraft
  <2> QED  BY <1>3, <2>1 DEF IsOpen, Places
<1> QED  BY <1>4

(* Where amendments replace, of the drafts that one descends from at most  *)
(* one has an active grant, and Prior finds it.                            *)
LEMMA PriorIsTheOne ==
    ASSUME NEW log, DOMAIN log \subseteq Nat, Steps \in Nat, Replaces(log), NEW d,
           NEW n \in Mandates(log), IsActive(log, n), Descends(log, d, DraftOf(log, n))
    PROVE  n = Prior(log, d)
<1> DEFINE up == Lineage(log, d)
           with == {k \in 1..Cardinality(Ids) : GrantsOf(log, up[k]) # {}}
           j == Min(with)
<1>1. PICK k \in 1..Steps : up[k] = DraftOf(log, n)
  BY LineageDomain DEF Descends
<1>2. n \in GrantsOf(log, up[k])
  BY <1>1 DEF GrantsOf
<1>3. k \in with
  BY <1>1, <1>2 DEF Steps
<1>4. j \in with /\ j <= k
  <2>1. with \in SUBSET Nat
    OBVIOUS
  <2> QED  BY <1>3, <2>1, LeastNatural
<1>5. Prior(log, d) \in GrantsOf(log, up[j])
  BY <1>3, PriorIsNearest
<1>6. j \in 1..Steps
  BY <1>4 DEF Steps
<1> HIDE DEF j, with
<1> DEFINE p == Prior(log, d)
<1> HIDE DEF p
<1>7. p \in Mandates(log) /\ IsActive(log, p) /\ DraftOf(log, p) = up[j]
  BY <1>5 DEF GrantsOf, p
<1>8. ASSUME p # n PROVE FALSE
  <2>1. up[j] # up[k] /\ ~ Descends(log, up[j], up[k])
    BY <1>1, <1>7, <1>8 DEF Replaces
  <2>2. j # k
    BY <2>1
  <2>3. k - j \in 1..Steps /\ j + (k - j) = k /\ j + (k - j) <= Steps
    BY <1>1, <1>4, <1>6, <2>2
  <2>4. Lineage(log, up[j])[k - j] = up[k]
    BY <1>6, <2>3, LineageFrom
  <2>5. Descends(log, up[j], up[k])
    BY <2>3, <2>4, LineageDomain DEF Descends
  <2> QED  BY <2>1, <2>5
<1> QED  BY <1>8 DEF p

(* A longer record that tells the same of the drafts on record changes     *)
(* nothing of what they descend from.                                      *)
LEMMA DescentStays ==
    ASSUME NEW log, NEW longer, Steps \in Nat, CountersKnown(log),
           \A x \in Drafts(log) : x \in Drafts(longer) /\ CounterOf(longer, x) = CounterOf(log, x),
           NEW d \in Drafts(log), NEW x
    PROVE  Descends(longer, d, x) <=> Descends(log, d, x)
<1>1. DOMAIN Lineage(log, d) = 1..Steps /\ DOMAIN Lineage(longer, d) = 1..Steps
  BY LineageDomain
<1>2. \A k \in 1..Steps : Lineage(longer, d)[k] = Lineage(log, d)[k]
  BY LineageStays
<1> QED  BY <1>1, <1>2 DEF Descends

(* What is decided on the record keeps amendments replacing, and what is   *)
(* still on its way stays decided unless it was a grant that landed.       *)
LEMMA RecordGrows ==
    ASSUME Steps \in Nat, NEW log \in Seq(MandateEvents), NEW e \in MandateEvents,
           NEW longer, longer = Append(log, e),
           CountersKnown(log), GrantsKnown(log), Replaces(log),
           e.kind = "drafted" => e.refers \in Known(log),
           e.kind = "activated" => Grants(log, e)
    PROVE  /\ CountersKnown(longer) /\ GrantsKnown(longer) /\ Replaces(longer)
           /\ Known(log) \subseteq Known(longer)
           /\ e.kind # "activated" => \A f : Grants(log, f) => Grants(longer, f)
<1>1. \A x \in Drafts(log) : x \in Drafts(longer) /\ CounterOf(longer, x) = CounterOf(log, x)
  BY DraftStays
<1>2. \A x \in Drafts(longer) \ Drafts(log) : e.kind = "drafted" /\ CounterOf(longer, x) = e.refers
  BY DraftComes, ZenonT(40)
<1>3. ASSUME NEW n \in Mandates(log)
      PROVE  /\ n \in Mandates(longer) /\ DraftOf(longer, n) = DraftOf(log, n)
             /\ IsActive(longer, n) => IsActive(log, n) /\ ~ EndsMandate(e, n)
  <2>1. n \in Mandates(longer) /\ DraftOf(longer, n) = DraftOf(log, n)
    BY GrantStays
  <2>2. IsActive(longer, n) => IsActive(log, n) /\ ~ EndsMandate(e, n)
    BY EndStays
  <2> QED  BY <2>1, <2>2
<1>4. ASSUME NEW n \in Mandates(longer) \ Mandates(log)
      PROVE  e.kind = "activated" /\ n = e.mandate /\ DraftOf(longer, n) = e.draft
  BY GrantComes
<1>5. \A d \in Drafts(log) : \A x : Descends(longer, d, x) <=> Descends(log, d, x)
  BY <1>1, DescentStays
<1>6. Known(log) \subseteq Known(longer)
  BY <1>1 DEF Known
<1>7. CountersKnown(longer)
  BY <1>1, <1>2, <1>6 DEF CountersKnown
<1>8. GrantsKnown(longer)
  BY <1>1, <1>3, <1>4 DEF GrantsKnown, Grants
<1>9. ASSUME NEW m \in Mandates(longer), NEW n \in Mandates(longer),
             m # n, IsActive(longer, m), IsActive(longer, n)
      PROVE  /\ DraftOf(longer, m) # DraftOf(longer, n)
             /\ ~ Descends(longer, DraftOf(longer, m), DraftOf(longer, n))
  <2>1. CASE m \in Mandates(log) /\ n \in Mandates(log)
    <3>1. /\ DraftOf(log, m) # DraftOf(log, n)
          /\ ~ Descends(log, DraftOf(log, m), DraftOf(log, n))
      BY <1>3, <1>9, <2>1 DEF Replaces
    <3>2. DraftOf(log, m) \in Drafts(log)
      BY <2>1 DEF GrantsKnown
    <3> QED  BY <1>3, <1>5, <2>1, <3>1, <3>2
  <2>2. CASE m \in Mandates(log) /\ n \notin Mandates(log)
    <3>1. Grants(log, e) /\ DraftOf(longer, n) = e.draft
      BY <1>4, <2>2
    <3>2. DraftOf(log, m) # e.draft /\ ~ Descends(log, DraftOf(log, m), e.draft)
      BY <2>2, <3>1 DEF Grants
    <3>3. DraftOf(log, m) \in Drafts(log)
      BY <2>2 DEF GrantsKnown
    <3> QED  BY <1>3, <1>5, <2>2, <3>1, <3>2, <3>3
  <2>3. CASE m \notin Mandates(log) /\ n \in Mandates(log)
    <3>1. e.kind = "activated" /\ Grants(log, e) /\ DraftOf(longer, m) = e.draft
      BY <1>4, <2>3
    <3>2. IsActive(log, n) /\ ~ EndsMandate(e, n) /\ DraftOf(longer, n) = DraftOf(log, n)
      BY <1>3, <1>9, <2>3
    <3>3. n # e.refers
      BY <3>1, <3>2 DEF EndsMandate
    <3>4. DraftOf(log, n) # e.draft /\ ~ Descends(log, e.draft, DraftOf(log, n))
      BY <2>3, <3>1, <3>2, <3>3 DEF Grants
    <3>5. e.draft \in Drafts(log)
      BY <3>1 DEF Grants
    <3> QED  BY <1>5, <3>1, <3>2, <3>4, <3>5
  <2>4. CASE m \notin Mandates(log) /\ n \notin Mandates(log)
    BY <1>4, <1>9, <2>4
  <2> QED  BY <2>1, <2>2, <2>3, <2>4
<1>10. Replaces(longer)
  BY <1>9 DEF Replaces
<1>11. ASSUME e.kind # "activated", NEW f, Grants(log, f) PROVE Grants(longer, f)
  <2>1. f.draft \in Drafts(log) /\ f.draft \in Drafts(longer)
    BY <1>1, <1>11 DEF Grants
  <2>2. ASSUME NEW n \in Mandates(longer)
        PROVE  /\ DraftOf(longer, n) # f.draft /\ ~ Descends(longer, DraftOf(longer, n), f.draft)
               /\ IsActive(longer, n) /\ Descends(longer, f.draft, DraftOf(longer, n)) => n = f.refers
    <3>1. n \in Mandates(log) /\ DraftOf(longer, n) = DraftOf(log, n)
      BY <1>3, <1>4, <1>11
    <3>2. DraftOf(log, n) \in Drafts(log)
      BY <3>1 DEF GrantsKnown
    <3>3. DraftOf(log, n) # f.draft /\ ~ Descends(log, DraftOf(log, n), f.draft)
      BY <1>11, <3>1 DEF Grants
    <3>4. IsActive(log, n) /\ Descends(log, f.draft, DraftOf(log, n)) => n = f.refers
      BY <1>11, <3>1 DEF Grants
    <3> QED  BY <1>3, <1>5, <2>1, <3>1, <3>2, <3>3, <3>4
  <2> QED  BY <2>1, <2>2 DEF Grants
<1> QED  BY <1>6, <1>7, <1>8, <1>10, <1>11

(* An open draft may be granted.                                           *)
LEMMA OpenGrants ==
    ASSUME Steps \in Nat, NEW log, DOMAIN log \subseteq Nat, Replaces(log), NEW e,
           IsOpen(log, e.draft), e.refers = Prior(log, e.draft)
    PROVE  Grants(log, e)
<1>1. e.draft \in Drafts(log)
  BY DEF IsOpen
<1>2. ASSUME NEW n \in Mandates(log)
      PROVE  DraftOf(log, n) # e.draft /\ ~ Descends(log, DraftOf(log, n), e.draft)
  BY OpenHasNoHeirs, OpenIsUngranted
<1>3. ASSUME NEW n \in Mandates(log), IsActive(log, n), Descends(log, e.draft, DraftOf(log, n))
      PROVE  n = e.refers
  BY <1>3, PriorIsTheOne
<1> QED  BY <1>1, <1>2, <1>3 DEF Grants

-----------------------------------------------------------------------------
(* Only gestures activate.                                                 *)
LEMMA HumansStep ==
    ASSUME CacheInv, TypeOK, HumansActivate, Next
    PROVE  HumansActivate'
<1>0. job \in [Callers -> [op : Ops, id : IdOrNone]]
  BY DEF TypeOK
<1>1. ASSUME NEW c \in Callers, job'[c].op = "activate" PROVE c \in Humans
  <2>1. CASE job'[c] = job[c]
    BY <1>1, <2>1 DEF HumansActivate
  <2>2. CASE job'[c] = NoJob
    BY <1>1, <2>2 DEF NoJob
  <2>3. CASE Begins(c)
    <3>1. PICK op \in Ops, id \in IdOrNone : Starts(c, op, id) /\ (op = "activate" => c \in Humans)
      BY <2>3 DEF Begins
    <3>2. job'[c] = [op |-> op, id |-> id]
      BY <1>0, <3>1 DEF Starts, Job
    <3> QED  BY <1>1, <3>1, <3>2
  <2>4. CASE job'[c] = [job[c] EXCEPT !.op = "charge"] \/ job'[c] = [job[c] EXCEPT !.op = "observe"]
    <3>1. job'[c].op # "activate"
      BY <1>0, <2>4
    <3> QED  BY <1>1, <3>1
  <2> QED  BY <2>1, <2>2, <2>3, <2>4, JobSteps
<1> QED  BY <1>1 DEF HumansActivate

(* What lands was decided on the record, and nothing that landed since     *)
(* disturbs it: a lone gesture is not on the way twice.                    *)
LEMMA OnTheWayStep ==
    ASSUME CacheInv, TypeOK, HumansActivate, Amended, ~ misled',
           Steps \in Nat, \A g, h \in Humans : g = h, Next
    PROVE  Amended'
<1>0. /\ disk \in Seq(MandateEvents) /\ DOMAIN disk \subseteq Nat
      /\ CountersKnown(disk) /\ GrantsKnown(disk) /\ Replaces(disk)
  BY EventsAssumption DEF Amended, CacheInv, LogTypeOK
<1> DEFINE Fine(log, x) == /\ x.event.kind = "drafted" => x.event.refers \in Known(log)
                           /\ x.event.kind = "activated" => x.by \in Humans /\ Grants(log, x.event)
<1>1. \A j \in DOMAIN chain : Fine(disk, chain[j])
  BY DEF Amended, OnTheWay
<1>2. CASE disk' = disk
  <2>1. ASSUME NEW i \in DOMAIN chain' PROVE Fine(disk, chain'[i])
    <3>1. CASE \E j \in DOMAIN chain : chain'[i] = chain[j]
      BY <1>1, <3>1
    <3>2. CASE /\ Grounded(disk, chain'[i].event, job[chain'[i].by])
               /\ chain'[i].by \in Callers
      <4>1. chain'[i].event.kind = "drafted" => chain'[i].event.refers \in Known(disk)
        BY <3>2 DEF Grounded
      <4>2. ASSUME chain'[i].event.kind = "activated"
            PROVE  chain'[i].by \in Humans /\ Grants(disk, chain'[i].event)
        <5>1. /\ job[chain'[i].by].op = "activate"
              /\ IsOpen(disk, chain'[i].event.draft)
              /\ chain'[i].event.refers = Prior(disk, chain'[i].event.draft)
          BY <3>2, <4>2 DEF Grounded
        <5>2. chain'[i].by \in Humans
          BY <3>2, <5>1 DEF HumansActivate
        <5>3. Grants(disk, chain'[i].event)
          BY <1>0, <5>1, OpenGrants
        <5> QED  BY <5>2, <5>3
      <4> QED  BY <4>1, <4>2
    <3> QED  BY <3>1, <3>2, ChainSteps
  <2>2. OnTheWay'
    BY <1>2, <2>1 DEF OnTheWay
  <2> QED  BY <1>0, <1>2, <2>2 DEF Amended
<1>3. CASE AppendLands
  <2> DEFINE e == Head(chain).event
  <2>1. /\ chain # << >> /\ e \in MandateEvents /\ disk' = Append(disk, e) /\ chain' = Tail(chain)
        /\ 1 \in DOMAIN chain /\ Head(chain) = chain[1]
        /\ \A i \in DOMAIN Tail(chain) :
              Tail(chain)[i] = chain[i + 1] /\ i + 1 \in DOMAIN chain /\ Tail(chain)[i].by # chain[1].by
    BY <1>3, RecordSteps, ChainHead, EventsAssumption DEF AppendLands, Land
  <2>2. Fine(disk, chain[1]) /\ e = chain[1].event
    BY <1>1, <2>1
  <2> HIDE DEF e
  <2>3. /\ e.kind = "drafted" => e.refers \in Known(disk)
        /\ e.kind = "activated" => Grants(disk, e)
    BY <2>2
  <2>4. /\ CountersKnown(disk') /\ GrantsKnown(disk') /\ Replaces(disk')
        /\ Known(disk) \subseteq Known(disk')
        /\ e.kind # "activated" => \A f : Grants(disk, f) => Grants(disk', f)
    BY <1>0, <2>1, <2>3, RecordGrows
  <2>5. ASSUME NEW i \in DOMAIN chain' PROVE Fine(disk', chain'[i])
    <3>1. chain'[i] = chain[i + 1] /\ i + 1 \in DOMAIN chain /\ chain[i + 1].by # chain[1].by
      BY <2>1
    <3>2. Fine(disk, chain[i + 1])
      BY <1>1, <3>1
    <3>3. ASSUME chain[i + 1].event.kind = "activated" PROVE Grants(disk', chain[i + 1].event)
      <4>1. e.kind # "activated"
        <5>1. CASE e.kind = "activated"
          <6>1. chain[1].by \in Humans /\ chain[i + 1].by \in Humans
            BY <2>2, <3>2, <3>3, <5>1
          <6> QED  BY <3>1, <6>1
        <5> QED  BY <5>1
      <4> QED  BY <2>4, <3>2, <3>3, <4>1
    <3> QED  BY <2>4, <3>1, <3>2, <3>3
  <2>6. OnTheWay'
    BY <2>5 DEF OnTheWay
  <2> QED  BY <2>4, <2>6 DEF Amended
<1> QED  BY <1>2, <1>3, RecordSteps

LEMMA AmendmentStep ==
    ASSUME MandatesInv, AmendmentInv, Steps \in Nat, \A g, h \in Humans : g = h, [Next]_vars
    PROVE  AmendmentInv'
<1>1. CASE Next
  <2>1. HumansActivate'
    BY <1>1, HumansStep DEF MandatesInv, AmendmentInv
  <2>2. ASSUME ~ misled' PROVE Amended'
    <3>1. ~ misled
      BY <1>1, <2>2, MisledSteps DEF MandatesInv
    <3> QED  BY <1>1, <2>2, <3>1, OnTheWayStep DEF MandatesInv, AmendmentInv
  <2> QED  BY <2>1, <2>2 DEF AmendmentInv
<1>2. CASE UNCHANGED vars
  BY <1>2 DEF vars, logVars, callVars, AmendmentInv, Amended, OnTheWay, HumansActivate
<1> QED  BY <1>1, <1>2

LEMMA AmendmentInitially == Init => AmendmentInv
<1> SUFFICES ASSUME Init PROVE AmendmentInv
  OBVIOUS
<1>1. disk = << >> /\ chain = << >> /\ DOMAIN disk = {} /\ DOMAIN chain = {}
  BY DEF Init, LogInit
<1>2. Drafts(disk) = {} /\ Mandates(disk) = {}
  BY <1>1 DEF Drafts, DraftedAt, Mandates, GrantedAt, Places
<1>3. HumansActivate
  BY DEF Init, HumansActivate, NoJob
<1> QED  BY <1>1, <1>2, <1>3 DEF AmendmentInv, Amended, CountersKnown, GrantsKnown, Replaces, OnTheWay

(* An amendment replaces the grant it amends, however long a chain of      *)
(* counters it stands at the end of: with one gesture at a time, of two    *)
(* active grants neither is of a draft the other's descends from, while    *)
(* nothing was decided on an overtaken cache.                              *)
THEOREM AmendmentHolds ==
    (\A g, h \in Humans : g = h) => (Spec => []AmendmentReplaces)
<1> SUFFICES ASSUME \A g, h \in Humans : g = h
             PROVE  Spec => []AmendmentReplaces
  OBVIOUS
<1>1. Steps \in Nat
  BY MandatesAssumption, FS_CardinalityType DEF Steps
<1>2. MandatesInv /\ AmendmentInv /\ [Next]_vars => AmendmentInv'
  BY <1>1, AmendmentStep
<1>3. AmendmentInv => AmendmentReplaces
  BY DEF AmendmentInv, Amended, Replaces, AmendmentReplaces
<1> QED  BY <1>2, <1>3, AmendmentInitially, MandatesInvariant, PTL DEF Spec
=============================================================================
