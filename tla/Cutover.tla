------------------------------- MODULE Cutover -------------------------------
(***************************************************************************)
(* The cutover of authority (governor/wiring/migration-wiring.ts and       *)
(* governor/kernel/migration): by one click the accepted baselines cease   *)
(* to be what stands and the admission chain takes over.                   *)
(*                                                                         *)
(* The marker file says which of them stands.  It lies in the vault and    *)
(* travels with it, so it also names the store it authorizes, whose id     *)
(* lies beside the chain on this machine.  The legacy writers ask what was *)
(* last read or written of the marker; admission reads it every time.      *)
(* Clicks are not serialized, and the process may end between any two      *)
(* steps.                                                                  *)
(***************************************************************************)
EXTENDS Naturals, FiniteSets, SequencesExt

CONSTANTS
    Cutovers, Binds, Rollbacks,   \* the clicks, each made at most once
    Looks,          \* readers of the status or of the binding
    Records,        \* what legacy acceptance may come to hold
    NoStore,        \* no store id
    OtherStore,     \* the id of another machine's store
    MaxClicks,      \* how many of the clicks are made
    AtOnce,         \* how many of them may be under way together
    MaxArrivals     \* how often the marker is replaced from outside

Clicks == Cutovers \cup Binds \cup Rollbacks

ASSUME CutoverAssumption ==
    /\ Cutovers \cap Binds = {}
    /\ (Cutovers \cup Binds) \cap Rollbacks = {}
    /\ NoStore \notin Clicks /\ OtherStore \notin Clicks /\ NoStore # OtherStore
    /\ MaxClicks \in Nat /\ AtOnce \in Nat /\ MaxArrivals \in Nat

VARIABLES
    marker,     \* the marker file
    storeId,    \* this machine's store id, on disk
    cached,     \* the marker as last read or written, with `corrupt`
    baselines,  \* legacy records accepted
    writing,    \* legacy writes past their guard
    evidence,   \* the imported records, in the file's order
    imports,    \* the chain of imports
    act,        \* click -> where it is and what it holds
    look,       \* reader -> the marker it has read
    arrivals,   \* how often the marker was replaced
    unread,     \* history: whether that has not been read since
    crossed     \* history: whether one of these acted on what another, or a
                \* failed read, had overtaken

disk == << marker, storeId, evidence >>
legacy == << baselines, writing >>
told == << arrivals, unread, crossed >>
cutoverVars == << marker, storeId, cached, baselines, writing, evidence,
                  imports, act, look, arrivals, unread, crossed >>

(* Any click that mints names the store after itself.                      *)
Stores == Cutovers \cup Binds \cup {NoStore, OtherStore}
Markers == [torn : BOOLEAN, cut : BOOLEAN, store : Stores]

(* CUTOVER_DEFAULT is what an absent file reads as, and the fallback what  *)
(* one that cannot be parsed reads as: fewer writers.                      *)
NeverCut == [torn |-> FALSE, cut |-> FALSE, store |-> NoStore]
Torn == [torn |-> TRUE, cut |-> TRUE, store |-> NoStore]
CutFor(s) == [torn |-> FALSE, cut |-> TRUE, store |-> s]

(* isCutOver(): the legacy writers refuse.                                 *)
IsCutOver == cached.cut \/ cached.torn

(* bindingVerdict(): admission acts unless it is unbound or mismatched.    *)
BindingVerdict(m) ==
    CASE ~m.cut -> "pre-cutover"
      [] m.cut /\ m.store = NoStore -> "marker-unbound"
      [] m.cut /\ m.store # NoStore /\ m.store = storeId -> "bound"
      [] OTHER -> "store-mismatch"

(* What another machine, a restore or a half-done write may leave.         *)
Arriving == {NeverCut, Torn, CutFor(NoStore), CutFor(OtherStore)}

(* A click holds the records its import is to bring, those it knows to be  *)
(* evidence, whether the import is the one after the confirmation, and the *)
(* store its marker will name; and, as history, whether the marker changed *)
(* since it first read it, and the records there were at the confirmation. *)
Idle == [step |-> "idle", plan |-> {}, keys |-> {}, id |-> NoStore,
         stale |-> FALSE, sure |-> FALSE, confirmed |-> {}]
Done == [Idle EXCEPT !.step = "done"]

At(g, s) == act[g].step = s
UnderWay == {g \in Clicks : act[g] \notin {Idle, Done}}
MayBegin(g) ==
    /\ act[g] = Idle
    /\ Cardinality(UnderWay) < AtOnce
    /\ Cardinality({c \in Clicks : act[c] # Idle}) < MaxClicks
Goes(g, from, to) == At(g, from) /\ act' = [act EXCEPT ![g].step = to]
Ends(g) == act' = [act EXCEPT ![g] = Done]

(* The marker changes under those who have read it.                        *)
Stale(a) == [g \in Clicks |->
    [a[g] EXCEPT !.stale =
        a[g].step \in {"minting", "storing", "marking", "writing"}]]

(* Nothing this machine's clicks have done so far, on a vault never cut    *)
(* over or cut over before markers were bound.                             *)
CutoverInit ==
    /\ marker \in {NeverCut, CutFor(NoStore)}
    /\ cached = marker
    /\ storeId = NoStore
    /\ baselines = {} /\ writing = {}
    /\ evidence = << >> /\ imports = << >>
    /\ act = [g \in Clicks |-> Idle]
    /\ look = [l \in Looks |-> {}]
    /\ arrivals = 0 /\ unread = FALSE /\ crossed = FALSE

-----------------------------------------------------------------------------
(* A button stays on a pane for as long as that is open, whatever has      *)
(* become of the marker it was rendered for.                               *)
(*                                                                         *)
(* runImport(), for the report a cutover is to be confirmed on: the        *)
(* surfaces are read, what is to be brought is fixed, and the import goes  *)
(* on the chain.  The import button's click is one that is not confirmed.  *)
RunImport(g) ==
    /\ g \in Cutovers /\ MayBegin(g)
    /\ act' = [act EXCEPT ![g] =
                 [@ EXCEPT !.step = "queued", !.plan = baselines]]
    /\ imports' = Append(imports, g)
    /\ UNCHANGED << disk, cached, legacy, look, told >>

(* Mutant: imports do not wait for one another.                            *)
ExistingKeysAtOnce(g) ==
    /\ At(g, "queued")
    /\ act' = [act EXCEPT ![g] =
                 [@ EXCEPT !.step = "appending", !.keys = ToSet(evidence)]]
    /\ UNCHANGED << disk, cached, legacy, imports, look, told >>

(* Its turn: existingKeys().                                               *)
ExistingKeys(g) ==
    /\ imports # << >> /\ Head(imports) = g
    /\ At(g, "queued")
    /\ act' = [act EXCEPT ![g] =
                 [@ EXCEPT !.step = "appending", !.keys = ToSet(evidence)]]
    /\ UNCHANGED << disk, cached, legacy, imports, look, told >>

AppendRecord(g) ==
    /\ At(g, "appending")
    /\ \E r \in act[g].plan \ act[g].keys :
        /\ evidence' = Append(evidence, r)
        /\ act' = [act EXCEPT ![g] = [@ EXCEPT !.keys = act[g].keys \cup {r}]]
    /\ UNCHANGED << marker, storeId, cached, legacy, imports, look, told >>

(* The first brings up the report to confirm, the second the mint.         *)
ImportEnds(g) ==
    /\ At(g, "appending") /\ act[g].plan \subseteq act[g].keys
    /\ act' = [act EXCEPT ![g] =
                 [@ EXCEPT !.step = IF act[g].sure THEN "minting" ELSE "asked",
                           !.plan = {}, !.keys = {}]]
    /\ imports' = Tail(imports)
    /\ UNCHANGED << disk, cached, legacy, look, told >>

(* The keys or a record cannot be read or written: the click ends with a   *)
(* notice, and the chain goes on.                                          *)
ImportFails(g) ==
    /\ At(g, "appending") /\ Ends(g)
    /\ imports' = Tail(imports)
    /\ UNCHANGED << disk, cached, legacy, look, told >>

(* confirmCutover(): the report is confirmed, and cutOver() imports again, *)
(* or it is not, or the surfaces cannot be read.                           *)
ConfirmCutover(g) ==
    /\ At(g, "asked")
    /\ \/ /\ act' = [act EXCEPT ![g] =
                       [@ EXCEPT !.step = "queued", !.sure = TRUE,
                                 !.plan = baselines, !.confirmed = baselines]]
          /\ imports' = Append(imports, g)
       \/ Ends(g) /\ UNCHANGED imports
    /\ UNCHANGED << disk, cached, legacy, look, told >>

-----------------------------------------------------------------------------
(* cutoverStore.read(): a file that is there but cannot be read just now   *)
(* is taken for torn.  On a click's way the flag follows what was read and *)
(* the cached marker does not.                                             *)
Readings == {marker, Torn}
Reads(m) == cached' = [cached EXCEPT !.torn = m.torn]

(* Mutant: whatever was read.                                              *)
CheckNothing(g) ==
    /\ g \in Binds \cup Rollbacks /\ MayBegin(g)
    /\ \E m \in Readings : Reads(m)
    /\ act' = [act EXCEPT ![g].step = IF g \in Binds THEN "minting" ELSE "marking"]
    /\ UNCHANGED << disk, legacy, imports, look, told >>

(* bindChain(), rollback(): never over a marker that cannot be read.       *)
Check(g) ==
    /\ g \in Binds \cup Rollbacks /\ MayBegin(g)
    /\ \E m \in Readings :
        /\ Reads(m)
        /\ IF m.torn
           THEN Ends(g)
           ELSE act' = [act EXCEPT ![g].step =
                          IF g \in Binds THEN "minting" ELSE "marking"]
    /\ UNCHANGED << disk, legacy, imports, look, told >>

(* Mutant: the new id is not stored.                                       *)
MintUnstored(g) ==
    /\ At(g, "minting")
    /\ act' = [act EXCEPT ![g] =
                 [@ EXCEPT !.id = IF storeId # NoStore THEN storeId ELSE g,
                           !.step = "marking"]]
    /\ UNCHANGED << disk, cached, legacy, imports, look, told >>

(* mintStoreIdGestured(): the id there is, or a new one.  An id that       *)
(* cannot be read passes for none.                                         *)
MintStoreId(g) ==
    /\ At(g, "minting")
    /\ \/ /\ storeId # NoStore
          /\ act' = [act EXCEPT ![g] =
                       [@ EXCEPT !.id = storeId, !.step = "marking"]]
       \/ act' = [act EXCEPT ![g] = [@ EXCEPT !.id = g, !.step = "storing"]]
    /\ UNCHANGED << disk, cached, legacy, imports, look, told >>

(* Mutant: a store the marker names is adopted.                            *)
StoreMintAdopting(g) ==
    /\ Goes(g, "storing", "marking")
    /\ storeId' = IF marker.store # NoStore THEN marker.store ELSE act[g].id
    /\ crossed' = (crossed \/ storeId # NoStore)
    /\ UNCHANGED << marker, evidence, cached, legacy, imports, look, arrivals,
                    unread >>

StoreMint(g) ==
    /\ Goes(g, "storing", "marking")
    /\ storeId' = act[g].id
    /\ crossed' = (crossed \/ storeId # NoStore)
    /\ UNCHANGED << marker, evidence, cached, legacy, imports, look, arrivals,
                    unread >>

(* The refusals of performCutover, bindMarker and rollbackCutover.         *)
MayMark(g, m) ==
    \/ g \in Cutovers /\ ~m.cut
    \/ g \in Binds /\ m.cut /\ m.store = NoStore
    \/ g \in Rollbacks /\ m.cut

(* A rollback keeps the store the marker names.                            *)
Naming(g, m) == IF g \in Rollbacks THEN m.store ELSE act[g].id

ReadToMark(g) ==
    /\ At(g, "marking")
    /\ \E m \in Readings :
        /\ Reads(m)
        /\ IF MayMark(g, m)
           THEN act' = [act EXCEPT ![g] =
                          [@ EXCEPT !.step = "writing",
                                    !.id = Naming(g, m),
                                    !.stale = \/ act[g].stale /\ g \notin Cutovers
                                              \/ m # marker]]
           ELSE Ends(g)
    /\ UNCHANGED << disk, legacy, imports, look, told >>

Marks(g) == [CutFor(act[g].id) EXCEPT !.cut = g \notin Rollbacks]

WriteLands(g) ==
    /\ At(g, "writing")
    /\ marker' = Marks(g)
    /\ act' = Stale([act EXCEPT ![g].step = "returning"])
    /\ crossed' = (crossed \/ act[g].stale)
    /\ UNCHANGED << storeId, evidence, cached, legacy, imports, look, arrivals,
                    unread >>

(* Mutant: what was written is not cached.                                 *)
WriteReturnsUncached(g) ==
    /\ At(g, "returning") /\ Ends(g)
    /\ cached' = [cached EXCEPT !.torn = FALSE]
    /\ unread' = (unread /\ marker # Marks(g))
    /\ crossed' = (crossed \/ marker # Marks(g))
    /\ UNCHANGED << disk, legacy, imports, look, arrivals >>

WriteReturns(g) ==
    /\ At(g, "returning") /\ Ends(g)
    /\ cached' = Marks(g)
    /\ unread' = (unread /\ marker # Marks(g))
    /\ crossed' = (crossed \/ marker # Marks(g))
    /\ UNCHANGED << disk, legacy, imports, look, arrivals >>

(* A write that fails throws, and leaves the file as it was.               *)
WriteFails(g) ==
    /\ At(g, "storing") \/ At(g, "writing")
    /\ Ends(g)
    /\ UNCHANGED << disk, cached, legacy, imports, look, told >>

-----------------------------------------------------------------------------
(* status(), and binding() for the pane and for each admission: what was   *)
(* read, if it could be, replaces what is cached.                          *)
LookReads(l) ==
    /\ look[l] = {}
    /\ look' = [look EXCEPT ![l] = {marker}]
    /\ UNCHANGED << disk, cached, legacy, imports, act, told >>

LookReturns(l) ==
    /\ look[l] # {}
    /\ cached' \in look[l] \cup {Torn}
    /\ look' = [look EXCEPT ![l] = {}]
    /\ unread' = (unread /\ marker # cached')
    /\ crossed' = (crossed \/ cached' \notin Readings)
    /\ UNCHANGED << disk, legacy, imports, act, arrivals >>

(* setBaseline(), rekey() and the log line beside them: the guard is asked *)
(* at the call, and the write lands some time after.                       *)
LegacyBegins(r) ==
    /\ ~IsCutOver
    /\ r \notin baselines \cup writing
    /\ writing' = writing \cup {r}
    /\ UNCHANGED << disk, cached, baselines, imports, act, look, told >>

LegacyLands(r) ==
    /\ r \in writing
    /\ writing' = writing \ {r}
    /\ baselines' = baselines \cup {r}
    /\ UNCHANGED << disk, cached, imports, act, look, told >>

-----------------------------------------------------------------------------
(* A sync or a restore replaces the marker under the running process.      *)
Arrives ==
    /\ arrivals < MaxArrivals
    /\ arrivals' = arrivals + 1
    /\ marker' \in Arriving \ {marker}
    /\ act' = Stale(act)
    /\ unread' = TRUE
    /\ UNCHANGED << storeId, evidence, cached, legacy, imports, look, crossed >>

(* The process ends, perhaps in the middle of writing the marker; the next *)
(* one loads it before any legacy write is possible (loadState()).         *)
Restart ==
    /\ \/ marker' = marker
       \/ marker' = Torn /\ \E g \in Clicks : At(g, "writing")
    /\ cached' \in {marker', Torn}
    /\ writing' = {} /\ imports' = << >>
    /\ act' = [g \in Clicks |-> IF At(g, "idle") THEN Idle ELSE Done]
    /\ look' = [l \in Looks |-> {}]
    /\ unread' = FALSE
    /\ UNCHANGED << storeId, baselines, evidence, arrivals, crossed >>

CutoverNext ==
    \/ \E g \in Clicks :
        \/ RunImport(g) \/ ExistingKeys(g) \/ AppendRecord(g) \/ ImportEnds(g)
        \/ ImportFails(g) \/ ConfirmCutover(g) \/ Check(g) \/ MintStoreId(g)
        \/ StoreMint(g) \/ ReadToMark(g) \/ WriteLands(g) \/ WriteReturns(g)
        \/ WriteFails(g)
    \/ \E l \in Looks : LookReads(l) \/ LookReturns(l)
    \/ \E r \in Records : LegacyBegins(r) \/ LegacyLands(r)
    \/ Arrives
    \/ Restart

CutoverSpec == CutoverInit /\ [][CutoverNext]_cutoverVars
-----------------------------------------------------------------------------
Steps == {"idle", "queued", "appending", "asked", "minting", "storing",
          "marking", "writing", "returning", "done"}

Clicked == [step : Steps, plan : SUBSET Records, keys : SUBSET Records,
            id : Stores, stale : BOOLEAN, sure : BOOLEAN,
            confirmed : SUBSET Records]

(* A store id is one that was minted here, never one that came with the    *)
(* vault.                                                                  *)
CutoverTypeOK ==
    /\ marker \in Markers /\ cached \in Markers
    /\ storeId \in Stores \ {OtherStore}
    /\ baselines \subseteq Records /\ writing \subseteq Records
    /\ evidence \in Seq(Records) /\ imports \in Seq(Cutovers)
    /\ act \in [Clicks -> Clicked]
    /\ \A l \in Looks : look[l] \subseteq Markers /\ Cardinality(look[l]) <= 1
    /\ arrivals \in 0..MaxArrivals
    /\ unread \in BOOLEAN /\ crossed \in BOOLEAN

(* The legacy writers are refused once the marker says so, and again       *)
(* allowed once it no longer does, unless it could not be read meanwhile   *)
(* (migration-wiring.ts: isCutOver fails toward fewer writers), after any  *)
(* clicks, refusals, failures and restarts: but for a marker from outside  *)
(* that was not read yet, and where a reader or a second click overlapped  *)
(* a write.                                                                *)
GuardTellsTheMarker ==
    ~crossed /\ ~unread /\ (\A g \in Clicks : ~At(g, "returning"))
        => /\ marker.cut => IsCutOver
           /\ IsCutOver => marker.cut \/ cached.torn \/ cached.store = NoStore

(* Never neither (cutover.ts: half-landed means legacy authoritative): a   *)
(* marker this machine cut over, or bound, names the store it has, so that *)
(* admission acts, wherever the click before it, or the process, stopped.  *)
BoundToThisStore ==
    ~crossed /\ marker.cut /\ marker.store \in Clicks
        => BindingVerdict(marker) = "bound"

(* A click never replaces a marker that could not be read, nor takes one   *)
(* bound to a store from it, but by rolling back (migration-wiring.ts:     *)
(* bindChain and rollback, cutover.ts: bindMarker), unless the marker      *)
(* changed, or could no longer be read, after the click first read it.     *)
OverwritesOnlyWhatItMay ==
    [][arrivals' = arrivals /\ ~crossed' /\ ~marker'.torn =>
         /\ marker.torn => FALSE
         /\ marker.cut /\ marker.store # NoStore =>
                marker' \in {marker, [marker EXCEPT !.cut = FALSE]}]_marker

(* Clicks overlap, fail and are cut off by restarts, but no record is      *)
(* imported twice, and when the marker is written what there was at the    *)
(* confirmation is evidence (legacy-import.ts: importRecords;              *)
(* migration-wiring.ts: cutOver imports again).                            *)
ImportedOnceAndWhole ==
    /\ IsInjective(evidence)
    /\ \A g \in Cutovers :
        At(g, "returning") => act[g].confirmed \subseteq ToSet(evidence)
=============================================================================
