---------------------------- MODULE DisplayPlane ----------------------------
(***************************************************************************)
(* The display plane of the cell galaxy (display_plane.rs, DisplayPlane),  *)
(* driven by the handlers of the cells projection (cells.rs) and followed  *)
(* by a page that holds what the Display deltas told it                    *)
(* (cellsReducer.ts).                                                      *)
(*                                                                         *)
(* One action is one mutation: its handler's hooks, then the flush, then   *)
(* the one coalesced delta.  The map enters through the births and deaths  *)
(* of the current branch (journal); the cells it retains are the ones the  *)
(* plane mirrors as present, corpses included until the sweep.  Identity   *)
(* of a canonical cell is its outpoint: a revived cell keeps its id        *)
(* (CellPipeline).  Outpoints in Old live on the chain outside the map.    *)
(*                                                                         *)
(* The fetch of a composition record is modelled by what the installation  *)
(* needs of it: when it was anchored, and what it holds.                   *)
(***************************************************************************)
EXTENDS CompositionPolicy

CONSTANTS Old, New,      \* outpoints older than the map; those to be born
          Records,       \* contents a hydrated record or top-up may have
          CorpseHold,    \* CORPSE_HOLD_MS, in blocks
          MaxHeight, MaxReorgs, MaxRecords, MaxTxs   \* bounds of the model

ASSUME PlaneAssumption ==
  /\ Old \cap New = {}
  /\ \A o \in Old \cup New : o \in Nat /\ o < CompBase
  /\ DOMAIN ClassOf = Old \cup New
  /\ Records \subseteq SUBSET (Old \cup New)
  /\ CorpseHold \in Nat

VARIABLES
  plane,      \* the stage and the policy
  height,     \* newest block
  journal,    \* births and deaths of the branch: <<block, kind, outpoint>>
  baseline,   \* backfill_baseline: the open replay's, or none
  inbound,    \* a hydrated record on its way to the projections, or none
  page,       \* displayMembers of a page
  stale,      \* outpoints a record installed after their spend
  sealed,     \* newest block known to be complete
  spent       \* how much of each bound is used

vars == <<plane, height, journal, baseline, inbound, page, stale, sealed, spent>>

None == <<>>
Replaying == baseline # None

On(kind) == {journal[i][3] : i \in {j \in DOMAIN journal : journal[j][2] = kind}}
BlockOf(kind, o) == (CHOOSE e \in Range(journal) : e[2] = kind /\ e[3] = o)[1]
At(kind, h) ==
  LET entries == SelectSeq(journal, LAMBDA e : e[1] = h /\ e[2] = kind)
  IN  [i \in DOMAIN entries |-> entries[i][3]]
(* Outpoints are created in the order of their numbers. *)
Unborn == LET rest == New \ On("birth") IN IF rest = {} THEN {} ELSE {Min(rest)}
Unspent == (Old \cup On("birth")) \ On("death")
(* outpoint_index: the map's living cells. *)
Index(d) == Present(d) \ On("death")

---------------------------------------------------------------------------
(* The recency window: settle_tip. *)

ReleaseOldestTip(d) == Unstage(d, Oldest(d, InRole(d, "tip")))

RECURSIVE TrimTip(_)
TrimTip(d) ==
  IF Cardinality(InRole(d, "tip")) > d.tipQuota THEN TrimTip(ReleaseOldestTip(d)) ELSE d

WindowFull(d) == Cardinality(InRole(d, "tip")) >= d.tipQuota

MayClaim(d) ==
  /\ TipPool(d) # {}
  /\ WindowFull(d) =>
       /\ InRole(d, "tip") # {}
       /\ Younger(d, Youngest(d, TipPool(d)), Oldest(d, InRole(d, "tip")))

(* Mutant: the policy is not told that the endpoint left its field. *)
TakeTipUntold(d, id) ==
  IF id \in InRole(d, "activity") THEN Promote(d, id, "tip") ELSE Seat(d, id, "tip")

TakeTip(d, id) ==
  IF id \in InRole(d, "activity") THEN NoteExit(Promote(d, id, "tip"), id, "activity")
  ELSE Seat(d, id, "tip")

RECURSIVE ClaimTip(_)
ClaimTip(d) ==
  IF ~MayClaim(d) THEN d
  ELSE ClaimTip(TakeTip(IF WindowFull(d) THEN ReleaseOldestTip(d) ELSE d,
                        Youngest(d, TipPool(d))))

SettleTip(d) == ClaimTip(TrimTip(d))

---------------------------------------------------------------------------
(* What the handlers tell the plane. *)

HoldsResident(d, o) == Comp(o) \in d.residents \cup d.pool

SwapIn(d, o) ==
  NoteResidentRetired(
    StageResting(DiscardResident(Unstage(d, Comp(o)), Comp(o)), o), Comp(o), {o})

NoteBirth(d, o, birth) ==
  CASE o \in Present(d) -> d
    [] o \notin Present(d) /\ Comp(o) \in d.residents ->
         SwapIn(NotePresent(d, o, birth), o)
    [] OTHER -> NoteCandidate(
         NoteResidentRetired(DiscardResident(NotePresent(d, o, birth), Comp(o)), Comp(o), {}), o)

ExitAs(d, id, role) ==
  IF role = "tip" THEN Unstage(d, id) ELSE NoteExit(Unstage(d, id), id, role)

NoteRemoved(d, id) ==
  CASE id \notin Present(d) -> d
    [] id \in Present(d) /\ id \notin Members(d) -> ForgetPresent(d, id)
    [] OTHER -> ExitAs(ForgetPresent(d, id), id, d.members[id])

(* Mutant: only residents on stage are retired. *)
NoteInputUnresolvedOnStage(d, o) ==
  IF Comp(o) \notin d.residents THEN d
  ELSE NoteResidentRetired(DiscardResident(Unstage(d, Comp(o)), Comp(o)), Comp(o), {})

NoteInputUnresolved(d, o) ==
  IF ~HoldsResident(d, o) THEN d
  ELSE NoteResidentRetired(
         DiscardResident(IF Comp(o) \in d.residents THEN Unstage(d, Comp(o)) ELSE d, Comp(o)),
         Comp(o), {})

InstallPrefixPolicy(d) == [CanonicalPolicy @@ d EXCEPT !.tipQuota = PrefixTipQuota]

(* Standing endpoints keep their seats through a change of policy. *)
ReAdmit(d, fifo) ==
  FoldLeft(LAMBDA e, f : IF f[2] \in Members(e) \/ f[2] \notin Present(e) THEN e
                         ELSE AdmitActivity(e, f[1], f[2]),
           d, fifo)

(* Mutant: a rollback at the anchor itself keeps the composition. *)
ChainReorganizedBelow(d, from) ==
  IF d.curated /\ from < d.anchor
  THEN ReAdmit(ExitAllMembers(InstallPrefixPolicy(ClearResidents(d))), d.fifo)
  ELSE d

ChainReorganized(d, from) ==
  IF d.curated /\ from <= d.anchor
  THEN ReAdmit(ExitAllMembers(InstallPrefixPolicy(ClearResidents(d))), d.fifo)
  ELSE d

ReservoirReplaced(d, anchor, rec) ==
  IF d.curated /\ d.content = rec THEN d
  ELSE ReAdmit(Compose([d EXCEPT !.tipQuota = TipWindow], anchor, rec, Index(d)),
               d.fifo)

ToppedUp(d, rec) ==
  LET order == Ranking({o \in rec : ClassOf[o] = "dao"})
                 \o Ranking({o \in rec : ClassOf[o] = "typed"})
      parked == {Comp(o) : o \in {p \in Range(order) \ Index(d) : ~HoldsResident(d, p)}}
      offered == SelectSeq([i \in DOMAIN order |-> Resolve(Index(d), order[i])],
                   LAMBDA id : id \notin Members(d) /\ (id < CompBase \/ id \in parked))
      supplied == Supply([d EXCEPT !.pool = @ \cup parked], offered)
  IN  [supplied EXCEPT !.pool = @ \ parked]

---------------------------------------------------------------------------
(* flush: the window, the vacancies, the endpoints, the FIFO's quota. *)

AdmitPending(d, pending) == ReAdmit(d, pending)

RECURSIVE EvictOverQuota(_)
EvictOldest(d, id) ==
  NoteExit([d EXCEPT !.members = Restrict(@, DOMAIN @ \ {id}), !.fifo = Tail(@)],
           id, "activity")
EvictOverQuota(d) ==
  IF Len(d.fifo) > ActivityQuota THEN EvictOverQuota(EvictOldest(d, d.fifo[1][2])) ELSE d

Staffed(d) == FillVacancies(SettleTip(d))
Flushed(d, pending, silent) ==
  IF silent THEN Staffed(d)
  ELSE Staffed(EvictOverQuota(AdmitPending(Staffed(d), pending)))

(* The delta: against the last flush, or against the replay's baseline. *)
Shown(seen, was, now) == (seen \cup (now \ was)) \ (was \ now)

(* Only the order of the ranks says anything. *)
Renumber(d) ==
  LET seqs == {d.key[id][2] : id \in DOMAIN d.key}
                \cup {d.bench[id][2][2] : id \in DOMAIN d.bench}
      rank(k) == <<k[1], Cardinality({s \in seqs : s < k[2]})>>
  IN  [d EXCEPT !.key = [id \in DOMAIN @ |-> rank(@[id])],
                !.bench = [id \in DOMAIN @ |-> <<@[id][1], rank(@[id][2])>>],
                !.nextSeq = Cardinality(seqs)]

Mutate(d, pending) ==
  /\ plane' = Renumber(Flushed(d, pending, Replaying))
  /\ page' = IF Replaying THEN page ELSE Shown(page, Members(plane), Members(plane'))

Spend(what, max) == spent[what] < max /\ spent' = [spent EXCEPT ![what] = @ + 1]

---------------------------------------------------------------------------
Init ==
  /\ plane = CanonicalPolicy @@ EmptyStage
  /\ height = 0
  /\ journal = <<>>
  /\ baseline = None
  /\ inbound = None
  /\ page = {}
  /\ stale = {}
  /\ sealed = 0
  /\ spent = [reorg |-> 0, record |-> 0, tx |-> 0]

(* handle_block_mined: corpses past their hold are swept. *)
Overdue(h) == {o \in On("death") : BlockOf("death", o) + CorpseHold <= h}
MineBlock ==
  /\ height < MaxHeight
  /\ height' = height + 1
  /\ Mutate(FoldLeft(NoteRemoved, plane,
              SelectSeq(CellOrder(plane), LAMBDA o : o \in Overdue(height + 1))), <<>>)
  /\ UNCHANGED <<journal, baseline, inbound, stale, sealed, spent>>

(* handle_tx_landed: the input, the output, the endpoints. *)
LandTx(spends) ==
  /\ height > sealed
  /\ spends \subseteq Unspent
  /\ Unborn # {}
  /\ Spend("tx", MaxTxs)
  /\ journal' = journal \o SetToSeq({<<height, "birth", o>> : o \in Unborn})
                        \o SetToSeq({<<height, "death", o>> : o \in spends})
  /\ LET resolved == spends \cap Present(plane)
         retired == FoldLeft(NoteInputUnresolved, plane, Ranking(spends \ resolved))
         lands(d, o) == NoteBirth(d, o, height)
         endpoints == Ranking(resolved) \o Ranking(Unborn)
     IN  Mutate(FoldLeft(lands, retired, Ranking(Unborn)),
                [i \in DOMAIN endpoints |-> <<height, endpoints[i]>>])
  /\ UNCHANGED <<height, baseline, inbound, stale, sealed>>

(* rollback_from: height by height, deaths undone first, births parked. *)
UndoHeight(d, h) ==
  LET revives(e, o) == NoteBirth(e, o, BlockOf("birth", o))
  IN  FoldLeft(NoteRemoved,
        FoldLeft(revives, d,
          SelectSeq(Reverse(At("death", h)), LAMBDA o : o \in New)),
        At("birth", h))

Reorganize(from) ==
  /\ from \in 1..height
  /\ Spend("reorg", MaxReorgs)
  /\ height' = from - 1
  /\ journal' = SelectSeq(journal, LAMBDA e : e[1] < from)
  /\ inbound' = IF inbound # None /\ inbound.anchor >= from THEN None ELSE inbound
  /\ Mutate(ChainReorganized(
       FoldLeft(UndoHeight, plane, [i \in 1..(height - from + 1) |-> height + 1 - i]), from),
       <<>>)
  /\ sealed' = from - 1
  /\ UNCHANGED <<baseline, stale>>

(* Mutant: every progress report takes a new baseline. *)
ReplayRestarts ==
  /\ baseline' = [shown |-> Members(plane)]
  /\ plane' = Renumber(Flushed(plane, <<>>, TRUE))
  /\ sealed' = height
  /\ UNCHANGED <<height, journal, inbound, page, stale, spent>>

(* BackfillProgress: the replay opens, and closes with one resettle delta. *)
ReplayStarts ==
  /\ ~Replaying
  /\ baseline' = [shown |-> Members(plane)]
  /\ plane' = Renumber(Flushed(plane, <<>>, TRUE))
  /\ sealed' = height
  /\ UNCHANGED <<height, journal, inbound, page, stale, spent>>

ReplayEnds ==
  /\ Replaying
  /\ baseline' = None
  /\ plane' = Renumber(Flushed(plane, <<>>, FALSE))
  /\ page' = Shown(page, baseline.shown, Members(plane'))
  /\ sealed' = height
  /\ UNCHANGED <<height, journal, inbound, stale, spent>>

(* A record is fetched against the newest block; no anchor during a replay. *)
Hydrate(kind, rec) ==
  /\ inbound = None /\ ~Replaying
  /\ kind = "topUp" => plane.curated
  /\ rec \subseteq Unspent
  /\ Spend("record", MaxRecords)
  /\ inbound' = [kind |-> kind, rec |-> rec, anchor |-> height]
  /\ sealed' = height
  /\ UNCHANGED <<plane, height, journal, baseline, page, stale>>

Install ==
  /\ inbound # None
  /\ inbound' = None
  /\ stale' = stale \cup (inbound.rec \ Unspent)
  /\ Mutate(IF inbound.kind = "refresh"
            THEN ReservoirReplaced(plane, inbound.anchor, inbound.rec)
            ELSE ToppedUp(plane, inbound.rec), <<>>)
  /\ UNCHANGED <<height, journal, baseline, sealed, spent>>

(* reset_for_rebuild: the chain the map followed is gone. *)
Rebuild ==
  /\ Spend("reorg", MaxReorgs)
  /\ height' = 0 /\ journal' = <<>> /\ inbound' = None /\ sealed' = 0
  /\ Mutate(InstallPrefixPolicy(
       [ExitAllMembers(ClearResidents(plane)) EXCEPT !.arrivals = <<>>]), <<>>)
  /\ UNCHANGED <<baseline, stale>>

Next ==
  \/ MineBlock
  \/ LandTx({}) \/ \E o \in Old \cup New : LandTx({o})
  \/ \E from \in 1..MaxHeight : Reorganize(from)
  \/ ReplayStarts \/ ReplayEnds
  \/ \E kind \in {"refresh", "topUp"}, rec \in Records : Hydrate(kind, rec)
  \/ Install \/ Rebuild

Spec == Init /\ [][Next]_vars

(* A page opens, or reloads: the snapshot's display section.  Outside a   *)
(* replay that changes nothing, for the page already agrees.             *)
Join ==
  /\ page' = Members(plane)
  /\ UNCHANGED <<plane, height, journal, baseline, inbound, stale, sealed, spent>>

SpecWithReloads == Init /\ [][Next \/ Join]_vars

---------------------------------------------------------------------------
TypeOK ==
  /\ Members(plane) \subseteq Present(plane) \cup plane.residents
  /\ Range(plane.members) \subseteq {"resting", "activity", "tip"}
  /\ plane.residents \cup plane.pool \subseteq {Comp(o) : o \in Old \cup New}
  /\ plane.residents \subseteq Members(plane)
  /\ Present(plane) \subseteq On("birth")
  /\ height \in 0..MaxHeight
  /\ inbound # None => inbound.anchor \in 0..height

(* The stage never exceeds its budget, the window its quota, the FIFO its  *)
(* quota, and the FIFO holds exactly the activity members (the assertions  *)
(* of flush, display_plane.rs).                                            *)
StageLimits ==
  /\ Cardinality(Members(plane)) <= Budget
  /\ Cardinality(InRole(plane, "tip")) <= plane.tipQuota
  /\ Len(plane.fifo) <= ActivityQuota
  /\ {plane.fifo[i][2] : i \in DOMAIN plane.fifo} = InRole(plane, "activity")

(* The curated policy's books name the field it staffs: a class for every  *)
(* field member and nobody else, a rank for every resting one.  Every      *)
(* promotion, swap, eviction and restored bench has to keep both.          *)
PolicyKnowsItsField ==
  plane.curated =>
    /\ plane.classed = FieldMembers(plane)
    /\ DOMAIN plane.key = InRole(plane, "resting")
    /\ IsInjective(plane.key)

(* The youngest cells that exist are on stage: nobody outside the field is *)
(* younger than a seat of the window, and no seat is empty meanwhile.      *)
NewestOnStage ==
  TipPool(plane) # {} =>
    /\ WindowFull(plane)
    /\ \A id \in TipPool(plane), t \in InRole(plane, "tip") : Younger(plane, t, id)

(* Outside a replay, a page that did not join in the middle of one shows   *)
(* exactly the stage: no coalesced delta loses an enter or an exit, across *)
(* reorganisations, recompositions and the replay's single delta.          *)
FollowerAgrees == ~Replaying => page = Members(plane)

(* A resident is an outpoint nobody spent: a spend the map cannot resolve  *)
(* retires it wherever it waits, on stage, in the pool or on a bench.      *)
(* Records installed after the spend they miss are excepted.               *)
ResidentsAreUnspent ==
  \A o \in Old \cup New :
    HoldsResident(plane, o) /\ o \in On("death") => o \in stale

(* A composed stage rests on an anchor of the branch. *)
CuratedIsAnchored == plane.curated => plane.anchor <= height

(* A top-up never takes the seat of a curated cell. *)
RatchetHolds ==
  [][Install /\ inbound.kind = "topUp" /\ plane.curated =>
       \A id \in DOMAIN plane.key : plane.key[id][1] = RESERVOIR_GROUP =>
         id \in Members(plane')]_vars

(* display_plane.rs: the terminal delta settles every page. *)
TerminalDeltaSettlesPages == ~Replaying => page = Members(plane)

(* display_plane.rs: one outpoint is never staged under two ids. *)
OneIdPerOutpoint ==
  \A o \in Old \cup New : ~({o, Comp(o)} \subseteq Members(plane))

(* composition_policy.rs: the member count holds. *)
FieldIsStaffed == plane.curated => ~FieldHasRoom(plane)
===========================================================================
