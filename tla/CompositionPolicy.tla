------------------------- MODULE CompositionPolicy -------------------------
(***************************************************************************)
(* Who should be on stage (composition_policy.rs).  Two policies staff the *)
(* field of the stage: CanonicalPolicy leaves it to the recency window;    *)
(* CuratedPolicy composes it from a reservoir record by class, swaps       *)
(* activity in within a class, refills vacancies from per-class queues and *)
(* takes top-ups without ever trading one curated cell for another.        *)
(*                                                                         *)
(* The policy is kept in the stage's record:                               *)
(*                                                                         *)
(*   curated   which policy is installed                                   *)
(*   anchor    as_of.block of the stored reservoir                         *)
(*   content   what content_matches compares of the reservoir              *)
(*   targets   class -> seats the refill restores (class_targets)          *)
(*   classed   the ids class_of_member holds; an id's class is its         *)
(*             outpoint's, so class_counts is a cardinality                *)
(*   key       resting member -> <<group, seq>>, its displacement rank     *)
(*             (resting_priority, priority_of); the largest yields first   *)
(*   bench     activity member -> <<the member it displaced, its key>>     *)
(*   queues    class -> refill queue                                       *)
(*   nextSeq   next rank                                                   *)
(*                                                                         *)
(* maybe_compact only drops entries no pop would stage, past a backlog of  *)
(* a thousand, and is left out.  So is the early stop of the fallback walk *)
(* (quotas_satisfied): the classes it then chooses from are full, and the  *)
(* cells it does not reach queue where a longer walk would have put them.  *)
(***************************************************************************)
EXTENDS DisplayStage

CONSTANTS ClassOf,          \* class of each outpoint's content (class_of)
          DaoBps, TypedBps  \* GALAXY_COMPOSITION_{DAO,TYPED}_BPS

ASSUME PolicyAssumption == DaoBps \in Nat /\ TypedBps \in Nat /\ DaoBps + TypedBps <= 10000

ClassOrder == <<"dao", "typed", "plain">>
Classes == {"dao", "typed", "plain"}
Class(id) == ClassOf[OutpointOf(id)]

RESERVOIR_GROUP == 0
FALLBACK_GROUP == 1

(* GalaxyCompositionTarget::for_total *)
ForTotal(n) ==
  LET dao == (n * DaoBps) \div 10000
      typed == (n * TypedBps) \div 10000
  IN  [dao |-> dao, typed |-> typed, plain |-> n - dao - typed]

CanonicalPolicy ==
  [curated |-> FALSE, anchor |-> 0, content |-> {},
   targets |-> [c \in Classes |-> 0], classed |-> {}, key |-> <<>>,
   bench |-> <<>>, queues |-> [c \in Classes |-> <<>>], nextSeq |-> 0]

ClassCount(d, c) == Cardinality({id \in d.classed : Class(id) = c})
Ranked(d, c) == {id \in DOMAIN d.key : Class(id) = c}
YieldsBefore(d, a, b) ==
  \/ d.key[a][1] > d.key[b][1]
  \/ d.key[a][1] = d.key[b][1] /\ d.key[a][2] > d.key[b][2]
LowestRanked(d, c) ==
  CHOOSE a \in Ranked(d, c) : \A b \in Ranked(d, c) \ {a} : YieldsBefore(d, a, b)

---------------------------------------------------------------------------
(* Bookkeeping moves. *)

KeepRank(d, id, k) == [d EXCEPT !.classed = @ \cup {id}, !.key = (id :> k) @@ @]
RankAs(d, id, group) ==
  [KeepRank(d, id, <<group, d.nextSeq>>) EXCEPT !.nextSeq = @ + 1]
Unrank(d, id) ==
  [d EXCEPT !.classed = @ \ {id}, !.key = Restrict(@, DOMAIN @ \ {id})]

NoteCandidate(d, id) ==
  IF d.curated THEN [d EXCEPT !.queues[Class(id)] = Append(@, id)] ELSE d

WithoutBench(d, id) == [d EXCEPT !.bench = Restrict(@, DOMAIN @ \ {id})]

(* A promoted endpoint's bench dissolves: who it displaced queues first. *)
DissolveBench(d, id) ==
  IF id \notin DOMAIN d.bench THEN d
  ELSE [WithoutBench(d, id) EXCEPT
          !.queues[Class(id)] = <<d.bench[id][1]>> \o @]

---------------------------------------------------------------------------
(* Vacancies: pop_stage_one, fill_vacancies. *)

RECURSIVE PopStageOne(_, _)
PopEntry(d, c, id) ==
  CASE id \in InRole(d, "activity") ->
         PopStageOne(DissolveBench(
           RankAs(Promote(d, id, "resting"), id, FALLBACK_GROUP), id), c)
    [] id \in Standing(d) \/ (id \notin Members(d) /\ ~IsStageable(d, id)) ->
         PopStageOne(d, c)
    [] OTHER -> RankAs(StageResting(d, id), id, FALLBACK_GROUP)

PopStageOne(d, c) ==
  IF d.queues[c] = <<>> THEN d
  ELSE PopEntry([d EXCEPT !.queues[c] = Tail(@)], c, Head(d.queues[c]))

(* Each round pops once per class, until nobody enters or the field is full. *)
RECURSIVE RestoreClass(_, _), Borrow(_)
RestoreOn(before, d, c) ==
  IF Members(d) = Members(before) THEN d ELSE RestoreClass(d, c)
RestoreClass(d, c) ==
  IF ClassCount(d, c) >= d.targets[c] \/ ~FieldHasRoom(d) THEN d
  ELSE RestoreOn(d, PopStageOne(d, c), c)

BorrowRound(d) ==
  FoldLeft(LAMBDA e, c : IF FieldHasRoom(e) THEN PopStageOne(e, c) ELSE e,
           d, ClassOrder)
BorrowOn(before, d) == IF Members(d) = Members(before) THEN d ELSE Borrow(d)
Borrow(d) == IF FieldHasRoom(d) THEN BorrowOn(d, BorrowRound(d)) ELSE d

FillVacancies(d) ==
  IF d.curated THEN Borrow(FoldLeft(RestoreClass, d, ClassOrder)) ELSE d

---------------------------------------------------------------------------
(* Activity: admit_activity, note_exit, restore_bench. *)

DisplaceFor(d, id, victim) ==
  [Unstage(Unrank(d, victim), victim) EXCEPT
     !.bench = (id :> <<victim, d.key[victim]>>) @@ @]
EnterActivity(d, block, id) ==
  [StageActivity(d, block, id) EXCEPT !.classed = @ \cup {id}]

AdmitActivity(d, block, id) ==
  CASE ~d.curated -> StageActivity(d, block, id)
    [] d.curated /\ FieldHasRoom(d) -> EnterActivity(d, block, id)
    [] d.curated /\ ~FieldHasRoom(d) /\ Ranked(d, Class(id)) # {} ->
         EnterActivity(DisplaceFor(d, id, LowestRanked(d, Class(id))), block, id)
    [] OTHER -> d

RestoreMember(d, b, k) ==
  CASE b \in InRole(d, "activity") ->
         DissolveBench(KeepRank(Promote(d, b, "resting"), b, k), b)
    [] b \notin Members(d) /\ IsStageable(d, b) -> KeepRank(StageResting(d, b), b, k)
    [] OTHER -> d

RestoreBench(d, id) ==
  IF id \notin DOMAIN d.bench THEN d
  ELSE RestoreMember(WithoutBench(d, id), d.bench[id][1], d.bench[id][2])

NoteExit(d, id, role) ==
  CASE ~d.curated -> d
    [] d.curated /\ role = "activity" -> RestoreBench(Unrank(d, id), id)
    [] OTHER -> Unrank(d, id)

(* heir: the canonical cell that takes the slot over, or none. *)
NoteResidentRetired(d, rid, heir) ==
  IF rid \notin d.classed THEN d
  ELSE [Unrank(d, rid) EXCEPT
          !.classed = @ \cup heir,
          !.key = [h \in heir |-> d.key[rid]] @@ @]

---------------------------------------------------------------------------
(* Top-ups: supply, take_yielder. *)

Overshoot(d, c) == ClassCount(d, c) - ForTotal(FieldCells(d))[c]
(* Mutant: any ranked member may yield, curated ones too. *)
MayYieldAnyGroup(d, c) == Overshoot(d, c) > 0 /\ Ranked(d, c) # {}

MayYield(d, c) ==
  /\ Overshoot(d, c) > 0
  /\ Ranked(d, c) # {}
  /\ d.key[LowestRanked(d, c)][1] = FALLBACK_GROUP
YieldingClass(d) ==
  LET best(i, j) == \/ Overshoot(d, ClassOrder[i]) > Overshoot(d, ClassOrder[j])
                    \/ Overshoot(d, ClassOrder[i]) = Overshoot(d, ClassOrder[j]) /\ i <= j
      may == {i \in DOMAIN ClassOrder : MayYield(d, ClassOrder[i])}
  IN  ClassOrder[CHOOSE i \in may : \A j \in may : best(i, j)]

GiveWay(d, victim) ==
  [Unstage(Unrank(d, victim), victim) EXCEPT
     !.targets[Class(victim)] = IF @ = 0 THEN 0 ELSE @ - 1,
     !.queues[Class(victim)] = <<victim>> \o @]
Curate(d, id) ==
  [RankAs(StageResting(d, id), id, RESERVOIR_GROUP) EXCEPT !.targets[Class(id)] = @ + 1]

SupplyOne(d, id) ==
  CASE id \in Members(d) \/ Overshoot(d, Class(id)) >= 0 -> d
    [] id \notin Members(d) /\ Overshoot(d, Class(id)) < 0 /\ FieldHasRoom(d) ->
         Curate(d, id)
    [] id \notin Members(d) /\ Overshoot(d, Class(id)) < 0 /\ ~FieldHasRoom(d)
       /\ (\E c \in Classes : MayYield(d, c)) ->
         Curate(GiveWay(d, LowestRanked(d, YieldingClass(d))), id)
    [] OTHER -> d

Supply(d, ids) == IF d.curated THEN FoldLeft(SupplyOne, d, ids) ELSE d

---------------------------------------------------------------------------
(* Composition: compose.  A record is a set of outpoints in rank order;    *)
(* living are the outpoints the map's index names.                         *)

Ranking(S) == SetToSortSeq(S, <)
Resolve(living, o) == IF o \in living THEN o ELSE Comp(o)

ReservoirOf(rec, living, c) ==
  LET ranked == Ranking({o \in rec : ClassOf[o] = c})
  IN  [i \in DOMAIN ranked |-> Resolve(living, ranked[i])]
CellOrder(d) == [i \in DOMAIN d.arrivals |-> d.arrivals[i][2]]
FallbackOf(d, rec, c) ==
  SelectSeq(CellOrder(d), LAMBDA id : Class(id) = c /\ id \notin rec)
Bucket(d, rec, living, c) == ReservoirOf(rec, living, c) \o FallbackOf(d, rec, c)

(* Ideal shares of what there is, then one more per class and round. *)
ChosenOf(size, total) ==
  LET count == Min({total, size["dao"] + size["typed"] + size["plain"]})
      share == [c \in Classes |-> Min({ForTotal(count)[c], size[c]})]
      taken(n) == n["dao"] + n["typed"] + n["plain"]
      rounds == FlattenSeq([i \in 1..count |-> ClassOrder])
  IN  FoldLeft(LAMBDA n, c : IF taken(n) < count /\ n[c] < size[c]
                             THEN [n EXCEPT ![c] = @ + 1] ELSE n,
               share, rounds)

RankBucket(d, reservoir, bucket, n) ==
  FoldLeft(LAMBDA e, i : RankAs(e, bucket[i],
             IF i <= reservoir THEN RESERVOIR_GROUP ELSE FALLBACK_GROUP),
           d, [i \in 1..n |-> i])

(* The new policy and the membership it installs (install_composed): every *)
(* chosen id rests, the unchosen tail queues, off-map entries are residents.*)
ComposeWith(d, anchor, rec, reservoir, bucket, chosen) ==
  LET ranks(e, c) == RankBucket(e, Len(reservoir[c]), bucket[c], chosen[c])
      members == {bucket[c][i] : <<c, i>> \in
                    {p \in Classes \X (1..Budget) : p[2] <= chosen[p[1]]}}
      admitted == UNION {Range(bucket[c]) : c \in Classes}
      offMap == {id \in admitted : id >= CompBase}
      unadmitted(c) == SelectSeq(CellOrder(d),
                         LAMBDA id : Class(id) = c /\ id \notin admitted)
  IN  FoldLeft(ranks,
        [CanonicalPolicy @@ d EXCEPT
           !.curated = TRUE, !.anchor = anchor, !.content = rec, !.targets = chosen,
           !.members = [id \in members |-> "resting"], !.fifo = <<>>,
           !.residents = offMap \cap members, !.pool = offMap \ members,
           !.queues = [c \in Classes |->
             SubSeq(bucket[c], chosen[c] + 1, Len(bucket[c])) \o unadmitted(c)]],
        ClassOrder)

Compose(d, anchor, rec, living) ==
  LET reservoir == [c \in Classes |-> ReservoirOf(rec, living, c)]
      bucket == [c \in Classes |-> Bucket(d, rec, living, c)]
  IN  ComposeWith(d, anchor, rec, reservoir, bucket,
        ChosenOf([c \in Classes |-> Len(bucket[c])], FieldCells(d)))
===========================================================================
