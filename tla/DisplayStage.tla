---------------------------- MODULE DisplayStage ----------------------------
(***************************************************************************)
(* The stage of the cell galaxy (display_plane.rs, Stage): who is on       *)
(* stage, in which role, and the few moves every staffing decision is made *)
(* of.  A stage is a record that the moves rewrite:                        *)
(*                                                                         *)
(*   members   id -> role, the ids on stage                                *)
(*   arrivals  canonical cells of the map, <<birth height, id>>, in the    *)
(*             order they were admitted (present, recency_of)              *)
(*   fifo      activity members <<block, id>>, oldest block first          *)
(*   residents staged members the map does not hold                        *)
(*   pool      candidates the map does not hold, off stage                 *)
(*   tipQuota  seats of the recency window                                 *)
(*                                                                         *)
(* An outpoint is a number; its canonical id is the number itself and its  *)
(* composition id is Comp(o), so the two families never meet               *)
(* (identity.rs, COMPOSITION_ID_PREFIX).  tip, tip_pool and                *)
(* resident_outpoints are the sets the moves keep equal to a selection of  *)
(* the fields above, and are written as that selection.                    *)
(***************************************************************************)
EXTENDS Integers, Sequences, FiniteSets, SequencesExt, FiniteSetsExt, Functions, TLC

CONSTANTS Budget,          \* DISPLAY_CELL_BUDGET
          ActivityQuota,   \* DISPLAY_ACTIVITY_QUOTA
          TipWindow,       \* DISPLAY_TIP_WINDOW, the window in composed mode
          CompBase         \* COMPOSITION_ID_PREFIX: above every outpoint

ASSUME StageAssumption ==
  /\ {Budget, ActivityQuota, TipWindow, CompBase} \subseteq Nat
  /\ TipWindow + ActivityQuota <= Budget

Comp(o) == CompBase + o
OutpointOf(id) == IF id >= CompBase THEN id - CompBase ELSE id

(* The recency window of prefix mode is the whole resting field. *)
PrefixTipQuota == Budget - ActivityQuota

EmptyStage ==
  [members |-> <<>>, arrivals |-> <<>>, fifo |-> <<>>,
   residents |-> {}, pool |-> {}, tipQuota |-> PrefixTipQuota]

---------------------------------------------------------------------------
(* What the policy reads. *)

Present(d) == {d.arrivals[i][2] : i \in DOMAIN d.arrivals}
Members(d) == DOMAIN d.members
InRole(d, r) == {id \in Members(d) : d.members[id] = r}
Standing(d) == Members(d) \ InRole(d, "activity")
IsStageable(d, id) == id \in Present(d) \/ id \in d.pool

FieldCells(d) == Budget - d.tipQuota
FieldMembers(d) == Members(d) \ InRole(d, "tip")
FieldTarget(d) ==
  Min({FieldCells(d),
       Cardinality(Present(d)) + Cardinality(d.residents) + Cardinality(d.pool)
         - Cardinality(InRole(d, "tip"))})
FieldHasRoom(d) == Cardinality(FieldMembers(d)) < FieldTarget(d)

(* Recency order: younger birth first, earlier admission breaks the tie. *)
SeatOf(d, id) == CHOOSE i \in DOMAIN d.arrivals : d.arrivals[i][2] = id
Younger(d, a, b) ==
  \/ d.arrivals[SeatOf(d, a)][1] > d.arrivals[SeatOf(d, b)][1]
  \/ /\ d.arrivals[SeatOf(d, a)][1] = d.arrivals[SeatOf(d, b)][1]
     /\ SeatOf(d, a) < SeatOf(d, b)
Youngest(d, S) == CHOOSE a \in S : \A b \in S \ {a} : Younger(d, a, b)
Oldest(d, S) == CHOOSE a \in S : \A b \in S \ {a} : Younger(d, b, a)
TipPool(d) == Present(d) \ Standing(d)

---------------------------------------------------------------------------
(* Membership moves. *)

WithoutFifo(d, id) == SelectSeq(d.fifo, LAMBDA e : e[2] # id)
Seat(d, id, role) == [d EXCEPT !.members = (id :> role) @@ @]

StageResting(d, id) ==
  [Seat(d, id, "resting") EXCEPT
     !.residents = IF id \in d.pool THEN @ \cup {id} ELSE @,
     !.pool = @ \ {id}]

StageActivity(d, block, id) ==
  [Seat(d, id, "activity") EXCEPT
     !.fifo = SelectSeq(@, LAMBDA e : e[1] <= block) \o <<<<block, id>>>>
                \o SelectSeq(@, LAMBDA e : e[1] > block)]

(* promote_to_resting, promote_to_tip: the FIFO seat is freed. *)
Promote(d, id, role) == [Seat(d, id, role) EXCEPT !.fifo = WithoutFifo(d, id)]

(* A staged resident keeps its payload in the pool. *)
Unstage(d, id) ==
  [d EXCEPT !.members = Restrict(@, DOMAIN @ \ {id}),
            !.fifo = WithoutFifo(d, id),
            !.residents = @ \ {id},
            !.pool = IF id \in d.residents THEN @ \cup {id} ELSE @]

NotePresent(d, id, birth) ==
  IF id \in Present(d) THEN d
  ELSE [d EXCEPT !.arrivals = Append(@, <<birth, id>>)]

ForgetPresent(d, id) ==
  [d EXCEPT !.arrivals = SelectSeq(@, LAMBDA e : e[2] # id)]

DiscardResident(d, id) ==
  [d EXCEPT !.residents = @ \ {id}, !.pool = @ \ {id}]

ExitAllMembers(d) == [d EXCEPT !.members = <<>>, !.fifo = <<>>]

ClearResidents(d) == [d EXCEPT !.residents = {}, !.pool = {}]
===========================================================================
