------------------------- MODULE CanonicalFollower -------------------------
(***************************************************************************)
(* What a reader of the chain entity's recent_blocks ring is promised,     *)
(* with nothing of the RPC protocol behind it: a piece of one branch that  *)
(* grows by children of its top, is cut back at a height, and is exchanged *)
(* as a whole only while a replay envelope (BackfillProgress active) is    *)
(* announced, which the exchange closes.                                   *)
(***************************************************************************)
EXTENDS BlockTree

CONSTANT Cap       \* length of the ring

VARIABLES
  view,            \* the ring
  announced        \* a replay envelope is open

fvars == <<view, announced>>

Init == IsSegment(view) /\ announced = FALSE

(* One more block on top; it may also complete the announced replay.       *)
Mine ==
  \E b \in Blocks :
    /\ view = NoBlocks \/ \E h \in DOMAIN view : view[h] = Parent[b] /\ h + 1 = Height[b]
    /\ \A h \in DOMAIN view : h < Height[b]
    /\ view' = Newest(Put(view, Height[b], b), Cap, Height[b])
    /\ announced' \in {announced, FALSE}

(* A rollback to below a height the view reaches; it may announce the      *)
(* replay of the replacement blocks.                                       *)
Retract ==
  /\ \E h \in DOMAIN view : \E n \in 0 .. h : view' = Below(view, n)
  /\ announced' \in {announced, TRUE}

Announce == announced' \in BOOLEAN /\ UNCHANGED view

Adopt ==
  /\ announced /\ ~ announced'
  /\ view' # NoBlocks /\ IsSegment(view')

Next == Mine \/ Retract \/ Announce \/ Adopt

Spec == Init /\ [][Next]_fvars
=============================================================================
