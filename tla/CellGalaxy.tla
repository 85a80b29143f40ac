----------------------------- MODULE CellGalaxy -----------------------------
(***************************************************************************)
(* The cells projection (cknerv-core/src/projection/cells.rs): what every  *)
(* canonical mutation does to the retained cells, and the deltas it sends. *)
(* A galaxy is a record, each handler an operator from a galaxy to the     *)
(* next one; field "out" holds the deltas of the mutation under way.       *)
(*                                                                         *)
(* Left out: recent_links, tags (the CKB adapter never sends CellTagged),  *)
(* the display plane, the pulse and the script census.  None of them is    *)
(* read by what is modelled here.  An output's content is fixed by its     *)
(* outpoint, so the content check of a revival always passes.              *)
(*                                                                         *)
(* The first definition of a pair is a plausible slip in the second.       *)
(***************************************************************************)
EXTENDS BlockTree, SequencesExt

CONSTANTS
  Inputs,      \* transaction |-> the outpoints it spends, a sequence
  Outputs,     \* transaction |-> the outpoints it creates, a sequence
  BlockTxs,    \* block |-> its transactions, a sequence
  BlockTime,   \* block |-> header timestamp
  CellCap,     \* cell_cap
  Window,      \* reorg_window_blocks
  CorpseHold   \* CORPSE_HOLD_MS

ASSUME GalaxyAssumption ==
  /\ DOMAIN Outputs = DOMAIN Inputs
  /\ BlockTxs \in [Blocks -> Seq(DOMAIN Inputs)]
  /\ \A tx \in DOMAIN Inputs : /\ Inputs[tx] \in Seq(Range(Inputs[tx]))
                               /\ Outputs[tx] \in Seq(Range(Outputs[tx]))
  /\ BlockTime \in [Blocks -> Nat]
  /\ CellCap \in Nat /\ Window \in Nat \ {0} /\ CorpseHold \in Nat

Alive  == -1       \* death_at_ms = None
NoMark == -1       \* limbo_backstop_height = None
Empty  == <<>>     \* a map without entries

Without(f, S)      == Restrict(f, DOMAIN f \ S)
Set(f, k, v)       == [x \in DOMAIN f \cup {k} |-> IF x = k THEN v ELSE f[x]]
Recorded(f, n, v)  == Set(f, n, IF n \in DOMAIN f THEN Append(f[n], v) ELSE <<v>>)
IsAlive(row)       == row.died = Alive
Ids(rows)          == {rows[i].id : i \in DOMAIN rows}
GreatestOr(S, d)   == IF S = {} THEN d ELSE Max(S)

EmptyGalaxy ==
  [rows     |-> <<>>,      \* cells, in insertion order
   next     |-> 0,         \* next_id
   index    |-> Empty,     \* outpoint_index: outpoint |-> id
   hashes   |-> NoBlocks,  \* block_hashes
   births   |-> Empty,     \* block_births: height |-> outpoints
   deaths   |-> Empty,     \* block_deaths: height |-> rows before their death
   nBirths  |-> 0,         \* total_births
   nDeaths  |-> 0,         \* total_deaths
   limbo    |-> Empty,     \* reorg_limbo: outpoint |-> parked row
   backstop |-> NoMark,    \* limbo_backstop_height
   replay   |-> FALSE,     \* backfill is Some
   hydrated |-> FALSE,     \* hydrated_cell_target covers cell_cap
   out      |-> <<>>]      \* the deltas of this mutation

(* The deltas a client's cell map depends on.                              *)
Birth(row)    == [type |-> "birth", row |-> row]
Deaths(ids, t) == [type |-> "death", ids |-> ids, died |-> t]   \* one each
Gc(ids)       == [type |-> "gc", ids |-> ids]
Stats(g)      == [type |-> "stats", births |-> g.nBirths, deaths |-> g.nDeaths]
Sends(g, d)   == [g EXCEPT !.out = Append(@, d)]
Gone(g, ids)  == IF ids = {} THEN g ELSE Sends(g, Gc(ids))

(* slot_of, and the scan for an outpoint; 0 when there is none.            *)
SlotOf(g, id)   == SelectInSeq(g.rows, LAMBDA row : row.id = id)
SlotWith(g, op) == SelectInSeq(g.rows, LAMBDA row : row.op = op)

-----------------------------------------------------------------------------
(* The rollback journal.                                                   *)

JournalHeights(g) == DOMAIN g.hashes \cup DOMAIN g.births \cup DOMAIN g.deaths

PruneReorgJournal(g) ==
  LET floor == GreatestOr(JournalHeights(g), 0) - (Window - 1)
      Recent(f) == Restrict(f, {n \in DOMAIN f : n >= floor})
  IN [g EXCEPT !.hashes = Recent(@), !.births = Recent(@), !.deaths = Recent(@)]

ResetRowsOnly(g) ==
  LET clean == [EmptyGalaxy EXCEPT !.next = g.next, !.out = g.out] IN
  Sends(Gone(clean, Ids(g.rows)), Stats(clean))

ResetForRebuild(g) ==
  LET clean == [EmptyGalaxy EXCEPT !.next = g.next, !.out = g.out] IN
  Sends(Gone(clean, Ids(g.rows) \cup {g.limbo[op].id : op \in DOMAIN g.limbo}),
        Stats(clean))

ResurrectUncounted(g, row) ==
  LET slot == SlotOf(g, row.id) IN
  [g EXCEPT !.rows  = IF slot = 0 THEN Append(@, row) ELSE [@ EXCEPT ![slot] = row],
            !.index = Set(@, row.op, row.id),
            !.out = Append(@, Birth(row))]

(* A death undone: in place while the corpse is held, else a new row.      *)
Resurrect(g, row) ==
  LET slot == SlotOf(g, row.id) IN
  [g EXCEPT !.rows  = IF slot = 0 THEN Append(@, row) ELSE [@ EXCEPT ![slot] = row],
            !.index = Set(@, row.op, row.id),
            !.nDeaths = @ - 1,
            !.out = Append(@, Birth(row))]

(* A birth undone: no Gc, the identity waits in reorg_limbo.               *)
Park(g, op) ==
  LET indexed == IF op \in DOMAIN g.index THEN SlotOf(g, g.index[op]) ELSE 0
      trusted == indexed # 0 /\ g.rows[indexed].op = op
      slot == IF trusted THEN indexed ELSE SlotWith(g, op)
      unindexed == [g EXCEPT !.index = Without(@, {op}), !.nBirths = @ - 1]
  IN IF slot = 0 THEN unindexed
     ELSE [unindexed EXCEPT !.rows = RemoveAt(@, slot),
                            !.limbo = Set(@, op, g.rows[slot])]

ResurrectAll(g, rows) == FoldLeft(Resurrect, g, rows)
ParkAll(g, ops)       == FoldLeft(Park, g, ops)

UndoBirthsFirst(g, n) ==
  LET deaths == IF n \in DOMAIN g.deaths THEN Reverse(g.deaths[n]) ELSE <<>>
      births == IF n \in DOMAIN g.births THEN g.births[n] ELSE <<>>
      undone == ResurrectAll(ParkAll(g, births), deaths)
  IN [undone EXCEPT !.deaths = Without(@, {n}), !.births = Without(@, {n}),
                    !.hashes = Without(@, {n})]

(* One block undone, its deaths before its births.                         *)
UndoBlock(g, n) ==
  LET deaths == IF n \in DOMAIN g.deaths THEN Reverse(g.deaths[n]) ELSE <<>>
      births == IF n \in DOMAIN g.births THEN g.births[n] ELSE <<>>
      undone == ParkAll(ResurrectAll(g, deaths), births)
  IN [undone EXCEPT !.deaths = Without(@, {n}), !.births = Without(@, {n}),
                    !.hashes = Without(@, {n})]

(* The limbo of a rollback waits for a block above its highest orphan.     *)
Marked(g, orphans) ==
  IF DOMAIN g.limbo = {} THEN g ELSE [g EXCEPT !.backstop = Max({@} \cup orphans)]

StatsSince(before, g) ==
  IF g.nBirths = before.nBirths /\ g.nDeaths = before.nDeaths THEN g
  ELSE Sends(g, Stats(g))

(* The known blocks at and above n, from the top down.                     *)
UndoKnown(g, n)     == IF n \in DOMAIN g.hashes THEN UndoBlock(g, n) ELSE g
UndoAll(g, heights) == FoldLeft(UndoKnown, g, heights)
DownFrom(top, n)    == [i \in 1 .. top - n + 1 |-> top - i + 1]

Undo(g, n) ==
  LET orphans == {h \in DOMAIN g.hashes : h >= n}
      heights == DownFrom(GreatestOr(orphans, n - 1), n)
  IN StatsSince(g, Marked(UndoAll(g, heights), orphans))

RollbackAbove(g, n) ==
  IF JournalHeights(g) # {} /\ \A h \in JournalHeights(g) : n < h
  THEN ResetForRebuild(g)
  ELSE Undo(g, n + 1)

RollbackFrom(g, n) ==
  IF JournalHeights(g) # {} /\ \A h \in JournalHeights(g) : n < h
  THEN ResetForRebuild(g)
  ELSE IF \A h \in DOMAIN g.hashes : h < n THEN g
  ELSE Undo(g, n)

SettleReorgLimbo(g) ==
  Gone([g EXCEPT !.limbo = Empty, !.backstop = NoMark],
       {g.limbo[op].id : op \in DOMAIN g.limbo})

-----------------------------------------------------------------------------
(* The cap and the corpses.                                                *)

Living(g) == {i \in DOMAIN g.rows : IsAlive(g.rows[i])}

(* The oldest live cells beyond the cap die, without a journal entry.      *)
EnforceCap(g, t) ==
  LET over == Cardinality(Living(g)) - CellCap
      killed == {i \in Living(g) : Cardinality({j \in Living(g) : j <= i}) <= over}
  IN IF over <= 0 THEN g
     ELSE [g EXCEPT !.rows = [i \in DOMAIN @ |-> IF i \in killed THEN [@[i] EXCEPT !.died = t]
                                                               ELSE @[i]],
                    !.index = Without(@, {g.rows[i].op : i \in killed}),
                    !.out = Append(@, Deaths({g.rows[i].id : i \in killed}, t))]

(* gc_cells drops the corpses whose hold has expired.                      *)
Expired(row, now) == ~ IsAlive(row) /\ now > row.died + CorpseHold
Keep(rows, row, now) == IF Expired(row, now) THEN rows ELSE Append(rows, row)
Kept(all, now) == FoldLeft(LAMBDA rows, row : Keep(rows, row, now), <<>>, all)

GcCells(g, now) ==
  LET expired == {g.rows[i] : i \in {j \in DOMAIN g.rows : Expired(g.rows[j], now)}}
      ids     == {row.id : row \in expired}
      stale   == {row.op : row \in expired}
  IN Gone([g EXCEPT !.rows = Kept(@, now),
                    !.index = Without(@, {op \in stale \cap DOMAIN @ : @[op] \in ids})],
          ids)

-----------------------------------------------------------------------------
(* The mutations.                                                          *)

(* A block of another hash takes its predecessor's place.                  *)
Replaced(g, n, b) ==
  IF n \in DOMAIN g.hashes /\ g.hashes[n] # b THEN RollbackFrom(g, n) ELSE g

Journalled(g, n, b) == PruneReorgJournal([g EXCEPT !.hashes = Put(@, n, b)])

(* Without an envelope the limbo is settled by the block above the mark.   *)
PastBackstop(g, n) ==
  IF ~ g.replay /\ g.backstop # NoMark /\ n > g.backstop THEN SettleReorgLimbo(g)
                                                         ELSE g

(* A replay defers the cap, never the collection of corpses.               *)
Aged(g, t) == GcCells(IF g.replay THEN g ELSE EnforceCap(g, t), t)

HandleBlockMined(g, b) ==
  LET n == Height[b] IN
  Aged(PastBackstop(Journalled(Replaced(g, n, b), n, b), n), BlockTime[b])

(* One input of a transaction in block b: the death pass.  An outpoint the *)
(* galaxy does not index was spent outside the retained set.               *)
Spend(g, op, b) ==
  LET slot == SlotOf(g, g.index[op])
      row  == g.rows[slot]
      freed == [g EXCEPT !.index = Without(@, {op})]
  IN IF op \notin DOMAIN g.index THEN g
     ELSE IF slot = 0 \/ ~ IsAlive(row) THEN freed
     ELSE [freed EXCEPT !.rows[slot].died = BlockTime[b],
                        !.deaths = Recorded(@, Height[b], row),
                        !.nDeaths = @ + 1,
                        !.out = Append(@, Deaths({row.id}, BlockTime[b]))]

CreateCountsFresh(g, op, b) ==
  LET parked == op \in DOMAIN g.limbo
      row == [id   |-> IF parked THEN g.limbo[op].id ELSE g.next,
              op   |-> op,
              born |-> IF parked THEN g.limbo[op].born ELSE BlockTime[b],
              died |-> Alive]
      fresh == IF parked THEN 0 ELSE 1
  IN [g EXCEPT !.limbo = Without(@, {op}),
               !.next = @ + fresh,
               !.rows = Append(@, row),
               !.index = Set(@, op, row.id),
               !.births = Recorded(@, Height[b], op),
               !.nBirths = @ + fresh,
               !.out = Append(@, Birth(row))]

(* One output: the birth pass.  A parked identity keeps id and birth time. *)
Create(g, op, b) ==
  LET parked == op \in DOMAIN g.limbo
      row == [id   |-> IF parked THEN g.limbo[op].id ELSE g.next,
              op   |-> op,
              born |-> IF parked THEN g.limbo[op].born ELSE BlockTime[b],
              died |-> Alive]
  IN [g EXCEPT !.limbo = Without(@, {op}),
               !.next = IF parked THEN @ ELSE @ + 1,
               !.rows = Append(@, row),
               !.index = Set(@, op, row.id),
               !.births = Recorded(@, Height[b], op),
               !.nBirths = @ + 1,
               !.out = Append(@, Birth(row))]

StatsIfAny(g) == IF g.out = <<>> THEN g ELSE Sends(g, Stats(g))

SpendAll(g, ops, b)  == FoldLeft(LAMBDA s, op : Spend(s, op, b), g, ops)
CreateAll(g, ops, b) == FoldLeft(LAMBDA s, op : Create(s, op, b), g, ops)

HandleTxLanded(g, tx, b) ==
  PruneReorgJournal(StatsIfAny(CreateAll(SpendAll(g, Inputs[tx], b), Outputs[tx], b)))

ProgressSettlesAlways(g, active, complete) ==
  LET settled == SettleReorgLimbo([g EXCEPT !.replay = active]) IN
  IF active \/ ~ g.replay THEN [g EXCEPT !.replay = active]
  ELSE EnforceCap(settled, GreatestOr({g.rows[i].born : i \in DOMAIN g.rows}, 0))

ProgressNeverSettles(g, active, complete) ==
  LET shown == [g EXCEPT !.replay = active] IN
  IF active \/ ~ g.replay THEN shown
  ELSE EnforceCap(shown, GreatestOr({g.rows[i].born : i \in DOMAIN g.rows}, 0))

(* BackfillProgress.  Closing an open envelope enforces the cap that the   *)
(* replay deferred, and settles the limbo when it covered its whole range. *)
HandleBackfillProgress(g, active, complete) ==
  LET shown == [g EXCEPT !.replay = active]
      settled == IF complete THEN SettleReorgLimbo(shown) ELSE shown
      times == {IF IsAlive(g.rows[i]) THEN g.rows[i].born ELSE g.rows[i].died
                  : i \in DOMAIN g.rows}
  IN IF active \/ ~ g.replay THEN shown ELSE EnforceCap(settled, GreatestOr(times, 0))

(* Mutations as they travel from the adapter.                              *)
BlockMined(b)           == [type |-> "mined", block |-> b]
TxLanded(tx, b)         == [type |-> "tx", tx |-> tx, block |-> b]
ChainReorganized(n)     == [type |-> "reorganized", from |-> n]
ChainRebuild(n)         == [type |-> "rebuild", from |-> n]
HydrationCompleted      == [type |-> "hydrated"]
ReplayOpens             == [type |-> "progress", active |-> TRUE, complete |-> FALSE]
ReplayCloses(complete)  == [type |-> "progress", active |-> FALSE, complete |-> complete]

ApplyMutation(galaxy, m) ==
  LET g == [galaxy EXCEPT !.out = <<>>] IN
  CASE m.type = "mined"       -> HandleBlockMined(g, m.block)
    [] m.type = "tx"          -> HandleTxLanded(g, m.tx, m.block)
    [] m.type = "reorganized" -> RollbackFrom(g, m.from)
    [] m.type = "rebuild"     -> ResetForRebuild(g)
    [] m.type = "hydrated"    -> [g EXCEPT !.hydrated = TRUE]
    [] m.type = "progress"    -> HandleBackfillProgress(g, m.active, m.complete)

(* to_persisted: limbo, watermark and open envelope are not saved.         *)
ToPersisted(g) ==
  [g EXCEPT !.limbo = Empty, !.backstop = NoMark, !.replay = FALSE, !.out = <<>>]

(* restore_from: counters of a file without them start from next_id.       *)
RestoreFrom(p) ==
  LET g == PruneReorgJournal(p) IN
  IF g.nBirths = 0 /\ g.next > 0 /\ g.rows # <<>>
  THEN [g EXCEPT !.nBirths = g.next,
                 !.nDeaths = g.next - Cardinality(Living(g))]
  ELSE g
=============================================================================
