---------------------------- MODULE CellPipeline ----------------------------
(***************************************************************************)
(* The life of the cells: what the adapter sends (poll.rs, backfill.rs),   *)
(* applied one mutation at a time by the reducer to the chain entity       *)
(* (state.rs) and the cells projection (CellGalaxy), what a page makes of  *)
(* the deltas (packages/cache/src/cellsReducer.ts), and the state file     *)
(* (persistence.rs) a later process resumes from.                          *)
(*                                                                         *)
(* CanonicalSync shows how the adapter decides what to send; here it sends *)
(* any of the sequences those decisions produce.  It looks at nothing the  *)
(* reducer changes, so it sends again only when its channel is empty; with *)
(* the channel empty, galaxy.replay is the state of the envelope it sent.  *)
(* A hydration that ends short of its target is left out.                  *)
(***************************************************************************)
EXTENDS CellGalaxy

CONSTANTS
  RecentCap,    \* RECENT_BLOCKS_CAP
  MaxTroubles,  \* bound: reorganisations, rebuilds, failed walks and restarts
  MaxSaves,     \* bound: saves
  ScanLimit,    \* bound: blocks one hydration may scan
  SaveAtRest    \* a save finds the channel empty and holds the adapter up
                \* (the code promises neither: FALSE is the code)

ASSUME PipelineAssumption ==
  /\ RecentCap \in Nat \ {0}
  /\ {MaxTroubles, MaxSaves, ScanLimit} \subseteq Nat
  /\ SaveAtRest \in BOOLEAN

VARIABLES
  \* the adapter
  anchors,   \* PollState.canonical_blocks; its top is last_tip
  resuming,  \* replaying_reorg or catching_up
  window,    \* blocks of a hydration still to be replayed
  queue,     \* mutations in the channel
  \* the server
  path,      \* history: the blocks followed since the last empty galaxy
  entity,    \* Chain.tip and Chain.recent_blocks
  galaxy,    \* the cells projection
  evicted,   \* history: outpoints the cap took and nothing brought back
  promised,  \* history: outpoint |-> id on screen when a replacement began
  \* a page that follows the deltas
  page,      \* cells (id |-> row) and the two counters
  \* persistence
  saving,    \* the entity half of a save under way
  file,      \* cknerv-state.json
  saves, troubles

adapter == <<anchors, resuming, window, queue>>
server  == <<path, entity, galaxy, evicted, promised, page>>
disk    == <<saving, file, saves>>
vars    == <<adapter, server, disk, troubles>>

Nothing == [none |-> TRUE]   \* no file, no save under way

NoEntity == [tip |-> 0, recent |-> NoBlocks]

Line[b \in Blocks] == IF b = Genesis THEN {b} ELSE {b} \cup Line[Parent[b]]

(* The branches of the tree, cut at both ends.                             *)
Branches ==
  {p \in UNION {[lo .. hi -> Blocks] : lo, hi \in Range(Height)} : IsSegment(p)}

(* What consensus guarantees of every branch a node may answer with: no    *)
(* transaction twice, no output created or spent twice, none spent before  *)
(* it is created.                                                          *)
ASSUME ConsensusAssumption ==
  /\ \A t \in DOMAIN Inputs : IsInjective(Inputs[t]) /\ IsInjective(Outputs[t])
  /\ \A t, u \in DOMAIN Inputs : Range(Outputs[t]) \cap Range(Outputs[u]) # {} => t = u
  /\ \A p \in Branches : \A n, m \in DOMAIN p :
       \A i \in DOMAIN BlockTxs[p[n]], j \in DOMAIN BlockTxs[p[m]] :
         LET t == BlockTxs[p[n]][i]
             u == BlockTxs[p[m]][j]
         IN /\ t = u \/ Range(Inputs[t]) \cap Range(Inputs[u]) # {} => n = m /\ i = j
            /\ Range(Outputs[t]) \cap Range(Inputs[u]) # {} => n < m \/ (n = m /\ i < j)

-----------------------------------------------------------------------------
(* What the adapter sends.                                                 *)

(* fetch_and_translate: the block, then its transactions in order.         *)
BlockMutations(b) ==
  <<BlockMined(b)>> \o [i \in DOMAIN BlockTxs[b] |-> TxLanded(BlockTxs[b][i], b)]

Cursor == Max(DOMAIN anchors)

Trouble == troubles < MaxTroubles /\ troubles' = troubles + 1

(* One poll step sends ms; the consumers see them later.                   *)
Posts(ms) ==
  /\ queue = <<>>
  /\ SaveAtRest => saving = Nothing
  /\ queue' = ms
  /\ UNCHANGED <<server, disk>>

Polls(ms) == window = NoBlocks /\ Posts(ms) /\ UNCHANGED window

Follow(b) ==
  /\ Parent[b] = anchors[Cursor]
  /\ anchors' = Newest(Put(anchors, Height[b], b), Window + 1, Height[b])
  /\ UNCHANGED troubles

(* hydrate_at_tip at boot, or because no anchor is on the node's branch:   *)
(* the window found, a ChainRebuild if it replaces what is there. Here the *)
(* anchors are pruned at once; after the boot's own hydration the code     *)
(* leaves that to the poll that follows (CanonicalSync has both).          *)
Hydrate(b, lo, rebuild) ==
  /\ window = NoBlocks
  /\ Height[b] - lo < ScanLimit
  /\ window' \in {w \in [lo .. Height[b] -> Blocks] : IsSegment(w) /\ w[Height[b]] = b}
  /\ Posts(<<ReplayOpens>> \o IF rebuild THEN <<ChainRebuild(lo), ReplayOpens>> ELSE <<>>)
  /\ anchors' = Newest(IF lo = 0 THEN window' ELSE Put(window', lo - 1, Parent[window'[lo]]),
                       Window + 1, Height[b])
  /\ resuming' = FALSE

(* replay_discovered: the blocks in ascending order, then the envelope.    *)
ReplayWindow ==
  LET n == Min(DOMAIN window)
      rest == Restrict(window, DOMAIN window \ {n})
  IN
  /\ window # NoBlocks
  /\ Posts(BlockMutations(window[n])
              \o IF rest = NoBlocks THEN <<HydrationCompleted, ReplayCloses(TRUE)>> ELSE <<>>)
  /\ window' = rest
  /\ UNCHANGED <<anchors, resuming, troubles>>

BootHydration ==
  /\ anchors = NoBlocks
  /\ \E b \in Blocks : \E lo \in 0 .. Height[b] : Hydrate(b, lo, FALSE)
  /\ UNCHANGED troubles

(* find_canonical_change meets no anchor on the branch of b.               *)
NoAnchorBelow(b) ==
  \A n \in DOMAIN anchors : n <= Height[b] => anchors[n] \notin Line[b]

RebuildWindow ==
  /\ anchors # NoBlocks
  /\ Trouble
  /\ \E b \in Blocks : \E lo \in 0 .. Height[b] :
       NoAnchorBelow(b) /\ Hydrate(b, lo, TRUE)

(* hydrate_at_tip: a failed walk closes its envelope with done = total = 0 *)
HydrationFails ==
  /\ Polls(<<ReplayOpens, ReplayCloses(TRUE)>>)
  /\ \E b \in Blocks : NoAnchorBelow(b)
  /\ Trouble
  /\ resuming' \in {resuming, FALSE}   \* a catch-up is given up, a reorg is not
  /\ UNCHANGED anchors

(* Live-only boot: the block below the tip becomes the cursor.             *)
BootLive ==
  /\ anchors = NoBlocks
  /\ \E b \in Blocks \ {Genesis} : anchors' = Put(NoBlocks, Height[b] - 1, Parent[b])
  /\ Polls(<<>>)
  /\ UNCHANGED <<resuming, troubles>>

PollLive ==
  /\ anchors # NoBlocks /\ ~ resuming
  /\ \E b \in Blocks \ {Genesis} : Follow(b) /\ Polls(BlockMutations(b))
  /\ UNCHANGED resuming

(* A catch-up, or the next attempt at an unfinished replay.                *)
OpenRange ==
  /\ anchors # NoBlocks /\ ~ galaxy.replay
  /\ \E b \in Blocks \ {Genesis} : Parent[b] = anchors[Cursor]
  /\ Polls(<<ReplayOpens>>)
  /\ resuming' = TRUE
  /\ UNCHANGED <<anchors, troubles>>

(* A block of a replayed range; the last one closes the envelope.          *)
ReplayBlock ==
  /\ resuming /\ galaxy.replay
  /\ \E b \in Blocks \ {Genesis}, last \in BOOLEAN :
       /\ Follow(b)
       /\ Polls(BlockMutations(b) \o IF last THEN <<ReplayCloses(TRUE)>> ELSE <<>>)
       /\ resuming' = ~ last

(* A hard error in the range: the envelope closes short of its total.      *)
RangeFails ==
  /\ resuming /\ galaxy.replay
  /\ Polls(<<ReplayCloses(FALSE)>>)
  /\ UNCHANGED <<anchors, resuming, troubles>>

(* The cursor's block is gone: back to an anchor.  The envelope opens at   *)
(* once, whether or not the replacement is known yet.                      *)
Reorganize ==
  /\ anchors # NoBlocks
  /\ Trouble
  /\ \E n \in DOMAIN anchors \ {Cursor} :
       /\ Polls(<<ChainReorganized(n + 1), ReplayOpens>>)
       /\ anchors' = Below(anchors, n + 1)
  /\ resuming' = TRUE

-----------------------------------------------------------------------------
(* What the server and the page do with one mutation.                      *)

(* apply_chain_mutation, tip and recent_blocks.                            *)
ApplyEntity(e, m) ==
  CASE m.type = "mined" ->
         LET b == m.block
             n == Height[b]
             replaced == n \in DOMAIN e.recent
         IN IF replaced /\ e.recent[n] = b THEN e
            ELSE [tip    |-> IF replaced \/ n > e.tip THEN n ELSE e.tip,
                  recent |-> Newest(Put(Below(e.recent, n), n, b), RecentCap, n)]
    [] m.type = "reorganized" ->
         [tip |-> IF m.from - 1 < e.tip THEN m.from - 1 ELSE e.tip,
          recent |-> Below(e.recent, m.from)]
    [] m.type = "rebuild" ->
         [tip |-> IF m.from = 0 THEN 0 ELSE m.from - 1, recent |-> NoBlocks]
    [] OTHER -> e

Followed(p, m) ==
  CASE m.type = "mined"       -> Put(p, Height[m.block], m.block)
    [] m.type = "reorganized" -> Below(p, m.from)
    [] m.type = "rebuild"     -> NoBlocks
    [] OTHER                  -> p

(* mutateCellDelta.                                                        *)
ApplyDelta(p, d) ==
  CASE d.type = "birth" -> [p EXCEPT !.cells = Set(@, d.row.id, d.row)]
    [] d.type = "death" ->
         [p EXCEPT !.cells = [id \in DOMAIN @ |-> IF id \in d.ids
                                THEN [@[id] EXCEPT !.died = d.died] ELSE @[id]]]
    [] d.type = "gc"    -> [p EXCEPT !.cells = Without(@, d.ids)]
    [] d.type = "stats" -> [p EXCEPT !.births = d.births, !.deaths = d.deaths]
    [] OTHER -> p

ApplyDeltas(p, deltas) == FoldLeft(ApplyDelta, p, deltas)

(* snapshot: the rows the display plane has staged, here all of them.  A   *)
(* delta changes one record, and a birth the whole of it, so the page of a *)
(* smaller stage is always a part of this one.                             *)
SnapshotOf(g) ==
  [cells  |-> [id \in Ids(g.rows) |-> g.rows[SlotOf(g, id)]],
   births |-> g.nBirths,
   deaths |-> g.nDeaths]

(* The outpoints a mutation other than a transaction turned into corpses.  *)
CapTook(g, h, m) ==
  {op \in DOMAIN g.index \ DOMAIN h.index :
     m.type # "tx" /\ \E i \in DOMAIN h.rows : h.rows[i].id = g.index[op]}

Settles(m) == m.type = "progress" /\ m.complete

(* The reducer takes mutation m off the channel; h is the next galaxy.     *)
Applies(m, h) ==
  /\ galaxy' = [h EXCEPT !.out = <<>>]
  /\ entity' = ApplyEntity(entity, m)
  /\ path' = Followed(path, m)
  /\ page' = ApplyDeltas(page, h.out)
  /\ evicted' = IF m.type = "rebuild" THEN {}
                ELSE (evicted \cup CapTook(galaxy, h, m)) \ DOMAIN h.index
  /\ promised' = IF Settles(m) \/ m.type = "rebuild" THEN Empty
                 ELSE IF m.type = "reorganized" /\ promised = Empty
                 THEN galaxy.index ELSE Without(promised, CapTook(galaxy, h, m))

Reduce ==
  /\ queue # <<>>
  /\ queue' = Tail(queue)
  /\ Applies(Head(queue), ApplyMutation(galaxy, Head(queue)))
  /\ UNCHANGED <<anchors, resuming, window, disk, troubles>>

(* A page that connects reads the galaxy's rows, not its limbo.            *)
Connect ==
  /\ page' = SnapshotOf(galaxy)
  /\ page' # page
  /\ UNCHANGED <<adapter, disk, path, entity, galaxy, evicted, promised, troubles>>

-----------------------------------------------------------------------------
(* Persistence.                                                            *)

(* persistence::save reads the entities under the coordination lock ...    *)
SaveEntities ==
  /\ saving = Nothing
  /\ saves < MaxSaves /\ saves' = saves + 1
  /\ SaveAtRest => queue = <<>>
  /\ saving' = [entity |-> entity, path |-> path]
  /\ UNCHANGED <<adapter, server, file, troubles>>

(* ... then the projections under theirs, and renames the file into place. *)
SaveProjections ==
  /\ saving # Nothing
  /\ file' = [entity |-> saving.entity, path |-> saving.path,
              cells |-> ToPersisted(galaxy), evicted |-> evicted]
  /\ saving' = Nothing
  /\ UNCHANGED <<adapter, server, saves, troubles>>

(* The process ends, by a signal or a crash, and a new one starts.  It     *)
(* resumes from a file whose cells cover the target, else it starts empty. *)
Resumes == file # Nothing /\ file.cells.hydrated

Restart ==
  /\ Trouble
  /\ queue' = <<>> /\ resuming' = FALSE /\ window' = NoBlocks /\ saving' = Nothing
  /\ promised' = Empty
  /\ \/ /\ Resumes
        /\ entity' = file.entity
        /\ galaxy' = RestoreFrom(file.cells)
        /\ path' = file.path
        /\ evicted' = file.evicted
        /\ \/ /\ file.entity.tip \in DOMAIN file.entity.recent
              /\ anchors' = file.entity.recent
           \/ /\ file.entity.recent = NoBlocks   \* the cursor's hash is asked for
              /\ \E b \in Blocks : /\ Height[b] = file.entity.tip
                                   /\ anchors' = Put(NoBlocks, Height[b], b)
     \/ /\ ~ Resumes
        /\ entity' = NoEntity
        /\ galaxy' = EmptyGalaxy
        /\ path' = NoBlocks /\ evicted' = {} /\ anchors' = NoBlocks
  /\ page' = SnapshotOf(galaxy')
  /\ UNCHANGED <<file, saves>>

-----------------------------------------------------------------------------
Init ==
  /\ anchors = NoBlocks /\ resuming = FALSE /\ window = NoBlocks /\ queue = <<>>
  /\ path = NoBlocks
  /\ entity = NoEntity /\ galaxy = EmptyGalaxy /\ evicted = {} /\ promised = Empty
  /\ page = SnapshotOf(EmptyGalaxy)
  /\ saving = Nothing /\ file = Nothing
  /\ saves = 0 /\ troubles = 0

Poll ==
  \/ BootHydration \/ RebuildWindow \/ ReplayWindow \/ HydrationFails \/ BootLive
  \/ PollLive \/ OpenRange \/ ReplayBlock \/ RangeFails \/ Reorganize

Next ==
  \/ Poll \/ Reduce \/ Connect
  \/ SaveEntities \/ SaveProjections \/ Restart

Spec == Init /\ [][Next]_vars

-----------------------------------------------------------------------------
(* Properties.                                                             *)

AtRest == queue = <<>>   \* every block sent has been applied whole

(* The plain definition of what the followed chain created and spent.      *)
CreatedBy(txs) == UNION {Range(Outputs[tx]) : tx \in txs}
SpentBy(txs)   == UNION {Range(Inputs[tx]) : tx \in txs}
PathTxs        == UNION {Range(BlockTxs[path[n]]) : n \in DOMAIN path}
Created        == CreatedBy(PathTxs)
Unspent        == Created \ SpentBy(PathTxs)

TypeOK ==
  /\ PartialChain(anchors) /\ PartialChain(window) /\ PartialChain(path) /\ resuming \in BOOLEAN
  /\ PartialChain(entity.recent) /\ PartialChain(galaxy.hashes)
  /\ galaxy.next \in Nat /\ galaxy.replay \in BOOLEAN
  /\ galaxy.nBirths \in Nat /\ galaxy.nDeaths \in Nat
  /\ Range(galaxy.index) \subseteq 0 .. galaxy.next - 1
  /\ \A i \in DOMAIN galaxy.rows : galaxy.rows[i].died \in Nat \cup {Alive}

(* outpoint_index and the rows never drift apart, whatever mix of spends,  *)
(* cap kills, corpse collection, rollbacks and revivals ran: the index     *)
(* names exactly the live rows, no outpoint is alive twice, and an id      *)
(* belongs to one cell, in the rows or parked.                             *)
IndexNamesTheLiving ==
  LET living == {i \in DOMAIN galaxy.rows : IsAlive(galaxy.rows[i])} IN
  /\ DOMAIN galaxy.index = {galaxy.rows[i].op : i \in living}
  /\ \A i \in living : galaxy.index[galaxy.rows[i].op] = galaxy.rows[i].id
  /\ \A i, j \in DOMAIN galaxy.rows :
       galaxy.rows[i].id = galaxy.rows[j].id => i = j
  /\ \A op \in DOMAIN galaxy.limbo : galaxy.limbo[op].id \notin Ids(galaxy.rows)

(* However the chain got here (rollbacks of several blocks, cells born and *)
(* spent in one orphaned block, transactions that moved to another height, *)
(* replays cut short and resumed, a rebuild, a restart), the live cells    *)
(* are the unspent outputs of the chain that is now followed, save those   *)
(* the cap evicted.                                                        *)
CellsAreCanonical ==
  AtRest =>
    /\ DOMAIN galaxy.index \subseteq Unspent
    /\ Unspent \ DOMAIN galaxy.index \subseteq evicted

(* No output of the followed chain is skipped for good: each is alive, was *)
(* spent, or was evicted, in the process that followed it and in the one   *)
(* that resumed from its file.                                             *)
NothingIsSkipped == AtRest => Unspent \subseteq DOMAIN galaxy.index \cup evicted

(* The two cumulative counters are those of the followed chain: each       *)
(* rollback takes back exactly what the orphaned blocks had counted.       *)
CountersAreCanonical ==
  AtRest =>
    /\ galaxy.nBirths = Cardinality(Created)
    /\ galaxy.nDeaths = Cardinality((Created \cap SpentBy(PathTxs)) \ evicted)

(* Until an envelope closes as complete (a failed walk closes its own with *)
(* 0 of 0, which counts), a cell that was indexed when the replacement     *)
(* began and is alive has the id it had: no second identity for a          *)
(* re-included outpoint, through further rollbacks and failed attempts.    *)
SurvivorsKeepIds ==
  \A op \in DOMAIN promised \cap DOMAIN galaxy.index :
    galaxy.index[op] = promised[op]

(* A page that applied the deltas since its snapshot holds every row as    *)
(* the galaxy has it, and beyond them only identities still parked.        *)
PageShowsGalaxy ==
  LET parked == {galaxy.limbo[op].id : op \in DOMAIN galaxy.limbo}
      shown  == SnapshotOf(galaxy)
  IN /\ DOMAIN page.cells \subseteq DOMAIN shown.cells \cup parked
     /\ \A id \in DOMAIN shown.cells :
          id \in DOMAIN page.cells /\ page.cells[id] = shown.cells[id]
     /\ page.births = shown.births /\ page.deaths = shown.deaths

(* Parked identities are settled when the replacement is over: once the    *)
(* adapter has nothing to resume, none is left on a page for ever.         *)
NoGhosts == AtRest /\ ~ resuming => DOMAIN galaxy.limbo = {}
=============================================================================
