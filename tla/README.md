# cknerv in TLA+

cknerv shows a CKB node as a living picture: a Rust server follows the node's
canonical chain, folds it into an entity and several projections, and streams
both to a browser, which folds the stream again into the scene. What the
picture shows is correct only if three followers agree with the one before
them, although the first may change its mind at any time and the last may lose
its connection at any time. These modules say what each follower does, check
it with TLC on small instances, and prove the core of it with TLAPS.

    CKB node --RPC--> adapter --mutations--> reducer: entity + projections
                                                 |  ring + broadcast channel
                                                 v
                                       WebSocket handlers, HTTP snapshot
                                                 |
                                                 v
                                browser stream clients --> caches --> scene

## 1. The system

| Component | State | Operations | Interacts through |
|---|---|---|---|
| CKB node (external) | its canonical chain | extends it, switches to another branch | answers one RPC at a time |
| Adapter, chain sync (`cknerv-adapter-ckb`: `adapter.rs`, `poll.rs`, `backfill.rs`) | `PollState`: cursor `last_tip`, anchors `canonical_blocks`, `replaying_reorg`, `catching_up`, `hydration_attempts_left` | boot hydration and its retries, poll, fork search, range emission, window rebuild | mutations into one channel of 4096 |
| Adapter, translation (`rpc.rs`, `block_fetch.rs`, `cell_data.rs`, ...) | none | JSON to mutations | pure |
| Reducer and chain entity (`state.rs`, `entity.rs`) | `revision`, `Chain` with `recent_blocks`, mutation ring, broadcast channel | `apply_mutation`, snapshots, enrichment intake | coordination lock |
| Cells projection (`projection/cells.rs`) | live and dead cells, block journals, `reorg_limbo`, open `BackfillProgress` | births, deaths, rollback, rebuild, settling, cap and garbage collection | called by its runner |
| Projection registry (`projection_registry.rs`, `projection_ring.rs`) | per projection: revision, delta sequence, ring, broadcast channel, snapshot cache | `ProjectionRunner::apply`, snapshots, quarantine | write lock per projection |
| WebSocket streams (`ws.rs`) | per connection: subscription, `last_sent_*` | catch-up decision, replay, snapshot, live loop, overrun | ring, channel, socket |
| Browser clients (`packages/cache`: `entityStream.ts`, `projectionStream.ts`, `streamHealth.ts`, reducers, `cellField.ts`) | cursor, cache, pending deltas, timers | connect, receive, batch, flush, lag, reconnect | socket, animation frames |
| Persistence (`persistence.rs`, `server.rs`, CLI `server.rs`) | the state file, its temporary twin, files of newer schemas set aside | boot checkpoint and save on exit, load, resume decision | save lock, file system, locks of entity and projections |
| Enrichment (`enrichment_supervisor.rs`, `enrichment.rs`, `composition_store.rs`, `cknerv-adapter-ckbadger`) | what is due, in flight, published; the burst of top-ups | probe, dispatch, join, withdraw, anchor check, install | tasks, HTTP, one channel to the reducer |
| Display plane and composition policy (`display_plane.rs`, `composition_policy.rs`) | who is on stage and in which role, residents and candidates, ranks, benches, refill queues | the hooks of the cells projection, then one flush per mutation | called by the cells projection; one coalesced delta |
| Wire formats, statistics | columnar encoding | deterministic functions | pure |
| Neighbour-graph worker (`packages/ui/src/geometry`) | session, generation | full builds, patches | `postMessage` |
| HTTP routes, browser guard, health, CLI, rendering | little | request handling, reports, drawing | - |

What is hard here, and what the properties are for:

* **The node moves between two answers of one poll.** Tip, probes and blocks
  of one poll may come from three different branches.
* **Partial work.** A range stops half way, a hydration is retried, a rebuild
  is abandoned; every flag it leaves must be picked up by a later poll.
* **Three bounded memories prune themselves independently**: the poller's
  anchors, the cells' undo journal and the entity's ring.
* **Handlers race the reducer.** A handler subscribes, copies the ring, reads a
  revision and takes a snapshot at four different moments.
* **Slow and absent clients.** A channel overruns, a ring evicts, a connection
  drops with frames in flight and frames in the batch.
* **Restarts** re-issue revisions, a checkpoint is made of several reads, and the
  machine may stop between any two steps of writing it.
* **One decision taken twice.** The command line decides whether to resume from
  one look at the state file, the server restores from another.
* **Unlocked readers.** A snapshot request reads a cursor, a cache and the rows
  at three moments, and shares a compression with requests that may be gone.
* **Answers that come late or never.** A refresh is about a block that may have
  been orphaned, holds a permit meanwhile, and may panic.
* **Books about a moving field.** The composition policy counts, ranks and
  benches members that leave by four other doors.

`PROJECT.json` lists each hazard at its line with the properties that cover it.

## 2. The modules

| Module | Stands for |
|---|---|
| `BlockTree` | The tree of all blocks; partial chains (height to block) and what the code does with them: `Put`, `Below`, `Over`, `Newest`, and the predicates `Linked` and `IsSegment`. |
| `CkbNode` | The node, external. `NodeAdvance` appends a child, `NodeRewind` falls back to an ancestor; the two make every reorganisation, including tips that drop below the cursor. |
| `CanonicalSync` | The adapter's synchronisation with what reducer and cells projection make of its mutations. |
| `CanonicalFollower` | What any reader of the ring may rely on: an abstract follower of one chain. |
| `CanonicalSyncProofs` | Theorems. |
| `StreamLog` | Log of published entries, ring, `decide_action`. |
| `StreamClient` | The browser's end of either stream. |
| `ReplicatedView` | What a stream promises: the view is always a prefix of the log, never an earlier one. |
| `ProjectionStream`, `EntityStream` | The two servers' ends, each composed with the client. |
| `StreamClientProofs`, `EntityStreamProofs`, `ProjectionStreamProofs` | Lemmas both streams use; their theorems. |
| `CellGalaxy` | The cells projection, one operator per handler: what each mutation does to the single cells, the journals and the limbo, and the deltas it sends. |
| `CellPipeline` | The life of the cells: adapter's mutations, reducer, galaxy, a page that follows the deltas, the state file and the process that resumes from it. |
| `CellPipelineProofs` | Lemmas on every operator of `CellGalaxy`; theorems about the pipeline. |
| `DisplayStage`, `CompositionPolicy`, `DisplayPlane` | The stage and its moves; who should be on it; the hooks, the flush and the page that follows. |
| `ProjectionSnapshots`, `ProjectionSnapshotsProofs` | The read side of the registry while mutations are fanned out: snapshot cache, binary generations and their shared compression, a contained panic. Theorems. |
| `EnrichmentSupervisor`, `EnrichmentSupervisorProofs` | The supervisor's loop, its tasks and the reducer's intake. Theorems. |
| `WorkDirectory`, `WorkDirectoryProofs` | The state file across lives of the server: save, crash, load, and the decision to resume. Theorems. |
| `MC*` | Values for TLC. |

### CanonicalSync

One action is one RPC answer with everything the code does up to its next RPC:
between two RPCs nothing else of the adapter runs. `pc` names the RPC awaited.

| Code | Action |
|---|---|
| `adapter::run`, first hydration | `RunHydration`, then `DiscoverBlock`*, `VerifyWindow` or `DiscoverGivesUp` |
| `poll_once_with_policy`: tip | `PollOnce` (spends a hydration retry, anchors a live-only boot, or looks for a change) |
| live-only anchor | `AnchorTip` |
| `find_canonical_change`: cursor, then backward walk | `SeedCursor`, `ProbeCursor`, `WalkBack` |
| `emit_canonical_range` | `FetchBlock`, `FetchParent`, ending in `Emit`, `RangeFails` or an open range |
| `hydrate_at_tip` (boot, retry, rebuild) | `BeginDiscovery`, `ReplayDiscovered`, `DiscoveryFails` |
| node | `NodeMoves(NodeAdvance)`, `NodeMoves(NodeRewind)` |

The mutations go through one FIFO channel to one reducer, so their effect on
`recent` (`Chain.recent_blocks`), `galaxy`, `journal`, `parked`
(`reorg_limbo`) and `replay` (an open `BackfillProgress`) is part of the step
that sends them. A block is its identity; `Parent` and `Height` are all the
properties can tell apart. A hydration's replay makes no RPC and is one step.
The cells projection appears at the grain of whole blocks: `galaxy` is the set
of blocks whose transactions it holds. An RPC fails at most `MaxFaults` times;
a height above the node's tip is "not visible", as is a spurious miss.
`handle_block_mined` can also settle the limbo when no envelope is open; the
poller only mines on a parked limbo inside a replay (`LimboHasReplay`), so that
branch does not occur. `seen` is a history variable for one property.

### The streams

An entry overwrites one item, so the state after `k` entries is the number of
the last writer of each item: enough to tell a lost, a repeated and a stale
entry from a current view, and nothing else. In `ProjectionStream` the
runner's commit and each publication, and each of the handler's reads, are
separate steps, because the code takes no common lock. In `EntityStream`,
`apply_mutation` holds the coordination lock from the change to the broadcast
(`Locked`), and the handler reads revision, ring and snapshot under it;
subscribing and receiving take no lock. `StreamClient` holds what both browser
clients share: frames are buffered in `wire`, deltas in `pending` until the
animation frame, a lagged frame discards the batch and reconnects with a zero
cursor, a lost connection commits the batch and loses the wire.

### CellGalaxy and CellPipeline

`CanonicalSync` sees blocks; here a block has transactions, a transaction
inputs and outputs, and a cell is a row with an id, an outpoint, a birth and a
death. `CellGalaxy` has no variables: a galaxy is a record with the fields of
the Rust struct, and `HandleBlockMined`, `HandleTxLanded`, `RollbackFrom`,
`ResetForRebuild`, `HandleBackfillProgress`, `ToPersisted` and `RestoreFrom`
take one galaxy to the next, leaving the deltas in `out`. `slot_of` is a search
(the derived `id_to_slot` is not kept), and what no other part reads is left out:
links, tags, the pulse and the census; the display plane is `DisplayPlane`. Loops
over transactions, inputs, journalled rows and heights are folds of an operator
for one of them (`Spend`, `Create`, `Resurrect`, `Park`, `UndoKnown`, `Keep`).

| Code | Action of `CellPipeline` |
|---|---|
| boot, retry and rebuild hydrations | `BootHydration`, `RebuildWindow`, `HydrationFails`, then `ReplayWindow` once per block of `window` |
| live-only boot, small gap | `BootLive`, `PollLive` |
| catch-up and reorg replay | `OpenRange`, `ReplayBlock`, `RangeFails` |
| `CanonicalChange::Reorganize` | `Reorganize` |
| one turn of the reducer | `Reduce`: entity, galaxy and page |
| a page takes a snapshot | `Connect` |
| `persistence::save` | `SaveEntities`, then `SaveProjections` |
| the process ends and `load` | `Restart` |

The adapter's decisions are `CanonicalSync`'s subject; here it sends any sequence
those decisions allow, a block at a time (with one difference: the anchors of the
boot's own hydration are pruned at once rather than by the poll that follows, see
section 5), and waits for the channel to empty
(it reads nothing the reducer writes, so sending ahead adds no outcome but a
save in between, which the queue of a whole block already gives). The reducer
takes one mutation per step, so a save, a connection or a crash falls between
the `BlockMined` of a block and any of its `TxLanded`. `Reduce` changes the
entity under the coordination lock and the galaxy under its own in one step: only
the two reads of a save could tell, and they are two steps. The page applies
every delta at once: how deltas get lost and repeated is the streams' subject. A
snapshot carries the rows the display plane has staged; here, all of them.
What consensus keeps out of every chain (`ConsensusAssumption`: a transaction
twice, an output created or spent twice, a spend before the creation) is assumed of
the branches of the tree. `path`, `evicted` and `promised` are history variables.

### DisplayStage, CompositionPolicy and DisplayPlane

The plane is pure code that the cells projection calls, with a page behind it. A
stage is a record which the moves of `Stage` rewrite; the policy keeps its books
in the same record. One action is one mutation: the hooks its handler calls,
then `flush`, then the one delta.

| Code | Action |
|---|---|
| `handle_block_mined` (sweep of corpses), `handle_tx_landed` | `MineBlock`, `LandTx` |
| `rollback_from` with `note_chain_reorganized` | `Reorganize` |
| `handle_backfill_progress` open and closed | `ReplayStarts`, `ReplayEnds` |
| a hydrated record, and `ReservoirReplaced` or a top-up | `Hydrate`, then `Install` |
| `reset_for_rebuild` | `Rebuild` |

Outpoints are numbers, a canonical id is its outpoint's number, a composition
id lies above every outpoint. The map enters as the births and deaths of the
branch. Between `Hydrate` and `Install` transactions land and branches change,
as they do while a record is hydrated through the node. The loops of the policy
(refill, borrowing, window) are recursive operators, so nothing is proved here.

### ProjectionSnapshots

Every read a request makes without the projection's lock is a step: the cursor
(`Ask`), the cache (`LookupText`, `LookupBin`), the rows (`TakeText`,
`CheckBin`, `CaptureBin`) and the cache again (`RememberText`, `RememberBin`).
The writer's section is four steps (`Begin`, `Change`, `Store`, `Retire`), of
which a panic (`Panic`, `Contain`) takes the place of the last three. Rows are
the number of the mutation they reached and whether they reached it whole. A
binary generation is named by the request that built it; its compression is a
builder that outlives the request (`Compress`, `StartBuild`, `EndBuild`), and a
waiting request may be dropped (`Abort`). `CheckSave` and `ReadSave` are the two
reads of `save_state`, used by section 6 only.

### EnrichmentSupervisor

One action is one turn of the `select!` loop (`Tick`, `ProbeLands`, `Join`), one
end of a task (`ProbeAnswers`), or one turn of the reducer (`Intake`). The loop
counts a landing after its `send` has returned, when the reducer may have installed
the record already: that is a step of its own (`Land`, of what `landing` names). A
top-up answers with cells, with none or with a failure, and only cells count. A block
an answer is about is the number of reorganisations before it was taken; a record
without an anchor (`Unanchored`, the producer ledger) is never overtaken, one whose
anchor the reducer's window has dropped is not installed. Time
is one bit per kind, "started within its interval", which `Rest` clears. What
the display plane reports is the variable `stage`: `Drift` raises its shortfall,
an installed top-up lowers it by any amount, `Reorganize` takes the composition.

### WorkDirectory

A save is the code's sequence: capture and create under the save lock
(`BeginSave`), `WriteAll`, `SyncAll`, `Rename`, the best-effort flush of the
directory (`SyncDirectory`), each of which may fail (`SaveFails`). `settled` is
the directory the disk is known to hold: a power failure leaves that one or the
current one, and a file whose bytes were not flushed may survive as an entry
with nothing behind it. `Boot` is the command line's look at the file (`Peek`),
its decision (`RestorePersisted`), and `load` with its four outcomes, of which
setting a newer file aside and removing an unreadable one may fail and leave the
file where it is; an embedder keeps the builder's default and always loads. Two builds with different
schemas take turns. Derived state is its revision and the Cell reservoir with
the target it claims to have been hydrated for: what the decision reads.

### Slips

Each module keeps, beside a few definitions, a second form with a plausible
slip in it (`RangeStartAtCursor`, `DecideOffByOne`, `ReceiveLaggedInPlace`,
...). Nothing uses them. Substituting one must break the property named with
it in `PROJECT.json` under `mutants`; this is how we know that a property
speaks about the code.

## 3. What TLC checks

| Run | States | What it shows |
|---|---|---|
| `sync_safety` | 1.9 M | From every boot (hydrate, live-only, resume): the ring is one branch (`RecentIsOneBranch`), each view was canonical (`ViewsWereCanonical`), the poller's anchors are what it published (`AnchorsMatchRecent`), blocks are announced upwards only (`EmitsOnlyAbove`), an open envelope has somebody to close it (`OpenEnvelopeIsResumed`). |
| `sync_converges` | 0.7 M | Short trees, fair scheduling, a ring and a hydration window no wider than the anchors: entity and galaxy agree (`GalaxyHoldsRecent`, `GalaxyIsOneBranch`), the protocol implements `CanonicalFollower`, and once node and RPC settle the view reaches the node's tip, from every boot (`EventuallySynced`). |
| `projection_safety` | 3.0 M | Overruns, barriers, two deltas per mutation, a lost connection: one connection sends each entry once and in order (`ConnectionIsOrdered`), and a batch that moves the cursor is complete (`FlushSkipsNothing`). |
| `projection_recovers` | 0.4 M | With one delta per mutation and no barrier: the projection stream implements `ReplicatedView` and every client gets current. |
| `entity_stream` | 1.1 M | The entity stream keeps all of it, with barriers, hidden mutations, overruns and lost connections: `SnapshotCoversDeltas`, `QuietClientIsCurrent`, `ImplementsReplica` and `EventuallyCurrent`. |
| `cells_pipeline` | 1.0 M | Any two of rollback, rebuild, failed walk and restart, with a save at rest: the live rows are the unspent outputs of the followed chain but for those the cap took (`CellsAreCanonical`), the counters are the chain's (`CountersAreCanonical`), a re-included output keeps its id (`SurvivorsKeepIds`), the page shows the galaxy (`PageShowsGalaxy`) and no parked identity stays for ever (`NoGhosts`). |
| `display_plane` | 0.4 M | The curated policy's books are about the field it staffs (`PolicyKnowsItsField`), a page that follows the deltas shows the stage (`FollowerAgrees`), no resident is a spent outpoint unless its record was late (`ResidentsAreUnspent`), a composition rests on a retained anchor (`CuratedIsAnchored`), a top-up never takes a curated seat (`RatchetHolds`). |
| `snapshot_cache` | 0.4 M | Two requests of any two kinds race a writer that may panic: an answer's revision describes its rows (`AnswersMatchRevision`), nothing stale is remembered (`CacheIsCurrent`), a revision has one binary and so one compression (`OneBinaryPerRevision`), a panic stops its own projection only (`OthersCarryOn`), and every request ends, whoever starts and abandons the build it waits for (`EveryRequestEnds`). |
| `supervisor` | 0.2 M | A withdrawn record goes (`WithdrawnIsGone`), an overtaken answer is not installed (`StageIsCanonical`), a burst ends (`BurstEnds`), a shortfall is asked about although a due kind is refused the one shared permit, which is never returned (`TopUpIsAsked`), and a lost composition is due again (`LostCompositionIsDue`). |
| `work_directory` | 1.9 M | The live file is always the whole of some save (`LiveFileIsWhole`), a save that returned with its directory flushed is not lost (`SavedIsKept`), and adapter and server agree on what is resumed (`ResumesWhatItLoaded`). |
| `newer_save_lost`, `torn_checkpoint` | violation | Section 6. |

The synchroniser's trees have 9 or 11 blocks with a main branch and forks at
several depths (above, at and below every anchor), `ReorgWindow` 2, ring 3 or
4, one RPC fault, one hydration retry, two rewinds. The streams have two items, a
ring of 4, a channel of 2, up to 5 mutations and 1 or 2 lost connections. The
cells have a tree of 7 blocks and 5 transactions, a window and a cell cap of 2.
The stage has three seats and five outpoints of all classes; the supervisor an
aggregate, the composition and the top-up, and one shared permit; the directory two builds and two
lives.

Why the bounds are enough. The tree has, for each of the poller's decisions
(tip below the cursor, cursor replaced, fork inside the window, fork below every
anchor), a branch that forces it, and two rewinds allow a second reorganisation
while the first is handled. A window of 2 blocks and a ring of 4
keep the proportions of the code, 48 and 50. One fault hits any RPC, two would only
repeat it. On the stream side five mutations overflow a ring of 4 and a channel
of 2 while a handler is between two reads; `ReplayMax` 2 makes both a replay and
a snapshot possible. In the cells' tree an output is born and spent in one
orphaned block, spent across a fork, and re-included at another height and in
other company; three live outputs meet a cap of 2, and a fork below the window
forces a rebuild. `CorpseHold` 0 lets a corpse be collected between its death
and the rollback of it. On the stage one seat of the window and two of the field,
one of them at most an endpoint's, make every displacement possible: a window
that promotes an endpoint, a bench restored into a full field, a resident swapped
for the canonical cell of its outpoint. Two snapshot requests are what a race
over one slot, one generation or one permit takes, and three mutations let one
generation be compressed while the next is built. In the supervisor a channel of
one makes the loop wait for the reducer; one kind of each sort (clearable,
composition, top-up) has every dispatch rule; one shared permit makes the two
others compete for it, so that whichever is refused is passed over, not the end
of the pass, and it can be held for ever. Two lives of two builds meet every branch of `load`, both writers and a
failure between any two steps.

Bounds and where they sit: `MaxRewinds`, `MaxFaults`, `ScanLimit`
(`CanonicalSync`), `MaxRevision`, `MaxBatch`, `MaxDrops`, `WireCap` (streams),
`MaxTroubles` (rollbacks, rebuilds, failed walks and restarts), `MaxSaves` and
`ScanLimit` (`CellPipeline`), `MaxHeight`, `MaxReorgs`, `MaxRecords`, `MaxTxs`
(`DisplayPlane`), `MaxRevision`, `MaxPanics` (`ProjectionSnapshots`),
`MaxStalled`, `MaxDemand`, `MaxReorgs` (`EnrichmentSupervisor`), `MaxRevision`,
`MaxLives` (`WorkDirectory`), all in guards. `SaveAtRest` is no bound but an
assumption: with it a save finds the channel empty and the adapter waits for
it. The code promises neither; `cells_pipeline` shows what holds when it
happens to be so, `torn_checkpoint` what happens when it is not. `Warm` starts a projection with one delta in its ring, so that
no client's cursor is zero by accident; `Replays` says whether
`BackfillProgress` barriers occur. The stream configurations switch the
deadlock check off (a system whose mutations are used up and whose client is
current rests), and so do the cells' (the tree has no block beyond its tips), the
stage's, the snapshot requests' and the directory's (each has used up its
mutations, requests or lives). The supervisor's keeps it: its loop never ends.

### Fairness

`CanonicalSync`: weak fairness of `Poll` (the poll loop runs on an interval and
never ends; RPC calls have timeouts, which count as faults) and of the node
growing (a chain keeps producing blocks). Faults, rewinds and spurious misses
are bounded, never forced. In the tree of that run all branches end at the same
height, so that a behaviour settles on a chain no shorter than a tip it
reported: a real chain's next block does that. Streams: weak fairness of
publishing what is committed, of the handler's task and of the page; none of new
mutations or of lost connections.

`ProjectionSnapshots`: weak fairness of the writer's section once it has begun,
of each request's next step and of each builder: threads and tasks run. Nobody
has to ask, to mutate, to panic or to give up waiting. `EnrichmentSupervisor`:
weak fairness of the tick, of taking a probe's answer and of the reducer's
intake (a timer and two tasks); of the intervals of composition and top-up
(time passes); of a top-up's end (its requests have timeouts); strong fairness of
a probe that finds the source ready: the source may be away again and again, but
not for ever. The other kinds' requests need never end, which is what makes
`TopUpIsAsked` a statement about permits.

## 4. What is proved

`CanonicalSyncProofs` (all obligations checked by SMT, Zenon and LS4), for every
tree, window, ring capacity, threshold, boot set and bound:

| Theorem | Says |
|---|---|
| `TypeCorrect` | `Spec => []TypeOK` |
| `RingIsOneBranch` | `Spec => []RecentIsOneBranch` |
| `AnchorsAgree` | `Spec => []AnchorsMatchRecent` |
| `AnnouncesAbove` | `Spec => []EmitsOnlyAbove` |
| `EnvelopeIsResumed` | `Spec => []OpenEnvelopeIsResumed`: an envelope on stage has a task or a flag that will close it |
| `PublishedWasCanonical` | `Spec => []ViewsWereCanonical`: every ring published was a piece of the chain the node had at some moment of that poll |
| `RingFollowsChain` | `Spec => ImplementsFollower`: initial states map to initial states, each step to a step of `CanonicalFollower` or a stutter |
| `GalaxyKeepsRecent` | `Spec /\ RollsBackWithinJournal => []GalaxyHoldsRecent` |
| `GalaxyKeepsOneBranch` | `Spec /\ RollsBackWithinJournal => []GalaxyIsOneBranch` |
| `PrunedStaysPruned` | `Spec => [][AnchorsPruned => AnchorsPruned']_vars` |
| `PrunedAnchorsSuffice` | `ReorgWindow >= 2` gives `Spec /\ RollsBackPruned => RollsBackWithinJournal` |

Assumptions: `TreeAssumption` (a block's parent is one lower; genesis is its own
parent), `RewindAssumption`, `SyncAssumption` (sizes are naturals and a saved
state is a piece of a chain that ends at its tip).

The invariant. `RecentIsOneBranch` is not inductive: that a fetched block
continues the ring is only known because its parent was compared with
`anchors[at - 1]`, and because that anchor is the ring's top. So the invariant
`TypeInv /\ RingInv` carries along: the node's chain is linked; anchors and ring
agree and the ring ends at the cursor (`AnchorsMatchRecent`); while a range is
under way the height asked for is the cursor's successor (`CursorPhase`); and
what each phase of a hydration may still find on stage (`HydrationPhase`: a boot
or a retry starts on an empty ring, a rebuild replaces it). `WindowFloor` keeps
the block below a discovered window well defined. One lemma per action shows
each half preserved; `StepInv` collects them, and the first four theorems follow
from `SyncInvariant`. The facts about chains they rest on come first: cutting, extending and pruning a segment leaves a segment.

The other three add to it. `EnvelopeInv` says who owns an open envelope: one of
the flags `replaying_reorg` and `catching_up`, which the next poll acts on, or a
discovery, which will publish or close it; and that a range meant as live runs
with both flags down. `SeenInv` says that what a poll has in hand (the fetched
block, the discovered window) was canonical since it read the tip, which the
answer itself cannot say once the node has moved on. For the refinement each action is sorted by what it does to
the ring: a block that is emitted is the child of the top (`EmitMines`), a
rollback cuts at a height the ring reaches (`RollbackRetracts`), a verified
window is adopted under the envelope its discovery opened, and the rest stutter
or announce (`StepFollows`).

What the cells projection holds needs a condition, because the code breaks it
after a resume (section 6): no rollback goes below the undo journal
(`RollsBackWithinJournal`). Under it `GalaxyInv` is inductive: nothing the
galaxy holds is above the cursor, every journal entry names a block the galaxy
holds, and the journal has all of the galaxy from its lowest height up, so a
rollback to an anchor above it removes exactly the orphans. How
far the condition goes beyond the code is proved as well, for every ring, scan
and boot. Anchors that `prune_canonical_history` cut to the window and one block
stay within that (`PrunedStaysPruned`), and while they are, every anchor a
rollback can fall back to has its successor in the journal (`JournalReach`); so the
condition can only fail at a rollback found before a boot's anchors were
pruned for the first time (`RollsBackPruned` says that there is none), which is
where the runs of section 6 have it fail.

`StreamClientProofs` holds what both streams rest on: the least-number
principle (from the library's well-founded induction on the naturals, applied to
a relation, not to an operator), hence the greatest element of a bounded set;
what `Content`, `InOrder` and `Applied` compute for every log and batch; that two
adjoining runs of entries are one; and what a sent and a received frame leave of
the queue.

`EntityStreamProofs`, for any items, ring, channel, replay limit and bounds, under
`StreamAssumption`, `ClientAssumption` and `EntityAssumption`:

| Theorem | Says |
|---|---|
| `ViewIsFollowed` | the inductive invariant |
| `TypeCorrect` | `Spec => []TypeOK` |
| `QuietIsCurrent` | `Spec => []QuietClientIsCurrent` |
| `CursorIsHonest` | `Spec => []CursorNeverPassesView`: what a client asks to continue from is never past what it shows |
| `ConnectionOrdered` | `Spec => []ConnectionIsOrdered` |
| `SnapshotCovers` | `Spec => []SnapshotCoversDeltas` |
| `FlushesSkipNothing` | `Spec => FlushSkipsNothing` |
| `ViewFollowsLog` | `Spec => ImplementsReplica`: the client's view only ever moves along the log |

Nothing in the state says how much of the log the client has; the invariant is
`\E k : IInv(k)`, and a step moves `k` forward or keeps it (`StepForward`), which is
the refinement. `IInv(k)` places everything else relative to `k`: the view is the
state after `k` entries and the cursor claims no more (`ViewInv`); the batch goes on
from `k` or overlaps it (`BatchInv`); each frame goes on where the one before
ends, up to the first lagged one, behind which the client reads nothing
(`WireInv`, `BeforeLag`); the handler's cursor and receiver agree with where the
queue ends (`HandlerInv`); no queued entry is past the handler's cursor
(`OrderInv`). That a quiet client is current is then one line: an empty queue
ends at `k`, a receiver with nothing to read is at the log's end.

`ProjectionStreamProofs`, likewise, under `StreamAssumption`, `ClientAssumption`
and `ProjectionAssumption`, with barriers, several deltas per mutation and a
ring that may begin inside one:

| Theorem | Says |
|---|---|
| `QueueGoesOn` | the inductive invariant |
| `TypeCorrect` | `Spec => []TypeOK` |
| `ConnectionOrdered` | `Spec => []ConnectionIsOrdered` |
| `FlushesSkipNothing` | `Spec => FlushSkipsNothing` |

Here several deltas share a revision, so a cursor does not say how many the view
has, and there is no such `k` (section 6, `QuietClientIsCurrent`). `Follows(j, n)` says instead which entry may come next once the first `j`
frames are applied: the one after the last delta, or, after a snapshot and for a
client with nothing queued, any before which all entries are of revisions the
client has. The step that needs an argument is the replay (`Replayed`): the ring
may begin in the middle of a mutation whose earlier deltas were evicted, and a
client one revision behind would miss those. It begins there only when it is full
(`LogInv`, `HeldInv`: its first entry is `Fresh` or the ring holds `RingCap`
entries), and a replay is at most half of a full ring (`RingCap >= 2 *
ReplayMax`, asserted in the code): so the first entry of a full ring is never
part of a replay, and the client has its revision. Without that assertion the
theorem is false.

`ProjectionSnapshotsProofs`, for any projections, requests, permits and bounds,
under `SnapshotAssumption` (the sets do not overlap):

| Theorem | Says |
|---|---|
| `TypeCorrect` | `Spec => []TypeOK` |
| `AnswersAreConsistent` | `Spec => []AnswersMatchRevision` |
| `GenerationsAreWhole` | `Spec => []BinariesAreWhole`: no binary comes from a half-applied mutation |
| `GenerationsAreShared` | `Spec => []OneBinaryPerRevision` |
| `CachesAreCurrent` | `Spec => []CacheIsCurrent` |
| `PanicsAreContained` | `Spec => []OthersCarryOn` |
| `FrozenStaysFrozen` | `Spec => FrozenIsFrozen`: a poisoned projection's rows and revision never change, nor does a snapshot once remembered; an empty slot can still be filled, with a text of the rows as the panic left them |

Here the invariant is `IInv`: how far each projection is in the fan-out and
that it is poisoned exactly from a panic on (`ReducerInv`); that a cache slot
describes its own revision and names a generation of its own projection
(`CacheInv`); what a request has read, and that between its capture and its
publication the read guard keeps the projection where it was (`RequestInv`);
and that the generation of the *current* revision, once any request holds it,
is the cached one (`GenerationInv`), without which `OneBinaryPerRevision` says
nothing about the request that comes next.

`WorkDirectoryProofs`, for any builds, hosts and bounds, under
`WorkDirectoryAssumption`:

| Theorem | Says |
|---|---|
| `TypeCorrect` | `Spec => []TypeOK` |
| `LiveFileStaysWhole` | `Spec => []LiveFileIsWhole` |
| `SavesAreKept` | `Spec => []SavedIsKept` |
| `LoadsKeepNewer` | `Spec => LoadKeepsNewer`: a load never destroys the save of a newer schema (what the command line does before it is `newer_save_lost`) |
| `ResumesAgree` | `Spec => SkipsWhatItLoaded`: the adapter of the command line skips the replay exactly if the server has loaded the file |
| `ResumesTheTarget` | `Spec /\ LoadsFit => ResumesWhatItLoaded`: and then the reservoir holds the target it is resumed for. `LoadsFit` says that no boot trims the reservoir it loads; section 6 shows what happens when one does |

The live file becomes what the temporary file was, so the invariant follows the
one save under way (`OneSave`, the save lock): from `WriteAll` on its temporary
file is whole, from `SyncAll` on it is flushed (`SaveOK`), and both the directory
and the one a power failure may fall back to hold a flushed live file
(`FileInv`). That nothing promised is taken back needs the state, and the file a
save has captured, to be at least as recent as the promise (`PromiseInv`).
`ResumesTheTarget` adds that a reservoir which claims a target holds it
(`ReservoirInv`), in the state, in both directories and in the save under way.

`EnrichmentSupervisorProofs`, for any kinds, permits, capacities and bounds,
under `SupervisorAssumption`:

| Theorem | Says |
|---|---|
| `StageStaysCanonical` | `Spec => []StageIsCanonical` |
| `WithdrawnGoes` | `Spec => []WithdrawnIsGone` |

`WithdrawnIsGone` speaks of an empty channel, so the invariant has to speak of a
full one: of a kind the loop believes withdrawn, the last event on its way is its
Clear, and if there is none the reducer holds nothing (`WithdrawalInv`); only
clearable kinds send one (`ClearInv`).

`CellPipelineProofs`, for every block tree, transactions that consensus allows,
cell cap, window, corpse hold and bound, under `TreeAssumption`,
`GalaxyAssumption`, `PipelineAssumption` and `ConsensusAssumption`. *Quiet* is
`[]SavesAreQuiet`, *within* is `[]WithinJournal`, *one life* is `[][Afresh]_vars`
(no process resumes from the file); all assume `RecentCap >= Window + 1`, which the
code's constants (a ring of 50, a window of 48) satisfy:

| Theorem | Says |
|---|---|
| `PipelineInvariant` | `Spec /\ quiet /\ within => [](PipeInv /\ DiskInv)`, the inductive invariant |
| `CellsStayCanonical` | `Spec /\ quiet /\ within => []CellsAreCanonical` |
| `CountersStayCanonical` | ... `[]CountersAreCanonical` |
| `SurvivorsStayThemselves` | ... `[]SurvivorsKeepIds` |
| `PageStaysTrue` | ... `[]PageShowsGalaxy` |
| `GhostsAreSettled` | ... `[]NoGhosts` |
| `IndexStaysExact` | ... `[]IndexNamesTheLiving` |
| `LifeInvariant` | `Spec /\ one life => [](PipeInv /\ ReachInv)` |
| `RingCoversJournal` | `Spec /\ one life => within` |
| `OneLifeStaysCanonical` | `Spec /\ one life` gives all six properties, wherever saves fall and however deep the node reorganises |

The conditions are about executions, because the code promises none of them.
`SavesAreQuiet`: no message is in the channel between the two halves of a save
(`torn_checkpoint` shows what happens otherwise). `WithinJournal`: a rollback
the reducer is about to make finds its first height in the cells' journal, or
has nothing to undo. Both matter only across a restart: as long as nothing is
resumed from the file, a save can tear what it likes, and `WithinJournal` is a
consequence (`RingCoversJournal`), because the anchors the adapter keeps for itself
are no deeper than the journal. What remains of the two conditions is about
processes that resume: keep their cells exact, if the file was not saved in the
middle of a block and they do not go back to the one anchor too many that they
resumed with.

The invariant. The five properties speak of an empty channel or of one id; in
between, cells, page and chain disagree in ways the channel accounts for. So
`PipeInv` goes by what is in the channel: `Phase` is one of `Resting`, `Opening`,
`OpeningInVain`, `Aborting`, `Reorganizing`, `Rebuilding`, `Connecting` and
`Landing`, each of which says which path the adapter goes on from and of which
transactions the galaxy is the result. That second half is `Whole(g, p, P, L, E,
Q)`: galaxy `g` and page `p` hold what follows from the history `L` of
transactions at the heights `P`, where the cap took `E` and the ids `Q` are
promised. It says so through a ledger, `B` (outpoint to the height it was born at)
and `D` (to the height it was spent at): `History` ties the ledger to `L`, and
`Sound` ties the galaxy to the ledger:

* `NamesInv`: ids and outpoints are one to one over all that carries an identity,
  the rows, the limbo and the rows in the journal. Without the last two a revival
  could meet a foreign row.
* `IndexInv`, `LedgerInv`, `CountInv`: the index names the living rows, it is the
  ledger less what was spent or taken, and the counters count the ledger.
* `JournalInv`: the journal has all heights from its lowest up, and for each of
  them lists just what the ledger has there. This is what makes `UndoBlock` exact:
  undone from the top down, deaths before births, each block finds the galaxy it
  left (`UndoBlockFits`, `UndoAllFits`).
* `PromInv`: a promised id is nobody else's and is still kept for its outpoint.

`Mirrors` ties the page to the galaxy. Each operator of `CellGalaxy` has a lemma
that it keeps galaxy and page fit, each fold one by induction on its length
(`Climb`, over the prefixes of one list; the induction is on numbers, not on
data), each mutation one from whole to whole (`TxHandled`, `MinedHandled`,
`ReorgHandled`, ...), each phase one for the reducer's step, and each action of
the adapter, the save and the restart one for its own (`LifeKeeps` collects
what needs no condition, `DiskKeeps` the rest). What is on the disk is apart:
`DiskInv` says of the file, and of the half of it that a save has written, what
`PipeInv` says of the process, and is needed only by one that resumes. On the adapter's side `Led` says that its anchors lie on the path the
channel leads to and that there is no hole above any of them, `Anchored` that the
entity, from which a restart takes its anchors, remembers them too.

`RingCoversJournal` adds `ReachInv`: the anchors span no more than the window and
one block (`Shallow`), and above every anchor the next height is in the journal
(`Backed`). A block pushes heights out of the journal and anchors out of the
adapter's memory by the same window, so what is kept of the one is within the other
(`BackedFurther`). TLC checked `PipeInv` and `ReachInv`, written as invariants of
the run, before they were proved.

Model-checked only, and why:

* The liveness properties (`EventuallySynced`, `EventuallyCurrent`,
  `EveryRequestEnds`, `BurstEnds`, `TopUpIsAsked`, `LostCompositionIsDue`):
  fairness and `ENABLED` are beyond the prover.
* `QuietClientIsCurrent` and `ImplementsReplica` of the projection stream: they
  need one delta per mutation and no barrier (section 6).
* The cells of a process that resumes from a file saved in the middle of a block,
  or that goes back to an anchor deeper than its journal: there the properties
  fail (section 6).
* The stage: its loops (refill, borrowing, window) are recursive operators.
* The type invariant of the supervisor: a pass over the kinds is a fold.

## 5. Not modelled

* Chain-info, mempool and network polls: they copy a value into a mutation.
* The cells' links, tags, pulse and census; the entity's rolling metrics.
* A hydration that ends short of its target, and files that cannot be read or
  have another schema: both start an empty galaxy, as the first boot does.
* In `CellPipeline`, the anchors of a window wider than the journal between the
  boot's own hydration and the first poll that ends (the interval's first tick is
  immediate): they are pruned at once. `CanonicalSync` has them; section 6 says
  what a switch of that depth does in between. Hydrations that `poll.rs` makes
  prune in the code too.
* Revisions across a restart: the streams model one process, `CellPipeline` and
  `WorkDirectory` have no clients.
* Of the stage: the bootstrap from a restored map, the demand it publishes, the
  columnar view of it.
* Of the supervisor: the unanchored record is in the theorems (any
  `Unanchored`) but not in the TLC instance, which a fourth kind takes beyond a
  million states. Left out: the source's published status, the early retry of the DAO
  state, Fork Watch with an incompatible source, shutdown. The semantics
  projection, which keeps the records, is one bit per kind.
* The composition store: its write and read repeat those of the state file.
* Of the work directory: files that cannot be read for other reasons than their
  content (so the two looks at one file agree), and a poisoned save lock. A cap below the restored reservoir is
  applied at the load rather than at the galaxy's next insertion.
* The neighbour-graph worker's sessions and the slots of the columnar cell field
  in the browser. Planned.
* JSON, columnar and gzip encodings, script taxonomy, statistics: pure functions
  whose content no property here tells apart.
* HTTP routes, browser guard, health report, command line, rendering: no state
  another component relies on.
* Heartbeats and the stale watchdog move no cursor; a watchdog that fires is a
  lost connection.

## 6. Disagreements found

Two are runs:

| Run | What happens |
|---|---|
| `torn_checkpoint` | A save (the boot checkpoint, or the one a signal triggers, which comes before the tasks are stopped) between the `BlockMined` of a block and its last `TxLanded` writes a tip whose transactions the cells do not have. The next process resumes above that tip: the missing outputs are never born, the missing spends leave dead cells alive. The other order, a block that starts between the two reads, writes cells the tip does not cover, which the next process adds again. |
| `newer_save_lost` | The command line's look at the state file answers "no cursor" for any other schema, so it asks the server not to restore; `load`, the only place that sets a newer schema's file aside, is never called, and the boot checkpoint renames over the file. An embedder that keeps the default does not lose it. |

The others are properties of the modules that the code does not keep. TLC finds
each with the module, specification and values named here (what is not named is
as in the passing configuration of that module):

| Property | With | What happens |
|---|---|---|
| `CanonicalSync!GalaxyHoldsRecent` | the trees of `sync_safety`, `ScanLimit` 3, `Boots` {"resume"} | A resume takes the whole persisted ring (50 blocks) as anchors, the undo journal holds 48. A rollback to the lowest anchors is below the journal's floor: `rollback_from` empties the galaxy, only the suffix is replayed, and the entity keeps blocks whose cells are gone. No window is rebuilt, as the comments say it would be. |
| `CanonicalSync!GalaxyHoldsRecent` | the same trees, `ScanLimit` 5, `Boots` {"hydrate"}, `MaxFaults` 0 | The anchors of the boot's own hydration are as many as it replayed and are pruned by the first poll that ends (`adapter.rs:174`; a retried hydration prunes its own, `poll.rs:86`). If the branch changes below the journal before that, the adapter goes back to one of them and the galaxy is emptied as above. |
| `CanonicalSync!GalaxyIsOneBranch` | as the first | A rollback to the journal's lowest height empties it; the next, deeper rollback finds no floor and undoes nothing. The cells of an orphaned block stay beside their replacements. |
| `SnapshotCoversDeltas` of `ProjectionStream` | `projection_safety` with `MaxDrops` 0 | A delta published between the handler's ring copy and its snapshot is in the snapshot and sent again after it: the client briefly shows an older value. |
| `QuietClientIsCurrent` of `ProjectionStream` | `RingCap` 8, `ChannelCap` 8, `ReplayMax` 4, `Replays` FALSE, `Warm` TRUE | Two deltas of one mutation share a revision and travel separately. A connection lost between them reconnects with that revision and never gets the second. |
| the same | `ChannelCap` 1, `MaxRevision` 5, `MaxBatch` 1, `MaxDrops` 0 | A lagged client asks for everything with `since = 0`; if a replay barrier has just emptied the ring, the handler takes it for a client with nothing to miss. |
| `SavedIsWhole` of `ProjectionSnapshots` | `SpecWithSave` | `save_state` reads the quarantine flag before it takes the lock; a panic between the two is saved half applied (`projection_registry.rs:614`), which the comment above it rules out. |
| `OneInFlight` of `EnrichmentSupervisor` | `SpecWithPanics` | One refresh that panics clears every in-flight mark (`enrichment_supervisor.rs:912`): a kind whose request still runs is asked a second time, which the module's header rules out. |
| `ResumesWhatItLoaded` of `WorkDirectory` | `Builds` two of one schema with caps 1 and 2 (`MCTargets`), `Hosts` {"cli"}, `MaxRevision` 3, `MaxLives` 3 | A reservoir loaded under a smaller cap is trimmed and keeps the target it was saved with; raising the cap again resumes it short (`cells.rs:600`, `server.rs:51` of the command line). |
| `TerminalDeltaSettlesPages` of `DisplayPlane` | `SpecWithReloads` | A page that loads in the middle of a replay has the stage as it is then; the replay's one delta is computed against the stage as it was when the replay opened, so a member that entered and left in between stays on that page. |
| `OneIdPerOutpoint` of `DisplayPlane` | - | A record hydrated before a spend is installed after it: the spent cell is still on stage as a corpse, and its outpoint, which the index of living cells no longer names, is staged again as a resident (`display_plane.rs:82`). |
| `FieldIsStaffed` of `DisplayPlane` | - | A candidate that sits in the recency window when a refill reaches it is dropped from its queue; when the window lets it go nothing offers it again, and a seat of the field stays empty beside it (`composition_policy.rs:719`). |

One is a comment that the code and a document contradict; the property follows
those. The module documentation of the display plane says that "the server cannot
observe spends of outpoints outside its retained set, so a staged resident stays
until the next refresh/degrade replaces it", with the later collision as "the one
exception" (`display_plane.rs:97-103`). The code shows the plane every input that
resolves to nothing and retires the resident it names, and `docs/ckbadger.md:262`
says so: "Spends are seen exactly". `ResidentsAreUnspent` states the latter, so
that it passes contradicts the former: a resident does not stay until the next
refresh once a transaction spends it.

A smaller one, noted while modelling: a rebuild whose discovery fails closes its
envelope with `done = total = 0`, which `settle_reorg_limbo` reads as full
coverage; the model follows the code (`DiscoveryFails`).

## 7. Plan

Order: what the rest depends on comes first.

1. Chain synchronisation, its abstract follower and its proofs - done.
2. The two streams and their clients, with `ReplicatedView` - done.
3. `CellGalaxy` and `CellPipeline`: single cells, page and state file - done;
   that a client of the former process is told to start over is left.
4. `ChainEntity`: `apply_mutation` with the metric rings and the producer
   window, compared with their recomputation from the blocks shown.
5. The display plane with its policy and page - done; the two homes of a record
   on the page (`cells`, `displayResidents`) are left.
6. Snapshot cache, shared compression and quarantine; the enrichment
   supervisor; the work directory; each with proofs - done.
7. A client that outlives its server: `WorkDirectory` under the streams.
8. The semantics projection and the page that prunes what the server keeps;
   neighbour-graph worker sessions, cell-field slots, stream health.
9. Proofs - done for the synchroniser and its refinement, both streams, the
   snapshot cache, the supervisor, the work directory and the cells. Left: the
   supervisor's `OneInFlight`, and what the stage keeps whatever its loops choose.
