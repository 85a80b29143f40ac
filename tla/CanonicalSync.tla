--------------------------- MODULE CanonicalSync ---------------------------
(***************************************************************************)
(* The CKB adapter's chain synchronisation                                 *)
(* (crates/cknerv-adapter-ckb: adapter.rs, poll.rs, backfill.rs) against a *)
(* node that may reorganise between any two RPC answers, together with     *)
(* what the consumers of its mutation stream make of it: the chain         *)
(* entity's recent_blocks ring (cknerv-server/src/state.rs) and the cells  *)
(* projection's rollback journal (cknerv-core/src/projection/cells.rs).    *)
(*                                                                         *)
(* One action is one RPC answer and everything the code does with it up to *)
(* its next RPC: nothing else of the adapter runs in between.  Mutations   *)
(* travel through one FIFO channel to one reducer, so a mutation is        *)
(* applied to the consumers' state in the step that sends it.              *)
(*                                                                         *)
(* Some helpers come in pairs: the first of the two is a plausible slip in *)
(* the second, kept to check that a property notices it; nothing uses it.  *)
(***************************************************************************)
EXTENDS CkbNode

CONSTANTS
  ReorgWindow,       \* reorg_window_blocks, given to adapter and projection
  RecentCap,         \* RECENT_BLOCKS_CAP
  CatchupThreshold,  \* catchup_threshold
  ScanLimit,         \* bound: blocks one hydration may scan
  BootRetries,       \* BOOT_HYDRATION_RETRY_ATTEMPTS
  MaxFaults,         \* bound: RPC errors and spurious "not visible" answers
  Boots,             \* ways the process may start: "hydrate", "live", "resume"
  Saved              \* chains a persisted state may hold

ASSUME SyncAssumption ==
  /\ ReorgWindow \in Nat
  /\ RecentCap \in Nat \ {0}
  /\ CatchupThreshold \in Nat
  /\ ScanLimit \in Nat \ {0}
  /\ BootRetries \in Nat
  /\ MaxFaults \in Nat
  /\ Boots \subseteq {"hydrate", "live", "resume"}
  /\ \A s \in Saved :
       /\ s.tip \in DOMAIN s.blocks
       /\ s.tip \in Nat
       /\ DOMAIN s.blocks \subseteq 0 .. s.tip
       /\ PartialChain(s.blocks)
       /\ IsSegment(s.blocks)

NoTip == -1        \* PollState.last_tip = None

(* prune_canonical_history keeps one parent anchor beyond the window.      *)
AnchorCapTwoParents == (IF ReorgWindow > 2 THEN ReorgWindow ELSE 2) + 2
AnchorCap  == (IF ReorgWindow > 2 THEN ReorgWindow ELSE 2) + 1
JournalCapExclusive == ReorgWindow - 1
JournalCap == IF ReorgWindow > 1 THEN ReorgWindow ELSE 1

VARIABLES
  \* PollState
  lastTip,    \* last_tip
  anchors,    \* canonical_blocks
  replaying,  \* replaying_reorg
  catching,   \* catching_up
  retries,    \* hydration_attempts_left
  \* the call in progress
  pc,         \* the RPC awaited, "idle" between two polls
  mode,       \* the replay phase, or the caller of hydrate_at_tip
  tip,        \* the tip this poll read
  at,         \* height asked for; floor of the window while "discover"
  held,       \* fetched block waiting for its parent's hash
  got,        \* blocks_descending
  \* the consumers of the mutations
  recent,     \* Chain.recent_blocks
  galaxy,     \* the blocks whose transactions the cells projection holds
  journal,    \* CellGalaxy.block_hashes, the blocks that can be undone
  parked,     \* reorg_limbo is not empty
  replay,     \* a BackfillProgress envelope is open (CellGalaxy.backfill)
  faults,     \* RPC faults so far
  seen        \* history: the blocks canonical since this poll read its tip

pollState == <<lastTip, anchors, replaying, catching, retries>>
call      == <<pc, mode, tip, at, held, got>>
consumers == <<recent, galaxy, journal, parked>>
vars == <<nodeVars, pollState, call, consumers, replay, faults, seen>>

-----------------------------------------------------------------------------
(* What the reducer and the cells projection do with a mutation.           *)

(* apply_chain_mutation, BlockMined: a block already held is ignored, a    *)
(* different block at a held height drops everything from that height on.  *)
RecentMined(r, n, b) ==
  IF n \in DOMAIN r /\ r[n] = b THEN r
  ELSE Newest(Put(IF n \in DOMAIN r THEN Below(r, n) ELSE r, n, b), RecentCap, n)

(* rollback_from(n) undoes the journal's blocks from n on; below the       *)
(* journal's floor it falls back to an empty galaxy (reset_for_rebuild).   *)
TooDeep(n) == DOMAIN journal # {} /\ \A h \in DOMAIN journal : n < h
UndoneAbove(n) == {journal[h] : h \in {k \in DOMAIN journal : k > n}}
Undone(n)  == {journal[h] : h \in {k \in DOMAIN journal : k >= n}}
RolledBack(n)    == IF TooDeep(n) THEN {} ELSE galaxy \ Undone(n)
RolledJournal(n) == IF TooDeep(n) THEN NoBlocks ELSE Below(journal, n)

(* handle_block_mined with the block's transactions: a height the journal  *)
(* holds with another block is rolled back first.                          *)
Replaces(n, b)     == n \in DOMAIN journal /\ journal[n] # b
GalaxyMined(n, b)  == (IF Replaces(n, b) THEN RolledBack(n) ELSE galaxy) \cup {b}
JournalMined(n, b) ==
  Newest(Put(IF Replaces(n, b) THEN RolledJournal(n) ELSE journal, n, b), JournalCap, n)

(* ChainReorganized: orphaned identities are parked in reorg_limbo.        *)
ReorganizedLate(from) ==
  /\ recent'  = Below(recent, from + 1)
  /\ galaxy'  = RolledBack(from)
  /\ journal' = RolledJournal(from)
  /\ parked'  = (~ TooDeep(from) /\ (parked \/ Undone(from) # {}))

Reorganized(from) ==
  /\ recent'  = Below(recent, from)
  /\ galaxy'  = RolledBack(from)
  /\ journal' = RolledJournal(from)
  /\ parked'  = (~ TooDeep(from) /\ (parked \/ Undone(from) # {}))

-----------------------------------------------------------------------------
(* Shared pieces of the adapter.                                           *)

PrunedAnchors(a, latest) == Newest(a, AnchorCap, latest)

(* The endpoint has no block at n, or says so.                             *)
Fault        == faults < MaxFaults /\ faults' = faults + 1
NotVisible(n) == IF n > top THEN UNCHANGED faults ELSE Fault
Visible(n)    == n <= top /\ UNCHANGED faults

(* hydrate_at_tip opens its envelope and starts walking down from t.  How  *)
(* far it scans depends on the live cells it meets.                        *)
BeginUnannounced(caller, t) ==
  /\ pc' = "discover"
  /\ mode' = caller
  /\ got' = NoBlocks
  /\ \E floor \in 0 .. t : t - floor < ScanLimit /\ at' = floor
  /\ UNCHANGED <<held, replay>>

BeginDiscovery(caller, t) ==
  /\ pc' = "discover"
  /\ mode' = caller
  /\ got' = NoBlocks
  /\ replay' = TRUE
  /\ \E floor \in 0 .. t : t - floor < ScanLimit /\ at' = floor
  /\ UNCHANGED held

(* Does the node still answer the block the poller knows at h?             *)
TrustsAnchor(h)   == TRUE
StillCanonical(h) == chain[h] = anchors[h]

(* find_canonical_change, backward walk from the highest anchor <= n; no   *)
(* anchor left means the window must be rebuilt.                           *)
WalkFrom(n, t) ==
  LET known == {h \in DOMAIN anchors : h <= n} IN
  \/ /\ \E h \in known : (\A k \in known : k <= h) /\ at' = h
     /\ pc' = "walk"
     /\ UNCHANGED <<mode, held, got, catching, replay>>
  \/ /\ known = {}
     /\ BeginDiscovery("rebuild", t)
     /\ catching' = FALSE

(* find_canonical_change: a tip below the cursor already invalidates the   *)
(* suffix, otherwise the cursor's own hash decides.                        *)
FindChange(t) ==
  \/ /\ t >= lastTip
     /\ pc' = IF lastTip \in DOMAIN anchors THEN "probe" ELSE "seed"
     /\ at' = lastTip
     /\ UNCHANGED <<mode, held, got, catching, replay>>
  \/ /\ t < lastTip
     /\ WalkFrom(t, t)

(* Where the range starts, and whether it belongs to a catch-up.           *)
RangeStartAtCursor(last) == last
RangeStart(last)         == last + 1

ForgetsCatchup(catchup, calm) == catchup
KeepsCatchup(catchup, calm)   == catchup \/ calm

(* The cursor's chain is agreed: emit what is above it, if anything.       *)
(* Catch-up is entered on a gap above the threshold and never capped.      *)
StartRange(a, last, reorg, catchup, open) ==
  LET calm == ~ reorg /\ (catchup \/ tip - last > CatchupThreshold) IN
  /\ lastTip' = last
  /\ replaying' = reorg
  /\ UNCHANGED <<held, got>>
  /\ \/ /\ tip <= last
        /\ pc' = "idle"
        /\ anchors' = PrunedAnchors(a, last)
        /\ catching' = catchup
        /\ replay' = open
        /\ UNCHANGED <<mode, at>>
     \/ /\ tip > last
        /\ pc' = "fetch"
        /\ anchors' = a
        /\ at' = RangeStart(last)
        /\ catching' = KeepsCatchup(catchup, calm)
        /\ mode' = IF reorg THEN "reorg" ELSE IF calm THEN "catchup" ELSE "live"
        /\ replay' = (open \/ reorg \/ calm)

(* A poll that returns Err: everything synchronised so far stays.          *)
PollFails == pc' = "idle" /\ UNCHANGED <<mode, tip, at, held, got>>

-----------------------------------------------------------------------------
(* adapter::run, the boot hydration: read the tip, then walk down.         *)
RunHydration ==
  /\ pc = "boot"
  /\ tip' = top
  /\ BeginDiscovery("run", top)
  /\ UNCHANGED <<nodeVars, pollState, consumers, faults>>

(* poll_once_with_policy up to its second RPC.                             *)
PollOnce ==
  /\ pc = "idle"
  /\ tip' = top
  /\ UNCHANGED <<nodeVars, lastTip, anchors, replaying, consumers, faults>>
  /\ \/ /\ retries > 0
        /\ retries' = retries - 1
        /\ BeginDiscovery("retry", top)
        /\ UNCHANGED catching
     \/ /\ retries = 0
        /\ lastTip = NoTip
        /\ pc' = "anchor"
        /\ UNCHANGED <<retries, catching, mode, at, held, got, replay>>
     \/ /\ retries = 0
        /\ lastTip # NoTip
        /\ FindChange(top)
        /\ UNCHANGED retries

(* Live-only boot: the block below the tip becomes the cursor, and        *)
(* find_canonical_change looks at it at once.                              *)
AnchorTip ==
  LET anchor == IF tip = 0 THEN 0 ELSE tip - 1 IN
  /\ pc = "anchor"
  /\ UNCHANGED <<nodeVars, replaying, catching, retries, consumers, replay>>
  /\ \/ /\ Visible(anchor)
        /\ anchors' = Put(anchors, anchor, chain[anchor])
        /\ lastTip' = anchor
        /\ pc' = "probe" /\ at' = anchor
        /\ UNCHANGED <<mode, tip, held, got>>
     \/ /\ NotVisible(anchor)
        /\ lastTip' = anchor
        /\ pc' = IF anchor \in DOMAIN anchors THEN "probe" ELSE "seed"
        /\ at' = anchor
        /\ UNCHANGED <<anchors, mode, tip, held, got>>
     \/ /\ Fault
        /\ PollFails
        /\ UNCHANGED <<lastTip, anchors>>

(* A cursor without a hash adopts the node's block at that height.         *)
SeedCursor ==
  /\ pc = "seed"
  /\ UNCHANGED <<nodeVars, retries, tip, consumers>>
  /\ \/ /\ Visible(at)
        /\ StartRange(Put(anchors, at, chain[at]), lastTip, replaying, catching, replay)
     \/ /\ NotVisible(at)
        /\ StartRange(anchors, lastTip, replaying, catching, replay)
     \/ /\ Fault
        /\ PollFails
        /\ UNCHANGED <<lastTip, anchors, replaying, catching, replay>>

(* Is the block at the cursor still canonical?                             *)
ProbeCursor ==
  /\ pc = "probe"
  /\ UNCHANGED <<nodeVars, retries, tip, consumers>>
  /\ \/ /\ Visible(at)
        /\ StillCanonical(at)
        /\ StartRange(anchors, lastTip, replaying, catching, replay)
     \/ /\ Visible(at)
        /\ ~ StillCanonical(at)
        /\ WalkFrom(at, tip)
        /\ UNCHANGED <<lastTip, anchors, replaying>>
     \/ /\ NotVisible(at)
        /\ PollFails
        /\ UNCHANGED <<lastTip, anchors, replaying, catching, replay>>

(* The highest anchor the node still agrees with bounds the rollback.      *)
WalkBack ==
  /\ pc = "walk"
  /\ UNCHANGED <<nodeVars, retries, tip>>
  /\ \/ /\ Visible(at)
        /\ StillCanonical(at)
        /\ Reorganized(at + 1)
        /\ StartRange(Below(anchors, at + 1), at, TRUE, FALSE, replay \/ tip <= at)
     \/ /\ Visible(at)
        /\ ~ StillCanonical(at)
        /\ WalkFrom(at - 1, tip)
        /\ UNCHANGED <<lastTip, anchors, replaying, consumers>>
     \/ /\ NotVisible(at)
        /\ PollFails
        /\ UNCHANGED <<lastTip, anchors, replaying, catching, replay, consumers>>

-----------------------------------------------------------------------------
(* emit_canonical_range.                                                   *)

(* The block extends the cursor's: publish it, move the cursor, and close  *)
(* the range when it was the last.                                         *)
Emit(b, a) ==
  LET done == at = tip IN
  /\ recent'  = RecentMined(recent, at, b)
  /\ galaxy'  = GalaxyMined(at, b)
  /\ journal' = JournalMined(at, b)
  /\ anchors' = PrunedAnchors(Put(a, at, b), at)
  /\ lastTip' = at
  /\ pc' = IF done THEN "idle" ELSE "fetch"
  /\ at' = IF done THEN at ELSE at + 1
  /\ replaying' = (replaying /\ ~ done)
  /\ catching'  = (catching /\ ~ done)
  /\ replay' = (replay /\ ~ (done /\ mode # "live"))
  /\ parked' = ((parked \/ Replaces(at, b)) /\ ~ (done /\ replay /\ mode # "live"))
  /\ UNCHANGED <<retries, mode, tip, held, got>>

(* A hard error closes this attempt's envelope, short of its total.        *)
RangeFailsForGood(a) ==
  /\ PollFails
  /\ anchors' = a
  /\ replay' = (replay /\ mode = "live")
  /\ replaying' = FALSE
  /\ UNCHANGED <<lastTip, catching, retries, consumers>>

RangeFails(a) ==
  /\ PollFails
  /\ anchors' = a
  /\ replay' = (replay /\ mode = "live")
  /\ UNCHANGED <<lastTip, replaying, catching, retries, consumers>>

ExtendUnlinked(b, a) == Emit(b, a)

Extend(b, a) ==
  IF Parent[b] = a[at - 1] THEN Emit(b, a) ELSE RangeFails(a)

FetchBlock ==
  /\ pc = "fetch"
  /\ UNCHANGED nodeVars
  /\ \/ /\ Visible(at)
        /\ at - 1 \in DOMAIN anchors
        /\ Extend(chain[at], anchors)
     \/ /\ Visible(at)
        /\ at - 1 \notin DOMAIN anchors
        /\ held' = chain[at]
        /\ pc' = "parent"
        /\ UNCHANGED <<pollState, mode, tip, at, got, consumers, replay>>
     \/ /\ NotVisible(at)   \* the range stays open for the next poll
        /\ PollFails
        /\ UNCHANGED <<pollState, consumers, replay>>
     \/ /\ Fault
        /\ RangeFails(anchors)

FetchParent ==
  /\ pc = "parent"
  /\ UNCHANGED nodeVars
  /\ \/ /\ Visible(at - 1)
        /\ Extend(held, Put(anchors, at - 1, chain[at - 1]))
     \/ /\ NotVisible(at - 1)
        /\ RangeFails(anchors)

-----------------------------------------------------------------------------
(* hydrate_at_tip.                                                         *)

(* discover_window keeps several fetches in flight: they are answered in   *)
(* any order and at any time of the walk.                                  *)
DiscoverBlock ==
  /\ pc = "discover"
  /\ \E n \in at .. tip \ DOMAIN got :
       /\ Visible(n)
       /\ got' = Put(got, n, chain[n])
       /\ UNCHANGED <<nodeVars, pollState, pc, mode, tip, at, held, consumers, replay>>

(* The boot caller arms the retries; a poll spends them before it walks.   *)
RetriesSpentLate     == IF mode = "run" THEN BootRetries ELSE retries - 1
RetriesAfterFailure  == IF mode = "run" THEN BootRetries ELSE retries

(* Errors of the walk close the envelope with done = total = 0.  A poll    *)
(* whose last retry failed goes on as a live-only boot, and a failed       *)
(* rebuild leaves the visible state as it is.                              *)
DiscoveryFails ==
  /\ replay' = FALSE
  /\ parked' = FALSE
  /\ retries' = RetriesAfterFailure
  /\ pc' = IF mode = "retry" /\ retries = 0 THEN "anchor" ELSE "idle"
  /\ UNCHANGED <<lastTip, anchors, replaying, catching, mode, tip, at, held, got>>
  /\ UNCHANGED <<recent, galaxy, journal>>

(* Three attempts at one block found nothing.                              *)
DiscoverGivesUp ==
  /\ pc = "discover"
  /\ \E n \in at .. tip \ DOMAIN got : NotVisible(n)
  /\ DiscoveryFails
  /\ UNCHANGED nodeVars

(* replay_discovered: an optional ChainRebuild, then the window's blocks   *)
(* in ascending order, then the terminal marker.  The window's parent is   *)
(* an anchor too.                                                          *)
ReplayDiscovered ==
  LET reset  == mode = "rebuild"
      window == IF at = 0 THEN got ELSE Put(got, at - 1, Parent[got[at]])
      Kept(f) == IF reset THEN got ELSE Over(got, f)
  IN
  /\ galaxy'  = Range(got) \cup (IF reset THEN {} ELSE galaxy)
  /\ recent'  = Newest(Kept(recent), RecentCap, tip)
  /\ journal' = Newest(Kept(journal), JournalCap, tip)
  /\ anchors' = IF mode = "run" THEN Over(window, anchors)
                                ELSE PrunedAnchors(window, tip)
  /\ lastTip' = tip
  /\ replaying' = (mode = "run" /\ replaying)
  /\ catching'  = (mode = "run" /\ catching)
  /\ retries' = IF mode = "retry" THEN 0 ELSE retries
  /\ parked' = FALSE
  /\ replay' = FALSE
  /\ pc' = "idle"
  /\ UNCHANGED <<mode, tip, at, held, got>>

(* The window must be hash-linked and its tip still canonical.             *)
VerifyWindow ==
  /\ pc = "discover"
  /\ DOMAIN got = at .. tip
  /\ UNCHANGED nodeVars
  /\ \/ /\ Visible(tip)
        /\ Linked(got)
        /\ chain[tip] = got[tip]
        /\ ReplayDiscovered
     \/ /\ Visible(tip)
        /\ ~ Linked(got) \/ chain[tip] # got[tip]
        /\ DiscoveryFails
     \/ /\ NotVisible(tip)
        /\ DiscoveryFails

-----------------------------------------------------------------------------
Init ==
  /\ NodeInit
  /\ replaying = FALSE /\ catching = FALSE /\ retries = 0
  /\ mode = "live" /\ tip = 0 /\ at = 0 /\ held = Genesis /\ got = NoBlocks
  /\ parked = FALSE /\ replay = FALSE /\ faults = 0 /\ seen = {}
  /\ \/ /\ "hydrate" \in Boots
        /\ pc = "boot"
        /\ lastTip = NoTip /\ anchors = NoBlocks
        /\ recent = NoBlocks /\ galaxy = {} /\ journal = NoBlocks
     \/ /\ "live" \in Boots   \* backfill_blocks = 0
        /\ pc = "idle"
        /\ lastTip = NoTip /\ anchors = NoBlocks
        /\ recent = NoBlocks /\ galaxy = {} /\ journal = NoBlocks
     \/ /\ "resume" \in Boots   \* resume_from, resume_anchors
        /\ pc = "idle"
        /\ \E s \in Saved :
             /\ lastTip = s.tip
             /\ recent = Newest(s.blocks, RecentCap, s.tip)
             /\ anchors = recent
             /\ galaxy = Range(s.blocks)
             /\ journal = Newest(s.blocks, JournalCap, s.tip)

NodeMoves(step) ==
  /\ step
  /\ seen' = IF pc \in {"idle", "boot"} THEN {} ELSE seen \cup Range(chain')
  /\ UNCHANGED <<pollState, call, consumers, replay, faults>>

Node == NodeMoves(NodeAdvance) \/ NodeMoves(NodeRewind)

RpcAnswer ==
  \/ RunHydration \/ PollOnce \/ AnchorTip \/ SeedCursor \/ ProbeCursor
  \/ WalkBack \/ FetchBlock \/ FetchParent
  \/ DiscoverBlock \/ DiscoverGivesUp \/ VerifyWindow

Poll ==
  /\ RpcAnswer
  /\ seen' = IF pc' = "idle" THEN {}
             ELSE IF pc \in {"idle", "boot"} THEN Range(chain) ELSE seen

Next == Node \/ Poll

Spec == Init /\ [][Next]_vars

(* The poll loop never stops and a canonical chain keeps growing.          *)
FairSpec ==
  /\ Spec
  /\ WF_vars(Poll)
  /\ WF_vars(NodeMoves(NodeAdvance))

-----------------------------------------------------------------------------
(* Properties.                                                             *)

TypeOK ==
  /\ NodeTypeOK
  /\ lastTip \in Nat \cup {NoTip}
  /\ PartialChain(anchors)
  /\ replaying \in BOOLEAN /\ catching \in BOOLEAN /\ retries \in Nat
  /\ pc \in {"boot", "idle", "anchor", "seed", "probe", "walk", "fetch", "parent", "discover"}
  /\ mode \in {"live", "reorg", "catchup", "run", "retry", "rebuild"}
  /\ tip \in Nat /\ at \in Nat /\ held \in Blocks
  /\ PartialChain(got)
  /\ PartialChain(recent)
  /\ galaxy \subseteq Blocks
  /\ PartialChain(journal)
  /\ parked \in BOOLEAN /\ replay \in BOOLEAN /\ faults \in Nat

(* The recent_blocks ring is at every moment a piece of one branch: heights*)
(* without a hole, each block the child of the one below.  The node may    *)
(* switch branches between the tip read, the hash probes and the block     *)
(* fetches of one poll, and a range may stop half way: no interleaving     *)
(* publishes blocks of two branches side by side.                          *)
RecentIsOneBranch == IsSegment(recent)

(* Every view the ring ever shows is a view the chain really had: when a   *)
(* step changes the ring, its new top, and so everything below it, was     *)
(* canonical at some moment since the poll behind that step read the tip.  *)
ViewsWereCanonical ==
  [][recent' # recent /\ recent' # NoBlocks =>
       lastTip' \in DOMAIN recent' /\ recent'[lastTip'] \in seen]_vars

(* What the poller believes it published is what the entity holds: every   *)
(* anchor agrees with the ring, and the ring ends at the poller's cursor,  *)
(* whose hash is known.  Otherwise a later probe would compare the node    *)
(* with the wrong block and miss a reorganisation.                         *)
AnchorsMatchRecent ==
  /\ \A h \in DOMAIN anchors \cap DOMAIN recent : anchors[h] = recent[h]
  /\ \A h \in DOMAIN recent :
       h <= lastTip /\ lastTip \in DOMAIN recent \cap DOMAIN anchors

(* A block is only ever announced above everything published before: the   *)
(* same-height replacement in apply_chain_mutation and handle_block_mined  *)
(* is a second line of defence the poller never leans on.                  *)
EmitsOnlyAbove ==
  pc \in {"fetch", "parent"} =>
    \A h \in DOMAIN recent : h < at

(* A replay envelope a poll leaves open belongs to a flag that makes a     *)
(* later poll resume and close it.                                         *)
OpenEnvelopeIsResumed == pc = "idle" /\ replay => replaying \/ catching

(* Identities parked by a rollback never outlive the reorg replay that is  *)
(* to revive or retire them.                                               *)
LimboHasReplay == parked => replaying

(* No rollback the poller can ask for reaches below the undo journal,      *)
(* however often tips fell and branches changed: the two prune themselves  *)
(* independently.  This needs a ring and a hydration window no wider than  *)
(* the anchors; the server's ring is one block wider.                      *)
RollbackStaysInJournal ==
  \A h \in DOMAIN anchors : h <= lastTip => ~ TooDeep(h + 1)

(* Entity and galaxy follow the same chain: the blocks the ring shows are  *)
(* blocks whose cells the galaxy holds.                                    *)
GalaxyHoldsRecent == Range(recent) \subseteq galaxy

(* The galaxy's cells come from one branch: it never holds the cells of    *)
(* two blocks of the same height, one of them orphaned for good.           *)
GalaxyIsOneBranch ==
  \A b, c \in galaxy : Height[b] = Height[c] => b = c

(* What the two above depend on: no rollback reaches below what the undo   *)
(* journal can undo.  How deep a branch switch is, is the network's choice.*)
RollsBackWithinJournal ==
  [][pc = "walk" /\ lastTip' < lastTip => lastTip' + 1 \in DOMAIN journal]_vars

(* The ring a reader sees behaves like CanonicalFollower: no step of the   *)
(* protocol swaps it for another window outside an announced replay, skips *)
(* a block, or announces one that is not the child of its top.             *)
Follower == INSTANCE CanonicalFollower
              WITH view <- recent, announced <- replay, Cap <- RecentCap
ImplementsFollower == Follower!Spec

(* When the node settles on a branch at least as high as any tip it ever   *)
(* reported and RPC errors stop, the view converges to its tip, whatever   *)
(* the boot, the reorgs and the errors were.                               *)
Synced == lastTip = top /\ top \in DOMAIN recent /\ recent[top] = chain[top]
EventuallySynced == <>[]Synced
=============================================================================
