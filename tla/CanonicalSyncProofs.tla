------------------------ MODULE CanonicalSyncProofs ------------------------
(***************************************************************************)
(* Proofs about CanonicalSync, for every block tree, window, ring length   *)
(* and bound.                                                              *)
(***************************************************************************)
EXTENDS CanonicalSync, TLAPS

-----------------------------------------------------------------------------
(* What the operators on partial chains return and preserve.               *)

(* The operators on partial chains return partial chains.                  *)
LEMMA BelowPartial ==
  ASSUME NEW f, PartialChain(f), NEW n \in Int
  PROVE  PartialChain(Below(f, n))
  BY DEF PartialChain, Below, Restrict

(* Keeping the newest entries keeps a partial chain.                         *)
LEMMA NewestPartial ==
  ASSUME NEW f, PartialChain(f), NEW k \in Int, NEW n \in Int
  PROVE  PartialChain(Newest(f, k, n))
  BY DEF PartialChain, Newest, Restrict

(* Writing one block keeps a partial chain.                                  *)
LEMMA PutPartial ==
  ASSUME NEW f, PartialChain(f), NEW n \in Nat, NEW b \in Blocks
  PROVE  PartialChain(Put(f, n, b))
  BY DEF PartialChain, Put

(* Overlaying two partial chains keeps a partial chain.                      *)
LEMMA OverPartial ==
  ASSUME NEW f, PartialChain(f), NEW g, PartialChain(g)
  PROVE  PartialChain(Over(f, g))
  BY DEF PartialChain, Over

(* The empty chain is a partial chain and a segment.                         *)
LEMMA NoBlocksFacts ==
  /\ PartialChain(NoBlocks)
  /\ DOMAIN NoBlocks = {}
  /\ IsSegment(NoBlocks)
  BY DEF PartialChain, NoBlocks, IsSegment, Linked, Unbroken

(* Cutting a segment leaves a segment.                                     *)
LEMMA BelowIsSegment ==
  ASSUME NEW f, PartialChain(f), IsSegment(f), NEW n \in Int
  PROVE  IsSegment(Below(f, n))
<1> DEFINE g == Below(f, n)
<1>1. /\ DOMAIN g = {h \in DOMAIN f : h < n}
      /\ \A h \in DOMAIN g : g[h] = f[h]
  BY DEF Below, Restrict
<1>2. DOMAIN f \subseteq Nat
  BY DEF PartialChain
<1> HIDE DEF g
<1>3. Linked(g)
  BY <1>1, <1>2 DEF IsSegment, Linked
<1>4. Unbroken(g)
  BY <1>1, <1>2 DEF IsSegment, Unbroken
<1> QED BY <1>3, <1>4 DEF IsSegment, g

(* Pruning to the newest entries of a segment leaves a segment:              *)
(* prune_canonical_history and the ring cap cannot break a chain.            *)
LEMMA NewestIsSegment ==
  ASSUME NEW f, PartialChain(f), IsSegment(f), NEW k \in Int, NEW n \in Int
  PROVE  IsSegment(Newest(f, k, n))
<1> DEFINE g == Newest(f, k, n)
<1>1. /\ DOMAIN g = {h \in DOMAIN f : h + k > n}
      /\ \A h \in DOMAIN g : g[h] = f[h]
  BY DEF Newest, Restrict
<1>2. DOMAIN f \subseteq Nat
  BY DEF PartialChain
<1> HIDE DEF g
<1>3. Linked(g)
  BY <1>1, <1>2 DEF IsSegment, Linked
<1>4. Unbroken(g)
  BY <1>1, <1>2 DEF IsSegment, Unbroken
<1> QED BY <1>3, <1>4 DEF IsSegment, g

(* A child of the top extends a segment; any block starts one.             *)
LEMMA PutIsSegment ==
  ASSUME NEW f, PartialChain(f), IsSegment(f),
         NEW n \in Nat, NEW b \in Blocks, Height[b] = n,
         \A h \in DOMAIN f : h < n /\ n - 1 \in DOMAIN f /\ f[n - 1] = Parent[b]
  PROVE  IsSegment(Put(f, n, b))
<1> DEFINE g == Put(f, n, b)
<1>1. /\ DOMAIN g = DOMAIN f \cup {n}
      /\ g[n] = b
      /\ \A h \in DOMAIN f : h # n => g[h] = f[h]
  BY DEF Put
<1>2. DOMAIN f \subseteq Nat
  BY DEF PartialChain
<1> HIDE DEF g
<1>3. \A h \in DOMAIN g : Height[g[h]] = h
  BY <1>1, <1>2 DEF IsSegment, Linked
<1>4. \A h \in DOMAIN g : h - 1 \in DOMAIN g => Parent[g[h]] = g[h - 1]
  <2> SUFFICES ASSUME NEW h \in DOMAIN g, h - 1 \in DOMAIN g
               PROVE  Parent[g[h]] = g[h - 1]
    OBVIOUS
  <2>1. CASE h = n
    BY <2>1, <1>1, <1>2
  <2>2. CASE h # n
    BY <2>2, <1>1, <1>2 DEF IsSegment, Linked
  <2> QED BY <2>1, <2>2
<1>5. Unbroken(g)
  <2> SUFFICES ASSUME NEW lo \in DOMAIN g, NEW hi \in DOMAIN g, NEW h \in lo .. hi
               PROVE  h \in DOMAIN g
    BY DEF Unbroken
  <2>1. CASE h = n
    BY <2>1, <1>1
  <2>2. CASE h # n
    <3>1. /\ lo \in DOMAIN f /\ h <= n - 1
          /\ n - 1 \in DOMAIN f
      BY <2>2, <1>1, <1>2
    <3> QED BY <3>1, <2>2, <1>1, <1>2 DEF IsSegment, Unbroken
  <2> QED BY <2>1, <2>2
<1> QED BY <1>3, <1>4, <1>5 DEF IsSegment, Linked, g

-----------------------------------------------------------------------------
(* The types.                                                              *)

(* A hydration walk has a floor at or below its tip; without it the block  *)
(* below the window would not be one.                                      *)
WindowFloor == pc = "discover" => at <= tip

TypeInv == TypeOK /\ WindowFloor

USE TreeAssumption, RewindAssumption, SyncAssumption

(* The anchor and journal capacities are positive.                           *)
LEMMA CapsType == AnchorCap \in Nat \ {0} /\ JournalCap \in Nat \ {0}
  BY DEF AnchorCap, JournalCap

-----------------------------------------------------------------------------
(* The states a process can boot in are typed (fresh, live-only, resumed).   *)
LEMMA InitType == Init => TypeInv
<1> SUFFICES ASSUME Init PROVE TypeInv
  OBVIOUS
<1>1. NodeTypeOK
  BY DEF Init, NodeInit, NodeTypeOK
<1>2. PartialChain(anchors) /\ PartialChain(recent) /\ PartialChain(journal)
  <2>1. ASSUME NEW s \in Saved, lastTip = s.tip,
               recent = Newest(s.blocks, RecentCap, s.tip),
               journal = Newest(s.blocks, JournalCap, s.tip), anchors = recent
        PROVE  PartialChain(recent) /\ PartialChain(journal)
    BY <2>1, NewestPartial, CapsType DEF SyncAssumption
  <2> QED BY <2>1, NoBlocksFacts DEF Init
<1>3. galaxy \subseteq Blocks
  BY DEF Init, SyncAssumption, PartialChain, Range
<1>4. lastTip \in Nat \cup {NoTip}
  BY DEF Init, SyncAssumption
<1> QED BY <1>1, <1>2, <1>3, <1>4, NoBlocksFacts, TreeAssumption
        DEF Init, TypeInv, TypeOK, WindowFloor, TreeAssumption

-----------------------------------------------------------------------------
(* What a node answers is a block.                                         *)
LEMMA AnswerIsBlock ==
  ASSUME TypeOK, NEW n \in Nat, n <= top
  PROVE  chain[n] \in Blocks
  BY DEF TypeOK, NodeTypeOK

(* A new block or a reorganisation of the node leaves the adapter typed.     *)
LEMMA NodeType ==
  ASSUME TypeInv, Node
  PROVE  TypeInv'
<1>1. CASE NodeMoves(NodeAdvance)
  <2>1. PICK b \in Blocks \ {Genesis} :
          top' = top + 1 /\ chain' = Put(chain, top + 1, b) /\ rewinds' = rewinds
    BY <1>1 DEF NodeMoves, NodeAdvance
  <2>2. NodeTypeOK'
    BY <2>1 DEF TypeInv, TypeOK, NodeTypeOK, Put
  <2> QED BY <1>1, <2>2 DEF NodeMoves, TypeInv, TypeOK, WindowFloor, pollState, call, consumers
<1>2. CASE NodeMoves(NodeRewind)
  <2>1. PICK k \in 0 .. top - 1 :
          rewinds' = rewinds + 1 /\ top' = k /\ chain' = Below(chain, k + 1)
    BY <1>2 DEF NodeMoves, NodeRewind
  <2>2. NodeTypeOK'
    BY <2>1 DEF TypeInv, TypeOK, NodeTypeOK, Below, Restrict
  <2> QED BY <1>2, <2>2 DEF NodeMoves, TypeInv, TypeOK, WindowFloor, pollState, call, consumers
<1> QED BY <1>1, <1>2 DEF Node

(* Pieces of the adapter's steps, typed once.                              *)
LEMMA DiscoveryType ==
  ASSUME TypeOK, NEW caller \in {"run", "retry", "rebuild"}, NEW t \in Nat,
         BeginDiscovery(caller, t)
  PROVE  /\ pc' = "discover" /\ mode' = caller /\ replay' = TRUE
         /\ PartialChain(got') /\ got' = NoBlocks
         /\ at' \in Nat /\ at' <= t /\ held' = held
  BY NoBlocksFacts DEF BeginDiscovery

(* Starting a range (sync_range_at) leaves the call in progress typed.       *)
LEMMA RangeType ==
  ASSUME TypeOK, NEW a, PartialChain(a), NEW last \in Nat \cup {NoTip},
         NEW reorg \in BOOLEAN, NEW catchup \in BOOLEAN, NEW open \in BOOLEAN,
         StartRange(a, last, reorg, catchup, open)
  PROVE  /\ lastTip' \in Nat \cup {NoTip} /\ PartialChain(anchors')
         /\ replaying' \in BOOLEAN /\ catching' \in BOOLEAN /\ replay' \in BOOLEAN
         /\ pc' \in {"idle", "fetch"} /\ at' \in Nat
         /\ mode' \in {mode, "live", "reorg", "catchup"}
         /\ held' = held /\ got' = got
<1>1. PartialChain(anchors')
  <2>1. PartialChain(PrunedAnchors(a, last))
    BY NewestPartial, CapsType DEF PrunedAnchors, NoTip
  <2> QED BY <2>1 DEF StartRange
<1>2. replaying' \in BOOLEAN /\ catching' \in BOOLEAN /\ replay' \in BOOLEAN
  BY Zenon DEF StartRange, KeepsCatchup
<1>3. lastTip' \in Nat \cup {NoTip} /\ held' = held /\ got' = got
  BY DEF StartRange
<1>4. pc' \in {"idle", "fetch"} /\ mode' \in {mode, "live", "reorg", "catchup"}
  BY DEF StartRange
<1>5. at' \in Nat
  BY DEF StartRange, RangeStart, NoTip, TypeOK
<1> QED BY <1>1, <1>2, <1>3, <1>4, <1>5

(* Reading the tip of a poll keeps the types.                                *)
LEMMA PollOnceType ==
  ASSUME TypeInv, PollOnce
  PROVE  TypeInv'
<1>1. /\ tip' = top /\ tip' \in Nat
      /\ UNCHANGED <<nodeVars, lastTip, anchors, replaying, consumers, faults>>
  BY DEF PollOnce, TypeInv, TypeOK, NodeTypeOK
<1>2. CASE retries > 0 /\ retries' = retries - 1 /\ BeginDiscovery("retry", top)
           /\ UNCHANGED catching
  <2>1. retries' \in Nat
    BY <1>2 DEF TypeInv, TypeOK
  <2>2. /\ pc' = "discover" /\ mode' = "retry" /\ replay' = TRUE
        /\ PartialChain(got') /\ at' \in Nat /\ at' <= top /\ held' = held
    BY <1>2, DiscoveryType DEF TypeInv, TypeOK, NodeTypeOK
  <2>3. catching' = catching
    BY <1>2
  <2> QED BY <1>1, <2>1, <2>2, <2>3 DEF TypeInv, TypeOK, WindowFloor, NodeTypeOK, nodeVars, consumers
<1>3. CASE pc' = "anchor" /\ UNCHANGED <<retries, catching, mode, at, held, got, replay>>
  BY <1>1, <1>3 DEF TypeInv, TypeOK, WindowFloor, NodeTypeOK, nodeVars, consumers
<1>4. CASE FindChange(top) /\ UNCHANGED retries /\ lastTip # NoTip
  <2>1. CASE pc' \in {"probe", "seed"} /\ at' = lastTip
             /\ UNCHANGED <<mode, held, got, catching, replay>>
    BY <1>1, <1>4, <2>1 DEF TypeInv, TypeOK, WindowFloor, NodeTypeOK, nodeVars, consumers
  <2>2. CASE WalkFrom(top, top)
    <3>1. CASE pc' = "walk" /\ at' \in DOMAIN anchors
               /\ UNCHANGED <<mode, held, got, catching, replay>>
      BY <1>1, <1>4, <3>1 DEF TypeInv, TypeOK, WindowFloor, NodeTypeOK, nodeVars, consumers, PartialChain
    <3>2. CASE BeginDiscovery("rebuild", top) /\ catching' = FALSE
      BY <1>1, <1>4, <3>2, DiscoveryType DEF TypeInv, TypeOK, WindowFloor, NodeTypeOK, nodeVars, consumers
    <3>3. \/ /\ pc' = "walk" /\ at' \in DOMAIN anchors
             /\ UNCHANGED <<mode, held, got, catching, replay>>
          \/ BeginDiscovery("rebuild", top) /\ catching' = FALSE
      BY <2>2 DEF WalkFrom
    <3> QED BY <3>1, <3>2, <3>3
  <2> QED BY <1>4, <2>1, <2>2 DEF FindChange
<1> QED BY <1>1, <1>2, <1>3, <1>4 DEF PollOnce

(* Starting the boot hydration or one retry of it keeps the types.           *)
LEMMA RunHydrationType ==
  ASSUME TypeInv, RunHydration
  PROVE  TypeInv'
<1>1. /\ pc' = "discover" /\ mode' = "run" /\ replay' = TRUE
      /\ PartialChain(got') /\ at' \in Nat /\ at' <= top /\ held' = held
  BY DiscoveryType DEF RunHydration, TypeInv, TypeOK, NodeTypeOK
<1> QED BY <1>1 DEF RunHydration, TypeInv, TypeOK, WindowFloor, NodeTypeOK,
                    nodeVars, pollState, consumers

(* A counted RPC fault keeps the bound on faults.                            *)
LEMMA FaultType ==
  ASSUME TypeOK, NEW n \in Int,
         Fault \/ NotVisible(n) \/ Visible(n)
  PROVE  faults' \in Nat
  BY DEF Fault, NotVisible, Visible, TypeOK

(* Anchoring a live-only boot at the tip keeps the types.                    *)
LEMMA AnchorTipType ==
  ASSUME TypeInv, AnchorTip
  PROVE  TypeInv'
<1> DEFINE anchor == IF tip = 0 THEN 0 ELSE tip - 1
<1>1. anchor \in Nat
  BY DEF TypeInv, TypeOK
<1>2. faults' \in Nat
  BY <1>1, FaultType DEF AnchorTip, TypeInv
<1>3. CASE Visible(anchor) /\ anchors' = Put(anchors, anchor, chain[anchor])
           /\ lastTip' = anchor /\ pc' = "probe" /\ at' = anchor
           /\ UNCHANGED <<mode, tip, held, got>>
  <2>1. PartialChain(anchors')
    BY <1>1, <1>3, AnswerIsBlock, PutPartial DEF Visible, TypeInv, TypeOK
  <2> QED BY <1>1, <1>2, <1>3, <2>1
          DEF AnchorTip, TypeInv, TypeOK, WindowFloor, NodeTypeOK, nodeVars, consumers
<1>4. CASE lastTip' = anchor /\ pc' \in {"probe", "seed"} /\ at' = anchor
           /\ UNCHANGED <<anchors, mode, tip, held, got>>
  BY <1>1, <1>2, <1>4
     DEF AnchorTip, TypeInv, TypeOK, WindowFloor, NodeTypeOK, nodeVars, consumers
<1>5. CASE PollFails /\ UNCHANGED <<lastTip, anchors>>
  BY <1>2, <1>5
     DEF AnchorTip, PollFails, TypeInv, TypeOK, WindowFloor, NodeTypeOK, nodeVars, consumers
<1> QED BY <1>3, <1>4, <1>5 DEF AnchorTip

(* Seeding the anchor of a cursor that has none keeps the types.             *)
LEMMA SeedCursorType ==
  ASSUME TypeInv, SeedCursor
  PROVE  TypeInv'
<1>1. faults' \in Nat
  <2>1. Fault \/ NotVisible(at) \/ Visible(at)
    BY DEF SeedCursor
  <2> QED BY <2>1 DEF Fault, NotVisible, Visible, TypeInv, TypeOK
<1>2. ASSUME NEW a, PartialChain(a), StartRange(a, lastTip, replaying, catching, replay)
      PROVE  TypeInv'
  <2>1. /\ lastTip' \in Nat \cup {NoTip} /\ PartialChain(anchors')
        /\ replaying' \in BOOLEAN /\ catching' \in BOOLEAN /\ replay' \in BOOLEAN
        /\ pc' \in {"idle", "fetch"} /\ at' \in Nat
        /\ mode' \in {mode, "live", "reorg", "catchup"}
        /\ held' = held /\ got' = got
    BY <1>2, RangeType DEF TypeInv, TypeOK
  <2> QED BY <1>1, <2>1 DEF SeedCursor, TypeInv, TypeOK, WindowFloor, NodeTypeOK, nodeVars, consumers
<1>3. CASE Visible(at) /\ StartRange(Put(anchors, at, chain[at]), lastTip, replaying, catching, replay)
  <2>1. PartialChain(Put(anchors, at, chain[at]))
    BY <1>3, AnswerIsBlock, PutPartial DEF Visible, TypeInv, TypeOK
  <2> QED BY <1>2, <1>3, <2>1
<1>4. CASE StartRange(anchors, lastTip, replaying, catching, replay)
  BY <1>2, <1>4 DEF TypeInv, TypeOK
<1>5. CASE PollFails /\ UNCHANGED <<lastTip, anchors, replaying, catching, replay>>
  BY <1>1, <1>5
     DEF SeedCursor, PollFails, TypeInv, TypeOK, WindowFloor, NodeTypeOK, nodeVars, consumers
<1> QED BY <1>3, <1>4, <1>5 DEF SeedCursor

(* The probe of the cursor's own hash keeps the types.                       *)
LEMMA ProbeCursorType ==
  ASSUME TypeInv, ProbeCursor
  PROVE  TypeInv'
<1>1. faults' \in Nat
  <2>1. Fault \/ NotVisible(at) \/ Visible(at)
    BY DEF ProbeCursor
  <2> QED BY <2>1 DEF Fault, NotVisible, Visible, TypeInv, TypeOK
<1>2. CASE StartRange(anchors, lastTip, replaying, catching, replay)
  <2>1. /\ lastTip' \in Nat \cup {NoTip} /\ PartialChain(anchors')
        /\ replaying' \in BOOLEAN /\ catching' \in BOOLEAN /\ replay' \in BOOLEAN
        /\ pc' \in {"idle", "fetch"} /\ at' \in Nat
        /\ mode' \in {mode, "live", "reorg", "catchup"}
        /\ held' = held /\ got' = got
    BY <1>2, RangeType DEF TypeInv, TypeOK
  <2> QED BY <1>1, <2>1 DEF ProbeCursor, TypeInv, TypeOK, WindowFloor, NodeTypeOK, nodeVars, consumers
<1>3. CASE WalkFrom(at, tip) /\ UNCHANGED <<lastTip, anchors, replaying>>
  <2>1. CASE pc' = "walk" /\ at' \in DOMAIN anchors
             /\ UNCHANGED <<mode, held, got, catching, replay>>
    BY <1>1, <1>3, <2>1 DEF ProbeCursor, TypeInv, TypeOK, WindowFloor, NodeTypeOK, nodeVars, consumers, PartialChain
  <2>2. CASE BeginDiscovery("rebuild", tip) /\ catching' = FALSE
    BY <1>1, <1>3, <2>2, DiscoveryType DEF ProbeCursor, TypeInv, TypeOK, WindowFloor, NodeTypeOK, nodeVars, consumers
  <2>3. \/ /\ pc' = "walk" /\ at' \in DOMAIN anchors
           /\ UNCHANGED <<mode, held, got, catching, replay>>
        \/ BeginDiscovery("rebuild", tip) /\ catching' = FALSE
    BY <1>3 DEF WalkFrom
  <2> QED BY <2>1, <2>2, <2>3
<1>4. CASE PollFails /\ UNCHANGED <<lastTip, anchors, replaying, catching, replay>>
  BY <1>1, <1>4
     DEF ProbeCursor, PollFails, TypeInv, TypeOK, WindowFloor, NodeTypeOK, nodeVars, consumers
<1> QED BY <1>2, <1>3, <1>4 DEF ProbeCursor

(* A rollback leaves the consumers typed.                                  *)
LEMMA ReorganizedType ==
  ASSUME TypeOK, NEW from \in Nat, Reorganized(from)
  PROVE  /\ PartialChain(recent') /\ galaxy' \subseteq Blocks
         /\ PartialChain(journal') /\ parked' \in BOOLEAN
<1>1. PartialChain(recent')
  BY BelowPartial DEF Reorganized, TypeOK
<1>2. PartialChain(journal')
  BY BelowPartial, NoBlocksFacts DEF Reorganized, RolledJournal, TypeOK
<1>3. galaxy' \subseteq Blocks
  BY DEF Reorganized, RolledBack, TypeOK
<1>4. parked' \in BOOLEAN
  BY Zenon DEF Reorganized
<1> QED BY <1>1, <1>2, <1>3, <1>4

(* One step of the backward walk of find_canonical_change keeps the types.   *)
LEMMA WalkBackType ==
  ASSUME TypeInv, WalkBack
  PROVE  TypeInv'
<1>1. faults' \in Nat
  <2>1. Fault \/ NotVisible(at) \/ Visible(at)
    BY DEF WalkBack
  <2> QED BY <2>1 DEF Fault, NotVisible, Visible, TypeInv, TypeOK
<1>2. CASE Reorganized(at + 1)
           /\ StartRange(Below(anchors, at + 1), at, TRUE, FALSE, replay \/ tip <= at)
  <2>1. PartialChain(Below(anchors, at + 1))
    BY BelowPartial DEF TypeInv, TypeOK
  <2>2. /\ PartialChain(recent') /\ galaxy' \subseteq Blocks
        /\ PartialChain(journal') /\ parked' \in BOOLEAN
    BY <1>2, ReorganizedType DEF TypeInv, TypeOK
  <2>3. /\ lastTip' \in Nat \cup {NoTip} /\ PartialChain(anchors')
        /\ replaying' \in BOOLEAN /\ catching' \in BOOLEAN /\ replay' \in BOOLEAN
        /\ pc' \in {"idle", "fetch"} /\ at' \in Nat
        /\ mode' \in {mode, "live", "reorg", "catchup"}
        /\ held' = held /\ got' = got
    BY <1>2, <2>1, RangeType DEF TypeInv, TypeOK
  <2> QED BY <1>1, <2>2, <2>3 DEF WalkBack, TypeInv, TypeOK, WindowFloor, NodeTypeOK, nodeVars
<1>3. CASE WalkFrom(at - 1, tip) /\ UNCHANGED <<lastTip, anchors, replaying, consumers>>
  <2>1. CASE pc' = "walk" /\ at' \in DOMAIN anchors
             /\ UNCHANGED <<mode, held, got, catching, replay>>
    BY <1>1, <1>3, <2>1 DEF WalkBack, TypeInv, TypeOK, WindowFloor, NodeTypeOK, nodeVars, consumers, PartialChain
  <2>2. CASE BeginDiscovery("rebuild", tip) /\ catching' = FALSE
    BY <1>1, <1>3, <2>2, DiscoveryType DEF WalkBack, TypeInv, TypeOK, WindowFloor, NodeTypeOK, nodeVars, consumers
  <2>3. \/ /\ pc' = "walk" /\ at' \in DOMAIN anchors
           /\ UNCHANGED <<mode, held, got, catching, replay>>
        \/ BeginDiscovery("rebuild", tip) /\ catching' = FALSE
    BY <1>3 DEF WalkFrom
  <2> QED BY <2>1, <2>2, <2>3
<1>4. CASE PollFails /\ UNCHANGED <<lastTip, anchors, replaying, catching, replay, consumers>>
  BY <1>1, <1>4
     DEF WalkBack, PollFails, TypeInv, TypeOK, WindowFloor, NodeTypeOK, nodeVars, consumers
<1> QED BY <1>2, <1>3, <1>4 DEF WalkBack

(* Emitting one block to the consumers keeps the types.                      *)
LEMMA EmitType ==
  ASSUME TypeInv, pc \in {"fetch", "parent"}, NEW b \in Blocks,
         NEW a, PartialChain(a), Emit(b, a), faults' \in Nat, UNCHANGED nodeVars
  PROVE  TypeInv'
<1>1. at \in Nat /\ AnchorCap \in Int /\ JournalCap \in Int /\ RecentCap \in Int
  BY CapsType DEF TypeInv, TypeOK
<1>2. PartialChain(anchors')
  <2>1. PartialChain(Put(a, at, b))
    BY <1>1, PutPartial
  <2>2. PartialChain(Newest(Put(a, at, b), AnchorCap, at))
    BY <1>1, <2>1, NewestPartial
  <2> QED BY <2>2 DEF Emit, PrunedAnchors
<1>3. PartialChain(recent')
  <2>1. PartialChain(IF at \in DOMAIN recent THEN Below(recent, at) ELSE recent)
    BY <1>1, BelowPartial DEF TypeInv, TypeOK
  <2>2. PartialChain(Put(IF at \in DOMAIN recent THEN Below(recent, at) ELSE recent, at, b))
    BY <1>1, <2>1, PutPartial
  <2>3. PartialChain(Newest(Put(IF at \in DOMAIN recent THEN Below(recent, at) ELSE recent, at, b), RecentCap, at))
    BY <1>1, <2>2, NewestPartial
  <2> QED BY <2>3 DEF Emit, RecentMined, TypeInv, TypeOK
<1>4. PartialChain(journal')
  <2>1. PartialChain(RolledJournal(at))
    BY <1>1, BelowPartial, NoBlocksFacts DEF RolledJournal, TypeInv, TypeOK
  <2>2. PartialChain(IF Replaces(at, b) THEN RolledJournal(at) ELSE journal)
    BY <2>1 DEF TypeInv, TypeOK
  <2>3. PartialChain(Put(IF Replaces(at, b) THEN RolledJournal(at) ELSE journal, at, b))
    BY <1>1, <2>2, PutPartial
  <2> QED BY <1>1, <2>3, NewestPartial DEF Emit, JournalMined
<1>5. galaxy' \subseteq Blocks
  BY DEF Emit, GalaxyMined, RolledBack, TypeInv, TypeOK
<1>6. /\ replaying' \in BOOLEAN /\ catching' \in BOOLEAN
      /\ replay' \in BOOLEAN /\ parked' \in BOOLEAN
  BY Zenon DEF Emit
<1>7. lastTip' \in Nat /\ pc' \in {"idle", "fetch"} /\ at' \in Nat
  BY <1>1 DEF Emit
<1> QED BY <1>2, <1>3, <1>4, <1>5, <1>6, <1>7
        DEF Emit, TypeInv, TypeOK, WindowFloor, NodeTypeOK, nodeVars

(* A range that stops half way keeps the types.                              *)
LEMMA RangeFailsType ==
  ASSUME TypeInv, NEW a, PartialChain(a), RangeFails(a), faults' \in Nat,
         UNCHANGED nodeVars
  PROVE  TypeInv'
<1>1. replay' \in BOOLEAN
  BY Zenon DEF RangeFails
<1> QED BY <1>1 DEF RangeFails, PollFails, TypeInv, TypeOK, WindowFloor, NodeTypeOK,
                    nodeVars, consumers

(* The fetch of the next block of a range keeps the types.                   *)
LEMMA FetchBlockType ==
  ASSUME TypeInv, FetchBlock
  PROVE  TypeInv'
<1>1. faults' \in Nat
  <2>1. Fault \/ NotVisible(at) \/ Visible(at)
    BY DEF FetchBlock
  <2> QED BY <2>1 DEF Fault, NotVisible, Visible, TypeInv, TypeOK
<1>2. pc = "fetch" /\ PartialChain(anchors) /\ UNCHANGED nodeVars
  BY DEF FetchBlock, TypeInv, TypeOK
<1>3. CASE Visible(at) /\ Extend(chain[at], anchors)
  <2>1. chain[at] \in Blocks
    BY <1>3, AnswerIsBlock DEF Visible, TypeInv, TypeOK
  <2>2. CASE Emit(chain[at], anchors)
    BY <1>1, <1>2, <2>1, <2>2, EmitType
  <2>3. CASE RangeFails(anchors)
    BY <1>1, <1>2, <2>3, RangeFailsType
  <2> QED BY <1>3, <2>2, <2>3 DEF Extend
<1>4. CASE Visible(at) /\ held' = chain[at] /\ pc' = "parent"
           /\ UNCHANGED <<pollState, mode, tip, at, got, consumers, replay>>
  <2>1. chain[at] \in Blocks
    BY <1>4, AnswerIsBlock DEF Visible, TypeInv, TypeOK
  <2> QED BY <1>1, <1>2, <1>4, <2>1
          DEF TypeInv, TypeOK, WindowFloor, NodeTypeOK, nodeVars, pollState, consumers
<1>5. CASE PollFails /\ UNCHANGED <<pollState, consumers, replay>>
  BY <1>1, <1>2, <1>5
     DEF PollFails, TypeInv, TypeOK, WindowFloor, NodeTypeOK, nodeVars, pollState, consumers
<1>6. CASE RangeFails(anchors)
  BY <1>1, <1>2, <1>6, RangeFailsType
<1> QED BY <1>3, <1>4, <1>5, <1>6 DEF FetchBlock

(* The fetch of a block's parent hash keeps the types.                       *)
LEMMA FetchParentType ==
  ASSUME TypeInv, FetchParent, at - 1 \in Nat
  PROVE  TypeInv'
<1>1. faults' \in Nat
  <2>1. NotVisible(at - 1) \/ Visible(at - 1)
    BY DEF FetchParent
  <2> QED BY <2>1 DEF Fault, NotVisible, Visible, TypeInv, TypeOK
<1>2. pc = "parent" /\ PartialChain(anchors) /\ held \in Blocks /\ UNCHANGED nodeVars
  BY DEF FetchParent, TypeInv, TypeOK
<1>3. CASE Visible(at - 1) /\ Extend(held, Put(anchors, at - 1, chain[at - 1]))
  <2>1. chain[at - 1] \in Blocks
    BY <1>3, AnswerIsBlock DEF Visible, TypeInv
  <2>2. PartialChain(Put(anchors, at - 1, chain[at - 1]))
    BY <1>2, <2>1, PutPartial
  <2>3. CASE Emit(held, Put(anchors, at - 1, chain[at - 1]))
    BY <1>1, <1>2, <2>2, <2>3, EmitType
  <2>4. CASE RangeFails(Put(anchors, at - 1, chain[at - 1]))
    BY <1>1, <1>2, <2>2, <2>4, RangeFailsType
  <2> QED BY <1>3, <2>3, <2>4 DEF Extend
<1>4. CASE RangeFails(anchors)
  BY <1>1, <1>2, <1>4, RangeFailsType
<1> QED BY <1>3, <1>4 DEF FetchParent

(* One block of the downward discovery keeps the types.                      *)
LEMMA DiscoverBlockType ==
  ASSUME TypeInv, DiscoverBlock
  PROVE  TypeInv'
<1>1. PICK n \in at .. tip \ DOMAIN got : Visible(n) /\ got' = Put(got, n, chain[n])
           /\ UNCHANGED <<nodeVars, pollState, pc, mode, tip, at, held, consumers, replay>>
  BY DEF DiscoverBlock
<1>2. n \in Nat /\ chain[n] \in Blocks
  BY <1>1, AnswerIsBlock DEF Visible, TypeInv, TypeOK
<1>3. PartialChain(got')
  BY <1>1, <1>2, PutPartial DEF TypeInv, TypeOK
<1> QED BY <1>1, <1>3 DEF Visible, TypeInv, TypeOK, WindowFloor, NodeTypeOK,
                          nodeVars, pollState, consumers

(* A failed discovery, which closes its envelope, keeps the types.           *)
LEMMA DiscoveryFailsType ==
  ASSUME TypeInv, DiscoveryFails, faults' \in Nat, UNCHANGED nodeVars
  PROVE  TypeInv'
<1>1. retries' \in Nat
  BY DEF DiscoveryFails, RetriesAfterFailure, TypeInv, TypeOK
<1> QED BY <1>1 DEF DiscoveryFails, TypeInv, TypeOK, WindowFloor, NodeTypeOK, nodeVars

(* A discovery that meets an RPC error keeps the types.                      *)
LEMMA DiscoverGivesUpType ==
  ASSUME TypeInv, DiscoverGivesUp
  PROVE  TypeInv'
<1>1. PICK n \in at .. tip : NotVisible(n)
  BY DEF DiscoverGivesUp
<1>2. faults' \in Nat
  BY <1>1 DEF NotVisible, Fault, TypeInv, TypeOK
<1> QED BY <1>2, DiscoveryFailsType DEF DiscoverGivesUp

(* The window with its parent anchor.                                      *)
LEMMA WindowType ==
  ASSUME TypeInv, pc = "discover", DOMAIN got = at .. tip
  PROVE  /\ at \in Nat /\ tip \in Nat /\ at <= tip
         /\ PartialChain(IF at = 0 THEN got ELSE Put(got, at - 1, Parent[got[at]]))
<1>1. at \in Nat /\ tip \in Nat /\ at <= tip /\ PartialChain(got)
  BY DEF TypeInv, TypeOK, WindowFloor
<1>2. CASE at # 0
  <2>1. at - 1 \in Nat /\ Parent[got[at]] \in Blocks
    BY <1>1, <1>2 DEF PartialChain
  <2>2. PartialChain(Put(got, at - 1, Parent[got[at]]))
    BY <1>1, <2>1, PutPartial
  <2> QED BY <1>1, <1>2, <2>2
<1> QED BY <1>1, <1>2

(* Installing a verified window (hydrate_at_tip) keeps the types.            *)
LEMMA VerifyWindowType ==
  ASSUME TypeInv, VerifyWindow
  PROVE  TypeInv'
<1>1. faults' \in Nat
  <2>1. NotVisible(tip) \/ Visible(tip)
    BY DEF VerifyWindow
  <2> QED BY <2>1 DEF Fault, NotVisible, Visible, TypeInv, TypeOK
<1>2. pc = "discover" /\ DOMAIN got = at .. tip /\ UNCHANGED nodeVars
  BY DEF VerifyWindow
<1>3. CASE DiscoveryFails
  BY <1>1, <1>2, <1>3, DiscoveryFailsType
<1>4. CASE ReplayDiscovered
  <2> DEFINE window == IF at = 0 THEN got ELSE Put(got, at - 1, Parent[got[at]])
             ring   == IF mode = "rebuild" THEN got ELSE Over(got, recent)
             undo   == IF mode = "rebuild" THEN got ELSE Over(got, journal)
  <2>1. /\ PartialChain(got) /\ PartialChain(anchors) /\ tip \in Nat
        /\ PartialChain(window)
        /\ AnchorCap \in Int /\ JournalCap \in Int /\ RecentCap \in Int
    BY <1>2, WindowType, CapsType DEF TypeInv, TypeOK
  <2>2. PartialChain(ring) /\ PartialChain(undo)
    BY <2>1, OverPartial DEF TypeInv, TypeOK
  <2>3. PartialChain(recent')
    <3>1. PartialChain(Newest(ring, RecentCap, tip))
      BY <2>1, <2>2, NewestPartial
    <3> QED BY <1>4, <3>1 DEF ReplayDiscovered
  <2>4. PartialChain(journal')
    <3>1. PartialChain(Newest(undo, JournalCap, tip))
      BY <2>1, <2>2, NewestPartial
    <3> QED BY <1>4, <3>1 DEF ReplayDiscovered
  <2>5. PartialChain(anchors')
    <3>1. PartialChain(Over(window, anchors)) /\ PartialChain(Newest(window, AnchorCap, tip))
      BY <2>1, OverPartial, NewestPartial
    <3> QED BY <1>4, <3>1 DEF ReplayDiscovered, PrunedAnchors
  <2>6. galaxy' \subseteq Blocks
    BY <1>4, <2>1 DEF ReplayDiscovered, Range, PartialChain, TypeInv, TypeOK
  <2>7. /\ replaying' \in BOOLEAN /\ catching' \in BOOLEAN
        /\ replay' \in BOOLEAN /\ parked' \in BOOLEAN
    BY <1>4, Zenon DEF ReplayDiscovered
  <2>8. lastTip' \in Nat /\ retries' \in Nat /\ pc' = "idle"
        /\ UNCHANGED <<mode, tip, at, held, got>>
    BY <1>4, <2>1 DEF ReplayDiscovered, TypeInv, TypeOK
  <2> QED BY <1>1, <1>2, <2>3, <2>4, <2>5, <2>6, <2>7, <2>8
          DEF TypeInv, TypeOK, WindowFloor, NodeTypeOK, nodeVars
<1> QED BY <1>3, <1>4 DEF VerifyWindow

-----------------------------------------------------------------------------
(* The strengthening that makes the ring's properties inductive: what each *)
(* awaited RPC remembers about the cursor and the anchors.                 *)
CursorPhase ==
  /\ pc \in {"seed", "probe", "walk", "fetch", "parent"} => lastTip \in Nat
  /\ pc \in {"boot", "anchor"} => lastTip = NoTip
  /\ pc = "seed"  => at = lastTip /\ lastTip \notin DOMAIN anchors
  /\ pc = "probe" => at = lastTip /\ lastTip \in DOMAIN anchors
  /\ pc = "walk"  => at <= lastTip /\ at \in DOMAIN anchors
  /\ pc \in {"fetch", "parent"} => at = lastTip + 1
  /\ pc = "parent" => Height[held] = at /\ lastTip \notin DOMAIN anchors

(* A hydration starts on an empty ring, a rebuild on a known cursor, and   *)
(* the retries belong to a process that has published nothing.             *)
HydrationPhase ==
  /\ retries > 0 => lastTip = NoTip /\ pc \in {"idle", "discover"}
  /\ pc = "discover" =>
       \/ mode = "run" /\ lastTip = NoTip /\ retries = 0
       \/ mode = "retry" /\ lastTip = NoTip
       \/ mode = "rebuild" /\ lastTip \in Nat

RingInv ==
  /\ Linked(chain)
  /\ RecentIsOneBranch
  /\ AnchorsMatchRecent
  /\ CursorPhase
  /\ HydrationPhase

(* Nothing is published before there is a cursor.                          *)
LEMMA NoCursorNoRing ==
  ASSUME TypeOK, AnchorsMatchRecent, lastTip = NoTip
  PROVE  DOMAIN recent = {}
<1> SUFFICES ASSUME NEW h \in DOMAIN recent PROVE FALSE
  OBVIOUS
<1>1. h \in Nat
  BY DEF TypeOK, PartialChain
<1>2. h <= -1
  BY DEF AnchorsMatchRecent, NoTip
<1> QED BY <1>1, <1>2

(* Every boot starts with a ring that is one branch and matches the anchors. *)
LEMMA InitRing == Init => RingInv
<1> SUFFICES ASSUME Init PROVE RingInv
  OBVIOUS
<1>1. Linked(chain)
  BY DEF Init, NodeInit, Linked
<1>2. CASE recent = NoBlocks /\ anchors = NoBlocks /\ lastTip = NoTip /\ pc \in {"boot", "idle"}
  <2>1. RecentIsOneBranch /\ AnchorsMatchRecent
    BY <1>2, NoBlocksFacts DEF RecentIsOneBranch, AnchorsMatchRecent
  <2> QED BY <1>1, <1>2, <2>1 DEF Init, RingInv, CursorPhase, HydrationPhase
<1>3. ASSUME NEW s \in Saved, lastTip = s.tip, anchors = recent, pc = "idle",
             recent = Newest(s.blocks, RecentCap, s.tip)
      PROVE  RingInv
  <2>1. RecentIsOneBranch
    BY <1>3, NewestIsSegment DEF RecentIsOneBranch
  <2>2. AnchorsMatchRecent
    <3>1. DOMAIN recent = {h \in DOMAIN s.blocks : h + RecentCap > s.tip}
      BY <1>3 DEF Newest, Restrict
    <3> QED BY <1>3, <3>1 DEF AnchorsMatchRecent
  <2> QED BY <1>1, <1>3, <2>1, <2>2 DEF Init, RingInv, CursorPhase, HydrationPhase
<1> QED BY <1>2, <1>3 DEF Init

(* The node changing its chain does not touch what was published.            *)
LEMMA NodeRing ==
  ASSUME TypeInv, RingInv, Node
  PROVE  RingInv'
<1>1. Linked(chain')
  <2>1. CASE NodeMoves(NodeAdvance)
    <3>1. PICK b \in Blocks \ {Genesis} :
            Parent[b] = chain[top] /\ chain' = Put(chain, top + 1, b)
      BY <2>1 DEF NodeMoves, NodeAdvance
    <3>2. DOMAIN chain = 0 .. top /\ top \in Nat /\ Linked(chain)
      BY DEF TypeInv, TypeOK, NodeTypeOK, RingInv
    <3>3. Height[chain[top]] = top /\ Height[b] = top + 1
      BY <3>1, <3>2 DEF Linked
    <3> DEFINE c == chain'
    <3>4. /\ DOMAIN c = 0 .. top + 1 /\ c[top + 1] = b
          /\ \A h \in 0 .. top : c[h] = chain[h]
      BY <3>1, <3>2 DEF Put
    <3> HIDE DEF c
    <3>5. ASSUME NEW h \in DOMAIN c PROVE Height[c[h]] = h
      <4>1. CASE h = top + 1
        BY <4>1, <3>3, <3>4
      <4>2. CASE h # top + 1
        <5>1. h \in 0 .. top
          BY <4>2, <3>2, <3>4
        <5> QED BY <5>1, <3>2, <3>4 DEF Linked
      <4> QED BY <4>1, <4>2
    <3>6. ASSUME NEW h \in DOMAIN c, h - 1 \in DOMAIN c
          PROVE  Parent[c[h]] = c[h - 1]
      <4>1. CASE h = top + 1
        BY <4>1, <3>1, <3>2, <3>4
      <4>2. CASE h # top + 1
        <5>1. h \in 0 .. top /\ h - 1 \in 0 .. top
          BY <4>2, <3>6, <3>2, <3>4
        <5> QED BY <5>1, <3>2, <3>4 DEF Linked
      <4> QED BY <4>1, <4>2
    <3>7. Linked(c)
      BY <3>5, <3>6 DEF Linked
    <3> QED BY <3>7 DEF c
  <2>2. CASE NodeMoves(NodeRewind)
    <3>1. PICK k \in 0 .. top - 1 : chain' = Below(chain, k + 1)
      BY <2>2 DEF NodeMoves, NodeRewind
    <3>2. DOMAIN chain = 0 .. top /\ top \in Nat /\ Linked(chain)
      BY DEF TypeInv, TypeOK, NodeTypeOK, RingInv
    <3> DEFINE c == chain'
    <3>3. DOMAIN c = 0 .. k /\ \A h \in 0 .. k : c[h] = chain[h]
      BY <3>1, <3>2 DEF Below, Restrict
    <3> HIDE DEF c
    <3>4. \A h \in 0 .. k : h \in DOMAIN chain
      BY <3>2
    <3>5. \A h \in DOMAIN c : Height[c[h]] = h
      BY <3>2, <3>3, <3>4 DEF Linked
    <3>6. \A h \in DOMAIN c : h - 1 \in DOMAIN c => Parent[c[h]] = c[h - 1]
      BY <3>2, <3>3, <3>4 DEF Linked
    <3>7. Linked(c)
      BY <3>5, <3>6 DEF Linked
    <3> QED BY <3>7 DEF c
  <2> QED BY <2>1, <2>2 DEF Node
<1>2. UNCHANGED <<pollState, call, consumers>>
  BY DEF Node, NodeMoves
<1> QED BY <1>1, <1>2 DEF RingInv, RecentIsOneBranch, AnchorsMatchRecent, CursorPhase,
                          HydrationPhase, pollState, call, consumers

(* A step that ends by starting the range: the anchors agree with the ring *)
(* it leaves, and the cursor is the ring's top.                            *)
LEMMA RangeRing ==
  ASSUME TypeOK, NEW a, PartialChain(a), NEW last \in Nat,
         NEW reorg, NEW catchup, NEW open,
         StartRange(a, last, reorg, catchup, open),
         \A h \in DOMAIN a \cap DOMAIN recent' : a[h] = recent'[h],
         \A h \in DOMAIN recent' : h <= last /\ last \in DOMAIN recent' \cap DOMAIN a,
         RecentIsOneBranch', Linked(chain'), retries' = 0
  PROVE  RingInv'
<1>1. lastTip' = last /\ pc' \in {"idle", "fetch"} /\ (pc' = "fetch" => at' = last + 1)
  BY DEF StartRange, RangeStart
<1>2. anchors' = a \/ anchors' = PrunedAnchors(a, last)
  BY DEF StartRange
<1>3. /\ DOMAIN anchors' \subseteq DOMAIN a
      /\ \A h \in DOMAIN anchors' : anchors'[h] = a[h]
      /\ last \in DOMAIN a => last \in DOMAIN anchors'
  <2>1. CASE anchors' = a
    BY <2>1
  <2>2. CASE anchors' = PrunedAnchors(a, last)
    <3>1. AnchorCap \in Nat \ {0}
      BY CapsType
    <3> DEFINE p == PrunedAnchors(a, last)
    <3>2. DOMAIN p = {h \in DOMAIN a : h + AnchorCap > last} /\ \A h \in DOMAIN p : p[h] = a[h]
      BY DEF PrunedAnchors, Newest, Restrict
    <3> HIDE DEF p
    <3>3. last \in DOMAIN a => last \in DOMAIN p
      BY <3>1, <3>2
    <3>4. anchors' = p
      BY <2>2 DEF p
    <3> QED BY <3>2, <3>3, <3>4
  <2> QED BY <1>2, <2>1, <2>2
<1>4. AnchorsMatchRecent'
  BY <1>1, <1>3 DEF AnchorsMatchRecent
<1>5. CursorPhase' /\ HydrationPhase'
  BY <1>1 DEF CursorPhase, HydrationPhase
<1> QED BY <1>4, <1>5 DEF RingInv

(* A step that leaves ring, anchors and cursor alone only has to keep the  *)
(* phases.                                                                 *)
LEMMA SameRing ==
  ASSUME RingInv, UNCHANGED <<recent, anchors, lastTip, chain>>, CursorPhase', HydrationPhase'
  PROVE  RingInv'
  BY DEF RingInv, RecentIsOneBranch, AnchorsMatchRecent

(* Reading the tip of a poll keeps the ring invariant.                       *)
LEMMA PollOnceRing ==
  ASSUME TypeInv, RingInv, PollOnce
  PROVE  RingInv'
<1>1. UNCHANGED <<recent, anchors, lastTip, chain>> /\ pc = "idle"
  BY DEF PollOnce, nodeVars, consumers
<1>2. retries \in Nat /\ lastTip \in Nat \cup {NoTip} /\ PartialChain(anchors) /\ top \in Nat
  BY DEF TypeInv, TypeOK, NodeTypeOK
<1>3. CursorPhase' /\ HydrationPhase'
  <2>1. CASE retries > 0 /\ retries' = retries - 1 /\ BeginDiscovery("retry", top)
    <3>1. lastTip = NoTip
      BY <2>1 DEF RingInv, HydrationPhase
    <3> QED BY <1>1, <2>1, <3>1 DEF BeginDiscovery, CursorPhase, HydrationPhase
  <2>2. CASE retries = 0 /\ lastTip = NoTip /\ pc' = "anchor" /\ UNCHANGED retries
    BY <1>1, <2>2 DEF CursorPhase, HydrationPhase
  <2>3. CASE retries = 0 /\ lastTip # NoTip /\ FindChange(top) /\ UNCHANGED retries
    <3>1. CASE pc' = (IF lastTip \in DOMAIN anchors THEN "probe" ELSE "seed") /\ at' = lastTip
      BY <1>1, <1>2, <2>3, <3>1 DEF CursorPhase, HydrationPhase
    <3>2. CASE top < lastTip /\ WalkFrom(top, top)
      <4>1. \/ pc' = "walk" /\ at' \in DOMAIN anchors /\ at' <= top
            \/ pc' = "discover" /\ mode' = "rebuild"
        BY <3>2 DEF WalkFrom, BeginDiscovery
      <4>2. at' \in DOMAIN anchors /\ at' <= top => at' <= lastTip
        BY <1>2, <2>3, <3>2 DEF PartialChain
      <4> QED BY <1>1, <1>2, <2>3, <4>1, <4>2 DEF CursorPhase, HydrationPhase
    <3> QED BY <2>3, <3>1, <3>2 DEF FindChange
  <2> QED BY <2>1, <2>2, <2>3 DEF PollOnce
<1> QED BY <1>1, <1>3, SameRing

(* Starting a hydration keeps the ring invariant.                            *)
LEMMA RunHydrationRing ==
  ASSUME TypeInv, RingInv, RunHydration
  PROVE  RingInv'
<1>1. UNCHANGED <<recent, anchors, lastTip, chain, retries>> /\ pc = "boot"
  BY DEF RunHydration, nodeVars, consumers, pollState
<1>2. pc' = "discover" /\ mode' = "run"
  BY DEF RunHydration, BeginDiscovery
<1>3. lastTip = NoTip /\ retries = 0
  BY <1>1 DEF RingInv, CursorPhase, HydrationPhase, TypeInv, TypeOK
<1>4. CursorPhase' /\ HydrationPhase'
  BY <1>1, <1>2, <1>3 DEF CursorPhase, HydrationPhase
<1> QED BY <1>1, <1>4, SameRing

(* Anchoring a live-only boot keeps the ring invariant: nothing is published *)
(* yet.                                                                      *)
LEMMA AnchorTipRing ==
  ASSUME TypeInv, RingInv, AnchorTip
  PROVE  RingInv'
<1> DEFINE anchor == IF tip = 0 THEN 0 ELSE tip - 1
<1>1. anchor \in Nat /\ retries \in Nat
  BY DEF TypeInv, TypeOK
<1>2. UNCHANGED <<recent, chain, retries>> /\ pc = "anchor"
  BY DEF AnchorTip, nodeVars, consumers
<1>3. lastTip = NoTip /\ retries = 0 /\ DOMAIN recent = {}
  BY <1>1, <1>2, NoCursorNoRing DEF RingInv, CursorPhase, HydrationPhase, TypeInv
<1>4. Linked(chain') /\ RecentIsOneBranch' /\ AnchorsMatchRecent' /\ HydrationPhase'
  <2>1. pc' # "discover"
    BY DEF AnchorTip, PollFails
  <2> QED BY <1>2, <1>3, <2>1 DEF RingInv, RecentIsOneBranch, AnchorsMatchRecent, HydrationPhase
<1>5. CursorPhase'
  <2>1. CASE anchors' = Put(anchors, anchor, chain[anchor]) /\ lastTip' = anchor
             /\ pc' = "probe" /\ at' = anchor
    <3>1. anchor \in DOMAIN anchors'
      BY <2>1 DEF Put
    <3> QED BY <1>1, <2>1, <3>1 DEF CursorPhase
  <2>2. CASE lastTip' = anchor /\ at' = anchor /\ UNCHANGED anchors
             /\ pc' = (IF anchor \in DOMAIN anchors THEN "probe" ELSE "seed")
    BY <1>1, <2>2 DEF CursorPhase
  <2>3. CASE PollFails /\ UNCHANGED <<lastTip, anchors>>
    BY <2>3 DEF PollFails, CursorPhase
  <2> QED BY <2>1, <2>2, <2>3 DEF AnchorTip
<1> QED BY <1>4, <1>5 DEF RingInv

(* Outside a hydration no retry is owed.                                   *)
LEMMA NoRetryOwed ==
  ASSUME TypeInv, RingInv, pc \in {"seed", "probe", "walk", "fetch", "parent"}
  PROVE  retries = 0 /\ lastTip \in Nat
  BY DEF TypeInv, TypeOK, RingInv, CursorPhase, HydrationPhase

(* Seeding the anchor of a bare cursor keeps the ring invariant.             *)
LEMMA SeedCursorRing ==
  ASSUME TypeInv, RingInv, SeedCursor
  PROVE  RingInv'
<1>1. pc = "seed" /\ UNCHANGED <<recent, chain, retries>>
  BY DEF SeedCursor, nodeVars, consumers
<1>2. /\ lastTip \in Nat /\ retries' = 0 /\ at = lastTip
      /\ lastTip \notin DOMAIN anchors /\ PartialChain(anchors)
      /\ TypeOK /\ Linked(chain') /\ RecentIsOneBranch'
  BY <1>1, NoRetryOwed DEF TypeInv, TypeOK, RingInv, CursorPhase, RecentIsOneBranch
<1>3. DOMAIN recent' = {}
  BY <1>1, <1>2 DEF RingInv, AnchorsMatchRecent
<1>4. CASE Visible(at) /\ StartRange(Put(anchors, at, chain[at]), lastTip, replaying, catching, replay)
  <2>1. PartialChain(Put(anchors, at, chain[at]))
    BY <1>2, <1>4, AnswerIsBlock, PutPartial DEF Visible
  <2> QED BY <1>2, <1>3, <1>4, <2>1, RangeRing
<1>5. CASE StartRange(anchors, lastTip, replaying, catching, replay)
  BY <1>2, <1>3, <1>5, RangeRing
<1>6. CASE PollFails /\ UNCHANGED <<lastTip, anchors>>
  <2>1. CursorPhase' /\ HydrationPhase'
    BY <1>2, <1>6 DEF PollFails, CursorPhase, HydrationPhase
  <2> QED BY <1>1, <1>6, <2>1, SameRing
<1> QED BY <1>4, <1>5, <1>6 DEF SeedCursor

(* The probe of the cursor's own hash keeps the ring invariant.              *)
LEMMA ProbeCursorRing ==
  ASSUME TypeInv, RingInv, ProbeCursor
  PROVE  RingInv'
<1>1. pc = "probe" /\ UNCHANGED <<recent, chain, retries>>
  BY DEF ProbeCursor, nodeVars, consumers
<1>2. /\ lastTip \in Nat /\ retries' = 0 /\ at = lastTip /\ PartialChain(anchors)
      /\ TypeOK /\ Linked(chain') /\ RecentIsOneBranch'
  BY <1>1, NoRetryOwed DEF TypeInv, TypeOK, RingInv, CursorPhase, RecentIsOneBranch
<1>3. CASE StartRange(anchors, lastTip, replaying, catching, replay)
  <2>1. /\ \A h \in DOMAIN anchors \cap DOMAIN recent' : anchors[h] = recent'[h]
        /\ \A h \in DOMAIN recent' : h <= lastTip /\ lastTip \in DOMAIN recent' \cap DOMAIN anchors
    BY <1>1 DEF RingInv, AnchorsMatchRecent
  <2> QED BY <1>2, <1>3, <2>1, RangeRing
<1>4. CASE WalkFrom(at, tip) /\ UNCHANGED <<lastTip, anchors>>
  <2>1. \/ pc' = "walk" /\ at' \in DOMAIN anchors /\ at' <= at
        \/ pc' = "discover" /\ mode' = "rebuild"
    BY <1>4 DEF WalkFrom, BeginDiscovery
  <2>2. CursorPhase' /\ HydrationPhase'
    BY <1>2, <1>4, <2>1 DEF CursorPhase, HydrationPhase
  <2> QED BY <1>1, <1>4, <2>2, SameRing
<1>5. CASE PollFails /\ UNCHANGED <<lastTip, anchors>>
  <2>1. CursorPhase' /\ HydrationPhase'
    BY <1>2, <1>5 DEF PollFails, CursorPhase, HydrationPhase
  <2> QED BY <1>1, <1>5, <2>1, SameRing
<1> QED BY <1>3, <1>4, <1>5 DEF ProbeCursor

(* The backward walk either goes on, or cuts ring and anchors at the same    *)
(* height.                                                                   *)
LEMMA WalkBackRing ==
  ASSUME TypeInv, RingInv, WalkBack
  PROVE  RingInv'
<1>1. pc = "walk" /\ UNCHANGED <<chain, retries>>
  BY DEF WalkBack, nodeVars
<1>2. /\ lastTip \in Nat /\ retries' = 0 /\ at <= lastTip /\ at \in DOMAIN anchors
      /\ at \in Nat /\ PartialChain(anchors) /\ PartialChain(recent)
      /\ TypeOK /\ Linked(chain')
  BY <1>1, NoRetryOwed DEF TypeInv, TypeOK, RingInv, CursorPhase
<1>3. CASE Reorganized(at + 1)
           /\ StartRange(Below(anchors, at + 1), at, TRUE, FALSE, replay \/ tip <= at)
  <2> DEFINE a == Below(anchors, at + 1)
             r == Below(recent, at + 1)
  <2>1. /\ DOMAIN a = {h \in DOMAIN anchors : h < at + 1}
        /\ \A h \in DOMAIN a : a[h] = anchors[h]
        /\ DOMAIN r = {h \in DOMAIN recent : h < at + 1}
        /\ \A h \in DOMAIN r : r[h] = recent[h]
    BY DEF Below, Restrict
  <2>2. PartialChain(a) /\ IsSegment(r) /\ recent' = r
    BY <1>2, <1>3, BelowPartial, BelowIsSegment DEF Reorganized, RingInv, RecentIsOneBranch
  <2> HIDE DEF a, r
  <2>3. ASSUME NEW h \in DOMAIN r PROVE h <= at /\ at \in DOMAIN r \cap DOMAIN a
    <3>1. h \in DOMAIN recent /\ h \in Nat /\ h <= at
      BY <1>2, <2>1 DEF PartialChain
    <3>2. lastTip \in DOMAIN recent
      BY <3>1 DEF RingInv, AnchorsMatchRecent
    <3>3. at \in h .. lastTip
      BY <1>2, <3>1
    <3>4. at \in DOMAIN recent
      BY <3>1, <3>2, <3>3 DEF RingInv, RecentIsOneBranch, IsSegment, Unbroken
    <3> QED BY <1>2, <2>1, <3>1, <3>4
  <2>4. \A h \in DOMAIN a \cap DOMAIN r : a[h] = r[h]
    BY <2>1 DEF RingInv, AnchorsMatchRecent
  <2>5. RecentIsOneBranch'
    BY <2>2 DEF RecentIsOneBranch
  <2>6. StartRange(a, at, TRUE, FALSE, replay \/ tip <= at)
    BY <1>3 DEF a
  <2> QED BY <1>2, <2>2, <2>3, <2>4, <2>5, <2>6, RangeRing
<1>4. CASE WalkFrom(at - 1, tip) /\ UNCHANGED <<lastTip, anchors, consumers>>
  <2>1. \/ pc' = "walk" /\ at' \in DOMAIN anchors /\ at' <= at - 1
        \/ pc' = "discover" /\ mode' = "rebuild"
    BY <1>4 DEF WalkFrom, BeginDiscovery
  <2>2. at' \in DOMAIN anchors /\ at' <= at - 1 => at' <= lastTip
    BY <1>2 DEF PartialChain
  <2>3. CursorPhase' /\ HydrationPhase'
    BY <1>2, <1>4, <2>1, <2>2 DEF CursorPhase, HydrationPhase
  <2> QED BY <1>1, <1>4, <2>3, SameRing DEF consumers
<1>5. CASE PollFails /\ UNCHANGED <<lastTip, anchors, consumers>>
  <2>1. CursorPhase' /\ HydrationPhase'
    BY <1>2, <1>5 DEF PollFails, CursorPhase, HydrationPhase
  <2> QED BY <1>1, <1>5, <2>1, SameRing DEF consumers
<1> QED BY <1>3, <1>4, <1>5 DEF WalkBack

(* A block whose parent is the cursor's anchor continues the ring.         *)
LEMMA EmitRing ==
  ASSUME TypeInv, RingInv, pc \in {"fetch", "parent"},
         NEW b \in Blocks, Height[b] = at,
         NEW a, PartialChain(a), lastTip \in DOMAIN a, a[lastTip] = Parent[b],
         \A h \in DOMAIN a \cap DOMAIN recent : a[h] = recent[h],
         Emit(b, a), UNCHANGED chain
  PROVE  RingInv'
<1>1. /\ lastTip \in Nat /\ at = lastTip + 1 /\ retries = 0
      /\ PartialChain(recent) /\ IsSegment(recent)
  BY NoRetryOwed DEF TypeInv, TypeOK, RingInv, CursorPhase, RecentIsOneBranch
<1>2. \A h \in DOMAIN recent : h <= lastTip /\ lastTip \in DOMAIN recent
  BY DEF RingInv, AnchorsMatchRecent
<1>3. at \in Nat /\ at \notin DOMAIN recent /\ at - 1 = lastTip
  BY <1>1, <1>2
<1> DEFINE longer == Put(recent, at, b)
           r == Newest(longer, RecentCap, at)
           p == Put(a, at, b)
           q == Newest(p, AnchorCap, at)
<1>4. /\ recent' = r /\ anchors' = q /\ lastTip' = at
      /\ pc' \in {"idle", "fetch"} /\ (pc' = "fetch" => at' = at + 1)
      /\ retries' = retries
  BY <1>3 DEF Emit, RecentMined, PrunedAnchors
<1>5. PartialChain(longer) /\ IsSegment(longer)
  <2>1. \A h \in DOMAIN recent :
          h < at /\ at - 1 \in DOMAIN recent /\ recent[at - 1] = Parent[b]
    BY <1>1, <1>2, <1>3 DEF PartialChain
  <2> QED BY <1>1, <1>3, <2>1, PutPartial, PutIsSegment
<1>6. IsSegment(r)
  BY <1>3, <1>5, NewestIsSegment
<1>7. /\ DOMAIN longer = DOMAIN recent \cup {at} /\ longer[at] = b
      /\ \A h \in DOMAIN recent : h # at => longer[h] = recent[h]
      /\ DOMAIN p = DOMAIN a \cup {at} /\ p[at] = b
      /\ \A h \in DOMAIN a : h # at => p[h] = a[h]
  BY DEF Put
<1>8. /\ DOMAIN r = {h \in DOMAIN longer : h + RecentCap > at}
      /\ \A h \in DOMAIN r : r[h] = longer[h]
      /\ DOMAIN q = {h \in DOMAIN p : h + AnchorCap > at}
      /\ \A h \in DOMAIN q : q[h] = p[h]
  BY DEF Newest, Restrict
<1> HIDE DEF longer, r, p, q
<1>9. \A h \in DOMAIN q \cap DOMAIN r : q[h] = r[h]
  BY <1>3, <1>7, <1>8
<1>10. at \in DOMAIN q /\ at \in DOMAIN r
  BY <1>3, <1>7, <1>8, CapsType
<1>11. \A h \in DOMAIN r : h <= at
  BY <1>1, <1>2, <1>7, <1>8 DEF PartialChain
<1>12. RecentIsOneBranch' /\ AnchorsMatchRecent'
  BY <1>4, <1>6, <1>9, <1>10, <1>11 DEF RecentIsOneBranch, AnchorsMatchRecent
<1>13. CursorPhase' /\ HydrationPhase'
  BY <1>1, <1>3, <1>4 DEF CursorPhase, HydrationPhase
<1> QED BY <1>12, <1>13 DEF RingInv

(* A range that fails may have learnt its parent anchor, which no ring     *)
(* contradicts.                                                            *)
LEMMA RangeFailsRing ==
  ASSUME TypeInv, RingInv, pc \in {"fetch", "parent"}, NEW a, RangeFails(a), UNCHANGED chain,
         DOMAIN anchors \subseteq DOMAIN a,
         \A h \in DOMAIN a \cap DOMAIN recent : a[h] = recent[h]
  PROVE  RingInv'
<1>1. UNCHANGED <<recent, lastTip, retries, chain>> /\ anchors' = a /\ pc' = "idle"
  BY DEF RangeFails, PollFails, consumers
<1>2. retries = 0 /\ lastTip \in Nat
  BY NoRetryOwed
<1>3. AnchorsMatchRecent'
  BY <1>1 DEF RingInv, AnchorsMatchRecent
<1>4. CursorPhase' /\ HydrationPhase'
  BY <1>1, <1>2 DEF CursorPhase, HydrationPhase
<1> QED BY <1>1, <1>3, <1>4 DEF RingInv, RecentIsOneBranch

(* The fetch of the next block keeps the ring invariant: its parent is the   *)
(* cursor, or it is held back.                                               *)
LEMMA FetchBlockRing ==
  ASSUME TypeInv, RingInv, FetchBlock
  PROVE  RingInv'
<1>1. pc = "fetch" /\ UNCHANGED nodeVars /\ UNCHANGED chain
  BY DEF FetchBlock, nodeVars
<1>2. /\ lastTip \in Nat /\ retries = 0 /\ at = lastTip + 1 /\ at - 1 = lastTip
      /\ PartialChain(anchors) /\ at \in Nat
  BY <1>1, NoRetryOwed DEF TypeInv, TypeOK, RingInv, CursorPhase
<1>3. \A h \in DOMAIN anchors \cap DOMAIN recent : anchors[h] = recent[h]
  BY DEF RingInv, AnchorsMatchRecent
<1>4. ASSUME Visible(at) PROVE chain[at] \in Blocks /\ Height[chain[at]] = at
  <2>1. chain[at] \in Blocks
    BY <1>2, <1>4, AnswerIsBlock DEF Visible, TypeInv
  <2>2. at \in DOMAIN chain
    BY <1>2, <1>4 DEF Visible, TypeInv, TypeOK, NodeTypeOK
  <2> QED BY <2>1, <2>2 DEF RingInv, Linked
<1>5. CASE Visible(at) /\ at - 1 \in DOMAIN anchors /\ Extend(chain[at], anchors)
  <2>1. CASE Parent[chain[at]] = anchors[at - 1] /\ Emit(chain[at], anchors)
    BY <1>1, <1>2, <1>3, <1>4, <1>5, <2>1, EmitRing
  <2>2. CASE RangeFails(anchors)
    BY <1>1, <1>3, <2>2, RangeFailsRing
  <2> QED BY <1>5, <2>1, <2>2 DEF Extend
<1>6. CASE Visible(at) /\ at - 1 \notin DOMAIN anchors /\ held' = chain[at] /\ pc' = "parent"
           /\ UNCHANGED <<pollState, mode, tip, at, got, consumers, replay>>
  <2>1. UNCHANGED <<recent, anchors, lastTip, chain, retries, at>>
    BY <1>1, <1>6 DEF pollState, consumers
  <2>2. CursorPhase' /\ HydrationPhase'
    BY <1>2, <1>4, <1>6, <2>1 DEF CursorPhase, HydrationPhase
  <2> QED BY <2>1, <2>2, SameRing
<1>7. CASE PollFails /\ UNCHANGED <<pollState, consumers, replay>>
  <2>1. UNCHANGED <<recent, anchors, lastTip, chain, retries>> /\ pc' = "idle"
    BY <1>1, <1>7 DEF pollState, consumers, PollFails
  <2>2. CursorPhase' /\ HydrationPhase'
    BY <1>2, <2>1 DEF CursorPhase, HydrationPhase
  <2> QED BY <2>1, <2>2, SameRing
<1>8. CASE RangeFails(anchors)
  BY <1>1, <1>3, <1>8, RangeFailsRing
<1> QED BY <1>5, <1>6, <1>7, <1>8 DEF FetchBlock

(* The answer for the parent hash keeps the ring invariant.                  *)
LEMMA FetchParentRing ==
  ASSUME TypeInv, RingInv, FetchParent
  PROVE  RingInv'
<1>1. pc = "parent" /\ UNCHANGED nodeVars /\ UNCHANGED chain
  BY DEF FetchParent, nodeVars
<1>2. /\ lastTip \in Nat /\ at = lastTip + 1 /\ at - 1 = lastTip
      /\ lastTip \notin DOMAIN anchors /\ Height[held] = at /\ held \in Blocks
      /\ PartialChain(anchors)
  BY <1>1, NoRetryOwed DEF TypeInv, TypeOK, RingInv, CursorPhase
<1>3. DOMAIN recent = {}
  BY <1>2 DEF RingInv, AnchorsMatchRecent
<1>4. CASE Visible(at - 1) /\ Extend(held, Put(anchors, at - 1, chain[at - 1]))
  <2> DEFINE a == Put(anchors, at - 1, chain[at - 1])
  <2>1. chain[at - 1] \in Blocks
    BY <1>2, <1>4, AnswerIsBlock DEF Visible, TypeInv
  <2>2. PartialChain(a)
    BY <1>2, <2>1, PutPartial
  <2>3. DOMAIN a = DOMAIN anchors \cup {at - 1}
    BY DEF Put
  <2>4. Extend(held, a)
    BY <1>4
  <2> HIDE DEF a
  <2>5. CASE Parent[held] = a[at - 1] /\ Emit(held, a)
    BY <1>1, <1>2, <1>3, <2>2, <2>3, <2>5, EmitRing
  <2>6. CASE RangeFails(a)
    BY <1>1, <1>3, <2>3, <2>6, RangeFailsRing
  <2> QED BY <2>4, <2>5, <2>6 DEF Extend
<1>5. CASE RangeFails(anchors)
  BY <1>1, <1>3, <1>5, RangeFailsRing
<1> QED BY <1>4, <1>5 DEF FetchParent

(* A failed discovery publishes nothing.                                     *)
LEMMA DiscoveryFailsRing ==
  ASSUME TypeInv, RingInv, pc = "discover", DiscoveryFails, UNCHANGED chain
  PROVE  RingInv'
<1>1. UNCHANGED <<recent, anchors, lastTip, chain>>
  BY DEF DiscoveryFails
<1>2. /\ pc' = IF mode = "retry" /\ retries = 0 THEN "anchor" ELSE "idle"
      /\ retries' = IF mode = "run" THEN BootRetries ELSE retries
  BY DEF DiscoveryFails, RetriesAfterFailure
<1>3. CursorPhase' /\ HydrationPhase'
  BY <1>1, <1>2 DEF CursorPhase, HydrationPhase, RingInv
<1> QED BY <1>1, <1>3, SameRing

(* A discovered block is not published before the window is verified.        *)
LEMMA DiscoverBlockRing ==
  ASSUME TypeInv, RingInv, DiscoverBlock
  PROVE  RingInv'
<1>1. UNCHANGED <<recent, anchors, lastTip, chain, retries, pc, mode>> /\ pc = "discover"
  BY DEF DiscoverBlock, nodeVars, pollState, consumers
<1>2. CursorPhase' /\ HydrationPhase'
  BY <1>1 DEF CursorPhase, HydrationPhase, RingInv
<1> QED BY <1>1, <1>2, SameRing

(* A discovery that meets an RPC error publishes nothing.                    *)
LEMMA DiscoverGivesUpRing ==
  ASSUME TypeInv, RingInv, DiscoverGivesUp
  PROVE  RingInv'
  BY DiscoveryFailsRing DEF DiscoverGivesUp, nodeVars

(* The window a hydration or a rebuild publishes is a segment, and the     *)
(* anchors it leaves are its blocks and its parent.                        *)
LEMMA VerifyWindowRing ==
  ASSUME TypeInv, RingInv, VerifyWindow
  PROVE  RingInv'
<1>1. pc = "discover" /\ DOMAIN got = at .. tip /\ UNCHANGED chain
  BY DEF VerifyWindow, nodeVars
<1>2. CASE DiscoveryFails
  BY <1>1, <1>2, DiscoveryFailsRing
<1>3. CASE Linked(got) /\ ReplayDiscovered
  <2> DEFINE window == IF at = 0 THEN got ELSE Put(got, at - 1, Parent[got[at]])
             ring   == IF mode = "rebuild" THEN got ELSE Over(got, recent)
             r      == Newest(got, RecentCap, tip)
             merged == Over(window, anchors)
             pruned == PrunedAnchors(window, tip)
  <2>1. /\ at \in Nat /\ tip \in Nat /\ at <= tip /\ PartialChain(got)
        /\ PartialChain(window)
    BY <1>1, WindowType DEF TypeInv, TypeOK
  <2>2. IsSegment(got)
    BY <1>1, <1>3, <2>1 DEF IsSegment, Unbroken
  <2>3. ring = got
    <3>1. CASE mode # "rebuild"
      <4>1. DOMAIN recent = {}
        BY <1>1, <3>1, NoCursorNoRing DEF RingInv, HydrationPhase, TypeInv
      <4> QED BY <4>1, <2>1, <3>1 DEF Over, PartialChain
    <3> QED BY <3>1
  <2>4. recent' = r
    BY <1>3, <2>3 DEF ReplayDiscovered
  <2>5. /\ tip \in DOMAIN window
        /\ \A h \in DOMAIN got : h \in DOMAIN window /\ window[h] = got[h]
    BY <1>1, <2>1 DEF Put
  <2>6. anchors' = merged \/ anchors' = pruned
    BY <1>3 DEF ReplayDiscovered
  <2>7. /\ DOMAIN r = {h \in DOMAIN got : h + RecentCap > tip}
        /\ \A h \in DOMAIN r : r[h] = got[h]
        /\ DOMAIN merged = DOMAIN window \cup DOMAIN anchors
        /\ \A h \in DOMAIN window : merged[h] = window[h]
        /\ DOMAIN pruned = {h \in DOMAIN window : h + AnchorCap > tip}
        /\ \A h \in DOMAIN pruned : pruned[h] = window[h]
    BY DEF PrunedAnchors, Newest, Over, Restrict
  <2>8. RecentIsOneBranch'
    BY <2>1, <2>2, <2>4, NewestIsSegment DEF RecentIsOneBranch
  <2>9. lastTip' = tip /\ pc' = "idle"
        /\ retries' = (IF mode = "retry" THEN 0 ELSE retries)
    BY <1>3 DEF ReplayDiscovered
  <2> HIDE DEF window, ring, r, merged, pruned
  <2>10. tip \in DOMAIN r /\ \A h \in DOMAIN r : h <= tip
    BY <1>1, <2>1, <2>7
  <2>11. tip \in DOMAIN anchors'
    BY <2>1, <2>5, <2>6, <2>7, CapsType
  <2>12. \A h \in DOMAIN anchors' \cap DOMAIN r : anchors'[h] = r[h]
    BY <2>5, <2>6, <2>7
  <2>13. AnchorsMatchRecent'
    BY <2>4, <2>9, <2>10, <2>11, <2>12 DEF AnchorsMatchRecent
  <2>14. retries' = 0
    <3>1. CASE mode = "rebuild"
      <4>1. lastTip \in Nat /\ retries \in Nat
        BY <1>1, <3>1 DEF RingInv, HydrationPhase, TypeInv, TypeOK
      <4>2. ~ (retries > 0)
        BY <4>1 DEF RingInv, HydrationPhase, NoTip
      <4> QED BY <2>9, <3>1, <4>1, <4>2
    <3> QED BY <1>1, <2>9, <3>1 DEF RingInv, HydrationPhase
  <2>15. CursorPhase' /\ HydrationPhase'
    BY <2>9, <2>14 DEF CursorPhase, HydrationPhase
  <2> QED BY <1>1, <2>8, <2>13, <2>15 DEF RingInv
<1> QED BY <1>2, <1>3 DEF VerifyWindow

-----------------------------------------------------------------------------
(* Every step, one action at a time.                                       *)
LEMMA StepInv ==
  ASSUME TypeInv, RingInv, [Next]_vars
  PROVE  TypeInv' /\ RingInv'
<1>1. CASE UNCHANGED vars
  BY <1>1 DEF TypeInv, TypeOK, WindowFloor, NodeTypeOK, RingInv, RecentIsOneBranch,
              AnchorsMatchRecent, CursorPhase, HydrationPhase, vars, nodeVars,
              pollState, call, consumers
<1>2. CASE Node
  BY <1>2, NodeType, NodeRing
<1>3. CASE RunHydration
  BY <1>3, RunHydrationType, RunHydrationRing
<1>4. CASE PollOnce
  BY <1>4, PollOnceType, PollOnceRing
<1>5. CASE AnchorTip
  BY <1>5, AnchorTipType, AnchorTipRing
<1>6. CASE SeedCursor
  BY <1>6, SeedCursorType, SeedCursorRing
<1>7. CASE ProbeCursor
  BY <1>7, ProbeCursorType, ProbeCursorRing
<1>8. CASE WalkBack
  BY <1>8, WalkBackType, WalkBackRing
<1>9. CASE FetchBlock
  BY <1>9, FetchBlockType, FetchBlockRing
<1>10. CASE FetchParent
  <2>1. at - 1 \in Nat
    BY <1>10, NoRetryOwed DEF FetchParent, RingInv, CursorPhase
  <2> QED BY <1>10, <2>1, FetchParentType, FetchParentRing
<1>11. CASE DiscoverBlock
  BY <1>11, DiscoverBlockType, DiscoverBlockRing
<1>12. CASE DiscoverGivesUp
  BY <1>12, DiscoverGivesUpType, DiscoverGivesUpRing
<1>13. CASE VerifyWindow
  BY <1>13, VerifyWindowType, VerifyWindowRing
<1> QED BY <1>1, <1>2, <1>3, <1>4, <1>5, <1>6, <1>7, <1>8, <1>9, <1>10, <1>11, <1>12, <1>13
        DEF Next, Poll, RpcAnswer

(* The inductive invariant holds in every state of the protocol, whatever    *)
(* the node does between two RPC answers.                                    *)
THEOREM SyncInvariant == Spec => [](TypeInv /\ RingInv)
<1>1. Init => TypeInv /\ RingInv
  BY InitType, InitRing
<1>2. TypeInv /\ RingInv /\ [Next]_vars => (TypeInv /\ RingInv)'
  BY StepInv
<1> QED BY <1>1, <1>2, PTL DEF Spec

(* Every variable of the protocol keeps its type.                          *)
THEOREM TypeCorrect == Spec => []TypeOK
<1>1. TypeInv /\ RingInv => TypeOK
  BY DEF TypeInv
<1> QED BY <1>1, SyncInvariant, PTL

(* The ring the server shows is at every moment a piece of one branch,     *)
(* whatever the node answers between two RPCs of one poll.                 *)
THEOREM RingIsOneBranch == Spec => []RecentIsOneBranch
<1>1. TypeInv /\ RingInv => RecentIsOneBranch
  BY DEF RingInv
<1> QED BY <1>1, SyncInvariant, PTL

(* The poller's anchors never contradict the ring, and the ring ends at    *)
(* the poller's cursor.                                                    *)
THEOREM AnchorsAgree == Spec => []AnchorsMatchRecent
<1>1. TypeInv /\ RingInv => AnchorsMatchRecent
  BY DEF RingInv
<1> QED BY <1>1, SyncInvariant, PTL

(* The poller only announces blocks above everything the ring shows.       *)
THEOREM AnnouncesAbove == Spec => []EmitsOnlyAbove
<1>1. TypeInv /\ RingInv => EmitsOnlyAbove
  <2> SUFFICES ASSUME TypeInv, RingInv, pc \in {"fetch", "parent"}, NEW h \in DOMAIN recent
               PROVE  h < at
    BY DEF EmitsOnlyAbove
  <2>1. h \in Nat /\ lastTip \in Nat /\ at = lastTip + 1 /\ h <= lastTip
    BY NoRetryOwed DEF TypeInv, TypeOK, PartialChain, RingInv, CursorPhase, AnchorsMatchRecent
  <2> QED BY <2>1
<1> QED BY <1>1, SyncInvariant, PTL

-----------------------------------------------------------------------------
(* Replay envelopes: who owns an open one, and which kind of range may     *)
(* leave one behind.                                                       *)
EnvelopeInv ==
  /\ replay => replaying \/ catching \/ pc = "discover"
  /\ pc = "discover" => replay
  /\ pc \in {"fetch", "parent"} /\ mode = "live" => ~ replaying /\ ~ catching

(* A range announces a replay exactly when it belongs to one.              *)
LEMMA RangeEnvelope ==
  ASSUME NEW a, NEW last, NEW reorg \in BOOLEAN, NEW catchup \in BOOLEAN, NEW open \in BOOLEAN,
         StartRange(a, last, reorg, catchup, open), open => reorg \/ catchup
  PROVE  EnvelopeInv'
<1> DEFINE calm == ~ reorg /\ (catchup \/ tip - last > CatchupThreshold)
<1>1. /\ replaying' = reorg /\ calm \in BOOLEAN
      /\ \/ /\ pc' = "idle" /\ catching' = catchup /\ replay' = open
         \/ /\ pc' = "fetch" /\ catching' = (catchup \/ calm)
            /\ mode' = IF reorg THEN "reorg" ELSE IF calm THEN "catchup" ELSE "live"
            /\ replay' = (open \/ reorg \/ calm)
  BY DEF StartRange, KeepsCatchup
<1>2. catchup /\ ~ reorg => calm
  OBVIOUS
<1> HIDE DEF calm
<1>3. CASE pc' = "idle" /\ catching' = catchup /\ replay' = open
  BY <1>1, <1>3 DEF EnvelopeInv
<1>4. CASE /\ pc' = "fetch" /\ catching' = (catchup \/ calm) /\ replay' = (open \/ reorg \/ calm)
           /\ mode' = IF reorg THEN "reorg" ELSE IF calm THEN "catchup" ELSE "live"
  <2>1. CASE reorg
    BY <1>1, <1>4, <2>1 DEF EnvelopeInv
  <2>2. CASE ~ reorg /\ calm
    BY <1>1, <1>4, <2>2 DEF EnvelopeInv
  <2>3. CASE ~ reorg /\ ~ calm
    <3>1. ~ catchup /\ ~ open
      BY <1>2, <2>3
    <3>2. mode' = "live" /\ ~ replaying' /\ ~ catching' /\ ~ replay' /\ pc' = "fetch"
      BY <1>1, <1>4, <2>3, <3>1
    <3> QED BY <3>2 DEF EnvelopeInv
  <2> QED BY <1>1, <2>1, <2>2, <2>3
<1> QED BY <1>1, <1>3, <1>4

LEMMA WalkEnvelope ==
  ASSUME EnvelopeInv, pc # "discover", NEW n, NEW t, WalkFrom(n, t), UNCHANGED replaying
  PROVE  EnvelopeInv'
  BY DEF WalkFrom, BeginDiscovery, EnvelopeInv

LEMMA EmitEnvelope ==
  ASSUME EnvelopeInv, pc \in {"fetch", "parent"}, NEW b, NEW a, Emit(b, a)
  PROVE  EnvelopeInv'
<1> DEFINE done == at = tip
<1>1. /\ pc' \in {"idle", "fetch"} /\ mode' = mode
      /\ replaying' = (replaying /\ ~ done) /\ catching' = (catching /\ ~ done)
      /\ replay' = (replay /\ ~ (done /\ mode # "live"))
  BY DEF Emit
<1> HIDE DEF done
<1>2. CASE done
  BY <1>1, <1>2 DEF EnvelopeInv
<1>3. CASE ~ done
  BY <1>1, <1>3 DEF EnvelopeInv
<1> QED BY <1>2, <1>3

LEMMA RangeFailsEnvelope ==
  ASSUME EnvelopeInv, pc # "discover", NEW a, RangeFails(a)
  PROVE  EnvelopeInv'
  BY DEF RangeFails, PollFails, EnvelopeInv

LEMMA StepEnvelope ==
  ASSUME TypeInv, EnvelopeInv, [Next]_vars
  PROVE  EnvelopeInv'
<1>0. replay \in BOOLEAN /\ replaying \in BOOLEAN /\ catching \in BOOLEAN
  BY DEF TypeInv, TypeOK
<1>1. CASE UNCHANGED vars \/ Node
  <2>1. UNCHANGED <<replay, replaying, catching, pc, mode>>
    BY <1>1 DEF vars, pollState, call, Node, NodeMoves
  <2> QED BY <2>1 DEF EnvelopeInv
<1>2. CASE RunHydration
  BY <1>2 DEF RunHydration, BeginDiscovery, EnvelopeInv
<1>3. CASE PollOnce
  <2>1. CASE BeginDiscovery("retry", top)
    BY <1>3, <2>1 DEF BeginDiscovery, EnvelopeInv
  <2>2. CASE pc' \in {"anchor", "probe", "seed"} /\ UNCHANGED <<catching, replay, replaying>>
    BY <1>3, <2>2 DEF PollOnce, EnvelopeInv
  <2>3. CASE WalkFrom(top, top)
    BY <1>3, <2>3, WalkEnvelope DEF PollOnce
  <2> QED BY <1>3, <2>1, <2>2, <2>3 DEF PollOnce, FindChange
<1>4. CASE AnchorTip
  BY <1>4 DEF AnchorTip, PollFails, EnvelopeInv
<1>5. CASE SeedCursor
  <2>1. replay => replaying \/ catching
    BY <1>5 DEF SeedCursor, EnvelopeInv
  <2>2. CASE PollFails /\ UNCHANGED <<replaying, catching, replay>>
    BY <2>1, <2>2 DEF PollFails, EnvelopeInv
  <2>3. ASSUME NEW a, StartRange(a, lastTip, replaying, catching, replay) PROVE EnvelopeInv'
    BY <1>0, <2>1, <2>3, RangeEnvelope
  <2> QED BY <1>5, <2>2, <2>3 DEF SeedCursor
<1>6. CASE ProbeCursor
  <2>1. (replay => replaying \/ catching) /\ pc = "probe"
    BY <1>6 DEF ProbeCursor, EnvelopeInv
  <2>2. CASE PollFails /\ UNCHANGED <<replaying, catching, replay>>
    BY <2>1, <2>2 DEF PollFails, EnvelopeInv
  <2>3. CASE StartRange(anchors, lastTip, replaying, catching, replay)
    BY <1>0, <2>1, <2>3, RangeEnvelope
  <2>4. CASE WalkFrom(at, tip) /\ UNCHANGED replaying
    BY <2>1, <2>4, WalkEnvelope
  <2> QED BY <1>6, <2>2, <2>3, <2>4 DEF ProbeCursor
<1>7. CASE WalkBack
  <2>1. (replay => replaying \/ catching) /\ pc = "walk"
    BY <1>7 DEF WalkBack, EnvelopeInv
  <2>2. CASE PollFails /\ UNCHANGED <<replaying, catching, replay>>
    BY <2>1, <2>2 DEF PollFails, EnvelopeInv
  <2>3. CASE StartRange(Below(anchors, at + 1), at, TRUE, FALSE, replay \/ tip <= at)
    <3>1. PICK open \in BOOLEAN : open = (replay \/ tip <= at)
      OBVIOUS
    <3> QED BY <2>3, <3>1, RangeEnvelope
  <2>4. CASE WalkFrom(at - 1, tip) /\ UNCHANGED replaying
    BY <2>1, <2>4, WalkEnvelope
  <2> QED BY <1>7, <2>2, <2>3, <2>4 DEF WalkBack
<1>8. CASE FetchBlock
  <2>1. pc = "fetch"
    BY <1>8 DEF FetchBlock
  <2>2. CASE pc' \in {"parent", "idle"} /\ UNCHANGED <<pollState, mode, replay>>
    BY <2>1, <2>2 DEF pollState, EnvelopeInv
  <2>3. CASE Extend(chain[at], anchors) \/ RangeFails(anchors)
    BY <2>1, <2>3, EmitEnvelope, RangeFailsEnvelope DEF Extend
  <2> QED BY <1>8, <2>2, <2>3 DEF FetchBlock, PollFails
<1>9. CASE FetchParent
  <2>1. pc = "parent"
    BY <1>9 DEF FetchParent
  <2> QED BY <1>9, <2>1, EmitEnvelope, RangeFailsEnvelope DEF FetchParent, Extend
<1>10. CASE DiscoverBlock
  BY <1>10 DEF DiscoverBlock, pollState, EnvelopeInv
<1>11. CASE DiscoveryFails
  BY <1>11 DEF DiscoveryFails, EnvelopeInv
<1>12. CASE ReplayDiscovered
  BY <1>12 DEF ReplayDiscovered, EnvelopeInv
<1> QED BY <1>1, <1>2, <1>3, <1>4, <1>5, <1>6, <1>7, <1>8, <1>9, <1>10, <1>11, <1>12
        DEF Next, Poll, RpcAnswer, DiscoverGivesUp, VerifyWindow

(* An envelope left open between two polls (a BackfillProgress the galaxy  *)
(* shows as a replay under way) belongs to a flag that makes a later poll  *)
(* resume the range and close it.                                          *)
THEOREM EnvelopeIsResumed == Spec => []OpenEnvelopeIsResumed
<1>1. Init => EnvelopeInv
  BY DEF Init, EnvelopeInv
<1>2. TypeInv /\ EnvelopeInv /\ [Next]_vars => EnvelopeInv'
  BY StepEnvelope
<1>3. EnvelopeInv => OpenEnvelopeIsResumed
  BY DEF EnvelopeInv, OpenEnvelopeIsResumed
<1> QED BY <1>1, <1>2, <1>3, SyncInvariant, PTL DEF Spec

-----------------------------------------------------------------------------
(* Where published blocks come from: what a poll has in hand was canonical *)
(* since it read the tip.                                                  *)
SeenInv ==
  pc \notin {"idle", "boot"} =>
    /\ Range(chain) \subseteq seen
    /\ pc = "parent" => held \in seen
    /\ pc = "discover" => Range(got) \subseteq seen

(* The block an RPC answers is canonical now.                              *)
LEMMA AnswerIsSeen ==
  ASSUME TypeOK, SeenInv, pc \notin {"idle", "boot"}, NEW n \in Nat, Visible(n)
  PROVE  n \in DOMAIN chain /\ chain[n] \in seen
<1>1. n \in DOMAIN chain
  BY DEF Visible, TypeOK, NodeTypeOK
<1> QED BY <1>1 DEF SeenInv, Range

LEMMA StepSeen ==
  ASSUME TypeInv, SeenInv, [Next]_vars
  PROVE  SeenInv'
<1>1. CASE UNCHANGED vars
  BY <1>1 DEF vars, nodeVars, call, SeenInv, Range
<1>2. CASE Node
  <2>1. /\ UNCHANGED <<pc, held, got>>
        /\ seen' = IF pc \in {"idle", "boot"} THEN {} ELSE seen \cup Range(chain')
    BY <1>2 DEF Node, NodeMoves, call
  <2> QED BY <2>1 DEF SeenInv
<1>3. CASE Poll
  <2>0. RpcAnswer /\ seen' = IF pc' = "idle" THEN {}
                             ELSE IF pc \in {"idle", "boot"} THEN Range(chain) ELSE seen
    BY <1>3 DEF Poll
  <2>1. UNCHANGED chain
    BY <2>0 DEF RpcAnswer, RunHydration, PollOnce, AnchorTip, SeedCursor, ProbeCursor, WalkBack,
         FetchBlock, FetchParent, DiscoverBlock, DiscoverGivesUp, VerifyWindow, nodeVars
  <2>2. CASE RunHydration \/ PollOnce
    <3>1. pc \in {"idle", "boot"} /\ pc' # "parent"
          /\ (pc' = "discover" => got' = NoBlocks)
      BY <2>2 DEF RunHydration, PollOnce, FindChange, WalkFrom, BeginDiscovery
    <3>2. Range(NoBlocks) = {}
      BY NoBlocksFacts DEF Range
    <3> QED BY <2>0, <2>1, <3>1, <3>2 DEF SeenInv
  <2>3. CASE AnchorTip \/ SeedCursor \/ ProbeCursor \/ WalkBack
    <3>1. pc \notin {"idle", "boot"} /\ pc' # "parent"
          /\ (pc' = "discover" => got' = NoBlocks)
      BY <2>3 DEF AnchorTip, SeedCursor, ProbeCursor, WalkBack, WalkFrom, BeginDiscovery,
           StartRange, PollFails
    <3>2. Range(NoBlocks) = {}
      BY NoBlocksFacts DEF Range
    <3> QED BY <2>0, <2>1, <3>1, <3>2 DEF SeenInv
  <2>4. CASE FetchBlock
    <3>1. /\ pc = "fetch" /\ pc' # "discover"
          /\ pc' = "parent" => Visible(at) /\ held' = chain[at]
      BY <2>4 DEF FetchBlock, Extend, Emit, RangeFails, PollFails
    <3>2. pc' = "parent" => held' \in seen
      BY <3>1, AnswerIsSeen DEF TypeInv, TypeOK
    <3> QED BY <2>0, <2>1, <3>1, <3>2 DEF SeenInv
  <2>5. CASE FetchParent
    <3>1. pc = "parent" /\ pc' \notin {"discover", "parent"}
      BY <2>5 DEF FetchParent, Extend, Emit, RangeFails, PollFails
    <3> QED BY <2>0, <2>1, <3>1 DEF SeenInv
  <2>6. CASE DiscoverBlock
    <3>1. PICK n \in at .. tip \ DOMAIN got : Visible(n) /\ got' = Put(got, n, chain[n])
      BY <2>6 DEF DiscoverBlock
    <3>2. pc = "discover" /\ UNCHANGED pc /\ n \in Nat
      BY <2>6 DEF DiscoverBlock, TypeInv, TypeOK
    <3>3. chain[n] \in seen
      BY <3>1, <3>2, AnswerIsSeen DEF TypeInv
    <3>4. Range(got') \subseteq Range(got) \cup {chain[n]}
      BY <3>1 DEF Range, Put
    <3> QED BY <2>0, <2>1, <3>2, <3>3, <3>4 DEF SeenInv
  <2>7. CASE DiscoverGivesUp \/ VerifyWindow
    <3>1. pc = "discover" /\ pc' \notin {"discover", "parent"}
      BY <2>7 DEF DiscoverGivesUp, VerifyWindow, DiscoveryFails, ReplayDiscovered
    <3> QED BY <2>0, <2>1, <3>1 DEF SeenInv
  <2> QED BY <2>0, <2>2, <2>3, <2>4, <2>5, <2>6, <2>7 DEF RpcAnswer
<1> QED BY <1>1, <1>2, <1>3 DEF Next

(* The ring's top after a mined block, a rollback and an adopted window.   *)
LEMMA MinedTop ==
  ASSUME NEW b, NEW n \in Nat, NEW r
  PROVE  n \in DOMAIN RecentMined(r, n, b) /\ RecentMined(r, n, b)[n] = b
<1>1. CASE n \in DOMAIN r /\ r[n] = b
  BY <1>1 DEF RecentMined
<1>2. CASE ~ (n \in DOMAIN r /\ r[n] = b)
  <2>1. PICK f : f = IF n \in DOMAIN r THEN Below(r, n) ELSE r
    OBVIOUS
  <2>2. RecentMined(r, n, b) = Newest(Put(f, n, b), RecentCap, n)
    BY <1>2, <2>1 DEF RecentMined
  <2>3. n \in DOMAIN Put(f, n, b) /\ Put(f, n, b)[n] = b
    BY DEF Put
  <2>4. n + RecentCap > n
    OBVIOUS
  <2> QED BY <2>2, <2>3, <2>4 DEF Newest, Restrict
<1> QED BY <1>1, <1>2

LEMMA AdoptedTop ==
  ASSUME TypeInv, pc = "discover", DOMAIN got = at .. tip, ReplayDiscovered
  PROVE  tip \in DOMAIN recent' /\ recent'[tip] = got[tip] /\ lastTip' = tip
         /\ got[tip] \in Range(got)
<1>1. at \in Nat /\ tip \in Nat /\ at <= tip
  BY WindowType
<1>2. tip \in DOMAIN got
  BY <1>1
<1>3. PICK f : f = IF mode = "rebuild" THEN got ELSE Over(got, recent)
  OBVIOUS
<1>4. recent' = Newest(f, RecentCap, tip) /\ lastTip' = tip
  BY <1>3 DEF ReplayDiscovered
<1>5. tip \in DOMAIN f /\ f[tip] = got[tip]
  BY <1>2, <1>3 DEF Over
<1>6. tip + RecentCap > tip
  BY <1>1
<1> QED BY <1>2, <1>4, <1>5, <1>6 DEF Newest, Restrict, Range

(* Every view the ring ever shows is a view the chain really had: its new  *)
(* top was canonical since the poll that published it read the tip.        *)
THEOREM PublishedWasCanonical == Spec => ViewsWereCanonical
<1> DEFINE Shown == recent' # recent /\ recent' # NoBlocks
           Good  == lastTip' \in DOMAIN recent' /\ recent'[lastTip'] \in seen
<1>1. ASSUME TypeInv, RingInv, SeenInv, TypeInv', RingInv', [Next]_vars, Shown
      PROVE  Good
  <2>0. at \in Nat /\ tip \in Nat
    BY <1>1 DEF TypeInv, TypeOK
  <2>1. lastTip' \in DOMAIN recent'
    <3>1. DOMAIN recent' # {}
      BY <1>1 DEF TypeInv, TypeOK, PartialChain, NoBlocks
    <3> QED BY <1>1, <3>1 DEF RingInv, AnchorsMatchRecent
  <2>2. ASSUME NEW b, NEW a, Emit(b, a), b \in seen PROVE Good
    <3>1. recent' = RecentMined(recent, at, b) /\ lastTip' = at
      BY <2>2 DEF Emit
    <3> QED BY <2>0, <2>2, <3>1, MinedTop
  <2>3. CASE FetchBlock
    <3>1. pc = "fetch" /\ Visible(at) /\ Emit(chain[at], anchors)
      BY <1>1, <2>3 DEF FetchBlock, Extend, RangeFails, consumers
    <3>2. chain[at] \in seen
      BY <1>1, <2>0, <3>1, AnswerIsSeen DEF TypeInv
    <3> QED BY <2>2, <3>1, <3>2
  <2>4. CASE FetchParent
    <3>1. pc = "parent" /\ \E a : Emit(held, a)
      BY <1>1, <2>4 DEF FetchParent, Extend, RangeFails, consumers
    <3>2. held \in seen
      BY <1>1, <3>1 DEF SeenInv
    <3> QED BY <2>2, <3>1, <3>2
  <2>5. CASE WalkBack
    <3>1. /\ pc = "walk" /\ Visible(at) /\ StillCanonical(at)
          /\ recent' = Below(recent, at + 1) /\ lastTip' = at
      BY <1>1, <2>5 DEF WalkBack, consumers, Reorganized, StartRange
    <3>2. at \in DOMAIN anchors
      BY <1>1, <3>1 DEF RingInv, CursorPhase
    <3>3. at \in DOMAIN recent /\ recent'[at] = recent[at]
      BY <2>1, <3>1 DEF Below, Restrict
    <3>4. recent[at] = chain[at]
      BY <1>1, <3>1, <3>2, <3>3 DEF RingInv, AnchorsMatchRecent, StillCanonical
    <3>5. chain[at] \in seen
      BY <1>1, <2>0, <3>1, AnswerIsSeen DEF TypeInv
    <3> QED BY <2>1, <3>1, <3>3, <3>4, <3>5
  <2>6. CASE VerifyWindow
    <3>1. pc = "discover" /\ DOMAIN got = at .. tip /\ ReplayDiscovered
      BY <1>1, <2>6 DEF VerifyWindow, DiscoveryFails
    <3>2. Range(got) \subseteq seen
      BY <1>1, <3>1 DEF SeenInv
    <3>3. tip \in DOMAIN recent' /\ recent'[tip] = got[tip] /\ lastTip' = tip
          /\ got[tip] \in Range(got)
      BY <1>1, <3>1, AdoptedTop
    <3> QED BY <3>2, <3>3
  <2>7. FetchBlock \/ FetchParent \/ WalkBack \/ VerifyWindow
    <3>1. \/ UNCHANGED vars \/ Node \/ RunHydration \/ PollOnce \/ AnchorTip \/ SeedCursor
          \/ ProbeCursor \/ DiscoverBlock \/ DiscoverGivesUp
          => UNCHANGED recent
      BY DEF vars, Node, NodeMoves, RunHydration, PollOnce, AnchorTip, SeedCursor, ProbeCursor,
             DiscoverBlock, DiscoverGivesUp, DiscoveryFails, consumers
    <3> QED BY <1>1, <3>1 DEF Next, Poll, RpcAnswer
  <2> QED BY <2>3, <2>4, <2>5, <2>6, <2>7
<1>2. Init => SeenInv
  BY DEF Init, SeenInv
<1>3. TypeInv /\ SeenInv /\ [Next]_vars => SeenInv'
  BY StepSeen
<1>4. TypeInv /\ RingInv /\ SeenInv /\ TypeInv' /\ RingInv' /\ [Next]_vars => [Shown => Good]_vars
  BY <1>1
<1> QED BY <1>2, <1>3, <1>4, SyncInvariant, PTL DEF Spec, ViewsWereCanonical

-----------------------------------------------------------------------------
(* The ring implements CanonicalFollower.                                  *)

(* The follower speaks of partial chains as BlockTree does.                *)
LEMMA FollowerOps ==
  /\ \A f : Follower!IsSegment(f) <=> IsSegment(f)
  /\ \A f, n : Follower!Below(f, n) = Below(f, n)
  /\ \A f, n, b : Follower!Put(f, n, b) = Put(f, n, b)
  /\ \A f, k, n : Follower!Newest(f, k, n) = Newest(f, k, n)
  /\ Follower!NoBlocks = NoBlocks
  BY DEF Follower!IsSegment, Follower!Linked, Follower!Unbroken, IsSegment, Linked, Unbroken,
         Follower!Below, Follower!Restrict, Below, Restrict, Follower!Put, Put,
         Follower!Newest, Newest, Follower!NoBlocks, NoBlocks

(* Publishing a block mines it: it is the child of the ring's top.         *)
LEMMA EmitMines ==
  ASSUME TypeInv, RingInv, pc \in {"fetch", "parent"},
         NEW b \in Blocks, Height[b] = at,
         NEW a, a[lastTip] = Parent[b], lastTip \in DOMAIN a,
         \A h \in DOMAIN a \cap DOMAIN recent : a[h] = recent[h],
         Emit(b, a)
  PROVE  Follower!Mine
<1>1. lastTip \in Nat /\ at = lastTip + 1 /\ PartialChain(recent)
  BY NoRetryOwed DEF TypeInv, TypeOK, RingInv, CursorPhase
<1>2. \A h \in DOMAIN recent : h <= lastTip /\ lastTip \in DOMAIN recent
  BY DEF RingInv, AnchorsMatchRecent
<1>3. at \notin DOMAIN recent /\ \A h \in DOMAIN recent : h < at
  BY <1>1, <1>2 DEF PartialChain
<1>4. recent = NoBlocks \/ \E h \in DOMAIN recent : recent[h] = Parent[b] /\ h + 1 = at
  <2>1. CASE DOMAIN recent = {}
    BY <1>1, <2>1 DEF PartialChain, NoBlocks
  <2>2. CASE DOMAIN recent # {}
    BY <1>1, <1>2, <2>2
  <2> QED BY <2>1, <2>2
<1>5. recent' = Newest(Put(recent, at, b), RecentCap, at)
  BY <1>3 DEF Emit, RecentMined
<1>6. replay' \in {replay, FALSE}
  <2>1. replay \in BOOLEAN
    BY DEF TypeInv, TypeOK
  <2>2. replay' = (replay /\ ~ (at = tip /\ mode # "live"))
    BY DEF Emit
  <2> QED BY <2>1, <2>2
<1> QED BY <1>3, <1>4, <1>5, <1>6, FollowerOps DEF Follower!Mine

(* A rollback retracts what lies above the anchor the node agrees with, or *)
(* only announces the replay when nothing does.                            *)
LEMMA RollbackRetracts ==
  ASSUME TypeInv, RingInv, TypeInv', pc = "walk", recent' = Below(recent, at + 1),
         replay => replay'
  PROVE  Follower!Retract \/ Follower!Announce
<1>1. /\ at \in Nat /\ lastTip \in Nat /\ at <= lastTip /\ PartialChain(recent)
      /\ replay \in BOOLEAN /\ replay' \in BOOLEAN
  BY DEF TypeInv, TypeOK, RingInv, CursorPhase
<1>2. \A h \in DOMAIN recent : h <= lastTip /\ lastTip \in DOMAIN recent
  BY DEF RingInv, AnchorsMatchRecent
<1>3. CASE at < lastTip /\ DOMAIN recent # {}
  <2>1. lastTip \in DOMAIN recent /\ at + 1 \in 0 .. lastTip
    BY <1>1, <1>2, <1>3
  <2>2. replay' \in {replay, TRUE}
    BY <1>1
  <2>3. \A n : Follower!Below(recent, n) = Below(recent, n)
    BY FollowerOps
  <2>4. recent' = Follower!Below(recent, at + 1)
    BY <2>3
  <2>5. Follower!Retract
    BY <2>1, <2>2, <2>4 DEF Follower!Retract
  <2> QED BY <2>5
<1>4. CASE at = lastTip \/ DOMAIN recent = {}
  <2>1. \A h \in DOMAIN recent : h \in Nat /\ h < at + 1
    BY <1>1, <1>2, <1>4 DEF PartialChain
  <2>2. {h \in DOMAIN recent : h < at + 1} = DOMAIN recent
    BY <2>1
  <2>3. recent' = recent
    BY <1>1, <2>2 DEF Below, Restrict, PartialChain
  <2> QED BY <1>1, <2>3 DEF Follower!Announce
<1>5. at < lastTip \/ at = lastTip
  BY <1>1
<1> QED BY <1>3, <1>4, <1>5, Zenon

(* Every step of the synchronisation is one of the follower's, or none.    *)
LEMMA StepFollows ==
  ASSUME TypeInv, RingInv, EnvelopeInv, TypeInv', RingInv', EnvelopeInv', [Next]_vars
  PROVE  Follower!Next \/ UNCHANGED <<recent, replay>>
<1>1. replay' \in BOOLEAN
  BY DEF TypeInv, TypeOK
<1>2. CASE UNCHANGED recent
  BY <1>1, <1>2 DEF Follower!Next, Follower!Announce
<1>3. CASE FetchBlock /\ recent' # recent
  <2>1. pc = "fetch" /\ Visible(at) /\ at - 1 \in DOMAIN anchors
        /\ Emit(chain[at], anchors) /\ Parent[chain[at]] = anchors[at - 1]
    BY <1>3 DEF FetchBlock, Extend, RangeFails, consumers
  <2>2. lastTip \in Nat /\ at = lastTip + 1 /\ at - 1 = lastTip /\ at \in Nat
    BY <2>1, NoRetryOwed DEF TypeInv, TypeOK, RingInv, CursorPhase
  <2>3. chain[at] \in Blocks /\ Height[chain[at]] = at
    <3>1. chain[at] \in Blocks
      BY <2>1, <2>2, AnswerIsBlock DEF Visible, TypeInv
    <3>2. at \in DOMAIN chain
      BY <2>1, <2>2 DEF Visible, TypeInv, TypeOK, NodeTypeOK
    <3> QED BY <3>1, <3>2 DEF RingInv, Linked
  <2>4. \A h \in DOMAIN anchors \cap DOMAIN recent : anchors[h] = recent[h]
    BY DEF RingInv, AnchorsMatchRecent
  <2>5. Follower!Mine
    BY <2>1, <2>2, <2>3, <2>4, EmitMines
  <2> QED BY <2>5 DEF Follower!Next
<1>4. CASE FetchParent /\ recent' # recent
  <2> DEFINE a == Put(anchors, at - 1, chain[at - 1])
  <2>1. pc = "parent" /\ Emit(held, a) /\ Parent[held] = a[at - 1]
    BY <1>4 DEF FetchParent, Extend, RangeFails, consumers
  <2>2. /\ lastTip \in Nat /\ at - 1 = lastTip /\ Height[held] = at /\ held \in Blocks
        /\ lastTip \notin DOMAIN anchors
    BY <2>1, NoRetryOwed DEF TypeInv, TypeOK, RingInv, CursorPhase
  <2>3. lastTip \in DOMAIN a
    BY <2>2 DEF Put
  <2>4. DOMAIN recent = {}
    BY <2>2 DEF RingInv, AnchorsMatchRecent
  <2> HIDE DEF a
  <2>5. Follower!Mine
    BY <2>1, <2>2, <2>3, <2>4, EmitMines
  <2> QED BY <2>5 DEF Follower!Next
<1>5. CASE WalkBack /\ recent' # recent
  <2>1. /\ pc = "walk" /\ recent' = Below(recent, at + 1)
        /\ StartRange(Below(anchors, at + 1), at, TRUE, FALSE, replay \/ tip <= at)
    BY <1>5 DEF WalkBack, consumers, Reorganized
  <2>2. replay => replay'
    BY <2>1 DEF StartRange
  <2> QED BY <2>1, <2>2, RollbackRetracts DEF Follower!Next
<1>6. CASE VerifyWindow /\ recent' # recent
  <2>1. pc = "discover" /\ DOMAIN got = at .. tip /\ ReplayDiscovered
    BY <1>6 DEF VerifyWindow, DiscoveryFails
  <2>2. replay /\ replay' = FALSE
    BY <2>1 DEF EnvelopeInv, ReplayDiscovered
  <2>3. recent' # NoBlocks
    BY <2>1, AdoptedTop, NoBlocksFacts
  <2>4. IsSegment(recent')
    BY DEF RingInv, RecentIsOneBranch
  <2>5. Follower!Adopt
    BY <2>2, <2>3, <2>4, FollowerOps DEF Follower!Adopt
  <2> QED BY <2>5 DEF Follower!Next
<1>7. UNCHANGED recent \/ FetchBlock \/ FetchParent \/ WalkBack \/ VerifyWindow
  BY DEF vars, Next, Poll, RpcAnswer, Node, NodeMoves, RunHydration, PollOnce, AnchorTip,
         SeedCursor, ProbeCursor, DiscoverBlock, DiscoverGivesUp, DiscoveryFails, consumers
<1> QED BY <1>2, <1>3, <1>4, <1>5, <1>6, <1>7

(* The ring a reader sees behaves like CanonicalFollower, for every tree,  *)
(* window and ring length: it grows by children of its top, is cut back at *)
(* a height, and is exchanged as a whole only under an open envelope.      *)
THEOREM RingFollowsChain == Spec => ImplementsFollower
<1>1. Init => Follower!Init
  <2>1. Init => RecentIsOneBranch /\ replay = FALSE
    BY InitRing DEF RingInv, Init
  <2> QED BY <2>1, FollowerOps DEF Follower!Init, RecentIsOneBranch
<1>2. /\ TypeInv /\ RingInv /\ EnvelopeInv /\ TypeInv' /\ RingInv' /\ EnvelopeInv' /\ [Next]_vars
      => [Follower!Next]_(Follower!fvars)
  BY StepFollows DEF Follower!fvars
<1>3. Init => EnvelopeInv
  BY DEF Init, EnvelopeInv
<1>4. TypeInv /\ EnvelopeInv /\ [Next]_vars => EnvelopeInv'
  BY StepEnvelope
<1> QED BY <1>1, <1>2, <1>3, <1>4, SyncInvariant, PTL DEF Spec, ImplementsFollower, Follower!Spec
-----------------------------------------------------------------------------
(* The galaxy.  It holds blocks up to the cursor only, of one branch, the  *)
(* ring's and the journal's among them; and from any height the journal    *)
(* knows on, it knows everything the galaxy holds, so that undoing the     *)
(* journal from there on leaves nothing behind.                            *)
GalaxyInv ==
  /\ \A b \in galaxy : lastTip \in Nat /\ Height[b] <= lastTip
  /\ GalaxyIsOneBranch
  /\ GalaxyHoldsRecent
  /\ \A h \in DOMAIN journal : journal[h] \in galaxy /\ Height[journal[h]] = h
  /\ \A b \in galaxy, h \in DOMAIN journal : Height[b] >= h => Height[b] \in DOMAIN journal

ShallowStep == pc = "walk" /\ lastTip' < lastTip => lastTip' + 1 \in DOMAIN journal

(* The galaxy of a saved or discovered segment.                            *)
LEMMA SegmentGalaxy ==
  ASSUME NEW f, PartialChain(f), IsSegment(f), lastTip \in Nat,
         \A h \in DOMAIN f : h <= lastTip, NEW k \in Int,
         galaxy = Range(f), journal = Newest(f, JournalCap, k),
         \A h \in DOMAIN recent : h \in DOMAIN f /\ recent[h] = f[h]
  PROVE  GalaxyInv
<1>1. \A h \in DOMAIN f : h \in Nat /\ Height[f[h]] = h /\ f[h] \in galaxy
  BY DEF PartialChain, IsSegment, Linked, Range
<1>2. \A b \in galaxy : \E h \in DOMAIN f : b = f[h]
  BY DEF Range
<1>3. /\ \A h \in DOMAIN journal : h \in DOMAIN f /\ journal[h] = f[h] /\ h + JournalCap > k
      /\ \A h \in DOMAIN f : h + JournalCap > k => h \in DOMAIN journal
  BY DEF Newest, Restrict
<1>4. GalaxyIsOneBranch
  BY <1>1, <1>2 DEF GalaxyIsOneBranch
<1>5. GalaxyHoldsRecent
  BY <1>1 DEF GalaxyHoldsRecent, Range
<1>6. ASSUME NEW b \in galaxy, NEW h \in DOMAIN journal, Height[b] >= h
      PROVE  Height[b] \in DOMAIN journal
  <2>1. Height[b] \in DOMAIN f /\ Height[b] \in Nat /\ h \in Nat
    BY <1>1, <1>2, <1>3
  <2>2. Height[b] + JournalCap > k
    BY <1>3, <1>6, <2>1, CapsType
  <2> QED BY <1>3, <2>1, <2>2
<1> QED BY <1>1, <1>2, <1>3, <1>4, <1>5, <1>6 DEF GalaxyInv

(* Without a cursor nothing was published.                                 *)
LEMMA NoCursorNoGalaxy ==
  ASSUME GalaxyInv, lastTip = NoTip
  PROVE  galaxy = {} /\ DOMAIN journal = {} /\ DOMAIN recent = {}
<1>1. galaxy = {}
  BY DEF GalaxyInv, NoTip
<1>2. DOMAIN journal = {}
  BY <1>1 DEF GalaxyInv
<1>3. DOMAIN recent = {}
  <2>1. \A h \in DOMAIN recent : recent[h] \in Range(recent)
    BY DEF Range
  <2>2. Range(recent) \subseteq {}
    BY <1>1 DEF GalaxyInv, GalaxyHoldsRecent
  <2> QED BY <2>1, <2>2, Zenon
<1> QED BY <1>1, <1>2, <1>3

(* A process starts with an empty galaxy or that of a saved segment.       *)
LEMMA InitGalaxy == Init => GalaxyInv
<1> SUFFICES ASSUME Init PROVE GalaxyInv
  OBVIOUS
<1>1. CASE galaxy = {} /\ journal = NoBlocks /\ recent = NoBlocks
  BY <1>1, NoBlocksFacts DEF GalaxyInv, GalaxyIsOneBranch, GalaxyHoldsRecent, Range
<1>2. ASSUME NEW s \in Saved, lastTip = s.tip, galaxy = Range(s.blocks),
             recent = Newest(s.blocks, RecentCap, s.tip),
             journal = Newest(s.blocks, JournalCap, s.tip)
      PROVE  GalaxyInv
  <2>1. /\ PartialChain(s.blocks) /\ IsSegment(s.blocks) /\ s.tip \in Nat
        /\ \A h \in DOMAIN s.blocks : h <= s.tip
    BY DEF SyncAssumption
  <2>2. \A h \in DOMAIN recent : h \in DOMAIN s.blocks /\ recent[h] = s.blocks[h]
    BY <1>2 DEF Newest, Restrict
  <2> QED BY <1>2, <2>1, <2>2, SegmentGalaxy
<1> QED BY <1>1, <1>2 DEF Init

(* A step that leaves the consumers alone, and the cursor unless it is the *)
(* first one.                                                              *)
LEMMA SameGalaxy ==
  ASSUME GalaxyInv, UNCHANGED <<galaxy, journal, recent>>,
         lastTip' = lastTip \/ lastTip = NoTip
  PROVE  GalaxyInv'
<1>1. CASE lastTip' = lastTip
  BY <1>1 DEF GalaxyInv, GalaxyIsOneBranch, GalaxyHoldsRecent
<1>2. CASE lastTip = NoTip
  BY <1>2, NoCursorNoGalaxy DEF GalaxyInv, GalaxyIsOneBranch, GalaxyHoldsRecent, Range
<1> QED BY <1>1, <1>2

(* A rollback within the journal takes away exactly what is above it.      *)
LEMMA RollbackGalaxy ==
  ASSUME TypeInv, GalaxyInv, RecentIsOneBranch, lastTip \in Nat, NEW n \in Nat, n <= lastTip,
         n < lastTip => n + 1 \in DOMAIN journal, Reorganized(n + 1), lastTip' = n
  PROVE  GalaxyInv'
<1>1. /\ \A b \in galaxy : b \in Blocks /\ Height[b] \in Nat /\ Height[b] <= lastTip
      /\ \A h \in DOMAIN journal : h \in Nat /\ h <= lastTip
  BY DEF TypeInv, TypeOK, PartialChain, GalaxyInv
<1>2. ~ TooDeep(n + 1)
  BY <1>1 DEF TooDeep
<1>3. /\ galaxy' = galaxy \ Undone(n + 1) /\ journal' = Below(journal, n + 1)
      /\ recent' = Below(recent, n + 1)
  BY <1>2 DEF Reorganized, RolledBack, RolledJournal
<1>4. ASSUME NEW b \in galaxy PROVE b \in galaxy' <=> Height[b] <= n
  <2>1. ASSUME b \in Undone(n + 1) PROVE Height[b] > n
    BY <1>1, <2>1 DEF Undone, GalaxyInv
  <2>2. ASSUME Height[b] > n PROVE b \in Undone(n + 1)
    <3>1. n < lastTip
      BY <1>1, <2>2
    <3>2. Height[b] \in DOMAIN journal
      BY <1>1, <2>2, <3>1 DEF GalaxyInv
    <3>3. journal[Height[b]] = b
      BY <1>1, <3>2 DEF GalaxyInv, GalaxyIsOneBranch
    <3> QED BY <1>1, <2>2, <3>2, <3>3 DEF Undone
  <2> QED BY <1>1, <1>3, <2>1, <2>2
<1>5. /\ \A h \in DOMAIN journal' : h \in DOMAIN journal /\ h <= n /\ journal'[h] = journal[h]
      /\ \A h \in DOMAIN journal : h <= n => h \in DOMAIN journal'
  BY <1>1, <1>3 DEF Below, Restrict
<1>6. \A b \in galaxy' : b \in galaxy /\ Height[b] <= n
  BY <1>3, <1>4
<1>7. GalaxyHoldsRecent'
  <2> SUFFICES ASSUME NEW h \in DOMAIN recent' PROVE recent'[h] \in galaxy'
    BY DEF GalaxyHoldsRecent, Range
  <2>1. h \in DOMAIN recent /\ h <= n /\ recent'[h] = recent[h]
    BY <1>3 DEF Below, Restrict, TypeInv, TypeOK, PartialChain
  <2>2. recent[h] \in galaxy /\ Height[recent[h]] = h
    BY <2>1 DEF GalaxyInv, GalaxyHoldsRecent, Range, RecentIsOneBranch, IsSegment, Linked
  <2> QED BY <1>4, <2>1, <2>2
<1>8. GalaxyIsOneBranch'
  BY <1>6 DEF GalaxyInv, GalaxyIsOneBranch
<1>9. ASSUME NEW h \in DOMAIN journal'
      PROVE  journal'[h] \in galaxy' /\ Height[journal'[h]] = h
  <2>1. journal[h] \in galaxy /\ Height[journal[h]] = h
    BY <1>5 DEF GalaxyInv
  <2> QED BY <1>4, <1>5, <2>1
<1>10. ASSUME NEW b \in galaxy', NEW h \in DOMAIN journal', Height[b] >= h
       PROVE  Height[b] \in DOMAIN journal'
  BY <1>5, <1>6, <1>10 DEF GalaxyInv
<1> QED BY <1>6, <1>7, <1>8, <1>9, <1>10 DEF GalaxyInv

(* A published block is above all the galaxy holds.                        *)
LEMMA EmitGalaxy ==
  ASSUME TypeInv, RingInv, GalaxyInv, pc \in {"fetch", "parent"},
         NEW b \in Blocks, Height[b] = at, NEW a, Emit(b, a)
  PROVE  GalaxyInv'
<1>1. lastTip \in Nat /\ at = lastTip + 1 /\ lastTip' = at /\ JournalCap \in Nat \ {0}
  BY NoRetryOwed, CapsType DEF TypeInv, TypeOK, RingInv, CursorPhase, Emit
<1>2. /\ \A c \in galaxy : c \in Blocks /\ Height[c] \in Nat /\ Height[c] < at
      /\ \A h \in DOMAIN journal : h \in Nat /\ h < at
  BY <1>1 DEF TypeInv, TypeOK, PartialChain, GalaxyInv
<1>3. /\ galaxy' = galaxy \cup {b}
      /\ journal' = Newest(Put(journal, at, b), JournalCap, at)
  BY <1>2 DEF Emit, GalaxyMined, JournalMined, Replaces
<1>4. /\ \A h \in DOMAIN journal' : \/ h \in DOMAIN journal /\ journal'[h] = journal[h]
                                    \/ h = at /\ journal'[h] = b
      /\ \A h \in DOMAIN journal' : h + JournalCap > at
      /\ \A h \in DOMAIN journal \cup {at} : h + JournalCap > at => h \in DOMAIN journal'
  <2>1. /\ DOMAIN Put(journal, at, b) = DOMAIN journal \cup {at}
        /\ \A h \in DOMAIN journal \cup {at} :
             Put(journal, at, b)[h] = IF h = at THEN b ELSE journal[h]
    BY DEF Put
  <2> QED BY <1>2, <1>3, <2>1 DEF Newest, Restrict
<1>5. GalaxyIsOneBranch'
  BY <1>2, <1>3 DEF GalaxyInv, GalaxyIsOneBranch
<1>6. GalaxyHoldsRecent'
  <2>1. \A h \in DOMAIN recent : h # at
    BY <1>1 DEF RingInv, AnchorsMatchRecent, TypeInv, TypeOK, PartialChain
  <2>2. recent' = Newest(Put(recent, at, b), RecentCap, at)
    BY <2>1 DEF Emit, RecentMined
  <2>3. \A h \in DOMAIN recent' : recent'[h] = b \/ (h \in DOMAIN recent /\ recent'[h] = recent[h])
    BY <2>2 DEF Newest, Put, Restrict
  <2> QED BY <1>3, <2>3 DEF GalaxyInv, GalaxyHoldsRecent, Range
<1>7. ASSUME NEW h \in DOMAIN journal'
      PROVE  journal'[h] \in galaxy' /\ Height[journal'[h]] = h
  BY <1>3, <1>4 DEF GalaxyInv
<1>8. ASSUME NEW c \in galaxy', NEW h \in DOMAIN journal', Height[c] >= h
      PROVE  Height[c] \in DOMAIN journal'
  <2>1. CASE c = b
    BY <1>1, <1>4, <2>1
  <2>2. CASE c # b
    <3>1. c \in galaxy /\ Height[c] < at /\ Height[c] \in Nat
      BY <1>2, <1>3, <2>2
    <3>2. h \in DOMAIN journal /\ h \in Nat
      BY <1>1, <1>2, <1>4, <1>8, <3>1
    <3>3. Height[c] \in DOMAIN journal
      BY <1>8, <3>1, <3>2 DEF GalaxyInv
    <3>4. Height[c] + JournalCap > at
      BY <1>1, <1>4, <1>8, <3>1, <3>2
    <3> QED BY <1>4, <3>3, <3>4
  <2> QED BY <2>1, <2>2
<1>9. \A c \in galaxy' : lastTip' \in Nat /\ Height[c] <= lastTip'
  BY <1>1, <1>2, <1>3
<1> QED BY <1>5, <1>6, <1>7, <1>8, <1>9 DEF GalaxyInv

(* The same of the next state.                                             *)
LEMMA WindowGalaxy ==
  ASSUME at \in Nat, tip \in Nat, at <= tip, PartialChain(got), Linked(got),
         DOMAIN got = at .. tip, galaxy' = Range(got), lastTip' = tip,
         recent' = Newest(got, RecentCap, tip), journal' = Newest(got, JournalCap, tip)
  PROVE  GalaxyInv'
<1>1. \A h \in DOMAIN got : h \in Nat /\ h <= tip /\ Height[got[h]] = h /\ got[h] \in galaxy'
  BY DEF Linked, Range
<1>2. \A b \in galaxy' : \E h \in DOMAIN got : b = got[h]
  BY DEF Range
<1>3. /\ \A h \in DOMAIN journal' : h \in DOMAIN got /\ journal'[h] = got[h] /\ h + JournalCap > tip
      /\ \A h \in DOMAIN got : h + JournalCap > tip => h \in DOMAIN journal'
  BY DEF Newest, Restrict
<1>4. GalaxyIsOneBranch'
  BY <1>1, <1>2 DEF GalaxyIsOneBranch
<1>5. GalaxyHoldsRecent'
  <2>1. \A h \in DOMAIN recent' : h \in DOMAIN got /\ recent'[h] = got[h]
    BY DEF Newest, Restrict
  <2> QED BY <1>1, <2>1 DEF GalaxyHoldsRecent, Range
<1>6. ASSUME NEW b \in galaxy', NEW h \in DOMAIN journal', Height[b] >= h
      PROVE  Height[b] \in DOMAIN journal'
  <2>1. Height[b] \in DOMAIN got /\ Height[b] \in Nat /\ h \in Nat
    BY <1>1, <1>2, <1>3
  <2>2. Height[b] + JournalCap > tip
    BY <1>3, <1>6, <2>1, CapsType
  <2> QED BY <1>3, <2>1, <2>2
<1>7. \A b \in galaxy' : lastTip' \in Nat /\ Height[b] <= lastTip'
  BY <1>1, <1>2
<1> QED BY <1>1, <1>3, <1>4, <1>5, <1>6, <1>7 DEF GalaxyInv

(* An adopted window is the galaxy: a rebuild empties it first, and every  *)
(* other hydration starts without a cursor.                                *)
LEMMA AdoptedGalaxy ==
  ASSUME TypeInv, RingInv, GalaxyInv, pc = "discover", DOMAIN got = at .. tip,
         Linked(got), ReplayDiscovered
  PROVE  GalaxyInv'
<1>1. /\ at \in Nat /\ tip \in Nat /\ at <= tip /\ PartialChain(got) /\ JournalCap \in Nat \ {0}
      /\ PartialChain(recent) /\ PartialChain(journal) /\ DOMAIN got = at .. tip
  BY WindowType, CapsType DEF TypeInv, TypeOK
<1>2. CASE mode = "rebuild"
  <2>1. galaxy' = Range(got) /\ recent' = Newest(got, RecentCap, tip)
        /\ journal' = Newest(got, JournalCap, tip) /\ lastTip' = tip
    BY <1>2 DEF ReplayDiscovered
  <2> QED BY <1>1, <2>1, WindowGalaxy
<1>3. CASE mode # "rebuild"
  <2>1. galaxy = {} /\ DOMAIN journal = {} /\ DOMAIN recent = {}
    BY <1>3, NoCursorNoGalaxy DEF RingInv, HydrationPhase
  <2>2. Over(got, recent) = got /\ Over(got, journal) = got
    BY <1>1, <2>1 DEF Over, PartialChain
  <2>3. galaxy' = Range(got) /\ recent' = Newest(got, RecentCap, tip)
        /\ journal' = Newest(got, JournalCap, tip) /\ lastTip' = tip
    BY <1>3, <2>1, <2>2 DEF ReplayDiscovered
  <2> QED BY <1>1, <2>3, WindowGalaxy
<1> QED BY <1>2, <1>3

(* A step that rolls back no further than the journal keeps the invariant. *)
LEMMA StepGalaxy ==
  ASSUME TypeInv, RingInv, GalaxyInv, [Next]_vars, [ShallowStep]_vars
  PROVE  GalaxyInv'
<1>1. CASE UNCHANGED <<galaxy, journal, recent, lastTip>>
  BY <1>1, SameGalaxy
<1>2. CASE AnchorTip
  <2>1. lastTip = NoTip /\ UNCHANGED <<galaxy, journal, recent>>
    BY <1>2 DEF AnchorTip, consumers, RingInv, CursorPhase
  <2> QED BY <2>1, SameGalaxy
<1>3. CASE SeedCursor \/ ProbeCursor
  <2>1. lastTip' = lastTip /\ UNCHANGED <<galaxy, journal, recent>>
    BY <1>3 DEF SeedCursor, ProbeCursor, StartRange, WalkFrom, consumers
  <2> QED BY <2>1, SameGalaxy
<1>4. CASE WalkBack
  <2>1. CASE Reorganized(at + 1) /\ lastTip' = at
    <3>1. pc = "walk" /\ at \in Nat /\ lastTip \in Nat /\ at <= lastTip
      BY <1>4 DEF WalkBack, RingInv, CursorPhase, TypeInv, TypeOK
    <3>2. at < lastTip => at + 1 \in DOMAIN journal
      BY <2>1, <3>1 DEF ShallowStep, vars, pollState
    <3> QED BY <2>1, <3>1, <3>2, RollbackGalaxy DEF RingInv
  <2>2. CASE UNCHANGED <<galaxy, journal, recent, lastTip>>
    BY <2>2, SameGalaxy
  <2> QED BY <1>4, <2>1, <2>2 DEF WalkBack, StartRange, consumers
<1>5. CASE FetchBlock
  <2>1. CASE pc = "fetch" /\ Visible(at) /\ Emit(chain[at], anchors)
    <3>1. at \in Nat
      BY DEF TypeInv, TypeOK
    <3>2. chain[at] \in Blocks /\ at \in DOMAIN chain
      BY <2>1, <3>1, AnswerIsBlock DEF Visible, TypeInv, TypeOK, NodeTypeOK
    <3>3. Height[chain[at]] = at
      BY <3>2 DEF RingInv, Linked
    <3> QED BY <2>1, <3>2, <3>3, EmitGalaxy
  <2>2. CASE UNCHANGED <<galaxy, journal, recent, lastTip>>
    BY <2>2, SameGalaxy
  <2> QED BY <1>5, <2>1, <2>2 DEF FetchBlock, Extend, RangeFails, consumers, pollState
<1>6. CASE FetchParent
  <2> DEFINE a == Put(anchors, at - 1, chain[at - 1])
  <2>1. CASE pc = "parent" /\ Emit(held, a)
    <3>1. held \in Blocks /\ Height[held] = at
      BY <2>1 DEF TypeInv, TypeOK, RingInv, CursorPhase
    <3> HIDE DEF a
    <3> QED BY <2>1, <3>1, EmitGalaxy
  <2>2. CASE UNCHANGED <<galaxy, journal, recent, lastTip>>
    BY <2>2, SameGalaxy
  <2> QED BY <1>6, <2>1, <2>2 DEF FetchParent, Extend, RangeFails, consumers, pollState
<1>7. CASE VerifyWindow
  BY <1>7, <1>1, AdoptedGalaxy DEF VerifyWindow, DiscoveryFails
<1>8. UNCHANGED <<galaxy, journal, recent, lastTip>> \/ AnchorTip \/ SeedCursor \/ ProbeCursor
      \/ WalkBack \/ FetchBlock \/ FetchParent \/ VerifyWindow
  BY DEF vars, Next, Poll, RpcAnswer, Node, NodeMoves, RunHydration, PollOnce, DiscoverBlock,
         DiscoverGivesUp, DiscoveryFails, consumers, pollState
<1> QED BY <1>1, <1>2, <1>3, <1>4, <1>5, <1>6, <1>7, <1>8

(* As long as no branch switch reaches below the undo journal, entity and  *)
(* galaxy follow the same chain (state.rs apply_chain_mutation, cells.rs   *)
(* handle_block_mined and rollback_from): the blocks the ring shows are    *)
(* blocks whose cells the galaxy holds, for every ring and journal length. *)
THEOREM GalaxyKeepsRecent == Spec /\ RollsBackWithinJournal => []GalaxyHoldsRecent
<1>1. Init => GalaxyInv
  BY InitGalaxy
<1>2. TypeInv /\ RingInv /\ GalaxyInv /\ [Next]_vars /\ [ShallowStep]_vars => GalaxyInv'
  BY StepGalaxy
<1>3. GalaxyInv => GalaxyHoldsRecent
  BY DEF GalaxyInv
<1>4. RollsBackWithinJournal => [][ShallowStep]_vars
  BY PTL DEF RollsBackWithinJournal, ShallowStep
<1> QED BY <1>1, <1>2, <1>3, <1>4, SyncInvariant, PTL DEF Spec

(* Under the same condition the galaxy never holds the cells of two blocks *)
(* of one height (rollback_from takes away exactly the abandoned branch).  *)
THEOREM GalaxyKeepsOneBranch == Spec /\ RollsBackWithinJournal => []GalaxyIsOneBranch
<1>1. Init => GalaxyInv
  BY InitGalaxy
<1>2. TypeInv /\ RingInv /\ GalaxyInv /\ [Next]_vars /\ [ShallowStep]_vars => GalaxyInv'
  BY StepGalaxy
<1>3. GalaxyInv => GalaxyIsOneBranch
  BY DEF GalaxyInv
<1>4. RollsBackWithinJournal => [][ShallowStep]_vars
  BY PTL DEF RollsBackWithinJournal, ShallowStep
<1> QED BY <1>1, <1>2, <1>3, <1>4, SyncInvariant, PTL DEF Spec

-----------------------------------------------------------------------------
(* Why no rollback should reach below the journal: the anchors, once       *)
(* pruned, reach one block below it, and whatever is deeper finds no       *)
(* anchor.  A boot takes more anchors than that (the whole ring, or the    *)
(* whole window), and keeps them until a poll first prunes them.           *)

AnchorsPruned ==
  lastTip # NoTip /\ \A h \in DOMAIN anchors : h + AnchorCap > lastTip

(* No branch switch is found before the anchors of the boot were pruned.   *)
RollsBackPruned == [][pc = "walk" /\ lastTip' < lastTip => AnchorsPruned]_vars

PrunedStep == pc = "walk" /\ lastTip' < lastTip => AnchorsPruned

(* The block above an anchor that pruning would keep can be undone.        *)
JournalReach ==
  /\ \A h \in DOMAIN anchors :
       h <= lastTip /\ (h < lastTip /\ h + AnchorCap > lastTip => h + 1 \in DOMAIN journal)
  /\ \A h \in DOMAIN journal : h <= lastTip

LEMMA WindowCaps ==
  ASSUME ReorgWindow >= 2
  PROVE  AnchorCap = JournalCap + 1 /\ AnchorCap \in Nat /\ JournalCap \in Nat \ {0}
  BY SyncAssumption DEF AnchorCap, JournalCap

LEMMA NoCursorNoAnchors ==
  ASSUME TypeInv, JournalReach, lastTip = NoTip
  PROVE  DOMAIN anchors = {} /\ DOMAIN journal = {}
<1>1. \A h \in DOMAIN anchors \cup DOMAIN journal : h \in Nat /\ h <= -1
  BY DEF JournalReach, NoTip, TypeInv, TypeOK, PartialChain
<1>2. \A h \in Nat : ~ (h <= -1)
  OBVIOUS
<1> QED BY <1>1, <1>2, Zenon

(* A saved ring is a segment up to the cursor.                             *)
LEMMA InitReach ==
  ASSUME Init, ReorgWindow >= 2
  PROVE  JournalReach
<1>2. CASE anchors = NoBlocks /\ journal = NoBlocks
  BY <1>2, NoBlocksFacts DEF JournalReach
<1>3. ASSUME NEW s \in Saved, lastTip = s.tip, anchors = recent,
             recent = Newest(s.blocks, RecentCap, s.tip),
             journal = Newest(s.blocks, JournalCap, s.tip)
      PROVE  JournalReach
  <2>1. /\ PartialChain(s.blocks) /\ IsSegment(s.blocks) /\ s.tip \in Nat
        /\ s.tip \in DOMAIN s.blocks /\ \A h \in DOMAIN s.blocks : h \in Nat /\ h <= s.tip
    BY DEF SyncAssumption, PartialChain
  <2>2. /\ \A h \in DOMAIN anchors : h \in DOMAIN s.blocks
        /\ \A h \in DOMAIN journal : h \in DOMAIN s.blocks
        /\ \A h \in DOMAIN s.blocks : h + JournalCap > s.tip => h \in DOMAIN journal
    BY <1>3 DEF Newest, Restrict
  <2>3. ASSUME NEW h \in DOMAIN anchors, h < lastTip, h + AnchorCap > lastTip
        PROVE  h + 1 \in DOMAIN journal
    <3>1. h \in Nat /\ h + 1 <= s.tip /\ h \in DOMAIN s.blocks
      BY <1>3, <2>1, <2>2, <2>3
    <3>2. h + 1 \in DOMAIN s.blocks
      BY <2>1, <3>1 DEF IsSegment, Unbroken
    <3>3. h + 1 + JournalCap > s.tip
      BY <1>3, <2>1, <2>3, <3>1, WindowCaps
    <3> QED BY <2>2, <3>2, <3>3
  <2> QED BY <1>3, <2>1, <2>2, <2>3 DEF JournalReach
<1> QED BY <1>2, <1>3 DEF Init

(* A range that starts at the cursor adds at most the cursor's own anchor. *)
LEMMA RangeReach ==
  ASSUME TypeInv, JournalReach, UNCHANGED journal, lastTip \in Nat, NEW r, NEW c, NEW o,
         NEW a, \A h \in DOMAIN a : h \in DOMAIN anchors \/ h = lastTip,
         StartRange(a, lastTip, r, c, o)
  PROVE  JournalReach'
<1>1. lastTip' = lastTip
  BY DEF StartRange
<1>2. \A h \in DOMAIN anchors' : h \in DOMAIN a
  BY DEF StartRange, PrunedAnchors, Newest, Restrict
<1> QED BY <1>1, <1>2 DEF JournalReach

(* A rollback cuts anchors and journal at the same height.                 *)
LEMMA RollbackReach ==
  ASSUME TypeInv, RingInv, JournalReach, pc = "walk", Reorganized(at + 1),
         at < lastTip => AnchorsPruned,
         StartRange(Below(anchors, at + 1), at, TRUE, FALSE, replay \/ tip <= at)
  PROVE  JournalReach'
<1>1. /\ at \in Nat /\ lastTip \in Nat /\ at <= lastTip /\ at \in DOMAIN anchors
      /\ lastTip' = at
      /\ \A h \in DOMAIN anchors : h \in Nat
      /\ \A h \in DOMAIN journal : h \in Nat /\ h <= lastTip
  BY DEF RingInv, CursorPhase, TypeInv, TypeOK, PartialChain, JournalReach, StartRange
<1>2. at < lastTip => at + 1 \in DOMAIN journal
  BY <1>1 DEF JournalReach, AnchorsPruned
<1>3. ~ TooDeep(at + 1)
  BY <1>1, <1>2 DEF TooDeep
<1>4. journal' = Below(journal, at + 1)
  BY <1>3 DEF Reorganized, RolledJournal
<1>5. DOMAIN journal' = {h \in DOMAIN journal : h < at + 1}
  BY <1>4 DEF Below, Restrict
<1>6. \A h \in DOMAIN anchors' : h \in DOMAIN anchors /\ h < at + 1
  BY DEF StartRange, PrunedAnchors, Newest, Below, Restrict
<1>7. ASSUME NEW h \in DOMAIN anchors'
      PROVE  h <= at /\ (h < at /\ h + AnchorCap > at => h + 1 \in DOMAIN journal')
  <2>1. h \in Nat /\ h <= at /\ h \in DOMAIN anchors
    BY <1>1, <1>6
  <2>2. ASSUME h < at, h + AnchorCap > at PROVE h + 1 \in DOMAIN journal'
    <3>1. h < lastTip /\ h + AnchorCap > lastTip
      <4>1. CASE at < lastTip
        BY <1>1, <2>1, <2>2, <4>1 DEF AnchorsPruned
      <4>2. CASE at = lastTip
        BY <2>2, <4>2
      <4> QED BY <1>1, <4>1, <4>2
    <3>2. h + 1 \in DOMAIN journal
      BY <2>1, <3>1 DEF JournalReach
    <3> QED BY <1>1, <1>5, <2>1, <2>2, <3>2
  <2> QED BY <2>1, <2>2
<1> QED BY <1>1, <1>5, <1>7 DEF JournalReach

(* A published block extends both, and both are pruned against it.         *)
LEMMA EmitReach ==
  ASSUME TypeInv, RingInv, JournalReach, ReorgWindow >= 2, pc \in {"fetch", "parent"},
         NEW b, NEW a, \A h \in DOMAIN a : h \in DOMAIN anchors \/ h = lastTip, Emit(b, a)
  PROVE  JournalReach'
<1>1. /\ lastTip \in Nat /\ at = lastTip + 1 /\ lastTip' = at
      /\ JournalCap \in Nat \ {0} /\ AnchorCap = JournalCap + 1
      /\ \A h \in DOMAIN anchors : h \in Nat
      /\ \A h \in DOMAIN journal : h \in Nat /\ h < at
  BY NoRetryOwed, WindowCaps
     DEF TypeInv, TypeOK, RingInv, CursorPhase, Emit, PartialChain, JournalReach
<1>2. journal' = Newest(Put(journal, at, b), JournalCap, at)
  BY <1>1 DEF Emit, JournalMined, Replaces
<1>3. DOMAIN journal' = {h \in DOMAIN journal \cup {at} : h + JournalCap > at}
  BY <1>2 DEF Newest, Put, Restrict
<1>4. DOMAIN anchors' = {h \in DOMAIN a \cup {at} : h + AnchorCap > at}
  BY DEF Emit, PrunedAnchors, Newest, Put, Restrict
<1>5. ASSUME NEW h \in DOMAIN anchors'
      PROVE  h <= at /\ (h < at /\ h + AnchorCap > at => h + 1 \in DOMAIN journal')
  <2>1. CASE h = at
    BY <1>1, <2>1
  <2>2. CASE h = lastTip
    BY <1>1, <1>3, <2>2
  <2>3. CASE h \in DOMAIN anchors /\ h # lastTip
    <3>1. h \in Nat /\ h < lastTip /\ h + AnchorCap > lastTip
      BY <1>1, <1>4, <2>3 DEF JournalReach
    <3>2. h + 1 \in DOMAIN journal
      BY <2>3, <3>1 DEF JournalReach
    <3>3. h + 1 + JournalCap > at
      BY <1>1, <1>4, <3>1
    <3> QED BY <1>1, <1>3, <3>1, <3>2, <3>3
  <2> QED BY <1>4, <2>1, <2>2, <2>3
<1> QED BY <1>1, <1>3, <1>5 DEF JournalReach

(* A verified window is undoable block by block, and its parent is the     *)
(* lowest anchor.                                                          *)
LEMMA WindowReach ==
  ASSUME TypeInv, RingInv, JournalReach, ReorgWindow >= 2, pc = "discover",
         DOMAIN got = at .. tip, ReplayDiscovered
  PROVE  JournalReach'
<1> DEFINE window == IF at = 0 THEN got ELSE Put(got, at - 1, Parent[got[at]])
           undo   == IF mode = "rebuild" THEN got ELSE Over(got, journal)
<1>1. /\ at \in Nat /\ tip \in Nat /\ at <= tip /\ PartialChain(got) /\ DOMAIN got = at .. tip
      /\ JournalCap \in Nat \ {0} /\ AnchorCap = JournalCap + 1
  BY WindowType, WindowCaps DEF TypeInv, TypeOK
<1>2. DOMAIN undo = at .. tip
  <2>1. CASE mode # "rebuild"
    <3>1. DOMAIN journal = {}
      BY <2>1, NoCursorNoAnchors DEF RingInv, HydrationPhase
    <3> QED BY <2>1, <3>1 DEF Over
  <2> QED BY <2>1
<1>3. mode = "run" => DOMAIN anchors = {}
  BY NoCursorNoAnchors DEF RingInv, HydrationPhase
<1>4. \A h \in DOMAIN window : h \in at .. tip \/ h = at - 1
  BY DEF Put
<1>5. journal' = Newest(undo, JournalCap, tip) /\ lastTip' = tip
  BY DEF ReplayDiscovered
<1>6. (anchors' = Over(window, anchors) /\ mode = "run") \/ anchors' = PrunedAnchors(window, tip)
  BY DEF ReplayDiscovered
<1> HIDE DEF window, undo
<1>7. \A h \in DOMAIN anchors' : h \in DOMAIN window
  BY <1>3, <1>6 DEF Over, PrunedAnchors, Newest, Restrict
<1>8. DOMAIN journal' = {h \in at .. tip : h + JournalCap > tip}
  BY <1>2, <1>5 DEF Newest, Restrict
<1>9. ASSUME NEW h \in DOMAIN anchors'
      PROVE  h <= tip /\ (h < tip /\ h + AnchorCap > tip => h + 1 \in DOMAIN journal')
  <2>1. h \in at .. tip \/ h = at - 1
    BY <1>4, <1>7
  <2> QED BY <1>1, <1>8, <2>1
<1> QED BY <1>1, <1>5, <1>8, <1>9 DEF JournalReach

(* A step that moves neither cursor nor journal and learns at most the     *)
(* cursor's anchor.                                                        *)
LEMMA SameReach ==
  ASSUME JournalReach, UNCHANGED <<lastTip, journal>>,
         \A h \in DOMAIN anchors' : h \in DOMAIN anchors \/ (h = lastTip /\ lastTip \in Nat)
  PROVE  JournalReach'
  BY DEF JournalReach

(* The first cursor finds nothing published.                               *)
LEMMA AnchorReach ==
  ASSUME TypeInv, RingInv, JournalReach, AnchorTip
  PROVE  JournalReach'
<1> DEFINE anchor == IF tip = 0 THEN 0 ELSE tip - 1
<1>1. DOMAIN anchors = {} /\ DOMAIN journal = {}
  BY NoCursorNoAnchors DEF AnchorTip, RingInv, CursorPhase
<1>2. UNCHANGED journal /\ anchor \in Int
  BY DEF AnchorTip, consumers, TypeInv, TypeOK
<1>3. CASE lastTip' = anchor
  <2>1. \A h \in DOMAIN anchors' : h \in DOMAIN anchors \/ h = anchor
    BY DEF AnchorTip, Put
  <2> QED BY <1>1, <1>2, <1>3, <2>1 DEF JournalReach
<1>4. CASE UNCHANGED <<lastTip, anchors>>
  BY <1>1, <1>2, <1>4 DEF JournalReach
<1> QED BY <1>3, <1>4 DEF AnchorTip

LEMMA StepReach ==
  ASSUME TypeInv, RingInv, JournalReach, ReorgWindow >= 2, [Next]_vars, [PrunedStep]_vars
  PROVE  JournalReach'
<1>1. CASE UNCHANGED <<lastTip, anchors, journal>>
  BY <1>1, SameReach
<1>2. CASE AnchorTip
  BY <1>2, AnchorReach
<1>3. CASE SeedCursor
  <2>1. at = lastTip /\ lastTip \in Nat /\ UNCHANGED journal
    BY <1>3 DEF SeedCursor, RingInv, CursorPhase, consumers
  <2>2. \A h \in DOMAIN Put(anchors, at, chain[at]) : h \in DOMAIN anchors \/ h = lastTip
    BY <2>1 DEF Put
  <2>3. CASE StartRange(Put(anchors, at, chain[at]), lastTip, replaying, catching, replay)
    BY <2>1, <2>2, <2>3, RangeReach
  <2>4. CASE StartRange(anchors, lastTip, replaying, catching, replay)
    BY <2>1, <2>4, RangeReach
  <2>5. CASE UNCHANGED <<lastTip, anchors>>
    BY <2>1, <2>5, <1>1
  <2> QED BY <1>3, <2>3, <2>4, <2>5 DEF SeedCursor
<1>4. CASE ProbeCursor
  <2>1. lastTip \in Nat /\ UNCHANGED journal
    BY <1>4 DEF ProbeCursor, RingInv, CursorPhase, consumers
  <2>2. CASE StartRange(anchors, lastTip, replaying, catching, replay)
    BY <2>1, <2>2, RangeReach
  <2>3. CASE UNCHANGED <<lastTip, anchors>>
    BY <2>1, <2>3, <1>1
  <2> QED BY <1>4, <2>2, <2>3 DEF ProbeCursor
<1>5. CASE WalkBack
  <2>1. pc = "walk" /\ at \in Nat /\ lastTip \in Nat
    BY <1>5 DEF WalkBack, RingInv, CursorPhase, TypeInv, TypeOK
  <2>2. CASE /\ Reorganized(at + 1)
             /\ StartRange(Below(anchors, at + 1), at, TRUE, FALSE, replay \/ tip <= at)
    <3>1. lastTip' = at
      BY <2>2 DEF StartRange
    <3>2. at < lastTip => AnchorsPruned
      BY <2>1, <3>1 DEF PrunedStep, vars, pollState
    <3> QED BY <2>1, <2>2, <3>2, RollbackReach
  <2>3. CASE UNCHANGED <<lastTip, anchors, journal>>
    BY <2>3, <1>1
  <2> QED BY <1>5, <2>2, <2>3 DEF WalkBack, consumers
<1>6. CASE FetchBlock
  <2>1. pc = "fetch" /\ \A h \in DOMAIN anchors : h \in DOMAIN anchors \/ h = lastTip
    BY <1>6 DEF FetchBlock
  <2>2. CASE Emit(chain[at], anchors)
    BY <2>1, <2>2, EmitReach
  <2>3. CASE UNCHANGED <<lastTip, anchors, journal>>
    BY <2>3, <1>1
  <2> QED BY <1>6, <2>2, <2>3 DEF FetchBlock, Extend, RangeFails, consumers, pollState
<1>7. CASE FetchParent
  <2> DEFINE a == Put(anchors, at - 1, chain[at - 1])
  <2>1. pc = "parent" /\ lastTip \in Nat /\ at - 1 = lastTip
    BY <1>7 DEF FetchParent, RingInv, CursorPhase
  <2>2. \A h \in DOMAIN a : h \in DOMAIN anchors \/ h = lastTip
    BY <2>1 DEF Put
  <2>3. Emit(held, a) \/ RangeFails(a) \/ RangeFails(anchors)
    BY <1>7 DEF FetchParent, Extend
  <2> HIDE DEF a
  <2>4. CASE Emit(held, a)
    BY <2>1, <2>2, <2>4, EmitReach
  <2>5. CASE RangeFails(a) \/ RangeFails(anchors)
    BY <2>1, <2>2, <2>5, SameReach DEF RangeFails, consumers
  <2> QED BY <2>3, <2>4, <2>5
<1>8. CASE VerifyWindow
  <2>1. CASE ReplayDiscovered
    BY <1>8, <2>1, WindowReach DEF VerifyWindow
  <2>2. CASE DiscoveryFails
    BY <2>2, <1>1 DEF DiscoveryFails
  <2> QED BY <1>8, <2>1, <2>2 DEF VerifyWindow
<1>9. UNCHANGED <<lastTip, anchors, journal>> \/ AnchorTip \/ SeedCursor \/ ProbeCursor
      \/ WalkBack \/ FetchBlock \/ FetchParent \/ VerifyWindow
  BY DEF vars, Next, Poll, RpcAnswer, Node, NodeMoves, RunHydration, PollOnce, DiscoverBlock,
         DiscoverGivesUp, DiscoveryFails, consumers, pollState
<1> QED BY <1>1, <1>2, <1>3, <1>4, <1>5, <1>6, <1>7, <1>8, <1>9

(* A cursor moves down only to an anchor.                                  *)
LEMMA ReachIsShallow ==
  ASSUME TypeInv, RingInv, JournalReach, [Next]_vars, [PrunedStep]_vars
  PROVE  ShallowStep
<1> SUFFICES ASSUME pc = "walk", lastTip' < lastTip PROVE lastTip' + 1 \in DOMAIN journal
  BY DEF ShallowStep
<1>1. at \in DOMAIN anchors /\ lastTip \in Nat
  BY DEF RingInv, CursorPhase
<1>2. ~ (lastTip < lastTip)
  BY <1>1
<1>3. WalkBack
  BY <1>2 DEF Next, Poll, RpcAnswer, Node, NodeMoves, vars, pollState, RunHydration, PollOnce,
              AnchorTip, SeedCursor, ProbeCursor, FetchBlock, FetchParent, DiscoverBlock,
              DiscoverGivesUp, VerifyWindow
<1>4. lastTip' = at
  BY <1>2, <1>3 DEF WalkBack, StartRange
<1>5. AnchorsPruned
  BY <1>2 DEF PrunedStep, vars, pollState
<1> QED BY <1>1, <1>4, <1>5 DEF JournalReach, AnchorsPruned

LEMMA StepPruned ==
  ASSUME TypeInv, RingInv, [Next]_vars, AnchorsPruned
  PROVE  AnchorsPruned'
<1>1. lastTip \in Nat /\ AnchorCap \in Nat \ {0} /\ \A h \in DOMAIN anchors : h \in Nat
  BY SyncAssumption DEF AnchorsPruned, TypeInv, TypeOK, PartialChain, AnchorCap
<1>2. CASE UNCHANGED <<lastTip, anchors>>
  BY <1>2 DEF AnchorsPruned
<1>3. ASSUME NEW a, \A h \in DOMAIN a : h \in DOMAIN anchors \/ h = lastTip,
             NEW last \in Nat, last <= lastTip, NEW r, NEW c, NEW o, StartRange(a, last, r, c, o)
      PROVE  AnchorsPruned'
  <2>1. lastTip' = last /\ \A h \in DOMAIN anchors' : h \in DOMAIN a
    BY <1>3 DEF StartRange, PrunedAnchors, Newest, Restrict
  <2> QED BY <1>1, <1>3, <2>1 DEF AnchorsPruned, NoTip
<1>4. ASSUME NEW a, NEW t \in Nat, anchors' = PrunedAnchors(a, t), lastTip' = t
      PROVE  AnchorsPruned'
  BY <1>4 DEF AnchorsPruned, PrunedAnchors, Newest, Restrict, NoTip
<1>5. CASE SeedCursor
  <2>1. at = lastTip
    BY <1>5 DEF SeedCursor, RingInv, CursorPhase
  <2>2. \A h \in DOMAIN Put(anchors, at, chain[at]) : h \in DOMAIN anchors \/ h = lastTip
    BY <2>1 DEF Put
  <2>3. lastTip <= lastTip
    BY <1>1
  <2> QED BY <1>1, <1>2, <1>3, <1>5, <2>2, <2>3 DEF SeedCursor
<1>6. CASE ProbeCursor
  <2>1. lastTip <= lastTip
    BY <1>1
  <2> QED BY <1>1, <1>2, <1>3, <1>6, <2>1 DEF ProbeCursor
<1>7. CASE WalkBack
  <2>1. at \in Nat /\ at <= lastTip
    BY <1>7 DEF WalkBack, RingInv, CursorPhase, TypeInv, TypeOK
  <2>2. \A h \in DOMAIN Below(anchors, at + 1) : h \in DOMAIN anchors
    BY DEF Below, Restrict
  <2> QED BY <1>2, <1>3, <1>7, <2>1, <2>2 DEF WalkBack
<1>8. ASSUME NEW b, NEW a, Emit(b, a) PROVE AnchorsPruned'
  <2>1. at \in Nat
    BY DEF TypeInv, TypeOK
  <2> QED BY <1>4, <1>8, <2>1 DEF Emit
<1>9. ASSUME NEW a, RangeFails(a), \A h \in DOMAIN a : h \in DOMAIN anchors \/ h = lastTip
      PROVE  AnchorsPruned'
  BY <1>1, <1>9 DEF RangeFails, AnchorsPruned
<1>10. CASE FetchBlock
  BY <1>2, <1>8, <1>9, <1>10 DEF FetchBlock, Extend, pollState
<1>11. CASE FetchParent
  <2>1. at - 1 = lastTip
    BY <1>11 DEF FetchParent, RingInv, CursorPhase
  <2>2. \A h \in DOMAIN Put(anchors, at - 1, chain[at - 1]) : h \in DOMAIN anchors \/ h = lastTip
    BY <2>1 DEF Put
  <2> QED BY <1>8, <1>9, <1>11, <2>2 DEF FetchParent, Extend
<1>12. CASE VerifyWindow
  <2>1. mode # "run" /\ tip \in Nat
    BY <1>12 DEF VerifyWindow, RingInv, HydrationPhase, AnchorsPruned, TypeInv, TypeOK
  <2> QED BY <1>2, <1>4, <1>12, <2>1 DEF VerifyWindow, ReplayDiscovered, DiscoveryFails
<1>13. ~ AnchorTip
  BY DEF AnchorTip, RingInv, CursorPhase, AnchorsPruned
<1>14. UNCHANGED <<lastTip, anchors>> \/ AnchorTip \/ SeedCursor \/ ProbeCursor
       \/ WalkBack \/ FetchBlock \/ FetchParent \/ VerifyWindow
  BY DEF vars, Next, Poll, RpcAnswer, Node, NodeMoves, RunHydration, PollOnce, DiscoverBlock,
         DiscoverGivesUp, DiscoveryFails, pollState
<1> QED BY <1>2, <1>5, <1>6, <1>7, <1>10, <1>11, <1>12, <1>13, <1>14

(* Anchors that were pruned once stay pruned for the rest of the process:  *)
(* only a boot hands over more (adapter.rs run, poll.rs seed_canonical and *)
(* prune_canonical_history).                                               *)
THEOREM PrunedStaysPruned == Spec => [][AnchorsPruned => AnchorsPruned']_vars
<1>1. TypeInv /\ RingInv /\ [Next]_vars => [AnchorsPruned => AnchorsPruned']_vars
  BY StepPruned
<1> QED BY <1>1, SyncInvariant, PTL DEF Spec

(* With a window of at least two blocks (the code's has 48), whatever the  *)
(* ring, the scan and the boot, the only rollback that can reach below the *)
(* undo journal is one found before a boot's anchors were pruned: from     *)
(* then on a switch that is deeper finds no anchor and rebuilds the window *)
(* instead (poll.rs find_canonical_change, cells.rs rollback_from).        *)
THEOREM PrunedAnchorsSuffice ==
  ReorgWindow >= 2 => (Spec /\ RollsBackPruned => RollsBackWithinJournal)
<1> SUFFICES ASSUME ReorgWindow >= 2 PROVE Spec /\ RollsBackPruned => RollsBackWithinJournal
  OBVIOUS
<1>1. Init => JournalReach
  BY InitReach
<1>2. TypeInv /\ RingInv /\ JournalReach /\ [Next]_vars /\ [PrunedStep]_vars => JournalReach'
  BY StepReach
<1>3. TypeInv /\ RingInv /\ JournalReach /\ [Next]_vars /\ [PrunedStep]_vars => [ShallowStep]_vars
  BY ReachIsShallow
<1>4. [][ShallowStep]_vars => RollsBackWithinJournal
  BY PTL DEF RollsBackWithinJournal, ShallowStep
<1>5. RollsBackPruned => [][PrunedStep]_vars
  BY PTL DEF RollsBackPruned, PrunedStep
<1> QED BY <1>1, <1>2, <1>3, <1>4, <1>5, SyncInvariant, PTL DEF Spec
=============================================================================
