----------------------------- MODULE BlockTree -----------------------------
(***************************************************************************)
(* The blocks a CKB chain may contain, and partial chains: functions from  *)
(* a set of heights to blocks.  Every bounded map of blocks in the code    *)
(* (the poller's canonical_blocks, the entity's recent_blocks, the cells   *)
(* projection's block_hashes, a hydration window) is such a function.      *)
(***************************************************************************)
EXTENDS Integers, Functions

CONSTANTS
  Blocks,      \* every block any branch may contain
  Genesis,     \* the only block of height 0
  Height,      \* header.number of each block
  Parent       \* header.parent_hash of each block (Genesis: anything)

ASSUME TreeAssumption ==
  /\ Genesis \in Blocks
  /\ Height \in [Blocks -> Nat]
  /\ Parent \in [Blocks -> Blocks]
  /\ \A b \in Blocks : Height[b] = 0 <=> b = Genesis
  /\ \A b \in Blocks \ {Genesis} : Height[b] = Height[Parent[b]] + 1

PartialChain(f) == DOMAIN f \subseteq Nat /\ f \in [DOMAIN f -> Blocks]

NoBlocks      == [h \in {} |-> Genesis]
Below(f, n)   == Restrict(f, {h \in DOMAIN f : h < n})
Put(f, n, b)  == [h \in DOMAIN f \cup {n} |-> IF h = n THEN b ELSE f[h]]
Over(f, g)    == [h \in DOMAIN f \cup DOMAIN g |->
                    IF h \in DOMAIN f THEN f[h] ELSE g[h]]

(* The k highest of the heights up to n: how every bounded map prunes      *)
(* itself.  The recent_blocks ring counts entries instead, which comes to  *)
(* the same as long as no height is missing (RecentIsOneBranch).           *)
Newest(f, k, n) == Restrict(f, {h \in DOMAIN f : h + k > n})

(* Blocks at their own height, each one the child of the block below it.   *)
Linked(f) ==
  /\ \A h \in DOMAIN f : Height[f[h]] = h
  /\ \A h \in DOMAIN f : h - 1 \in DOMAIN f => Parent[f[h]] = f[h - 1]

(* Heights without a hole.                                                 *)
Unbroken(f) ==
  \A lo, hi \in DOMAIN f : \A h \in lo .. hi : h \in DOMAIN f

IsSegment(f) == Linked(f) /\ Unbroken(f)
=============================================================================
