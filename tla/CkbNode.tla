------------------------------ MODULE CkbNode ------------------------------
(***************************************************************************)
(* The CKB node as the adapter sees it through JSON-RPC.  The node is not  *)
(* part of this repository: it is modelled from the calls the adapter      *)
(* makes (get_tip_block_number, get_block_hash, get_block_by_number).      *)
(*                                                                         *)
(* Blocks form a tree.  chain[h] is the block the endpoint currently       *)
(* answers for height h, for every h up to the tip.  Between any two RPC   *)
(* answers the node may append a block or abandon a suffix; a switch to a  *)
(* heavier branch is an abandoned suffix followed by appended blocks, and  *)
(* a lagging backend of a load-balanced endpoint is an abandoned suffix    *)
(* that comes back.                                                        *)
(***************************************************************************)
EXTENDS BlockTree

CONSTANT MaxRewinds   \* bound: suffixes the node may abandon in one behaviour

ASSUME RewindAssumption == MaxRewinds \in Nat

VARIABLES
  chain,       \* the canonical chain, a function on 0 .. top
  top,         \* height of the tip
  rewinds      \* suffixes abandoned so far

nodeVars == <<chain, top, rewinds>>

NodeInit ==
  /\ top = 0
  /\ chain = [h \in {0} |-> Genesis]
  /\ rewinds = 0

(* A new block on the tip.                                                 *)
NodeAdvance ==
  \E b \in Blocks \ {Genesis} :
    /\ Parent[b] = chain[top]
    /\ top' = top + 1
    /\ chain' = Put(chain, top + 1, b)
    /\ UNCHANGED rewinds

(* The blocks above height k are no longer canonical.                      *)
NodeRewind ==
  \E k \in 0 .. top - 1 :
    /\ rewinds < MaxRewinds
    /\ rewinds' = rewinds + 1
    /\ top' = k
    /\ chain' = Below(chain, k + 1)

NodeTypeOK ==
  /\ top \in Nat
  /\ rewinds \in Nat
  /\ chain \in [0 .. top -> Blocks]
=============================================================================
