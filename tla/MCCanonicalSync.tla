-------------------------- MODULE MCCanonicalSync --------------------------
(* Small block trees and saved chains for model checking CanonicalSync.    *)
EXTENDS CanonicalSync, TLC

\* g - a1 - a2 - a3 - a4     the branch most behaviours follow
\*   |    |    ` - d3        a fork two below a4
\*   |     ` - c2 - c3       a fork three below a4
\*    ` - b1 - b2 - b3       a fork below every anchor
MCParent ==
  ("g" :> "g" @@ "a1" :> "g" @@ "a2" :> "a1" @@ "a3" :> "a2" @@ "a4" :> "a3"
   @@ "c2" :> "a1" @@ "c3" :> "c2" @@ "d3" :> "a2"
   @@ "b1" :> "g" @@ "b2" :> "b1" @@ "b3" :> "b2")
MCBlocks == DOMAIN MCParent
MCHeight ==
  [b \in MCBlocks |->
     CASE b = "g" -> 0
       [] b \in {"a1", "b1"} -> 1
       [] b \in {"a2", "b2", "c2"} -> 2
       [] b \in {"a3", "b3", "c3", "d3"} -> 3
       [] OTHER -> 4]

\* saved while following a (from its genesis, or hydrated from height 2)
MCSaved ==
  { [tip |-> 3, blocks |-> 0 :> "g" @@ 1 :> "a1" @@ 2 :> "a2" @@ 3 :> "a3"],
    [tip |-> 4, blocks |-> 2 :> "a2" @@ 3 :> "a3" @@ 4 :> "a4"] }

\* The same shapes one block shorter, for the temporal runs.  Every branch ends
\* at the same height, so a behaviour settles on a chain no shorter than any
\* tip ever read: on the real chain the next block provides that.
ShortBlocks == {"g", "a1", "a2", "a3", "c2", "c3", "b1", "b2", "b3"}
ShortHeight == [b \in ShortBlocks |-> MCHeight[b]]
ShortParent == [b \in ShortBlocks |-> MCParent[b]]
ShortSaved ==
  { [tip |-> 2, blocks |-> 0 :> "g" @@ 1 :> "a1" @@ 2 :> "a2"] }
=============================================================================
