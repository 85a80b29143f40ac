--------------------------- MODULE MCCellPipeline ---------------------------
(* A small block tree with its transactions for model checking.            *)
EXTENDS CellPipeline

\* g - a1 - a2 - a3     the branch most behaviours follow
\*  |    ` - b2 - b3    re-includes its transactions at other heights
\*   ` - c1             a fork below every anchor of a3
MCParent ==
  ("g" :> "g" @@ "a1" :> "g" @@ "a2" :> "a1" @@ "a3" :> "a2"
   @@ "b2" :> "a1" @@ "b3" :> "b2" @@ "c1" :> "g")
MCBlocks == DOMAIN MCParent
MCHeight ==
  [b \in MCBlocks |->
     CASE b = "g" -> 0
       [] b \in {"a1", "c1"} -> 1
       [] b \in {"a2", "b2"} -> 2
       [] OTHER -> 3]
MCTime == MCHeight

MCOutputs ==
  ("t0" :> <<"o">> @@ "k1" :> <<"k">> @@ "t2" :> <<"p">> @@ "t3" :> <<"q", "r">>
   @@ "t4" :> <<"s">>)
MCInputs ==
  ("t0" :> <<>> @@ "k1" :> <<>> @@ "t2" :> <<"o">> @@ "t3" :> <<"p">>
   @@ "t4" :> <<"k", "q">>)

\* b2 mints and burns p in one block, a3 and b3 follow with what is left
MCBlockTxs ==
  ("g" :> <<"t0">> @@ "a1" :> <<"k1">> @@ "a2" :> <<"t2">> @@ "a3" :> <<"t3">>
   @@ "b2" :> <<"t2", "t3">> @@ "b3" :> <<"t4">> @@ "c1" :> <<"t2">>)
=============================================================================
