------------------------- MODULE MCProjectionStream -------------------------
(* Model checking ProjectionStream: the values are in the .cfg files.      *)
EXTENDS ProjectionStream, TLC

\* no property and no action tells the items apart
ItemSymmetry == Permutations(Items)
=============================================================================
