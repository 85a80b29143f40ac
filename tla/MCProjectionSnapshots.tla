------------------------ MODULE MCProjectionSnapshots ------------------------
(***************************************************************************)
(* Two requests race on one projection, for every pair of representations; *)
(* either projection may panic, the fan-out meets the other one before or  *)
(* after.  Two requests are what every race over one slot, one generation  *)
(* or one permit takes; three mutations let the second of two generations  *)
(* be built while the projection moves on or is skipped.                   *)
(***************************************************************************)
EXTENDS ProjectionSnapshots

CONSTANTS p1, p2, r1, r2

MCProjections == {p1, p2}
MCRequests == {r1, r2}
MCWants == [MCRequests -> [kind : Kinds, proj : {p1}]]
=============================================================================
