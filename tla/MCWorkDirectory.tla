--------------------------- MODULE MCWorkDirectory ---------------------------
(* Instances of WorkDirectory for TLC. *)
EXTENDS WorkDirectory

\* Two builds whose schemas differ and whose targets do not.
MCBuilds == {[schema |-> 1, cap |-> 1], [schema |-> 2, cap |-> 1]}

\* Two builds of one schema, the second with a larger target.
MCTargets == {[schema |-> 1, cap |-> 1], [schema |-> 1, cap |-> 2]}
=============================================================================
