--------------------------- MODULE MCEntityStream ---------------------------
(* Model checking EntityStream: the values are in the .cfg files.          *)
EXTENDS EntityStream
=============================================================================
