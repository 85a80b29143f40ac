--------------------------- MODULE MCDisplayPlane ---------------------------
(***************************************************************************)
(* Two outpoints older than the map, three to be born, of all classes; a   *)
(* record of old outpoints and one of a new one, so that a record's cell   *)
(* is met as a resident, as a canonical cell and as one spent meanwhile.   *)
(* Three seats: one of the window, two of the field, one of them at most   *)
(* an endpoint's.                                                          *)
(***************************************************************************)
EXTENDS DisplayPlane

MCOld == {1, 2}
MCNew == {3, 4, 5}
MCClassOf == <<"dao", "dao", "typed", "plain", "typed">>
MCRecords == {{1, 2}, {4}}
===========================================================================
