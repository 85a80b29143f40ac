----------------------- MODULE MCEnrichmentSupervisor -----------------------
(* One clearable aggregate with an anchor, the composition and the top-up; *)
(* the first two share one permit.                                         *)
EXTENDS EnrichmentSupervisor

MCKinds == <<"network_atlas", Composition, TopUp>>
MCClearable == {"network_atlas"}
MCUnanchored == {}
===========================================================================
