--------------------------- MODULE MCServerGroup ----------------------------
(***************************************************************************)
(* TLC instances of one server group with two targets.  GoodMaps are maps  *)
(* every target of which has an address; BadMap is one where relabelling   *)
(* removed an address.                                                     *)
(***************************************************************************)
EXTENDS ServerGroup

GoodMaps == [targets : SUBSET Targets, noAddress : {FALSE}]
BadMap == [targets |-> Targets, noAddress |-> TRUE]
AllMaps == GoodMaps \union {BadMap}
=============================================================================
