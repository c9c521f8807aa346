--------------------------- MODULE MCScatterGather --------------------------
(***************************************************************************)
(* TLC instances of the fan-out.  Every way the code builds a MultiAPI is  *)
(* an initial state:                                                       *)
(*   HAGroup      a server group, two replicas of one label set and one    *)
(*                target with labels of its own, requiredCount 1;          *)
(*   NoDedup      server groups without cross-group dedup: one bucket,     *)
(*                requiredCount = number of groups;                        *)
(*   CrossGroup   cross-group dedup, strict and partial.                   *)
(***************************************************************************)
EXTENDS ScatterGather

HAGroup == NewMultiAPI([i \in Apis |-> IF i = N - 1 THEN 2 ELSE 1], 1)
NoDedup == NewMultiAPI(ZeroFingerprints, N)
MCMultiAPIs ==
  HAGroup \union NoDedup
    \union NewCrossGroupMultiAPI(FALSE) \union NewCrossGroupMultiAPI(TRUE)
MCPartialOnly == NewCrossGroupMultiAPI(TRUE)
=============================================================================
