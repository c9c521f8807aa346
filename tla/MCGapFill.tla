----------------------------- MODULE MCGapFill ------------------------------
(***************************************************************************)
(* TLC instances of the gap filling: a winner of floats and stale markers, *)
(* and no loser, one of histograms and markers, or that one with a single  *)
(* sample and a second loser with at most one float.                       *)
(***************************************************************************)
EXTENDS GapFill

CONSTANTS MaxTime, MaxBase, MaxFiller

Times == 0 .. MaxTime
StreamsOf(max, kinds) ==
  UNION {[T -> kinds] : T \in {S \in SUBSET Times : Cardinality(S) <= max}}

MCBases == StreamsOf(MaxBase, {"float", "stale"})
MCFillers ==
  {<<>>} \union {<<f>> : f \in StreamsOf(MaxFiller, {"histogram", "stale"})} \union
  {<<f1, f2>> : f1 \in StreamsOf(1, {"histogram", "stale"}),
                f2 \in StreamsOf(1, {"float"})}
MCStreams == MCBases \union UNION {{fs[i] : i \in DOMAIN fs} : fs \in MCFillers}
=============================================================================
