--------------------------- MODULE MCSampleMerge ----------------------------
(***************************************************************************)
(* TLC instances of the merge of two replicas: floats of two values with   *)
(* every fixed buffer, longer floats of one value with the dynamic buffer, *)
(* and histograms next to a few floats.                                    *)
(***************************************************************************)
EXTENDS SampleMerge

CONSTANTS ShortClock, LongClock, MaxBuffer

\* The sample sequences of at most max samples on a clock, with values in V.
SamplesOn(clock, max, V) ==
  UNION {{[i \in 1 .. n |-> [t |-> ts[i], v |-> vs[i]]] :
            ts \in {x \in [1 .. n -> 0 .. clock] : \A i \in 1 .. n - 1 : x[i] < x[i + 1]},
            vs \in [1 .. n -> V]} : n \in 0 .. max}

Calls(as, bs, affinity, dyn, max) ==
  [a : as, b : bs, antiAffinity : affinity, dynamic : dyn, preferMax : max]

Floats(S) == [floats : S, histograms : {<<>>}]
Mixed(S, H) == [floats : S, histograms : H]

Valued == SamplesOn(ShortClock, 3, {1, 2})
MCInputs ==
  Calls(Floats(Valued), Floats(Valued), 0 .. MaxBuffer, {FALSE}, BOOLEAN)
  \union
  Calls(Floats(SamplesOn(LongClock, 4, {1})), Floats(SamplesOn(LongClock, 2, {1})), {1}, {TRUE}, {FALSE})
  \union
  Calls(Mixed(SamplesOn(1, 1, {1}), SamplesOn(ShortClock, 3, {1})),
        Mixed(SamplesOn(1, 1, {2}), SamplesOn(ShortClock, 2, {2})), {1}, BOOLEAN, {TRUE})

PreferMaxInputs ==
  Calls(Floats(Valued), Floats(Valued), 0 .. MaxBuffer, {FALSE}, {TRUE})
=============================================================================
