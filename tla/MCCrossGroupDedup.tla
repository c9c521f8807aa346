------------------------- MODULE MCCrossGroupDedup --------------------------
(***************************************************************************)
(* TLC instances of the dedup: one to three groups in every order, with up *)
(* to two series each (three groups: one series each, or two of one        *)
(* bucket), or with sets that fail.                                        *)
(***************************************************************************)
EXTENDS CrossGroupDedup

SeqsUpTo(n, S) == UNION {[1 .. k -> S] : k \in 0 .. n}

SetsOf(n, max, S, fails) ==
  {s \in [1 .. n -> [ordinal : Ordinals, series : SeqsUpTo(max, S), fails : fails]] :
     \A i, j \in 1 .. n : i < j =>
       /\ s[i].ordinal # s[j].ordinal
       /\ \A k \in 1 .. Len(s[i].series), l \in 1 .. Len(s[j].series) :
            s[i].series[k] = s[j].series[l] => s[i].ordinal < s[j].ordinal}

OneBucket == {x \in Series : x.key = CHOOSE k \in Keys : TRUE}

MCSets == UNION {SetsOf(1, 2, Series, BOOLEAN), SetsOf(2, 1, Series, BOOLEAN),
                 SetsOf(2, 2, Series, {FALSE}), SetsOf(3, 1, Series, {FALSE}),
                 SetsOf(3, 2, OneBucket, {FALSE})}
MCInputs == [sets : MCSets, fillGaps : BOOLEAN]
=============================================================================
