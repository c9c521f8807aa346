---------------------------- MODULE SampleMerge -----------------------------
(***************************************************************************)
(* promhttputil.MergeSampleStream: the samples of two HA replicas of one   *)
(* series become one.  The replica with more samples is the base and is    *)
(* kept; a sample of the other is added where it is further than the       *)
(* anti-affinity buffer from the base.  Histograms and floats are merged   *)
(* one after the other with the same buffer, by the same loops, except     *)
(* that prefer_max applies to floats only.                                 *)
(*                                                                         *)
(* A stream is [floats, histograms], each a sequence of [t, v] by time.    *)
(* Every iteration of a loop of the code is one step.                      *)
(***************************************************************************)
EXTENDS Integers, Sequences, FiniteSets

CONSTANT Inputs  \* calls: [a, b, antiAffinity, dynamic, preferMax]

Samples == [t : Nat, v : Nat]

\* Samples of a stream are in time order, without repetition.
Ordered(s) == \A i, j \in 1 .. Len(s) : i < j => s[i].t < s[j].t
Streams == [floats : Seq(Samples), histograms : Seq(Samples)]

CallRecords ==
  [a : Streams, b : Streams, antiAffinity : Nat, dynamic : BOOLEAN, preferMax : BOOLEAN]

ASSUME InputsAssumption ==
  /\ Inputs \subseteq CallRecords
  /\ \A in \in Inputs : /\ Ordered(in.a.floats) /\ Ordered(in.a.histograms)
                        /\ Ordered(in.b.floats) /\ Ordered(in.b.histograms)

VARIABLES
  input,       \* the call
  buffer,      \* antiAffinityBuffer, after the dynamic estimate
  pass,        \* "histograms", then "floats", then "done"
  pc,          \* where the pass is: its start, or one of its loops
  base, other, \* a and b of the pass, after the swap
  ai,          \* the base sample the main loop is at
  bOffset,     \* the next sample of the other replica to look at
  lastOffset,  \* where the search for a larger value resumes
  scan,        \* where that search is
  lastTime,    \* time of the last sample emitted before the inner loop began
  newValues,   \* what the pass has emitted
  merged       \* the result of each finished pass

vars == <<input, buffer, pass, pc, base, other, ai, bOffset, lastOffset, scan, lastTime,
          newValues, merged>>
streams == <<input, buffer, pass, base, other, merged>>

(***************************************************************************)
(* The dynamic buffer: half the median interval, from at least three.      *)
(***************************************************************************)
minDynamicGaps == 3

\* The intervals of s, as pairs <<position, length>>.
Gaps(s) ==
  {<<i, s[i].t - s[i - 1].t>> : i \in {k \in 2 .. Len(s) : s[k].t > s[k - 1].t}}

\* The intervals of the longer side, with those of the shorter one if too few.
GapsUsed(a, b) ==
  {1} \X Gaps(a) \union
  (IF Cardinality(Gaps(a)) < minDynamicGaps THEN {2} \X Gaps(b) ELSE {})

\* gaps[len(gaps)/2] of the sorted list: the intervals with at most half of the
\* others below and more than half not above.
Medians(G) ==
  {d \in {g[2][2] : g \in G} :
     /\ Cardinality({g \in G : g[2][2] < d}) <= Cardinality(G) \div 2
     /\ Cardinality({g \in G : g[2][2] <= d}) > Cardinality(G) \div 2}

\* Mutant: the buffer stays below half the interval.
Estimate_below(G) == {d \div 2 - 1 : d \in Medians(G)}

\* Mutant: one long interval decides.
Estimate_longest(G) ==
  {d \div 2 : d \in {x \in {g[2][2] : g \in G} : \A g \in G : g[2][2] <= x}}

Estimate(G) == {d \div 2 : d \in Medians(G)}

\* dynamicAntiAffinityFromTimes: empty when there are too few intervals.
dynamicAntiAffinity(a, b) ==
  LET G == IF Len(b) > Len(a) THEN GapsUsed(b, a) ELSE GapsUsed(a, b)
  IN IF Cardinality(G) < minDynamicGaps THEN {} ELSE Estimate(G)

\* The floats decide; histograms only when there are too few floats.
dynamicBufferForStream(a, b) ==
  LET f == dynamicAntiAffinity(a.floats, b.floats)
  IN IF f # {} THEN f ELSE dynamicAntiAffinity(a.histograms, b.histograms)

Buffers(in) ==
  LET d == dynamicBufferForStream(in.a, in.b)
  IN IF in.dynamic /\ d # {} THEN d ELSE {in.antiAffinity}

Init ==
  /\ input \in Inputs
  /\ buffer \in Buffers(input)
  /\ pass = "histograms" /\ pc = "start"
  /\ base = <<>> /\ other = <<>>
  /\ ai = 1 /\ bOffset = 1 /\ lastOffset = 1 /\ scan = 1 /\ lastTime = 0
  /\ newValues = <<>>
  /\ merged = [histograms |-> <<>>, floats |-> <<>>]

(***************************************************************************)
(* One pass.                                                               *)
(***************************************************************************)
NextPass(p) == IF p = "histograms" THEN "floats" ELSE "done"

FinishPass(result) ==
  /\ merged' = [merged EXCEPT ![pass] = result]
  /\ pass' = NextPass(pass)
  /\ pc' = "start"
  /\ UNCHANGED <<input, buffer, base, other, ai, bOffset, lastOffset, scan, lastTime>>

\* Nothing to merge: the side that has samples is the result.
OneSided ==
  /\ pass # "done" /\ pc = "start"
  /\ LET a == input.a[pass]
         b == input.b[pass]
     IN /\ a = <<>> \/ b = <<>>
        /\ FinishPass(IF a = <<>> THEN b ELSE a)
  /\ UNCHANGED newValues

\* Mutant: the first replica is always the base.
UseAsBase_first(a, b) == TRUE

\* The replica with more samples is the base.
UseAsBase(a, b) == ~ (Len(b) > Len(a))

StartPass ==
  /\ pass # "done" /\ pc = "start"
  /\ LET a == input.a[pass]
         b == input.b[pass]
     IN /\ a # <<>> /\ b # <<>>
        /\ base' = IF UseAsBase(a, b) THEN a ELSE b
        /\ other' = IF UseAsBase(a, b) THEN b ELSE a
  /\ pc' = "lead"
  /\ ai' = 1 /\ bOffset' = 1 /\ lastOffset' = 1 /\ scan' = 1 /\ lastTime' = 0
  /\ newValues' = <<>>
  /\ UNCHANGED <<input, buffer, pass, merged>>

\* Samples of the other replica before the base begins.  bOffset stays on the last
\* sample when all of them are.
Lead ==
  /\ pc = "lead"
  /\ \/ /\ other[bOffset].t < base[1].t - buffer
        /\ newValues' = Append(newValues, other[bOffset])
        /\ bOffset' = IF bOffset < Len(other) THEN bOffset + 1 ELSE bOffset
        /\ pc' = IF bOffset < Len(other) THEN "lead" ELSE "base"
     \/ /\ ~ (other[bOffset].t < base[1].t - buffer)
        /\ pc' = "base"
        /\ UNCHANGED <<newValues, bOffset>>
  /\ lastOffset' = bOffset'
  /\ UNCHANGED <<streams, ai, scan, lastTime>>

LastOf(s) == s[Len(s)].t

\* A sample fits between last and t only if they are two buffers apart.
WideEnough(t, last) == t - last > buffer * 2

\* The head of the main loop.
NextBase ==
  /\ pc = "base"
  /\ ai <= Len(base)
  /\ \/ /\ newValues = <<>>
        /\ newValues' = <<base[ai]>>
        /\ ai' = ai + 1
        /\ UNCHANGED <<pc, lastTime, scan>>
     \/ /\ newValues # <<>>
        /\ lastTime' = LastOf(newValues)
        /\ scan' = lastOffset
        /\ pc' = IF WideEnough(base[ai].t, LastOf(newValues)) THEN "gap" ELSE "place"
        /\ UNCHANGED <<newValues, ai>>
  /\ UNCHANGED <<streams, bOffset, lastOffset>>

\* Mutant: a sample may be close to the base sample that follows.
FitsGap_before(t, last, next) == t > last + buffer

FitsGap(t, last, next) == t > last + buffer /\ t < next - buffer

\* Samples of the other replica in a hole of the base.
FillGap ==
  /\ pc = "gap"
  /\ \/ /\ bOffset <= Len(other)
        /\ other[bOffset].t < base[ai].t
        /\ newValues' = IF FitsGap(other[bOffset].t, lastTime, base[ai].t)
                          THEN Append(newValues, other[bOffset]) ELSE newValues
        /\ bOffset' = bOffset + 1
        /\ UNCHANGED pc
     \/ /\ ~ (bOffset <= Len(other) /\ other[bOffset].t < base[ai].t)
        /\ pc' = "place"
        /\ UNCHANGED <<newValues, bOffset>>
  /\ UNCHANGED <<streams, ai, lastOffset, scan, lastTime>>

\* Mutant: prefer_max is applied to histograms too.
PreferMax_histograms == input.preferMax

PreferMax == pass = "floats" /\ input.preferMax

Beyond(b, a) == b.t >= a.t + buffer /\ b.t # a.t
Within(b, a) == b.t = a.t \/ b.t > a.t - buffer

\* The search for a sample near the base sample passes over those before it.
SkipOlder ==
  /\ pc = "place" /\ PreferMax
  /\ scan <= Len(other)
  /\ ~ Beyond(other[scan], base[ai]) /\ ~ Within(other[scan], base[ai])
  /\ scan' = scan + 1
  /\ UNCHANGED <<streams, pc, ai, bOffset, lastOffset, lastTime, newValues>>

\* Mutant: the larger sample keeps its own time.
Larger_ownTime(b, a) == b

\* The value of b at the time of a.
Larger(b, a) == [b EXCEPT !.t = a.t]

\* The search ended at the first sample near the base sample.
PlaceNear ==
  /\ pc = "place" /\ PreferMax
  /\ scan <= Len(other)
  /\ ~ Beyond(other[scan], base[ai]) /\ Within(other[scan], base[ai])
  /\ lastOffset' = scan
  /\ newValues' = Append(newValues, IF other[scan].v > base[ai].v
                                      THEN Larger(other[scan], base[ai]) ELSE base[ai])
  /\ ai' = ai + 1
  /\ pc' = "base"
  /\ UNCHANGED <<streams, bOffset, scan, lastTime>>

\* Without prefer_max, or with no sample near, the base sample is emitted.
PlaceBase ==
  /\ pc = "place"
  /\ ~ (PreferMax /\ scan <= Len(other) /\ ~ Beyond(other[scan], base[ai]))
  /\ newValues' = Append(newValues, base[ai])
  /\ ai' = ai + 1
  /\ pc' = "base"
  /\ UNCHANGED <<streams, bOffset, lastOffset, scan, lastTime>>

\* The base is used up.
StartTail ==
  /\ pc = "base"
  /\ ai > Len(base)
  /\ lastTime' = LastOf(newValues)
  /\ pc' = "tail"
  /\ UNCHANGED <<streams, ai, bOffset, lastOffset, scan, newValues>>

Tail_ ==
  /\ pc = "tail"
  /\ \/ /\ bOffset <= Len(other)
        /\ newValues' = IF other[bOffset].t > lastTime + buffer
                          THEN Append(newValues, other[bOffset]) ELSE newValues
        /\ bOffset' = bOffset + 1
        /\ UNCHANGED <<streams, pc, ai, lastOffset, scan, lastTime>>
     \/ /\ bOffset > Len(other)
        /\ FinishPass(newValues)
        /\ UNCHANGED newValues

Done == pass = "done" /\ UNCHANGED vars

Next ==
  \/ OneSided \/ StartPass \/ Lead \/ NextBase \/ FillGap
  \/ SkipOlder \/ PlaceNear \/ PlaceBase \/ StartTail \/ Tail_
  \/ Done

Spec == Init /\ [][Next]_vars

-----------------------------------------------------------------------------
(***************************************************************************)
(* The reference: the longer replica, and what is far enough from it.      *)
(***************************************************************************)
Longer(p)  == IF Len(input.b[p]) > Len(input.a[p]) THEN input.b[p] ELSE input.a[p]
Shorter(p) == IF Len(input.b[p]) > Len(input.a[p]) THEN input.a[p] ELSE input.b[p]
Elements(s) == {s[i] : i \in 1 .. Len(s)}

\* More than the buffer from every sample of s.
FarFrom(x, s, d) == \A y \in Elements(s) : x.t > y.t + d \/ x.t < y.t - d

Finished(p) == pass = "done" \/ (p = "histograms" /\ pass = "floats")

(***************************************************************************)
(* Properties.                                                             *)
(***************************************************************************)

\* Type correctness: in particular every cursor is an index of its slice or just
\* past it, so no loop of the merge reads out of range.
TypeOK ==
  /\ input \in CallRecords
  /\ buffer \in Nat
  /\ pass \in {"histograms", "floats", "done"}
  /\ pc \in {"start", "lead", "base", "gap", "place", "tail"}
  /\ base \in Seq(Samples) /\ other \in Seq(Samples)
  /\ ai \in 1 .. Len(base) + 1
  /\ bOffset \in 1 .. Len(other) + 1
  /\ lastOffset \in 1 .. Len(other) + 1
  /\ scan \in 1 .. Len(other) + 1
  /\ lastTime \in Nat
  /\ newValues \in Seq(Samples)
  /\ merged \in Streams

\* The emitted samples are in time order and no time is emitted twice, whichever
\* replica each came from: the engine relies on it when it iterates the series.
EmittedInOrder == Ordered(newValues) /\ Ordered(merged.floats) /\ Ordered(merged.histograms)

\* The merge keeps every sample of the longer replica and adds exactly the samples
\* of the other that are further than the buffer from all of them, although the
\* loops compare each sample with two neighbours only and never go back.
ExactMerge ==
  \A p \in {"histograms", "floats"} :
    Finished(p) =>
      {x.t : x \in Elements(merged[p])} =
        {x.t : x \in Elements(Longer(p))} \union
        {x.t : x \in {y \in Elements(Shorter(p)) : FarFrom(y, Longer(p), buffer)}}

\* No value is made up and the base is believed: at a time of the longer replica
\* the result has its sample, or, with prefer_max and for floats, a larger one the
\* other replica has within the buffer; at another time a sample of the other.
ValuesFaithful ==
  \A p \in {"histograms", "floats"} :
    Finished(p) =>
      \A x \in Elements(merged[p]) :
        \/ x \in Elements(Longer(p))
        \/ x \in Elements(Shorter(p)) /\ FarFrom(x, Longer(p), 0)
        \/ /\ p = "floats" /\ input.preferMax
           /\ \E y \in Elements(Longer(p)), z \in Elements(Shorter(p)) :
                /\ y.t = x.t /\ z.v = x.v /\ z.v > y.v
                /\ z.t = y.t \/ (z.t < y.t + buffer /\ z.t > y.t - buffer)

\* What the dynamic buffer is for: when most intervals of the longer replica are d,
\* replicas skewed by up to d/2 are not interleaved, and a single lost scrape is
\* filled from its middle, although its hole is one of the intervals.
DynamicFitsInterval ==
  (pass = "done" /\ input.dynamic) =>
    LET a == Longer("floats")
        b == Shorter("floats")
        taken == Elements(merged.floats) \ Elements(a)
    IN \A d \in {a[i].t - a[i - 1].t : i \in 2 .. Len(a)} :
         (/\ Len(a) > minDynamicGaps
          /\ Len(a) - 1 < 2 * Cardinality({i \in 2 .. Len(a) : a[i].t - a[i - 1].t = d}))
         => /\ ~ input.preferMax => \A x \in taken : FarFrom(x, a, d \div 2)
            /\ \A i \in 2 .. Len(a), y \in Elements(b) :
                 (a[i].t - a[i - 1].t = 2 * d /\ y.t = a[i - 1].t + d) => y \in taken

\* The configuration reference: with prefer_max "the max value at a given timestamp
\* will be preferred".  (Refuted: the first sample of the result is never compared,
\* and the search stops at the first sample within the buffer.)
MaxPreferred ==
  (pass = "done" /\ input.preferMax) =>
    \A y \in Elements(Longer("floats")), z \in Elements(Shorter("floats")) :
      y.t = z.t => \E x \in Elements(merged.floats) : x.t = y.t /\ x.v >= y.v /\ x.v >= z.v

(***************************************************************************)
(* The inductive invariant of the order: where the emitted samples are     *)
(* relative to the base sample and to the sample of the other replica that *)
(* the loops are at.                                                       *)
(***************************************************************************)
AllBefore(s, t) == \A i \in 1 .. Len(s) : s[i].t < t

SidesOrdered ==
  /\ \A p \in {"histograms", "floats"} : Ordered(input.a[p]) /\ Ordered(input.b[p])
  /\ pc # "start" =>
       /\ pass # "done"
       /\ base # <<>> /\ Ordered(base)
       /\ other # <<>> /\ Ordered(other)

\* Each emitted sample was there when the inner loop began, or comes before the
\* sample of the other replica the loop is at.
BehindOffset ==
  \A i \in 1 .. Len(newValues) :
    \/ newValues[i].t <= lastTime
    \/ bOffset <= Len(other) => newValues[i].t < other[bOffset].t

Placed ==
  /\ pc = "lead" =>
       /\ ai = 1 /\ bOffset <= Len(other)
       /\ AllBefore(newValues, other[bOffset].t) /\ AllBefore(newValues, base[1].t)
  /\ pc = "base" =>
       /\ ai <= Len(base) => AllBefore(newValues, base[ai].t)
       /\ newValues = <<>> => ai = 1
  /\ pc \in {"gap", "place"} =>
       ai <= Len(base) /\ newValues # <<>> /\ AllBefore(newValues, base[ai].t)
  /\ pc \in {"gap", "tail"} => BehindOffset

IInv == TypeOK /\ EmittedInOrder /\ SidesOrdered /\ Placed
=============================================================================
