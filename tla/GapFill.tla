------------------------------- MODULE GapFill ------------------------------
(***************************************************************************)
(* promhttputil.PriorityMergeSampleStream and GapThreshold: the gaps of    *)
(* the dedup winner's series are filled from the losers, in priority       *)
(* order.  A stream is a function from some timestamps to what the sample  *)
(* is: "float", "histogram", or "stale" for a StaleNaN marker.             *)
(*                                                                         *)
(* fill calls itself with one filler per level and keeps one cursor per    *)
(* level, so that no stream is scanned twice.  The calls in progress are   *)
(* the frames of "stack", the frame of level l at position l; what the     *)
(* calls return is appended by the caller at once, so one sequence "out"   *)
(* holds the result of all of them.                                        *)
(***************************************************************************)
EXTENDS Integers, Sequences, FiniteSets, FiniteSetsExt

CONSTANTS
  Streams,    \* the streams there are
  Bases,      \* base streams
  Fillers,    \* sequences of filler streams
  Overrides   \* configured gaps in milliseconds, 0 = automatic

Kinds == {"float", "histogram", "stale"}

\* A stream has finitely many samples, one for each of its timestamps.
ASSUME StreamsAssumption ==
  /\ \A s \in Streams :
       /\ IsFiniteSet(DOMAIN s) /\ DOMAIN s \subseteq Nat
       /\ \A t \in DOMAIN s : s[t] \in Kinds
  /\ Bases \subseteq Streams /\ Fillers \subseteq Seq(Streams) /\ Overrides \subseteq Nat

VARIABLES base, fillers, override,  \* what fillBucketGaps is called with
          seqs,                     \* the timelines, the base's first; empty before the call
          gap,
          cursors, filled, stack, out
vars == <<base, fillers, override, seqs, gap, cursors, filled, stack, out>>
input == <<base, fillers, override>>

Nil == -1        \* a nil *model.Time; timestamps are natural numbers

Ordered(q) == \A i, j \in DOMAIN q : i < j => q[i].t < q[j].t

\* timeline: the samples of both types in one sequence, by time.
timelines(s) ==
  LET samples == {[t |-> t, kind |-> s[t]] : t \in DOMAIN s}
  IN {q \in [1 .. Cardinality(DOMAIN s) -> samples] :
        Ordered(q) /\ {q[i] : i \in DOMAIN q} = samples}

(***************************************************************************)
(* GapThreshold.                                                           *)
(***************************************************************************)
Interval(q, i) == q[i + 1].t - q[i].t
Intervals(q) == 1 .. Len(q) - 1

\* The middle one of the sorted intervals, the upper one of two; none without intervals.
medianInterval(q) ==
  {d \in {Interval(q, i) : i \in Intervals(q)} :
     /\ Cardinality({i \in Intervals(q) : Interval(q, i) < d}) <= (Len(q) - 1) \div 2
     /\ Cardinality({i \in Intervals(q) : Interval(q, i) <= d}) > (Len(q) - 1) \div 2}

\* The override, else twice the median of the base, else of the first filler.
GapThreshold(over, b, fs) ==
  IF over > 0 THEN {over}
  ELSE IF Len(b) > 1 THEN {2 * m : m \in medianInterval(b)}
  ELSE IF fs # <<>> /\ Len(fs[1]) > 1 THEN {2 * m : m \in medianInterval(fs[1])}
  ELSE {0}

\* PriorityMergeSampleStream takes 1 for a gap that is not positive.
EffectiveGap(g) == IF g <= 0 THEN 1 ELSE g

(***************************************************************************)
(* fill                                                                    *)
(***************************************************************************)
\* Mutant: the margin is half the gap.
InMargins_half(t, lo, hi, g) ==
  (lo = Nil \/ t > lo + g \div 2) /\ (hi = Nil \/ t < hi - g \div 2)

\* marginBounds: strictly more than gap/4 away from both real neighbours.
InMargins(t, lo, hi, g) ==
  (lo = Nil \/ t > lo + g \div 4) /\ (hi = Nil \/ t < hi - g \div 4)

needsFill(stale, lo, hi, g) == stale \/ lo = Nil \/ hi = Nil \/ hi - lo >= g

\* Mutant: the sample that ended the scan is skipped by the next one.
NextCursor_skip(i) == i + 1

\* cursors[lvl] = i: the next call of the level resumes where this one stopped.
NextCursor(i) == i

\* Mutant: every marker of a filler is kept.
KeepMarker_always(lvl, live) == TRUE

\* A filler's marker is kept only when it ends samples this call emitted.
KeepMarker(lvl, live) == lvl = 1 \/ live

\* The call fill(lo, hi, seqs, lvl, ...) when it begins its scan: the samples at or
\* below the lower margin are skipped, from the cursor of the level on.
Frame(qs, g, cs, lvl, lo, hi) ==
  [lo |-> lo, hi |-> hi, subLo |-> lo, stale |-> FALSE, live |-> FALSE, at |-> "scan",
   i |-> Min({j \in cs[lvl] .. Len(qs[lvl]) : InMargins(qs[lvl][j].t, lo, Nil, g)}
             \union {Len(qs[lvl]) + 1})]

lvl == Len(stack)
Top == stack[lvl]

\* The sample the loop of the innermost call is at, before the upper margin.
InScan == Top.i <= Len(seqs[lvl]) /\ InMargins(seqs[lvl][Top.i].t, Nil, Top.hi, gap)

Deeper(upper) == needsFill(Top.stale, Top.subLo, upper, gap) /\ lvl < Len(seqs)

\* The innermost call goes on as "at" says once its own call, of the next level, is over.
Call(upper, at) ==
  stack' = Append([stack EXCEPT ![lvl] = [Top EXCEPT !.at = at]],
                  Frame(seqs, gap, cursors, lvl + 1, Top.subLo, upper))

Init ==
  /\ base \in Bases /\ fillers \in Fillers /\ override \in Overrides
  /\ seqs = <<>> /\ gap = 0 /\ cursors = <<>> /\ filled = <<>> /\ stack = <<>> /\ out = <<>>

\* fillBucketGaps: the winner's stream and the losers' in priority order.
FillBucketGaps ==
  /\ seqs = <<>>
  /\ \E b \in timelines(base),
        fs \in {f \in [DOMAIN fillers -> UNION {timelines(fillers[i]) : i \in DOMAIN fillers}] :
                  \A i \in DOMAIN fillers : f[i] \in timelines(fillers[i])} :
       /\ seqs' = <<b>> \o fs
       /\ \E th \in GapThreshold(override, b, fs) : gap' = EffectiveGap(th)
  /\ cursors' = [l \in 1 .. Len(fillers) + 1 |-> 1]
  /\ filled' = [l \in 1 .. Len(fillers) |-> 0]
  /\ stack' = <<Frame(seqs', gap', cursors', 1, Nil, Nil)>>
  /\ UNCHANGED <<input, out>>

\* Before the loop takes a sample, the gap in front of it is given to the next filler.
Descend ==
  /\ stack # <<>> /\ Top.at = "scan" /\ InScan /\ Deeper(seqs[lvl][Top.i].t)
  /\ Call(seqs[lvl][Top.i].t, "emit")
  /\ UNCHANGED <<input, seqs, gap, cursors, filled, out>>

\* The rest of the iteration: the sample is emitted, a marker only where one is kept.
Emit ==
  /\ stack # <<>>
  /\ Top.at = "emit" \/ (Top.at = "scan" /\ InScan /\ ~ Deeper(seqs[lvl][Top.i].t))
  /\ LET p == seqs[lvl][Top.i]
         marker == p.kind = "stale"
     IN /\ out' = IF ~ marker \/ KeepMarker(lvl, Top.live)
                    THEN Append(out, [t |-> p.t, kind |-> p.kind, lvl |-> lvl]) ELSE out
        /\ filled' = IF ~ marker /\ lvl > 1
                       THEN [filled EXCEPT ![lvl - 1] = filled[lvl - 1] + 1] ELSE filled
        /\ stack' = [stack EXCEPT ![lvl] =
                       [Top EXCEPT !.stale = marker, !.live = ~ marker, !.subLo = p.t,
                                   !.i = Top.i + 1, !.at = "scan"]]
  /\ UNCHANGED <<input, seqs, gap, cursors>>

\* The loop is over: the cursor is kept, and the next filler gets what follows.
EndScan ==
  /\ stack # <<>> /\ Top.at = "scan" /\ ~ InScan
  /\ cursors' = [cursors EXCEPT ![lvl] = NextCursor(Top.i)]
  /\ IF Deeper(Top.hi) THEN Call(Top.hi, "return") ELSE stack' = SubSeq(stack, 1, lvl - 1)
  /\ UNCHANGED <<input, seqs, gap, filled, out>>

\* The call of the next level after the loop is over, and with it this one.
Return ==
  /\ stack # <<>> /\ Top.at = "return"
  /\ stack' = SubSeq(stack, 1, lvl - 1)
  /\ UNCHANGED <<input, seqs, gap, cursors, filled, out>>

Ran == seqs # <<>> /\ stack = <<>>
Done == Ran /\ UNCHANGED vars

Next == FillBucketGaps \/ Descend \/ Emit \/ EndScan \/ Return \/ Done
Spec == Init /\ [][Next]_vars

-----------------------------------------------------------------------------
(***************************************************************************)
(* The reference: which spans each level is asked for, and what it emits   *)
(* there, by definition instead of by scanning.                            *)
(***************************************************************************)
Inside(q, s, g) == {i \in DOMAIN q : InMargins(q[i].t, s[1], s[2], g)}

\* The neighbours in <<lo, the samples inside, hi>>, by position: 0 stands for lo and
\* the position past the end for hi.
Neighbours(q, s, g) ==
  {ab \in (Inside(q, s, g) \union {0}) \X (Inside(q, s, g) \union {Len(q) + 1}) :
     ab[1] < ab[2] /\ \A k \in Inside(q, s, g) : k <= ab[1] \/ k >= ab[2]}
Between(q, s, ab) ==
  <<IF ab[1] = 0 THEN s[1] ELSE q[ab[1]].t, IF ab[2] = Len(q) + 1 THEN s[2] ELSE q[ab[2]].t>>
AfterMarker(q, ab) == ab[1] > 0 /\ q[ab[1]].kind = "stale"

\* The spans a level leaves open: between neighbours that are a gap apart,
\* unbounded, or begin with its own stale marker.
OpenSpans(q, s, g) ==
  {Between(q, s, ab) : ab \in
     {nb \in Neighbours(q, s, g) :
        needsFill(AfterMarker(q, nb), Between(q, s, nb)[1], Between(q, s, nb)[2], g)}}

Spans(qs, g) ==
  LET S[l \in DOMAIN qs] ==
        IF l = 1 THEN {<<Nil, Nil>>} ELSE UNION {OpenSpans(qs[l - 1], s, g) : s \in S[l - 1]}
  IN S

\* A sample is emitted; a marker of a filler only right after one of its samples.
EmittedIn(qs, l, s, g) ==
  {i \in Inside(qs[l], s, g) :
     \/ l = 1
     \/ qs[l][i].kind # "stale"
     \/ i - 1 \in Inside(qs[l], s, g) /\ qs[l][i - 1].kind # "stale"}

Reference(qs, g) ==
  UNION {{[t |-> qs[l][i].t, kind |-> qs[l][i].kind, lvl |-> l] :
            i \in UNION {EmittedIn(qs, l, s, g) : s \in Spans(qs, g)[l]}} : l \in DOMAIN qs}

(***************************************************************************)
(* Properties.                                                             *)
(***************************************************************************)
\* The scan that resumes each level at its cursor emits exactly what a definition
\* without cursors says, and in time order.
MatchesReference ==
  /\ \A i, j \in DOMAIN out : i < j => out[i].t < out[j].t
  /\ Ran => {out[i] : i \in DOMAIN out} = Reference(seqs, gap)

\* A taken sample keeps its distance, more than a quarter of the gap, from every
\* sample of the winner, floats and histograms alike.
FilledKeepsDistance ==
  \A i \in DOMAIN out, j \in DOMAIN seqs[1] :
    out[i].lvl > 1 =>
      out[i].t - seqs[1][j].t > gap \div 4 \/ seqs[1][j].t - out[i].t > gap \div 4

\* A filler's stale marker ends a run of filler samples; it never cuts off the
\* lookback of the winner's own last sample.
MarkersEndFill ==
  \A i \in DOMAIN out :
    (out[i].lvl > 1 /\ out[i].kind = "stale") => (i > 1 /\ out[i - 1].lvl >= out[i].lvl)

\* A filler scraped more often never makes the winner's normal spacing look like
\* gaps: with the automatic threshold nothing is taken between two samples of the
\* winner that are at most its median interval apart.
NormalSpacingKept ==
  override = 0 =>
    \A i \in Intervals(seqs[1]), k \in DOMAIN out :
      (/\ seqs[1][i].kind # "stale"
       /\ \E m \in medianInterval(seqs[1]) : Interval(seqs[1], i) <= m)
      => ~ (seqs[1][i].t < out[k].t /\ out[k].t < seqs[1][i + 1].t)

\* Fillers only ever add to the winner's gaps, and nothing they add changes what the
\* winner's own samples mean: all three of the above.
OnlyGapsFilled == out # <<>> => FilledKeepsDistance /\ MarkersEndFill /\ NormalSpacingKept

\* With the automatic threshold one missing step of a regular series, one most of
\* whose intervals are d, is filled from its middle (the reason marginBounds gives
\* for gap/4).
SingleHoleFilled ==
  (Ran /\ override = 0 /\ fillers # <<>>) =>
    \A d \in {Interval(seqs[1], i) : i \in Intervals(seqs[1])} :
      2 * Cardinality({i \in Intervals(seqs[1]) : Interval(seqs[1], i) = d}) > Len(seqs[1]) - 1 =>
        \A i \in Intervals(seqs[1]), j \in DOMAIN seqs[2] :
          (/\ Interval(seqs[1], i) = 2 * d
           /\ seqs[2][j].t = seqs[1][i].t + d /\ seqs[2][j].kind # "stale")
          => \E k \in DOMAIN out : out[k].lvl = 2 /\ out[k].t = seqs[2][j].t

\* The comment of PriorityMergeSampleStream: "a gap a filler also has is passed on
\* to the next one", where a gap is also the span "after a StaleNaN".  A first
\* filler without samples has every gap.  (Refuted: the next level only hears of
\* a span after a stale marker when it is also long enough.)
GapPassedOn ==
  (Ran /\ Len(fillers) = 2 /\ seqs[2] = <<>>) =>
    {out[i].t : i \in DOMAIN out} = {e.t : e \in Reference(<<seqs[1], seqs[3]>>, gap)}
=============================================================================
