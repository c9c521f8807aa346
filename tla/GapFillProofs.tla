---------------------------- MODULE GapFillProofs ----------------------------
(***************************************************************************)
(* Proofs about the gap filling, for any number of fillers and streams of  *)
(* any length.                                                             *)
(***************************************************************************)
EXTENDS GapFill, FiniteSetTheorems, WellFoundedInduction, TLAPS

-----------------------------------------------------------------------------
(***************************************************************************)
(* The invariant.                                                          *)
(***************************************************************************)
\* The shapes of the data: samples, ends of a span, streams, frames and what is emitted.
Sample == [t : Nat, kind : Kinds]
Bound == Nat \union {Nil}
Timelines == {q \in Seq(Sample) : Ordered(q)}
Frames == [lo : Bound, hi : Bound, subLo : Bound, stale : BOOLEAN, live : BOOLEAN,
           at : {"scan", "emit", "return"}, i : Nat]
Entries == [t : Nat, kind : Kinds, lvl : Nat]

\* The frame f of the level with timeline q has left the times up to t behind.
Passed(f, q, t) ==
  \/ f.at = "scan" /\ f.subLo # Nil /\ t <= f.subLo
  \/ f.at = "emit" /\ t < q[f.i].t
  \/ f.at = "return" /\ (f.hi = Nil \/ t < f.hi)

\* The span a call was made for.
SpanOf(f) == <<f.lo, f.hi>>

\* The last sample inside its span that f took is at position a, 0 when it took none.
LeftAt(f, q, g, a) ==
  /\ a \in Inside(q, SpanOf(f), g) \union {0} /\ a < f.i
  /\ \A k \in Inside(q, SpanOf(f), g) : k <= a \/ k >= f.i
  /\ f.subLo = IF a = 0 THEN f.lo ELSE q[a].t
  /\ f.stale = (a > 0 /\ q[a].kind = "stale")
  /\ f.live = (a > 0 /\ q[a].kind # "stale")
  /\ a > 0 => a = f.i - 1

\* A frame's cursor stands behind what it took or skipped, before what it may take.
FrameInv(f, q, g) ==
  /\ f.i \in 1 .. Len(q) + 1
  /\ \E a \in 0 .. Len(q) : LeftAt(f, q, g, a)
  /\ \A j \in 1 .. f.i - 1 :
       j \in Inside(q, SpanOf(f), g) \/ ~ InMargins(q[j].t, f.lo, Nil, g)
  /\ \A j \in f.i .. Len(q) : InMargins(q[j].t, f.lo, Nil, g)
  /\ f.at = "emit" => f.i \in Inside(q, SpanOf(f), g)
  /\ f.at = "return" => \A k \in Inside(q, SpanOf(f), g) : k < f.i

\* Where the call a frame waits for ends.
CallHi(f, q) == IF f.at = "emit" THEN q[f.i].t ELSE f.hi

\* Each call of the stack is for a span its level really has.
FramesInv(qs, g, st) ==
  \A l \in 1 .. Len(st) : FrameInv(st[l], qs[l], g) /\ SpanOf(st[l]) \in Spans(qs, g)[l]

\* Each call but the innermost waits for the next one.
CallsInv(qs, st) ==
  \A l \in 1 .. Len(st) - 1 :
    /\ st[l].at # "scan"
    /\ st[l + 1].lo = st[l].subLo
    /\ st[l + 1].hi = CallHi(st[l], qs[l])

\* What the cursor of a level that is not being scanned has skipped lies below the
\* lower margin of every span the level can still be asked for.
CursorInv(qs, g, cs, st) ==
  /\ \A l \in 1 .. Len(st) : st[l].at = "return" => cs[l] = st[l].i
  /\ st # <<>> =>
       \A l \in Len(st) + 1 .. Len(qs) : \A j \in 1 .. cs[l] - 1 :
         Passed(st[Len(st)], qs[Len(st)], qs[l][j].t - g \div 4)

\* What was emitted is the reference as far as the innermost call has come.
OutInv(qs, g, st, o) ==
  \A e : (\E i \in 1 .. Len(o) : o[i] = e) <=>
           e \in Reference(qs, g) /\ (st = <<>> \/ Passed(st[Len(st)], qs[Len(st)], e.t))

\* What was emitted is in time order.
OrderInv(o) == \A i, j \in 1 .. Len(o) : i < j => o[i].t < o[j].t

\* A filler's marker follows a sample of that filler or of a later one, and so would
\* the next marker of a call that has emitted a sample.
MarkerInv(st, o) ==
  /\ \A i \in 1 .. Len(o) :
       (o[i].lvl > 1 /\ o[i].kind = "stale") => (i > 1 /\ o[i - 1].lvl >= o[i].lvl)
  /\ \A l \in 1 .. Len(st) : st[l].live => Len(o) > 0 /\ o[Len(o)].lvl >= l

\* The types of a call under way.
Types(qs, g, cs, st, o) ==
  /\ qs \in Seq(Timelines) /\ qs # <<>> /\ g \in Nat /\ g >= 1
  /\ cs \in [1 .. Len(qs) -> Nat] /\ \A l \in 1 .. Len(qs) : cs[l] \in 1 .. Len(qs[l]) + 1
  /\ st \in Seq(Frames) /\ Len(st) <= Len(qs)
  /\ o \in Seq(Entries)

\* The invariant of a call under way.
FillInv(qs, g, cs, st, o) ==
  /\ Types(qs, g, cs, st, o) /\ FramesInv(qs, g, st) /\ CallsInv(qs, st)
  /\ CursorInv(qs, g, cs, st) /\ OutInv(qs, g, st, o) /\ OrderInv(o) /\ MarkerInv(st, o)

\* How the call began.
CallInv ==
  /\ Len(seqs) = Len(fillers) + 1
  /\ filled \in [1 .. Len(seqs) - 1 -> Nat]
  /\ override = 0 /\ Len(seqs[1]) > 1 => \E m \in medianInterval(seqs[1]) : gap = 2 * m

\* The inductive invariant.
Inv ==
  /\ base \in Bases /\ fillers \in Fillers /\ override \in Overrides
  /\ IF seqs = <<>> THEN stack = <<>> /\ out = <<>>
     ELSE CallInv /\ FillInv(seqs, gap, cursors, stack, out)

-----------------------------------------------------------------------------
(***************************************************************************)
(* Induction on the levels.                                                *)
(***************************************************************************)
\* A set that holds 1 and with each level the next holds all levels.
LEMMA LevelInduction ==
  ASSUME NEW N \in Nat, NEW G, 1 \in G,
         \A l \in 1 .. N : l \in G /\ l + 1 <= N => l + 1 \in G
  PROVE  \A l \in 1 .. N : l \in G
<1>. SUFFICES ASSUME NEW k \in 1 .. N, k \notin G PROVE FALSE
  OBVIOUS
<1>. DEFINE S == {l \in 1 .. N : l \notin G}
<1>1. S \subseteq Nat /\ S # {}
  OBVIOUS
<1>2. PICK n \in S : \A m \in S : ~ (<<m, n>> \in OpToRel(<, Nat))
  <2>. HIDE DEF S
  <2>. QED  BY <1>1, NatLessThanWellFounded, WFMin
<1>3. \A m \in S : ~ (m < n)
  <2>1. \A m \in Nat, r \in Nat : <<m, r>> \in OpToRel(<, Nat) <=> m < r
    BY DEF OpToRel
  <2>. QED  BY <1>1, <1>2, <2>1
<1>4. n \in 1 .. N /\ n \notin G /\ n # 1
  OBVIOUS
<1>5. n - 1 \in 1 .. N /\ n - 1 \in G
  BY <1>3, <1>4
<1>. QED  BY <1>4, <1>5

\* A set of naturals that has a member has a smallest one.
LEMMA MinOf ==
  ASSUME NEW S, S \subseteq Nat, S # {}
  PROVE  Min(S) \in S /\ \A m \in S : Min(S) <= m
<1>1. PICK n \in S : \A m \in S : ~ (<<m, n>> \in OpToRel(<, Nat))
  BY NatLessThanWellFounded, WFMin
<1>2. \A m \in Nat, r \in Nat : <<m, r>> \in OpToRel(<, Nat) <=> m < r
  BY DEF OpToRel
<1>3. ASSUME NEW m \in S PROVE n <= m
  <2>1. ~ (m < n) /\ m \in Nat /\ n \in Nat
    BY <1>1, <1>2
  <2>. QED  BY <2>1
<1>. QED  BY <1>3 DEF Min

-----------------------------------------------------------------------------
(***************************************************************************)
(* The spans.                                                              *)
(***************************************************************************)
\* The step of the recursion of Spans.
NextSpans(qs, g, l, S) == UNION {OpenSpans(qs[l - 1], s, g) : s \in S}

\* The recursion defines the spans of every level.
LEMMA SpansUnfold ==
  ASSUME NEW qs, NEW N \in Nat, DOMAIN qs = 1 .. N, NEW g
  PROVE  Spans(qs, g) = [l \in 1 .. N |->
           IF l = 1 THEN {<<Nil, Nil>>} ELSE NextSpans(qs, g, l, Spans(qs, g)[l - 1])]
<1>. DEFINE Ok(S, k) == S = [l \in 1 .. k |-> S[l]] /\ \A l \in 1 .. k :
                          S[l] = IF l = 1 THEN {<<Nil, Nil>>} ELSE NextSpans(qs, g, l, S[l - 1])
            G == {k \in 1 .. N : \E S : Ok(S, k)}
<1>1. N >= 1 => 1 \in G
  <2>1. Ok([l \in 1 .. 1 |-> {<<Nil, Nil>>}], 1)
    OBVIOUS
  <2>2. \E S : Ok(S, 1)
    <3>. HIDE DEF Ok
    <3>. QED  BY <2>1
  <2>. HIDE DEF Ok
  <2>. QED  BY <2>2
<1>2. ASSUME NEW k \in 1 .. N, k \in G, k + 1 <= N PROVE k + 1 \in G
  <2>1. PICK S : Ok(S, k)
    BY <1>2
  <2>2. PICK X : X = NextSpans(qs, g, k + 1, S[k])
    OBVIOUS
  <2>3. PICK T : T = [l \in 1 .. k + 1 |-> IF l = k + 1 THEN X ELSE S[l]]
    OBVIOUS
  <2>4. T = [l \in 1 .. k + 1 |-> T[l]] /\ T[k + 1] = X /\ \A l \in 1 .. k : T[l] = S[l]
    BY <2>3
  <2>5. ASSUME NEW l \in 1 .. k + 1
        PROVE  T[l] = IF l = 1 THEN {<<Nil, Nil>>} ELSE NextSpans(qs, g, l, T[l - 1])
    <3>1. CASE l = k + 1
      <4>0. l - 1 = k /\ k \in 1 .. k /\ l # 1
        BY <3>1
      <4>1. T[l - 1] = S[k] /\ l # 1
        BY <2>4, <4>0
      <4>. QED  BY <2>2, <2>4, <3>1, <4>1
    <3>2. CASE l \in 1 .. k /\ l = 1
      BY <2>1, <2>4, <3>2
    <3>3. CASE l \in 1 .. k /\ l # 1
      <4>1. l - 1 \in 1 .. k
        BY <3>3
      <4>2. T[l] = S[l] /\ T[l - 1] = S[l - 1]
        BY <2>4, <3>3, <4>1
      <4>. QED  BY <2>1, <3>3, <4>2
    <3>. QED  BY <3>1, <3>2, <3>3
  <2>6. Ok(T, k + 1)
    BY <2>4, <2>5
  <2>. HIDE DEF Ok
  <2>. QED  BY <1>2, <2>6
<1>3. \E S : S = [l \in DOMAIN qs |-> IF l = 1 THEN {<<Nil, Nil>>} ELSE NextSpans(qs, g, l, S[l - 1])]
  <2>1. CASE N = 0
    <3>1. PICK S : S = [l \in DOMAIN qs |-> {}]
      OBVIOUS
    <3>2. S = [l \in DOMAIN qs |-> IF l = 1 THEN {<<Nil, Nil>>} ELSE NextSpans(qs, g, l, S[l - 1])]
      BY <2>1, <3>1
    <3>. QED  BY <3>2
  <2>2. CASE N >= 1
    <3>1. \A k \in 1 .. N : k \in G
      <4>. HIDE DEF G
      <4>. QED  BY <1>1, <1>2, <2>2, LevelInduction
    <3>2. PICK S : Ok(S, N)
      <4>. HIDE DEF Ok
      <4>. QED  BY <2>2, <3>1
    <3>3. S = [l \in 1 .. N |-> IF l = 1 THEN {<<Nil, Nil>>} ELSE NextSpans(qs, g, l, S[l - 1])]
      BY <3>2
    <3>. QED  BY <3>3
  <2>. QED  BY <2>1, <2>2
<1>4. Spans(qs, g) = CHOOSE S : S = [l \in DOMAIN qs |->
                       IF l = 1 THEN {<<Nil, Nil>>} ELSE NextSpans(qs, g, l, S[l - 1])]
  BY DEF Spans, NextSpans
<1>. QED  BY <1>3, <1>4

\* The time t lies strictly between the ends of s, or one span within another.
Within(t, s) == (s[1] = Nil \/ s[1] < t) /\ (s[2] = Nil \/ t < s[2])
Nested(o, s) ==
  /\ s[1] = Nil \/ (o[1] # Nil /\ s[1] <= o[1])
  /\ s[2] = Nil \/ (o[2] # Nil /\ o[2] <= s[2])
SpanSet == {s \in Bound \X Bound : s[1] = Nil \/ s[2] = Nil \/ s[1] < s[2]}

\* The margin is a natural number.
LEMMA MarginType ==
  ASSUME NEW g \in Nat
  PROVE  g \div 4 \in Nat
OBVIOUS

\* A timeline is a sequence of samples whose times ascend.
LEMMA TimelineFacts ==
  ASSUME NEW q \in Timelines
  PROVE  /\ Len(q) \in Nat /\ DOMAIN q = 1 .. Len(q)
         /\ \A i \in 1 .. Len(q) : q[i] \in Sample /\ q[i].t \in Nat /\ q[i].kind \in Kinds
         /\ \A i, j \in 1 .. Len(q) : i < j => q[i].t < q[j].t
         /\ \A i, j \in 1 .. Len(q) : i <= j => q[i].t <= q[j].t
<1>1. q \in Seq(Sample) /\ Ordered(q)
  BY DEF Timelines
<1>2. Len(q) \in Nat /\ DOMAIN q = 1 .. Len(q)
  BY <1>1
<1>3. \A i \in 1 .. Len(q) : q[i] \in Sample
  BY <1>1
<1>4. \A i \in 1 .. Len(q) : q[i].t \in Nat /\ q[i].kind \in Kinds
  BY <1>3 DEF Sample
<1>5. \A i, j \in 1 .. Len(q) : i < j => q[i].t < q[j].t
  BY <1>1, <1>2 DEF Ordered
<1>6. \A i, j \in 1 .. Len(q) : i <= j => q[i].t <= q[j].t
  <2>. SUFFICES ASSUME NEW i \in 1 .. Len(q), NEW j \in 1 .. Len(q), i <= j
                PROVE  q[i].t <= q[j].t
    OBVIOUS
  <2>1. q[i].t \in Nat /\ q[j].t \in Nat
    BY <1>4
  <2>2. i < j \/ i = j
    BY <1>2
  <2>3. i < j => q[i].t < q[j].t
    BY <1>5
  <2>. QED  BY <2>1, <2>2, <2>3
<1>. QED  BY <1>2, <1>3, <1>4, <1>5, <1>6

\* The two ends of a span.
LEMMA SpanFacts ==
  ASSUME NEW s \in SpanSet
  PROVE  /\ s[1] \in Bound /\ s[2] \in Bound /\ s = <<s[1], s[2]>>
         /\ s[1] = Nil \/ s[2] = Nil \/ s[1] < s[2]
         /\ s[1] # Nil => s[1] \in Nat
         /\ s[2] # Nil => s[2] \in Nat
BY DEF SpanSet, Bound

\* A sample inside a span is strictly between its ends.
LEMMA InsideFacts ==
  ASSUME NEW q \in Timelines, NEW s \in SpanSet, NEW g \in Nat, NEW i \in Inside(q, s, g)
  PROVE  /\ i \in 1 .. Len(q) /\ q[i].t \in Nat /\ q[i].t # Nil
         /\ s[1] # Nil => q[i].t > s[1] + g \div 4 /\ q[i].t > s[1]
         /\ s[2] # Nil => q[i].t < s[2] - g \div 4 /\ q[i].t < s[2]
         /\ Within(q[i].t, s)
<1>1. i \in 1 .. Len(q) /\ q[i].t \in Nat /\ InMargins(q[i].t, s[1], s[2], g)
  BY TimelineFacts DEF Inside
<1>2. PICK t \in Nat : t = q[i].t
  BY <1>1
<1>3. PICK lo, hi : s = <<lo, hi>> /\ lo = s[1] /\ hi = s[2] /\ lo \in Bound /\ hi \in Bound
  BY SpanFacts
<1>4. PICK m \in Nat : m = g \div 4
  BY MarginType
<1>5. (lo = Nil \/ t > lo + m) /\ (hi = Nil \/ t < hi - m)
  BY <1>1, <1>2, <1>3, <1>4 DEF InMargins
<1>6. /\ lo # Nil => t > lo + m /\ t > lo
      /\ hi # Nil => t < hi - m /\ t < hi
      /\ t # Nil
  BY <1>3, <1>5 DEF Bound, Nil
<1>7. Within(t, s)
  BY <1>3, <1>6 DEF Within
<1>. QED  BY <1>1, <1>2, <1>3, <1>4, <1>6, <1>7

\* What neighbours are.
LEMMA NeighbourFacts ==
  ASSUME NEW q \in Timelines, NEW s \in SpanSet, NEW g \in Nat, NEW ab \in Neighbours(q, s, g)
  PROVE  /\ ab = <<ab[1], ab[2]>> /\ ab[1] < ab[2]
         /\ ab[1] \in 0 .. Len(q) /\ ab[2] \in 1 .. Len(q) + 1
         /\ ab[1] # 0 => ab[1] \in Inside(q, s, g)
         /\ ab[2] # Len(q) + 1 => ab[2] \in Inside(q, s, g)
         /\ \A k \in Inside(q, s, g) : k <= ab[1] \/ k >= ab[2]
<1>1. /\ ab \in (Inside(q, s, g) \union {0}) \X (Inside(q, s, g) \union {Len(q) + 1})
      /\ ab[1] < ab[2] /\ \A k \in Inside(q, s, g) : k <= ab[1] \/ k >= ab[2]
  BY DEF Neighbours
<1>2. Inside(q, s, g) \subseteq 1 .. Len(q) /\ Len(q) \in Nat
  BY TimelineFacts DEF Inside
<1>. QED  BY <1>1, <1>2

\* The span between neighbours.
LEMMA BetweenFacts ==
  ASSUME NEW q \in Timelines, NEW s \in SpanSet, NEW g \in Nat, NEW ab \in Neighbours(q, s, g)
  PROVE  Between(q, s, ab) \in SpanSet /\ Nested(Between(q, s, ab), s)
<1>. DEFINE a == ab[1]
            b == ab[2]
            lo == IF a = 0 THEN s[1] ELSE q[a].t
            hi == IF b = Len(q) + 1 THEN s[2] ELSE q[b].t
<1>1. Between(q, s, ab) = <<lo, hi>>
  BY DEF Between
<1>2. /\ a < b /\ a \in 0 .. Len(q) /\ b \in 1 .. Len(q) + 1
      /\ a # 0 => a \in Inside(q, s, g)
      /\ b # Len(q) + 1 => b \in Inside(q, s, g)
      /\ Len(q) \in Nat
  BY NeighbourFacts, TimelineFacts
<1>3. s[1] \in Bound /\ s[2] \in Bound /\ (s[1] = Nil \/ s[2] = Nil \/ s[1] < s[2])
  BY SpanFacts
<1>4. a # 0 => /\ q[a].t \in Nat /\ q[a].t # Nil /\ a \in 1 .. Len(q)
               /\ s[1] # Nil => q[a].t > s[1]
               /\ s[2] # Nil => q[a].t < s[2]
  BY <1>2, InsideFacts
<1>5. b # Len(q) + 1 => /\ q[b].t \in Nat /\ q[b].t # Nil /\ b \in 1 .. Len(q)
                        /\ s[1] # Nil => q[b].t > s[1]
                        /\ s[2] # Nil => q[b].t < s[2]
  BY <1>2, InsideFacts
<1>6. a # 0 /\ b # Len(q) + 1 => q[a].t < q[b].t
  BY <1>2, <1>4, <1>5, TimelineFacts
<1>7. /\ lo \in Bound /\ (s[1] = Nil \/ (lo # Nil /\ s[1] <= lo))
      /\ hi \in Bound /\ (s[2] = Nil \/ (hi # Nil /\ hi <= s[2]))
      /\ lo = Nil \/ hi = Nil \/ lo < hi
  <2>1. CASE a = 0 /\ b = Len(q) + 1
    BY <1>3, <2>1 DEF Bound
  <2>2. CASE a = 0 /\ b # Len(q) + 1
    BY SMTT(60), <1>3, <1>5, <2>2 DEF Bound
  <2>3. CASE a # 0 /\ b = Len(q) + 1
    BY <1>3, <1>4, <2>3 DEF Bound
  <2>4. CASE a # 0 /\ b # Len(q) + 1
    BY SMTT(60), <1>3, <1>4, <1>5, <1>6, <2>4 DEF Bound
  <2>. QED  BY <2>1, <2>2, <2>3, <2>4
<1>. HIDE DEF lo, hi
<1>8. <<lo, hi>> \in SpanSet
  BY <1>7 DEF SpanSet
<1>9. Nested(<<lo, hi>>, s)
  BY <1>7 DEF Nested
<1>. QED  BY <1>1, <1>8, <1>9

\* No sample inside the span lies strictly between neighbours.
LEMMA OutsideNeighbours ==
  ASSUME NEW q \in Timelines, NEW s \in SpanSet, NEW g \in Nat, NEW ab \in Neighbours(q, s, g),
         NEW i \in Inside(q, s, g)
  PROVE  LET o == Between(q, s, ab) IN
         \/ o[1] # Nil /\ q[i].t <= o[1] /\ i <= ab[1]
         \/ o[2] # Nil /\ o[2] <= q[i].t /\ i >= ab[2]
<1>1. /\ ab[1] \in 0 .. Len(q) /\ ab[2] \in 1 .. Len(q) + 1
      /\ i <= ab[1] \/ i >= ab[2]
  BY NeighbourFacts
<1>2. /\ Between(q, s, ab)[1] = IF ab[1] = 0 THEN s[1] ELSE q[ab[1]].t
      /\ Between(q, s, ab)[2] = IF ab[2] = Len(q) + 1 THEN s[2] ELSE q[ab[2]].t
  BY DEF Between
<1>3. i \in 1 .. Len(q) /\ Len(q) \in Nat
  BY InsideFacts, TimelineFacts
<1>4. CASE i <= ab[1]
  <2>1. ab[1] \in 1 .. Len(q) /\ ab[1] # 0
    BY <1>1, <1>3, <1>4
  <2>2. q[ab[1]].t \in Nat /\ q[i].t <= q[ab[1]].t
    BY <1>3, <1>4, <2>1, TimelineFacts
  <2>. QED  BY <1>2, <1>4, <2>1, <2>2 DEF Nil
<1>5. CASE i >= ab[2]
  <2>1. ab[2] \in 1 .. Len(q) /\ ab[2] # Len(q) + 1
    BY <1>1, <1>3, <1>5
  <2>2. q[ab[2]].t \in Nat /\ q[ab[2]].t <= q[i].t
    BY <1>3, <1>5, <2>1, TimelineFacts
  <2>. QED  BY <1>2, <1>5, <2>1, <2>2 DEF Nil
<1>. QED  BY <1>1, <1>4, <1>5

\* A sample inside is never between two neighbours.
LEMMA NotWithin ==
  ASSUME NEW q \in Timelines, NEW s \in SpanSet, NEW g \in Nat, NEW ab \in Neighbours(q, s, g),
         NEW i \in Inside(q, s, g), Within(q[i].t, Between(q, s, ab))
  PROVE  FALSE
<1>1. PICK o \in SpanSet : o = Between(q, s, ab)
  BY BetweenFacts
<1>2. (o[1] # Nil /\ q[i].t <= o[1]) \/ (o[2] # Nil /\ o[2] <= q[i].t)
  BY <1>1, OutsideNeighbours
<1>3. q[i].t \in Nat
  BY InsideFacts
<1>4. PICK t \in Nat : t = q[i].t
  BY <1>3
<1>5. (o[1] = Nil \/ o[1] < t) /\ (o[2] = Nil \/ t < o[2])
  BY <1>1, <1>4 DEF Within
<1>6. (o[1] # Nil => o[1] \in Nat) /\ (o[2] # Nil => o[2] \in Nat)
  BY SpanFacts
<1>. QED  BY <1>2, <1>4, <1>5, <1>6

\* A time is between one pair of neighbours at most.
LEMMA OneSided ==
  ASSUME NEW q \in Timelines, NEW s \in SpanSet, NEW g \in Nat, NEW t \in Nat,
         NEW ab \in Neighbours(q, s, g), NEW cd \in Neighbours(q, s, g),
         Within(t, Between(q, s, ab)), Within(t, Between(q, s, cd))
  PROVE  ~ (ab[1] < cd[1]) /\ ~ (ab[2] < cd[2])
<1>1. /\ ab[1] \in 0 .. Len(q) /\ ab[2] \in 1 .. Len(q) + 1 /\ ab[1] < ab[2]
      /\ ab[2] # Len(q) + 1 => ab[2] \in Inside(q, s, g)
  BY NeighbourFacts
<1>2. /\ cd[1] \in 0 .. Len(q) /\ cd[2] \in 1 .. Len(q) + 1 /\ cd[1] < cd[2]
      /\ cd[1] # 0 => cd[1] \in Inside(q, s, g)
  BY NeighbourFacts
<1>3. PICK o \in SpanSet, p \in SpanSet : o = Between(q, s, ab) /\ p = Between(q, s, cd)
  BY BetweenFacts
<1>4. /\ (o[1] = Nil \/ o[1] < t) /\ (o[2] = Nil \/ t < o[2])
      /\ (p[1] = Nil \/ p[1] < t) /\ (p[2] = Nil \/ t < p[2])
  BY <1>3 DEF Within
<1>5. /\ (o[1] # Nil => o[1] \in Nat) /\ (o[2] # Nil => o[2] \in Nat)
      /\ (p[1] # Nil => p[1] \in Nat) /\ (p[2] # Nil => p[2] \in Nat)
  BY SpanFacts
<1>6. ASSUME ab[1] < cd[1] PROVE FALSE
  <2>1. cd[1] \in Inside(q, s, g)
    BY <1>1, <1>2, <1>6
  <2>2. (o[1] # Nil /\ q[cd[1]].t <= o[1] /\ cd[1] <= ab[1]) \/ (o[2] # Nil /\ o[2] <= q[cd[1]].t)
    BY <1>3, <2>1, OutsideNeighbours
  <2>3. o[2] # Nil /\ o[2] <= q[cd[1]].t
    BY <1>1, <1>2, <1>6, <2>2
  <2>4. p[1] = q[cd[1]].t /\ p[1] # Nil /\ p[1] \in Nat
    <3>1. cd[1] # 0
      BY <1>1, <1>2, <1>6
    <3>2. p[1] = q[cd[1]].t
      BY <1>3, <3>1 DEF Between
    <3>3. q[cd[1]].t \in Nat /\ q[cd[1]].t # Nil
      BY <2>1, InsideFacts
    <3>. QED  BY <3>2, <3>3
  <2>. QED  BY <1>4, <1>5, <2>3, <2>4
<1>7. ASSUME ab[2] < cd[2] PROVE FALSE
  <2>1. ab[2] \in Inside(q, s, g) /\ ab[2] # Len(q) + 1
    BY <1>1, <1>2, <1>7, TimelineFacts
  <2>2. (p[1] # Nil /\ q[ab[2]].t <= p[1]) \/ (p[2] # Nil /\ p[2] <= q[ab[2]].t /\ ab[2] >= cd[2])
    BY <1>3, <2>1, OutsideNeighbours
  <2>3. p[1] # Nil /\ q[ab[2]].t <= p[1]
    BY <1>1, <1>2, <1>7, <2>2
  <2>4. o[2] = q[ab[2]].t /\ o[2] # Nil /\ o[2] \in Nat
    <3>1. o[2] = q[ab[2]].t
      BY <1>3, <2>1 DEF Between
    <3>2. q[ab[2]].t \in Nat /\ q[ab[2]].t # Nil
      BY <2>1, InsideFacts
    <3>. QED  BY <3>1, <3>2
  <2>. QED  BY <1>4, <1>5, <2>3, <2>4
<1>. QED  BY <1>6, <1>7

\* A time lies between at most one pair of neighbours.
LEMMA NeighboursDisjoint ==
  ASSUME NEW q \in Timelines, NEW s \in SpanSet, NEW g \in Nat, NEW t \in Nat,
         NEW ab \in Neighbours(q, s, g), NEW cd \in Neighbours(q, s, g),
         Within(t, Between(q, s, ab)), Within(t, Between(q, s, cd))
  PROVE  ab = cd
<1>1. /\ ab = <<ab[1], ab[2]>> /\ cd = <<cd[1], cd[2]>>
      /\ ab[1] \in 0 .. Len(q) /\ ab[2] \in 1 .. Len(q) + 1
      /\ cd[1] \in 0 .. Len(q) /\ cd[2] \in 1 .. Len(q) + 1
  BY NeighbourFacts
<1>2. ~ (ab[1] < cd[1]) /\ ~ (ab[2] < cd[2]) /\ ~ (cd[1] < ab[1]) /\ ~ (cd[2] < ab[2])
  BY OneSided
<1>3. ab[1] = cd[1] /\ ab[2] = cd[2]
  BY SMTT(60), <1>1, <1>2, TimelineFacts
<1>. QED  BY <1>1, <1>3

-----------------------------------------------------------------------------
(***************************************************************************)
(* The spans of the levels lie within each other and are disjoint.         *)
(***************************************************************************)
\* The neighbours of an open span.
LEMMA OpenSpan ==
  ASSUME NEW q, NEW s, NEW g, NEW o
  PROVE  o \in OpenSpans(q, s, g) <=>
           \E ab \in Neighbours(q, s, g) :
             o = Between(q, s, ab) /\ needsFill(AfterMarker(q, ab), o[1], o[2], g)
BY DEF OpenSpans

\* The spans of the levels, without the recursive function.
LEMMA LevelFacts ==
  ASSUME NEW qs \in Seq(Timelines), NEW g \in Nat
  PROVE  /\ Len(qs) \in Nat /\ DOMAIN qs = 1 .. Len(qs)
         /\ \A l \in 1 .. Len(qs) : qs[l] \in Timelines
         /\ 1 <= Len(qs) => Spans(qs, g)[1] = {<<Nil, Nil>>}
         /\ \A l \in 1 .. Len(qs) : l + 1 <= Len(qs) =>
              \A o : o \in Spans(qs, g)[l + 1] <=>
                       \E s \in Spans(qs, g)[l] : o \in OpenSpans(qs[l], s, g)
<1>1. Len(qs) \in Nat /\ DOMAIN qs = 1 .. Len(qs) /\ \A l \in 1 .. Len(qs) : qs[l] \in Timelines
  OBVIOUS
<1>2. PICK N \in Nat : N = Len(qs)
  BY <1>1
<1>3. Spans(qs, g) = [l \in 1 .. N |->
           IF l = 1 THEN {<<Nil, Nil>>} ELSE NextSpans(qs, g, l, Spans(qs, g)[l - 1])]
  BY <1>1, <1>2, SpansUnfold
<1>4. PICK S : S = Spans(qs, g)
  OBVIOUS
<1>5. \A l \in 1 .. N : S[l] = IF l = 1 THEN {<<Nil, Nil>>} ELSE NextSpans(qs, g, l, S[l - 1])
  BY <1>3, <1>4
<1>6. 1 <= N => S[1] = {<<Nil, Nil>>}
  BY <1>5
<1>7. ASSUME NEW l \in 1 .. N, l + 1 <= N, NEW o
      PROVE  o \in S[l + 1] <=> \E s \in S[l] : o \in OpenSpans(qs[l], s, g)
  <2>1. l + 1 \in 1 .. N /\ l + 1 # 1 /\ (l + 1) - 1 = l
    BY <1>7
  <2>2. S[l + 1] = NextSpans(qs, g, l + 1, S[l])
    BY <1>5, <2>1
  <2>. QED  BY <2>1, <2>2 DEF NextSpans
<1>. QED  BY <1>1, <1>2, <1>4, <1>6, <1>7

\* What is within a span is within every span around it.
LEMMA WithinNested ==
  ASSUME NEW o \in SpanSet, NEW s \in SpanSet, NEW t \in Nat, Nested(o, s), Within(t, o)
  PROVE  Within(t, s)
<1>1. /\ s[1] = Nil \/ (o[1] # Nil /\ s[1] <= o[1])
      /\ s[2] = Nil \/ (o[2] # Nil /\ o[2] <= s[2])
      /\ (o[1] = Nil \/ o[1] < t) /\ (o[2] = Nil \/ t < o[2])
  BY DEF Nested, Within
<1>2. /\ (o[1] # Nil => o[1] \in Nat) /\ (o[2] # Nil => o[2] \in Nat)
      /\ (s[1] # Nil => s[1] \in Nat) /\ (s[2] # Nil => s[2] \in Nat)
  BY SpanFacts
<1>3. (s[1] = Nil \/ s[1] < t) /\ (s[2] = Nil \/ t < s[2])
  BY <1>1, <1>2
<1>. QED  BY <1>3 DEF Within

\* Nesting is transitive.
LEMMA NestedTrans ==
  ASSUME NEW o \in SpanSet, NEW p \in SpanSet, NEW s \in SpanSet, Nested(o, p), Nested(p, s)
  PROVE  Nested(o, s)
<1>1. /\ p[1] = Nil \/ (o[1] # Nil /\ p[1] <= o[1])
      /\ p[2] = Nil \/ (o[2] # Nil /\ o[2] <= p[2])
      /\ s[1] = Nil \/ (p[1] # Nil /\ s[1] <= p[1])
      /\ s[2] = Nil \/ (p[2] # Nil /\ p[2] <= s[2])
  BY DEF Nested
<1>2. /\ (o[1] # Nil => o[1] \in Nat) /\ (o[2] # Nil => o[2] \in Nat)
      /\ (p[1] # Nil => p[1] \in Nat) /\ (p[2] # Nil => p[2] \in Nat)
      /\ (s[1] # Nil => s[1] \in Nat) /\ (s[2] # Nil => s[2] \in Nat)
  BY SpanFacts
<1>3. /\ s[1] = Nil \/ (o[1] # Nil /\ s[1] <= o[1])
      /\ s[2] = Nil \/ (o[2] # Nil /\ o[2] <= s[2])
  BY <1>1, <1>2
<1>. QED  BY <1>3 DEF Nested

\* Nesting is reflexive.
LEMMA NestedSelf ==
  ASSUME NEW s \in SpanSet
  PROVE  Nested(s, s)
<1>1. (s[1] # Nil => s[1] \in Nat) /\ (s[2] # Nil => s[2] \in Nat)
  BY SpanFacts
<1>2. (s[1] # Nil => s[1] <= s[1]) /\ (s[2] # Nil => s[2] <= s[2])
  BY <1>1
<1>. QED  BY <1>2 DEF Nested

\* Every level is only asked for spans, by induction over the levels.
LEMMA SpanTypes ==
  ASSUME NEW qs \in Seq(Timelines), NEW g \in Nat
  PROVE  \A l \in 1 .. Len(qs) : Spans(qs, g)[l] \subseteq SpanSet
<1>1. CASE Len(qs) = 0
  BY <1>1
<1>2. CASE Len(qs) >= 1
  <2>. DEFINE G == {l \in 1 .. Len(qs) : Spans(qs, g)[l] \subseteq SpanSet}
  <2>1. 1 \in G
    <3>1. Spans(qs, g)[1] = {<<Nil, Nil>>}
      BY <1>2, LevelFacts
    <3>2. <<Nil, Nil>> \in SpanSet
      BY DEF SpanSet, Bound
    <3>3. 1 \in 1 .. Len(qs)
      BY <1>2, LevelFacts
    <3>4. Spans(qs, g)[1] \subseteq SpanSet
      BY <3>1, <3>2
    <3>. QED  BY <3>3, <3>4
  <2>2. ASSUME NEW l \in 1 .. Len(qs), l \in G, l + 1 <= Len(qs) PROVE l + 1 \in G
    <3>1. ASSUME NEW o \in Spans(qs, g)[l + 1] PROVE o \in SpanSet
      <4>1. PICK s \in Spans(qs, g)[l] : o \in OpenSpans(qs[l], s, g)
        BY <2>2, LevelFacts
      <4>2. s \in SpanSet /\ qs[l] \in Timelines
        BY <2>2, LevelFacts
      <4>3. PICK ab \in Neighbours(qs[l], s, g) : o = Between(qs[l], s, ab)
        BY <4>1, OpenSpan
      <4>. QED  BY <4>2, <4>3, BetweenFacts
    <3>2. l + 1 \in 1 .. Len(qs)
      BY <2>2, LevelFacts
    <3>. QED  BY <3>1, <3>2
  <2>3. Len(qs) \in Nat
    BY LevelFacts
  <2>4. \A l \in 1 .. Len(qs) : l \in G
    <3>. HIDE DEF G
    <3>. QED  BY <2>1, <2>2, <2>3, LevelInduction
  <2>. QED  BY <2>4
<1>. QED  BY <1>1, <1>2, LevelFacts

\* A level with timeline q left o open, between the neighbours ab of its span s.
LeftOpen(q, s, g, ab, o) ==
  /\ q \in Timelines /\ s \in SpanSet /\ o \in SpanSet /\ Nested(o, s)
  /\ ab \in Neighbours(q, s, g) /\ o = Between(q, s, ab)
  /\ needsFill(AfterMarker(q, ab), o[1], o[2], g)

\* A span of a filler was left open by the level before.
LEMMA Parent ==
  ASSUME NEW qs \in Seq(Timelines), NEW g \in Nat, NEW l \in 1 .. Len(qs), l + 1 <= Len(qs),
         NEW o \in Spans(qs, g)[l + 1]
  PROVE  \E s \in Spans(qs, g)[l] : \E ab : LeftOpen(qs[l], s, g, ab, o)
<1>1. PICK s \in Spans(qs, g)[l] : o \in OpenSpans(qs[l], s, g)
  BY LevelFacts
<1>2. s \in SpanSet /\ qs[l] \in Timelines
  BY LevelFacts, SpanTypes
<1>3. PICK ab \in Neighbours(qs[l], s, g) :
        o = Between(qs[l], s, ab) /\ needsFill(AfterMarker(qs[l], ab), o[1], o[2], g)
  BY <1>1, OpenSpan
<1>4. o \in SpanSet /\ Nested(o, s)
  BY <1>2, <1>3, BetweenFacts
<1>5. LeftOpen(qs[l], s, g, ab, o)
  BY <1>2, <1>3, <1>4 DEF LeftOpen
<1>. QED  BY <1>5

\* A time is in one span of a level at most.
LEMMA SpansDisjoint ==
  ASSUME NEW qs \in Seq(Timelines), NEW g \in Nat
  PROVE  \A l \in 1 .. Len(qs) : \A s1, s2 \in Spans(qs, g)[l], t \in Nat :
           Within(t, s1) /\ Within(t, s2) => s1 = s2
<1>1. CASE Len(qs) = 0
  BY <1>1
<1>2. CASE Len(qs) >= 1
  <2>. DEFINE G == {l \in 1 .. Len(qs) : \A s1, s2 \in Spans(qs, g)[l], t \in Nat :
                      Within(t, s1) /\ Within(t, s2) => s1 = s2}
  <2>1. 1 \in G
    <3>1. Spans(qs, g)[1] = {<<Nil, Nil>>}
      BY <1>2, LevelFacts
    <3>2. \A s1, s2 \in Spans(qs, g)[1] : s1 = s2
      BY <3>1
    <3>. QED  BY <1>2, <3>2, LevelFacts
  <2>2. ASSUME NEW l \in 1 .. Len(qs), l \in G, l + 1 <= Len(qs) PROVE l + 1 \in G
    <3>1. ASSUME NEW o1 \in Spans(qs, g)[l + 1], NEW o2 \in Spans(qs, g)[l + 1], NEW t \in Nat,
                 Within(t, o1), Within(t, o2)
          PROVE  o1 = o2
      <4>0. l + 1 <= Len(qs)
        BY <2>2
      <4>1. PICK s1 \in Spans(qs, g)[l] : \E ab : LeftOpen(qs[l], s1, g, ab, o1)
        BY <4>0, Parent
      <4>2. PICK ab : LeftOpen(qs[l], s1, g, ab, o1)
        BY <4>1
      <4>3. PICK s2 \in Spans(qs, g)[l] : \E ab2 : LeftOpen(qs[l], s2, g, ab2, o2)
        BY <4>0, Parent
      <4>4. PICK cd : LeftOpen(qs[l], s2, g, cd, o2)
        BY <4>3
      <4>5. Within(t, s1) /\ Within(t, s2)
        BY <3>1, <4>2, <4>4, WithinNested DEF LeftOpen
      <4>6. s1 = s2
        BY <2>2, <4>5
      <4>7. ab = cd
        BY <3>1, <4>2, <4>4, <4>6, NeighboursDisjoint DEF LeftOpen
      <4>. QED  BY <4>2, <4>4, <4>6, <4>7 DEF LeftOpen
    <3>2. l + 1 \in 1 .. Len(qs)
      BY <2>2, LevelFacts
    <3>. QED  BY <3>1, <3>2
  <2>3. Len(qs) \in Nat
    BY LevelFacts
  <2>4. \A l \in 1 .. Len(qs) : l \in G
    <3>. HIDE DEF G
    <3>. QED  BY <2>1, <2>2, <2>3, LevelInduction
  <2>. QED  BY <2>4
<1>. QED  BY <1>1, <1>2, LevelFacts

\* The spans of a level lie within the ones each earlier level left open.
LEMMA SpansNested ==
  ASSUME NEW qs \in Seq(Timelines), NEW g \in Nat, NEW n \in 1 .. Len(qs), NEW m \in 1 .. Len(qs),
         n < m, NEW s \in Spans(qs, g)[m]
  PROVE  \E S \in Spans(qs, g)[n] : \E ab, o : LeftOpen(qs[n], S, g, ab, o) /\ Nested(s, o)
<1>. DEFINE Q(p) == \E S \in Spans(qs, g)[n] : \E ab, o : LeftOpen(qs[n], S, g, ab, o) /\ Nested(p, o)
            G == {d \in Nat : \A o \in Spans(qs, g)[n + d] : Q(o)}
<1>0. Len(qs) \in Nat /\ n + 1 <= Len(qs)
  BY LevelFacts
<1>1. 1 \in G
  <2>1. ASSUME NEW o \in Spans(qs, g)[n + 1] PROVE Q(o)
    <3>1. PICK S \in Spans(qs, g)[n] : \E ab : LeftOpen(qs[n], S, g, ab, o)
      BY <1>0, Parent
    <3>2. PICK ab : LeftOpen(qs[n], S, g, ab, o)
      BY <3>1
    <3>3. Nested(o, o)
      BY <3>2, NestedSelf DEF LeftOpen
    <3>. QED  BY <3>2, <3>3
  <2>. HIDE DEF Q
  <2>. QED  BY <2>1
<1>2. ASSUME NEW d \in 1 .. Len(qs) - n, d \in G, d + 1 <= Len(qs) - n PROVE d + 1 \in G
  <2>0. n + d \in 1 .. Len(qs) /\ (n + d) + 1 <= Len(qs) /\ n + (d + 1) = (n + d) + 1 /\ d + 1 \in Nat
    BY <1>0, <1>2
  <2>1. ASSUME NEW o \in Spans(qs, g)[(n + d) + 1] PROVE Q(o)
    <3>0. PICK k \in 1 .. Len(qs) : k = n + d /\ k + 1 <= Len(qs) /\ o \in Spans(qs, g)[k + 1]
      BY <2>0
    <3>1. PICK p \in Spans(qs, g)[k] : \E ab : LeftOpen(qs[k], p, g, ab, o)
      BY <3>0, Parent
    <3>2. p \in SpanSet /\ o \in SpanSet /\ Nested(o, p)
      BY <3>1 DEF LeftOpen
    <3>3. Q(p)
      <4>. HIDE DEF Q
      <4>. QED  BY <1>2, <3>0
    <3>4. PICK S \in Spans(qs, g)[n] : \E ab, r : LeftOpen(qs[n], S, g, ab, r) /\ Nested(p, r)
      BY <3>3
    <3>5. PICK ab, r : LeftOpen(qs[n], S, g, ab, r) /\ Nested(p, r)
      BY <3>4
    <3>6. Nested(o, r)
      BY <3>2, <3>5, NestedTrans DEF LeftOpen
    <3>. QED  BY <3>5, <3>6
  <2>. HIDE DEF Q
  <2>. QED  BY <2>0, <2>1
<1>3. m - n \in 1 .. Len(qs) - n /\ Len(qs) - n \in Nat /\ n + (m - n) = m
  BY <1>0
<1>4. m - n \in G
  <2>. HIDE DEF G
  <2>. QED  BY <1>1, <1>2, <1>3, LevelInduction
<1>5. Q(s)
  <2>. HIDE DEF Q
  <2>. QED  BY <1>3, <1>4
<1>. QED  BY <1>5

\* A sample inside a span of an earlier level is not within a span of a later one.
LEMMA NotInEarlier ==
  ASSUME NEW qs \in Seq(Timelines), NEW g \in Nat, NEW n \in 1 .. Len(qs), NEW m \in 1 .. Len(qs),
         n < m, NEW S \in Spans(qs, g)[m], NEW s \in Spans(qs, g)[n],
         NEW i \in Inside(qs[n], s, g), Within(qs[n][i].t, S)
  PROVE  FALSE
<1>1. PICK P \in Spans(qs, g)[n] : \E ab, o : LeftOpen(qs[n], P, g, ab, o) /\ Nested(S, o)
  BY SpansNested
<1>2. PICK ab, o : LeftOpen(qs[n], P, g, ab, o) /\ Nested(S, o)
  BY <1>1
<1>3. qs[n] \in Timelines /\ s \in SpanSet /\ S \in SpanSet /\ P \in SpanSet /\ o \in SpanSet
  BY <1>2, LevelFacts, SpanTypes DEF LeftOpen
<1>4. PICK t \in Nat : t = qs[n][i].t /\ Within(t, s)
  BY <1>3, InsideFacts
<1>5. Within(t, o)
  BY <1>2, <1>3, <1>4, WithinNested
<1>6. Within(t, P)
  BY <1>2, <1>3, <1>5, WithinNested DEF LeftOpen
<1>7. P = s
  BY <1>4, <1>6, SpansDisjoint
<1>. QED  BY <1>2, <1>3, <1>4, <1>5, <1>7, NotWithin DEF LeftOpen

\* Only the levels below emit something between neighbours, and only in a gap.
LEMMA OnlyInGaps ==
  ASSUME NEW qs \in Seq(Timelines), NEW g \in Nat, NEW n \in 1 .. Len(qs), NEW m \in 1 .. Len(qs),
         NEW S \in Spans(qs, g)[n], NEW ab \in Neighbours(qs[n], S, g),
         NEW s \in Spans(qs, g)[m], NEW i \in Inside(qs[m], s, g),
         Within(qs[m][i].t, Between(qs[n], S, ab))
  PROVE  /\ n < m
         /\ needsFill(AfterMarker(qs[n], ab), Between(qs[n], S, ab)[1], Between(qs[n], S, ab)[2], g)
<1>1. /\ qs[n] \in Timelines /\ qs[m] \in Timelines /\ S \in SpanSet /\ s \in SpanSet
      /\ Len(qs) \in Nat
  BY LevelFacts, SpanTypes
<1>2. PICK B \in SpanSet : B = Between(qs[n], S, ab) /\ Nested(B, S)
  BY <1>1, BetweenFacts
<1>3. PICK t \in Nat : t = qs[m][i].t /\ Within(t, s)
  BY <1>1, InsideFacts
<1>4. Within(t, B) /\ Within(t, S)
  BY <1>1, <1>2, <1>3, WithinNested
<1>5. ~ (m < n)
  BY <1>3, <1>4, NotInEarlier
<1>6. m # n
  <2>. SUFFICES ASSUME m = n PROVE FALSE
    OBVIOUS
  <2>1. s = S
    BY <1>3, <1>4, SpansDisjoint
  <2>. QED  BY <1>1, <1>2, <1>3, <1>4, <2>1, NotWithin
<1>7. n < m
  BY <1>1, <1>5, <1>6
<1>8. PICK P \in Spans(qs, g)[n] : \E cd, o : LeftOpen(qs[n], P, g, cd, o) /\ Nested(s, o)
  BY <1>7, SpansNested
<1>9. PICK cd, o : LeftOpen(qs[n], P, g, cd, o) /\ Nested(s, o)
  BY <1>8
<1>10. P \in SpanSet /\ o \in SpanSet /\ Within(t, o)
  BY <1>1, <1>3, <1>9, WithinNested DEF LeftOpen
<1>11. Within(t, P)
  BY <1>9, <1>10, WithinNested DEF LeftOpen
<1>12. P = S
  BY <1>4, <1>11, SpansDisjoint
<1>13. cd = ab
  BY <1>1, <1>2, <1>4, <1>9, <1>10, <1>12, NeighboursDisjoint DEF LeftOpen
<1>. QED  BY <1>7, <1>9, <1>12, <1>13 DEF LeftOpen

\* At the time of a sample inside a span of its level nothing else is.
LEMMA SampleAlone ==
  ASSUME NEW qs \in Seq(Timelines), NEW g \in Nat, NEW n \in 1 .. Len(qs), NEW m \in 1 .. Len(qs),
         NEW S \in Spans(qs, g)[n], NEW a \in Inside(qs[n], S, g),
         NEW s \in Spans(qs, g)[m], NEW i \in Inside(qs[m], s, g),
         qs[m][i].t = qs[n][a].t
  PROVE  m = n /\ s = S /\ i = a
<1>1. /\ qs[n] \in Timelines /\ qs[m] \in Timelines /\ S \in SpanSet /\ s \in SpanSet
      /\ Len(qs) \in Nat
  BY LevelFacts, SpanTypes
<1>2. PICK t \in Nat : t = qs[m][i].t /\ t = qs[n][a].t /\ Within(t, s) /\ Within(t, S)
  BY <1>1, InsideFacts
<1>3. ~ (m < n) /\ ~ (n < m)
  BY <1>2, NotInEarlier
<1>4. m = n
  BY <1>1, <1>3
<1>5. s = S
  BY <1>2, <1>4, SpansDisjoint
<1>6. i \in 1 .. Len(qs[n]) /\ a \in 1 .. Len(qs[n])
  BY <1>1, <1>4, InsideFacts
<1>7. ~ (i < a) /\ ~ (a < i)
  BY SMTT(60), <1>1, <1>2, <1>4, <1>6, TimelineFacts
<1>. QED  BY <1>1, <1>4, <1>5, <1>6, <1>7, TimelineFacts

-----------------------------------------------------------------------------
(***************************************************************************)
(* The reference.                                                          *)
(***************************************************************************)
Entry(qs, l, i) == [t |-> qs[l][i].t, kind |-> qs[l][i].kind, lvl |-> l]

\* The members of the reference, one by one.
LEMMA ReferenceMember ==
  ASSUME NEW qs \in Seq(Timelines), NEW g \in Nat, NEW e
  PROVE  e \in Reference(qs, g) <=>
           \E l \in 1 .. Len(qs) : \E s \in Spans(qs, g)[l] : \E i \in EmittedIn(qs, l, s, g) :
             e = Entry(qs, l, i)
BY SMTT(60), LevelFacts DEF Reference, Entry

\* What is emitted is inside its span.
LEMMA EmittedInside ==
  ASSUME NEW qs, NEW l, NEW s, NEW g, NEW i \in EmittedIn(qs, l, s, g)
  PROVE  i \in Inside(qs[l], s, g)
BY DEF EmittedIn

\* Where an entry of the reference comes from.
LEMMA ReferenceFrom ==
  ASSUME NEW qs \in Seq(Timelines), NEW g \in Nat, NEW e \in Reference(qs, g)
  PROVE  \E l \in 1 .. Len(qs) : \E s \in Spans(qs, g)[l] : \E i \in EmittedIn(qs, l, s, g) :
           /\ i \in Inside(qs[l], s, g) /\ e = Entry(qs, l, i)
           /\ e.t = qs[l][i].t /\ e.kind = qs[l][i].kind /\ e.lvl = l /\ e \in Entries
<1>1. PICK l \in 1 .. Len(qs) : \E s \in Spans(qs, g)[l] : \E i \in EmittedIn(qs, l, s, g) :
        e = Entry(qs, l, i)
  BY ReferenceMember
<1>2. PICK s \in Spans(qs, g)[l] : \E i \in EmittedIn(qs, l, s, g) : e = Entry(qs, l, i)
  BY <1>1
<1>3. PICK i \in EmittedIn(qs, l, s, g) : e = Entry(qs, l, i)
  BY <1>2
<1>4. i \in Inside(qs[l], s, g)
  BY EmittedInside
<1>5. qs[l] \in Timelines /\ l \in Nat
  BY LevelFacts
<1>6. qs[l][i].t \in Nat /\ qs[l][i].kind \in Kinds
  BY <1>4, <1>5, TimelineFacts DEF Inside
<1>7. e.t = qs[l][i].t /\ e.kind = qs[l][i].kind /\ e.lvl = l /\ e \in Entries
  BY <1>3, <1>5, <1>6 DEF Entry, Entries
<1>. QED  BY <1>3, <1>4, <1>7

\* Between neighbours that are not passed on the reference has nothing.
LEMMA NothingBetween ==
  ASSUME NEW qs \in Seq(Timelines), NEW g \in Nat, NEW n \in 1 .. Len(qs),
         NEW S \in Spans(qs, g)[n], NEW ab \in Neighbours(qs[n], S, g),
         \/ n = Len(qs)
         \/ ~ needsFill(AfterMarker(qs[n], ab), Between(qs[n], S, ab)[1], Between(qs[n], S, ab)[2], g),
         NEW e \in Reference(qs, g)
  PROVE  ~ Within(e.t, Between(qs[n], S, ab))
<1>. SUFFICES ASSUME Within(e.t, Between(qs[n], S, ab)) PROVE FALSE
  OBVIOUS
<1>1. PICK m \in 1 .. Len(qs) : \E s \in Spans(qs, g)[m] : \E i \in EmittedIn(qs, m, s, g) :
        i \in Inside(qs[m], s, g) /\ e.t = qs[m][i].t
  BY ReferenceFrom
<1>2. PICK s, i : s \in Spans(qs, g)[m] /\ i \in Inside(qs[m], s, g) /\ e.t = qs[m][i].t
  BY <1>1
<1>3. /\ n < m
      /\ needsFill(AfterMarker(qs[n], ab), Between(qs[n], S, ab)[1], Between(qs[n], S, ab)[2], g)
  BY <1>2, OnlyInGaps
<1>. QED  BY <1>3, LevelFacts

-----------------------------------------------------------------------------
(***************************************************************************)
(* One call of fill.                                                       *)
(***************************************************************************)
\* A frame the stack holds, with its level.
OnStack(qs, g, n, f) ==
  /\ n \in 1 .. Len(qs) /\ f \in Frames
  /\ FrameInv(f, qs[n], g) /\ SpanOf(f) \in Spans(qs, g)[n]

\* The fields of a frame.
LEMMA FrameTypes ==
  ASSUME NEW f \in Frames
  PROVE  /\ f.lo \in Bound /\ f.hi \in Bound /\ f.subLo \in Bound
         /\ f.stale \in BOOLEAN /\ f.live \in BOOLEAN
         /\ f.at \in {"scan", "emit", "return"} /\ f.i \in Nat
BY DEF Frames

\* Both margins are the lower and the upper one.
LEMMA MarginParts ==
  ASSUME NEW t, NEW lo, NEW hi, NEW g
  PROVE  InMargins(t, lo, hi, g) <=> InMargins(t, lo, Nil, g) /\ InMargins(t, Nil, hi, g)
BY DEF InMargins

\* The sample the loop is at is inside the span.
LEMMA ScanInside ==
  ASSUME NEW q \in Timelines, NEW g, NEW f, FrameInv(f, q, g),
         f.i <= Len(q), InMargins(q[f.i].t, Nil, f.hi, g)
  PROVE  f.i \in Inside(q, SpanOf(f), g)
<1>1. f.i \in 1 .. Len(q) + 1 /\ Len(q) \in Nat /\ DOMAIN q = 1 .. Len(q)
  BY TimelineFacts DEF FrameInv
<1>2. f.i \in f.i .. Len(q) /\ f.i \in DOMAIN q
  BY <1>1
<1>3. InMargins(q[f.i].t, f.lo, Nil, g)
  BY <1>2 DEF FrameInv
<1>4. InMargins(q[f.i].t, f.lo, f.hi, g)
  BY <1>3, MarginParts
<1>5. SpanOf(f)[1] = f.lo /\ SpanOf(f)[2] = f.hi
  BY DEF SpanOf
<1>. QED  BY <1>2, <1>4, <1>5 DEF Inside

\* When the loop is over no sample is left inside the span.
LEMMA ScanOver ==
  ASSUME NEW q \in Timelines, NEW g \in Nat, NEW f \in Frames, FrameInv(f, q, g),
         ~ (f.i <= Len(q) /\ InMargins(q[f.i].t, Nil, f.hi, g)),
         NEW k \in Inside(q, SpanOf(f), g)
  PROVE  k < f.i
<1>. SUFFICES ASSUME ~ (k < f.i) PROVE FALSE
  OBVIOUS
<1>1. f.i \in 1 .. Len(q) + 1 /\ Len(q) \in Nat /\ DOMAIN q = 1 .. Len(q)
  BY TimelineFacts DEF FrameInv
<1>2. k \in 1 .. Len(q) /\ InMargins(q[k].t, f.lo, f.hi, g)
  BY <1>1 DEF Inside, SpanOf
<1>3. f.i \in 1 .. Len(q) /\ f.i <= k
  BY <1>1, <1>2
<1>4. q[f.i].t \in Nat /\ q[k].t \in Nat /\ q[f.i].t <= q[k].t
  BY <1>2, <1>3, TimelineFacts
<1>5. InMargins(q[k].t, Nil, f.hi, g) /\ ~ InMargins(q[f.i].t, Nil, f.hi, g)
  BY <1>2, <1>3, MarginParts
<1>6. f.hi \in Bound /\ g \div 4 \in Nat
  BY FrameTypes, MarginType
<1>7. PICK t \in Nat, u \in Nat, h \in Bound, m \in Nat :
        t = q[f.i].t /\ u = q[k].t /\ h = f.hi /\ m = g \div 4
  BY <1>4, <1>6
<1>8. (h = Nil \/ u < h - m) /\ ~ (h = Nil \/ t < h - m)
  BY <1>5, <1>7 DEF InMargins
<1>9. t <= u
  BY <1>4, <1>7
<1>. QED  BY ONLY <1>8, <1>9, t \in Nat, u \in Nat, m \in Nat, h \in Bound DEF Bound, Nil

\* The neighbours a frame is between.
LEMMA FrameNeighbours ==
  ASSUME NEW q \in Timelines, NEW g, NEW f, FrameInv(f, q, g), NEW a \in 0 .. Len(q),
         LeftAt(f, q, g, a)
  PROVE  /\ f.i \in Inside(q, SpanOf(f), g) =>
              /\ <<a, f.i>> \in Neighbours(q, SpanOf(f), g)
              /\ Between(q, SpanOf(f), <<a, f.i>>) = <<f.subLo, q[f.i].t>>
         /\ (\A k \in Inside(q, SpanOf(f), g) : k < f.i) =>
              /\ <<a, Len(q) + 1>> \in Neighbours(q, SpanOf(f), g)
              /\ Between(q, SpanOf(f), <<a, Len(q) + 1>>) = <<f.subLo, f.hi>>
         /\ \A b : AfterMarker(q, <<a, b>>) = f.stale
<1>1. f.i \in 1 .. Len(q) + 1 /\ Len(q) \in Nat /\ DOMAIN q = 1 .. Len(q)
  BY TimelineFacts DEF FrameInv
<1>2. /\ a \in Inside(q, SpanOf(f), g) \union {0} /\ a < f.i
      /\ \A k \in Inside(q, SpanOf(f), g) : k <= a \/ k >= f.i
      /\ f.subLo = IF a = 0 THEN f.lo ELSE q[a].t
      /\ f.stale = (a > 0 /\ q[a].kind = "stale")
  BY DEF LeftAt
<1>3. SpanOf(f)[1] = f.lo /\ SpanOf(f)[2] = f.hi
  BY DEF SpanOf
<1>4. Inside(q, SpanOf(f), g) \subseteq 1 .. Len(q)
  BY <1>1 DEF Inside
<1>5. ASSUME f.i \in Inside(q, SpanOf(f), g)
      PROVE  /\ <<a, f.i>> \in Neighbours(q, SpanOf(f), g)
             /\ Between(q, SpanOf(f), <<a, f.i>>) = <<f.subLo, q[f.i].t>>
  <2>1. f.i # Len(q) + 1
    BY <1>1, <1>4, <1>5
  <2>2. <<a, f.i>> \in Neighbours(q, SpanOf(f), g)
    BY <1>2, <1>5 DEF Neighbours
  <2>3. Between(q, SpanOf(f), <<a, f.i>>) = <<f.subLo, q[f.i].t>>
    BY <1>2, <1>3, <2>1 DEF Between
  <2>. QED  BY <2>2, <2>3
<1>6. ASSUME \A k \in Inside(q, SpanOf(f), g) : k < f.i
      PROVE  /\ <<a, Len(q) + 1>> \in Neighbours(q, SpanOf(f), g)
             /\ Between(q, SpanOf(f), <<a, Len(q) + 1>>) = <<f.subLo, f.hi>>
  <2>1. \A k \in Inside(q, SpanOf(f), g) : k <= a
    BY <1>1, <1>2, <1>4, <1>6
  <2>2. a < Len(q) + 1
    BY <1>1
  <2>3. <<a, Len(q) + 1>> \in Neighbours(q, SpanOf(f), g)
    BY <1>2, <2>1, <2>2 DEF Neighbours
  <2>4. Between(q, SpanOf(f), <<a, Len(q) + 1>>) = <<f.subLo, f.hi>>
    BY <1>2, <1>3 DEF Between
  <2>. QED  BY <2>3, <2>4
<1>7. \A b : AfterMarker(q, <<a, b>>) = f.stale
  BY <1>2 DEF AfterMarker
<1>. QED  BY <1>5, <1>6, <1>7

\* What is known of a frame on the stack.
LEMMA OnStackFacts ==
  ASSUME NEW qs \in Seq(Timelines), NEW g \in Nat, NEW n, NEW f, OnStack(qs, g, n, f)
  PROVE  /\ n \in 1 .. Len(qs) /\ Len(qs) \in Nat /\ qs[n] \in Timelines
         /\ SpanOf(f) \in SpanSet /\ SpanOf(f) \in Spans(qs, g)[n]
         /\ f \in Frames /\ FrameInv(f, qs[n], g)
         /\ SpanOf(f)[1] = f.lo /\ SpanOf(f)[2] = f.hi
BY LevelFacts, SpanTypes DEF OnStack, SpanOf

\* The span in front of the sample the loop is at.
LEMMA AtSample ==
  ASSUME NEW qs \in Seq(Timelines), NEW g \in Nat, NEW n, NEW f, OnStack(qs, g, n, f),
         f.i \in Inside(qs[n], SpanOf(f), g)
  PROVE  LET o == <<f.subLo, qs[n][f.i].t>> IN
         /\ o \in SpanSet
         /\ n = Len(qs) \/ ~ needsFill(f.stale, o[1], o[2], g) =>
              \A e \in Reference(qs, g) : ~ Within(e.t, o)
         /\ n < Len(qs) /\ needsFill(f.stale, o[1], o[2], g) => o \in Spans(qs, g)[n + 1]
<1>1. /\ n \in 1 .. Len(qs) /\ Len(qs) \in Nat /\ qs[n] \in Timelines
      /\ SpanOf(f) \in SpanSet /\ SpanOf(f) \in Spans(qs, g)[n]
      /\ FrameInv(f, qs[n], g)
  BY OnStackFacts
<1>2. PICK a \in 0 .. Len(qs[n]) : LeftAt(f, qs[n], g, a)
  BY <1>1 DEF FrameInv
<1>3. PICK ab, o : ab = <<a, f.i>> /\ o = <<f.subLo, qs[n][f.i].t>>
  OBVIOUS
<1>4. /\ ab \in Neighbours(qs[n], SpanOf(f), g)
      /\ Between(qs[n], SpanOf(f), ab) = o /\ AfterMarker(qs[n], ab) = f.stale
  BY ZenonT(60), <1>1, <1>2, <1>3, FrameNeighbours
<1>5. o \in SpanSet
  BY <1>1, <1>4, BetweenFacts
<1>6. ASSUME n = Len(qs) \/ ~ needsFill(f.stale, o[1], o[2], g), NEW e \in Reference(qs, g)
      PROVE  ~ Within(e.t, o)
  BY <1>1, <1>4, <1>6, NothingBetween
<1>7. ASSUME n < Len(qs), needsFill(f.stale, o[1], o[2], g) PROVE o \in Spans(qs, g)[n + 1]
  <2>1. o \in OpenSpans(qs[n], SpanOf(f), g)
    BY <1>4, <1>7, OpenSpan
  <2>2. n + 1 <= Len(qs)
    BY <1>1, <1>7
  <2>. QED  BY <1>1, <2>1, <2>2, LevelFacts
<1>. QED  BY <1>3, <1>5, <1>6, <1>7

\* The span that follows the last sample.
LEMMA AtEnd ==
  ASSUME NEW qs \in Seq(Timelines), NEW g \in Nat, NEW n, NEW f, OnStack(qs, g, n, f),
         \A k \in Inside(qs[n], SpanOf(f), g) : k < f.i
  PROVE  LET o == <<f.subLo, f.hi>> IN
         /\ o \in SpanSet
         /\ n = Len(qs) \/ ~ needsFill(f.stale, o[1], o[2], g) =>
              \A e \in Reference(qs, g) : ~ Within(e.t, o)
         /\ n < Len(qs) /\ needsFill(f.stale, o[1], o[2], g) => o \in Spans(qs, g)[n + 1]
<1>1. /\ n \in 1 .. Len(qs) /\ Len(qs) \in Nat /\ qs[n] \in Timelines
      /\ SpanOf(f) \in SpanSet /\ SpanOf(f) \in Spans(qs, g)[n]
      /\ FrameInv(f, qs[n], g)
  BY OnStackFacts
<1>2. PICK a \in 0 .. Len(qs[n]) : LeftAt(f, qs[n], g, a)
  BY <1>1 DEF FrameInv
<1>3. PICK ab, o : ab = <<a, Len(qs[n]) + 1>> /\ o = <<f.subLo, f.hi>>
  OBVIOUS
<1>4. /\ ab \in Neighbours(qs[n], SpanOf(f), g)
      /\ Between(qs[n], SpanOf(f), ab) = o /\ AfterMarker(qs[n], ab) = f.stale
  BY ZenonT(60), <1>1, <1>2, <1>3, FrameNeighbours
<1>5. o \in SpanSet
  BY <1>1, <1>4, BetweenFacts
<1>6. ASSUME n = Len(qs) \/ ~ needsFill(f.stale, o[1], o[2], g), NEW e \in Reference(qs, g)
      PROVE  ~ Within(e.t, o)
  BY <1>1, <1>4, <1>6, NothingBetween
<1>7. ASSUME n < Len(qs), needsFill(f.stale, o[1], o[2], g) PROVE o \in Spans(qs, g)[n + 1]
  <2>1. o \in OpenSpans(qs[n], SpanOf(f), g)
    BY <1>4, <1>7, OpenSpan
  <2>2. n + 1 <= Len(qs)
    BY <1>1, <1>7
  <2>. QED  BY <1>1, <2>1, <2>2, LevelFacts
<1>. QED  BY <1>3, <1>5, <1>6, <1>7

\* The reference has the sample the loop is at when the loop emits it, and nothing
\* else at its time.
LEMMA AtSampleEntry ==
  ASSUME NEW qs \in Seq(Timelines), NEW g \in Nat, NEW n, NEW f, OnStack(qs, g, n, f),
         f.i \in Inside(qs[n], SpanOf(f), g)
  PROVE  /\ Entry(qs, n, f.i) \in Reference(qs, g) <=>
              qs[n][f.i].kind # "stale" \/ KeepMarker(n, f.live)
         /\ \A e \in Reference(qs, g) : e.t = qs[n][f.i].t => e = Entry(qs, n, f.i)
<1>1. /\ n \in 1 .. Len(qs) /\ Len(qs) \in Nat /\ qs[n] \in Timelines
      /\ SpanOf(f) \in SpanSet /\ SpanOf(f) \in Spans(qs, g)[n]
      /\ FrameInv(f, qs[n], g)
  BY OnStackFacts
<1>2. PICK a \in 0 .. Len(qs[n]) : LeftAt(f, qs[n], g, a)
  BY <1>1 DEF FrameInv
<1>3. PICK q, S : q = qs[n] /\ S = SpanOf(f)
  OBVIOUS
<1>4. f.i \in EmittedIn(qs, n, S, g) <=> qs[n][f.i].kind # "stale" \/ KeepMarker(n, f.live)
  <2>1. /\ a \in Inside(q, S, g) \union {0} /\ a < f.i
        /\ \A k \in Inside(q, S, g) : k <= a \/ k >= f.i
        /\ f.live = (a > 0 /\ q[a].kind # "stale")
        /\ a > 0 => a = f.i - 1
    BY <1>2, <1>3 DEF LeftAt
  <2>2. f.i \in 1 .. Len(q) + 1 /\ Len(q) \in Nat /\ Inside(q, S, g) \subseteq 1 .. Len(q)
    BY <1>1, <1>3, TimelineFacts DEF FrameInv, Inside
  <2>3. f.live <=> f.i - 1 \in Inside(q, S, g) /\ q[f.i - 1].kind # "stale"
    <3>1. ASSUME f.live PROVE f.i - 1 \in Inside(q, S, g) /\ q[f.i - 1].kind # "stale"
      <4>1. a > 0 /\ q[a].kind # "stale"
        BY <2>1, <3>1
      <4>2. a # 0 /\ a = f.i - 1
        BY <2>1, <4>1
      <4>. QED  BY <2>1, <4>1, <4>2
    <3>2. ASSUME f.i - 1 \in Inside(q, S, g), q[f.i - 1].kind # "stale" PROVE f.live
      <4>1. f.i - 1 \in 1 .. Len(q)
        BY <2>2, <3>2
      <4>2. f.i - 1 <= a
        BY <2>1, <2>2, <3>2
      <4>3. a > 0 /\ a = f.i - 1
        BY <2>1, <2>2, <4>1, <4>2
      <4>. QED  BY <2>1, <3>2, <4>3
    <3>. QED  BY <3>1, <3>2
  <2>4. f.i \in EmittedIn(qs, n, S, g) <=>
          n = 1 \/ q[f.i].kind # "stale" \/ (f.i - 1 \in Inside(q, S, g) /\ q[f.i - 1].kind # "stale")
    BY <1>3 DEF EmittedIn
  <2>. QED  BY <1>3, <2>3, <2>4 DEF KeepMarker
<1>5. ASSUME NEW e \in Reference(qs, g), e.t = qs[n][f.i].t
      PROVE  e = Entry(qs, n, f.i) /\ f.i \in EmittedIn(qs, n, S, g)
  <2>1. PICK l \in 1 .. Len(qs) : \E s \in Spans(qs, g)[l] : \E i \in EmittedIn(qs, l, s, g) :
          i \in Inside(qs[l], s, g) /\ e = Entry(qs, l, i) /\ e.t = qs[l][i].t
    BY ReferenceFrom
  <2>2. PICK s \in Spans(qs, g)[l] : \E i \in EmittedIn(qs, l, s, g) :
          i \in Inside(qs[l], s, g) /\ e = Entry(qs, l, i) /\ e.t = qs[l][i].t
    BY <2>1
  <2>3. PICK i \in EmittedIn(qs, l, s, g) :
          i \in Inside(qs[l], s, g) /\ e = Entry(qs, l, i) /\ e.t = qs[l][i].t
    BY <2>2
  <2>4. l = n /\ s = S /\ i = f.i
    BY SMTT(60), <1>1, <1>3, <1>5, <2>3, SampleAlone
  <2>. QED  BY <2>3, <2>4
<1>6. f.i \in EmittedIn(qs, n, S, g) => Entry(qs, n, f.i) \in Reference(qs, g)
  BY <1>1, <1>3, ReferenceMember
<1>7. Entry(qs, n, f.i) \in Reference(qs, g) => f.i \in EmittedIn(qs, n, S, g)
  <2>1. Entry(qs, n, f.i).t = qs[n][f.i].t
    BY DEF Entry
  <2>. QED  BY <1>5, <2>1
<1>. QED  BY <1>4, <1>5, <1>6, <1>7

\* Emitting the sample takes the call past it and past nothing else of the reference.
LEMMA EmitPassed ==
  ASSUME NEW qs \in Seq(Timelines), NEW g \in Nat, NEW n, NEW f, OnStack(qs, g, n, f),
         f.i \in Inside(qs[n], SpanOf(f), g),
         \/ f.at = "emit"
         \/ /\ f.at = "scan"
            /\ n = Len(qs) \/ ~ needsFill(f.stale, f.subLo, qs[n][f.i].t, g),
         NEW f2, f2.at = "scan", f2.subLo = qs[n][f.i].t
  PROVE  /\ \A t \in Int : Passed(f, qs[n], t) => t < qs[n][f.i].t /\ Passed(f2, qs[n], t)
         /\ \A e \in Reference(qs, g) :
              Passed(f2, qs[n], e.t) <=> Passed(f, qs[n], e.t) \/ e = Entry(qs, n, f.i)
<1>1. qs[n] \in Timelines /\ SpanOf(f) \in SpanSet /\ f \in Frames
  BY OnStackFacts
<1>2. PICK u \in Nat : u = qs[n][f.i].t /\ u # Nil
  BY <1>1, InsideFacts
<1>3. PICK L \in Bound : L = f.subLo
  BY <1>1, FrameTypes
<1>4. <<L, u>> \in SpanSet
  BY <1>2, <1>3, AtSample
<1>5. L = Nil \/ (L \in Nat /\ L < u)
  BY <1>2, <1>4 DEF SpanSet, Bound
<1>6. \A t \in Int : Passed(f2, qs[n], t) <=> t <= u
  BY <1>2 DEF Passed
<1>7. \A e \in Reference(qs, g) : e.t \in Nat
  BY ReferenceFrom DEF Entries
<1>8. ASSUME NEW e \in Reference(qs, g)
      PROVE  /\ e.t = u => e = Entry(qs, n, f.i)
             /\ e = Entry(qs, n, f.i) => e.t = u
  <2>1. e.t = qs[n][f.i].t => e = Entry(qs, n, f.i)
    BY AtSampleEntry
  <2>2. Entry(qs, n, f.i).t = qs[n][f.i].t
    BY DEF Entry
  <2>. QED  BY <1>2, <2>1, <2>2
<1>9. CASE f.at = "emit"
  <2>1. \A t \in Int : Passed(f, qs[n], t) <=> t < u
    BY <1>2, <1>9 DEF Passed
  <2>2. \A t \in Int : Passed(f, qs[n], t) => t < u /\ Passed(f2, qs[n], t)
    BY <1>6, <2>1
  <2>3. ASSUME NEW e \in Reference(qs, g)
        PROVE  Passed(f2, qs[n], e.t) <=> Passed(f, qs[n], e.t) \/ e = Entry(qs, n, f.i)
    <3>1. PICK t \in Nat : t = e.t
      BY <1>7
    <3>2. (Passed(f2, qs[n], t) <=> t <= u) /\ (Passed(f, qs[n], t) <=> t < u)
      BY <1>6, <2>1
    <3>3. t = u <=> e = Entry(qs, n, f.i)
      BY <1>8, <3>1
    <3>. QED  BY <3>1, <3>2, <3>3
  <2>. QED  BY <1>2, <2>2, <2>3
<1>10. CASE f.at = "scan" /\ (n = Len(qs) \/ ~ needsFill(f.stale, f.subLo, qs[n][f.i].t, g))
  <2>1. \A t \in Int : Passed(f, qs[n], t) <=> L # Nil /\ t <= L
    BY <1>3, <1>10 DEF Passed
  <2>2. \A t \in Int : Passed(f, qs[n], t) => t < u /\ Passed(f2, qs[n], t)
    BY <1>5, <1>6, <2>1
  <2>3. ASSUME NEW e \in Reference(qs, g)
        PROVE  Passed(f2, qs[n], e.t) <=> Passed(f, qs[n], e.t) \/ e = Entry(qs, n, f.i)
    <3>1. PICK t \in Nat : t = e.t
      BY <1>7
    <3>2. (Passed(f2, qs[n], t) <=> t <= u) /\ (Passed(f, qs[n], t) <=> L # Nil /\ t <= L)
      BY SMTT(60), <1>6, <2>1
    <3>3. t = u <=> e = Entry(qs, n, f.i)
      BY <1>8, <3>1
    <3>4. ~ Within(t, <<L, u>>)
      BY <1>2, <1>3, <1>10, <3>1, AtSample
    <3>5. ~ ((L = Nil \/ L < t) /\ t < u)
      BY <3>4 DEF Within
    <3>6. t <= u <=> (L # Nil /\ t <= L) \/ t = u
      BY <1>5, <3>5
    <3>. QED  BY <3>1, <3>2, <3>3, <3>6
  <2>. QED  BY <1>2, <2>2, <2>3
<1>. QED  BY <1>9, <1>10

\* A call that is over is past its span.
LEMMA PopPassed ==
  ASSUME NEW qs \in Seq(Timelines), NEW g \in Nat, NEW n, NEW f, OnStack(qs, g, n, f),
         \/ f.at = "return"
         \/ /\ f.at = "scan"
            /\ \A k \in Inside(qs[n], SpanOf(f), g) : k < f.i
            /\ n = Len(qs) \/ ~ needsFill(f.stale, f.subLo, f.hi, g)
  PROVE  /\ \A t \in Int : Passed(f, qs[n], t) => f.hi = Nil \/ t < f.hi
         /\ \A e \in Reference(qs, g) : Passed(f, qs[n], e.t) <=> f.hi = Nil \/ e.t < f.hi
<1>1. qs[n] \in Timelines /\ SpanOf(f) \in SpanSet /\ f \in Frames
  BY OnStackFacts
<1>2. CASE f.at = "return"
  BY <1>2 DEF Passed
<1>3. CASE /\ f.at = "scan"
           /\ \A k \in Inside(qs[n], SpanOf(f), g) : k < f.i
           /\ n = Len(qs) \/ ~ needsFill(f.stale, f.subLo, f.hi, g)
  <2>1. PICK L \in Bound, h \in Bound : L = f.subLo /\ h = f.hi
    BY <1>1, FrameTypes
  <2>2. <<L, h>> \in SpanSet
    BY <1>3, <2>1, AtEnd
  <2>3. L = Nil \/ h = Nil \/ (L \in Nat /\ h \in Nat /\ L < h)
    BY <2>2 DEF SpanSet, Bound
  <2>4. \A t : Passed(f, qs[n], t) <=> L # Nil /\ t <= L
    BY <1>3, <2>1 DEF Passed
  <2>5. \A t \in Int : L # Nil /\ t <= L => h = Nil \/ t < h
    BY <2>3
  <2>6. ASSUME NEW e \in Reference(qs, g), h = Nil \/ e.t < h PROVE L # Nil /\ e.t <= L
    <3>1. PICK t \in Nat : t = e.t
      BY ReferenceFrom DEF Entries
    <3>2. ~ Within(t, <<L, h>>)
      BY <1>3, <2>1, <3>1, AtEnd
    <3>3. ~ ((L = Nil \/ L < t) /\ (h = Nil \/ t < h))
      BY <3>2 DEF Within
    <3>. QED  BY <2>1, <2>6, <3>1, <3>3 DEF Bound
  <2>7. ASSUME NEW e \in Reference(qs, g), L # Nil, e.t <= L PROVE h = Nil \/ e.t < h
    <3>1. e.t \in Int
      BY ReferenceFrom DEF Entries
    <3>. QED  BY <2>5, <2>7, <3>1
  <2>. QED  BY <2>1, <2>4, <2>5, <2>6, <2>7
<1>. QED  BY <1>2, <1>3

\* How far the caller is once the call it waits for is over.
LEMMA CallerPassed ==
  ASSUME NEW qs \in Seq(Timelines), NEW g \in Nat, NEW n, NEW f, OnStack(qs, g, n, f),
         f.at # "scan"
  PROVE  \A t : Passed(f, qs[n], t) <=> CallHi(f, qs[n]) = Nil \/ t < CallHi(f, qs[n])
<1>1. qs[n] \in Timelines /\ SpanOf(f) \in SpanSet /\ f \in Frames /\ FrameInv(f, qs[n], g)
  BY OnStackFacts
<1>2. CASE f.at = "emit"
  <2>1. f.i \in Inside(qs[n], SpanOf(f), g)
    BY <1>1, <1>2 DEF FrameInv
  <2>2. qs[n][f.i].t # Nil
    BY <1>1, <2>1, InsideFacts
  <2>. QED  BY <1>2, <2>2 DEF Passed, CallHi
<1>3. CASE f.at = "return"
  BY <1>3 DEF Passed, CallHi
<1>. QED  BY <1>1, <1>2, <1>3, FrameTypes

\* What the cursor of level n has skipped is below the lower margin of a call from lo.
SkippedBelow(qs, g, cs, n, lo) ==
  /\ cs[n] \in 1 .. Len(qs[n]) + 1
  /\ \A j \in 1 .. cs[n] - 1 : ~ InMargins(qs[n][j].t, lo, Nil, g)

\* The frame of a call that has not taken a sample yet.
Begun(F, lo, hi) == F.lo = lo /\ F.hi = hi /\ F.subLo = lo /\ F.at = "scan" /\ F.live = FALSE

\* A call begins at the first sample past its lower margin.
LEMMA NewFrame ==
  ASSUME NEW qs \in Seq(Timelines), NEW g \in Nat, NEW n \in 1 .. Len(qs), NEW cs,
         NEW lo, NEW hi, <<lo, hi>> \in Spans(qs, g)[n], SkippedBelow(qs, g, cs, n, lo)
  PROVE  /\ OnStack(qs, g, n, Frame(qs, g, cs, n, lo, hi))
         /\ Begun(Frame(qs, g, cs, n, lo, hi), lo, hi)
<1>0. /\ cs[n] \in 1 .. Len(qs[n]) + 1
      /\ \A j \in 1 .. cs[n] - 1 : ~ InMargins(qs[n][j].t, lo, Nil, g)
  BY DEF SkippedBelow
<1>F. PICK F : F = Frame(qs, g, cs, n, lo, hi)
  OBVIOUS
<1>1. qs[n] \in Timelines /\ <<lo, hi>> \in SpanSet
  BY LevelFacts, SpanTypes
<1>2. PICK q, c : q = qs[n] /\ c = cs[n]
  OBVIOUS
<1>3. /\ Len(q) \in Nat /\ c \in 1 .. Len(q) + 1 /\ DOMAIN q = 1 .. Len(q)
      /\ lo \in Bound /\ hi \in Bound
  BY <1>0, <1>1, <1>2, TimelineFacts, SpanFacts
<1>4. PICK M : M = {j \in c .. Len(q) : InMargins(q[j].t, lo, Nil, g)} \union {Len(q) + 1}
  OBVIOUS
<1>5. M \subseteq Nat /\ M # {}
  BY <1>3, <1>4
<1>6. PICK i : i = Min(M)
  OBVIOUS
<1>7. i \in M /\ \A j \in M : i <= j
  BY <1>5, <1>6, MinOf
<1>8. i \in 1 .. Len(q) + 1 /\ i \in Nat
  BY <1>3, <1>4, <1>7
<1>9. F = [lo |-> lo, hi |-> hi, subLo |-> lo, stale |-> FALSE, live |-> FALSE,
           at |-> "scan", i |-> i]
  BY <1>F, <1>2, <1>4, <1>6 DEF Frame
<1>11. /\ F \in Frames /\ F.lo = lo /\ F.hi = hi /\ F.subLo = lo /\ F.at = "scan" /\ F.live = FALSE
       /\ F.i = i /\ F.stale = FALSE /\ SpanOf(F) = <<lo, hi>>
  BY <1>3, <1>8, <1>9 DEF Frames, SpanOf
<1>12. ASSUME NEW j \in 1 .. i - 1 PROVE ~ InMargins(q[j].t, lo, Nil, g)
  <2>1. CASE j < c
    BY SMTT(60), <1>0, <1>2, <1>3, <1>8, <2>1
  <2>2. CASE c <= j
    <3>1. j \in c .. Len(q) /\ ~ (i <= j)
      BY <1>3, <1>8, <2>2
    <3>. QED  BY <1>4, <1>7, <3>1
  <2>. QED  BY SMTT(60), <1>3, <1>8, <2>1, <2>2
<1>13. \A k \in Inside(q, <<lo, hi>>, g) : k \in 1 .. Len(q) /\ InMargins(q[k].t, lo, Nil, g)
  BY <1>3, MarginParts DEF Inside
<1>14. ASSUME NEW k \in Inside(q, <<lo, hi>>, g) PROVE k >= i
  <2>1. k \in 1 .. Len(q) /\ InMargins(q[k].t, lo, Nil, g)
    BY <1>13
  <2>2. k \notin 1 .. i - 1
    BY <1>12, <2>1
  <2>. QED  BY <1>3, <1>8, <2>1, <2>2
<1>15. LeftAt(F, q, g, 0)
  <2>1. 0 < i
    BY <1>8
  <2>2. ~ (0 > 0)
    OBVIOUS
  <2>3. F.stale = (0 > 0 /\ q[0].kind = "stale") /\ F.live = (0 > 0 /\ q[0].kind # "stale")
    BY <1>11, <2>2
  <2>4. \A k \in Inside(q, SpanOf(F), g) : k <= 0 \/ k >= F.i
    BY <1>11, <1>14
  <2>. QED  BY <1>11, <2>1, <2>2, <2>3, <2>4 DEF LeftAt
<1>16. ASSUME NEW j \in i .. Len(q) PROVE InMargins(q[j].t, lo, Nil, g)
  <2>1. i \in 1 .. Len(q) /\ j \in 1 .. Len(q) /\ i <= j
    BY <1>3, <1>8
  <2>2. InMargins(q[i].t, lo, Nil, g)
    BY <1>3, <1>4, <1>7, <2>1
  <2>3. q[i].t \in Nat /\ q[j].t \in Nat /\ q[i].t <= q[j].t
    BY <1>1, <1>2, <2>1, TimelineFacts
  <2>4. PICK t \in Nat, u \in Nat, m \in Nat : t = q[i].t /\ u = q[j].t /\ m = g \div 4 /\ t <= u
    BY <2>3, MarginType
  <2>5. lo = Nil \/ t > lo + m
    BY <2>2, <2>4 DEF InMargins
  <2>6. lo = Nil \/ u > lo + m
    <3>1. lo = Nil \/ lo \in Nat
      BY <1>3 DEF Bound
    <3>. QED  BY SMTT(60), <2>4, <2>5, <3>1
  <2>. QED  BY <2>4, <2>6 DEF InMargins
<1>17. FrameInv(F, q, g)
  BY <1>3, <1>8, <1>11, <1>12, <1>15, <1>16 DEF FrameInv
<1>. QED  BY <1>F, <1>2, <1>11, <1>17 DEF OnStack, Begun

-----------------------------------------------------------------------------
(***************************************************************************)
(* The steps of the machine keep the invariant.                            *)
(***************************************************************************)
LEMMA StackFacts ==
  ASSUME NEW qs, NEW g, NEW cs, NEW st, NEW o, Types(qs, g, cs, st, o), FramesInv(qs, g, st)
  PROVE  /\ qs \in Seq(Timelines) /\ g \in Nat /\ Len(qs) \in Nat /\ Len(st) \in Nat
         /\ Len(st) <= Len(qs) /\ st \in Seq(Frames)
         /\ \A l \in 1 .. Len(st) : OnStack(qs, g, l, st[l]) /\ st[l] \in Frames
<1>1. /\ qs \in Seq(Timelines) /\ g \in Nat /\ Len(qs) \in Nat /\ Len(st) \in Nat
      /\ Len(st) <= Len(qs) /\ st \in Seq(Frames)
  BY DEF Types
<1>2. ASSUME NEW l \in 1 .. Len(st) PROVE OnStack(qs, g, l, st[l]) /\ st[l] \in Frames
  <2>1. st[l] \in Frames /\ l \in 1 .. Len(qs)
    BY <1>1
  <2>. QED  BY <2>1 DEF OnStack, FramesInv
<1>. QED  BY <1>1, <1>2

\* What OnStack says about all calls is what the invariant says about the stack.
LEMMA FramesFromStack ==
  ASSUME NEW qs, NEW g, NEW st, \A l \in 1 .. Len(st) : OnStack(qs, g, l, st[l])
  PROVE  FramesInv(qs, g, st)
BY DEF OnStack, FramesInv

\* A call is over and its caller goes on.
LEMMA PopKeeps ==
  ASSUME NEW qs, NEW g, NEW cs, NEW st, NEW o, FillInv(qs, g, cs, st, o),
         NEW n, n = Len(st), n > 0, NEW f, f = st[n],
         \/ f.at = "return"
         \/ /\ f.at = "scan"
            /\ \A k \in Inside(qs[n], SpanOf(f), g) : k < f.i
            /\ n = Len(qs) \/ ~ needsFill(f.stale, f.subLo, f.hi, g),
         NEW c2 \in [1 .. Len(qs) -> Nat], c2[n] = f.i,
         \A l \in 1 .. Len(qs) : l # n => c2[l] = cs[l],
         NEW st2, st2 = SubSeq(st, 1, n - 1)
  PROVE  FillInv(qs, g, c2, st2, o)
<1>1. /\ Types(qs, g, cs, st, o) /\ FramesInv(qs, g, st) /\ CallsInv(qs, st)
      /\ CursorInv(qs, g, cs, st) /\ OutInv(qs, g, st, o) /\ OrderInv(o) /\ MarkerInv(st, o)
  BY DEF FillInv
<1>2. /\ qs \in Seq(Timelines) /\ g \in Nat /\ Len(qs) \in Nat /\ n \in Nat
      /\ n <= Len(qs) /\ st \in Seq(Frames)
      /\ \A l \in 1 .. n : OnStack(qs, g, l, st[l]) /\ st[l] \in Frames
  BY <1>1, StackFacts
<1>3. /\ st2 \in Seq(Frames) /\ Len(st2) = n - 1
      /\ \A l \in 1 .. n - 1 : st2[l] = st[l]
  BY <1>2
<1>4. OnStack(qs, g, n, f) /\ n \in 1 .. Len(qs)
  BY <1>2
<1>5. /\ qs[n] \in Timelines /\ f \in Frames /\ FrameInv(f, qs[n], g)
      /\ SpanOf(f) \in SpanSet /\ SpanOf(f)[1] = f.lo /\ SpanOf(f)[2] = f.hi
      /\ SpanOf(f) \in Spans(qs, g)[n]
  BY <1>2, <1>4, OnStackFacts
<1>6. /\ \A t \in Int : Passed(f, qs[n], t) => f.hi = Nil \/ t < f.hi
      /\ \A e \in Reference(qs, g) : Passed(f, qs[n], e.t) <=> f.hi = Nil \/ e.t < f.hi
  BY <1>2, <1>4, PopPassed
<1>7. n > 1 => \A t : Passed(st[n - 1], qs[n - 1], t) <=> f.hi = Nil \/ t < f.hi
  <2>. SUFFICES ASSUME n > 1
                PROVE  \A t : Passed(st[n - 1], qs[n - 1], t) <=> f.hi = Nil \/ t < f.hi
    OBVIOUS
  <2>1. n - 1 \in 1 .. Len(st) - 1 /\ n - 1 \in 1 .. n /\ (n - 1) + 1 = n
    BY <1>2
  <2>2. st[n - 1].at # "scan" /\ f.hi = CallHi(st[n - 1], qs[n - 1])
    BY <1>1, <2>1 DEF CallsInv
  <2>3. OnStack(qs, g, n - 1, st[n - 1])
    BY <1>2, <2>1
  <2>. QED  BY ZenonT(60), <1>2, <2>2, <2>3, CallerPassed
<1>8. n = 1 => f.hi = Nil
  <2>1. n = 1 => SpanOf(f) = <<Nil, Nil>>
    BY <1>2, <1>5, LevelFacts
  <2>. QED  BY <1>5, <2>1
<1>9. f.i \in 1 .. Len(qs[n]) + 1
  BY <1>5 DEF FrameInv
<1>10. Types(qs, g, c2, st2, o)
  <2>1. ASSUME NEW l \in 1 .. Len(qs) PROVE c2[l] \in 1 .. Len(qs[l]) + 1
    BY <1>1, <1>9 DEF Types
  <2>. QED  BY <1>1, <1>2, <1>3, <2>1 DEF Types
<1>11. FramesInv(qs, g, st2)
  <2>1. ASSUME NEW l \in 1 .. Len(st2) PROVE OnStack(qs, g, l, st2[l])
    <3>1. l \in 1 .. n - 1 /\ l \in 1 .. n
      BY <1>2, <1>3
    <3>. QED  BY <1>2, <1>3, <3>1
  <2>. QED  BY <2>1, FramesFromStack
<1>12. CallsInv(qs, st2)
  <2>. SUFFICES ASSUME NEW l \in 1 .. Len(st2) - 1
                PROVE  /\ st2[l].at # "scan" /\ st2[l + 1].lo = st2[l].subLo
                       /\ st2[l + 1].hi = CallHi(st2[l], qs[l])
    BY DEF CallsInv
  <2>1. l \in 1 .. Len(st) - 1 /\ l \in 1 .. n - 1 /\ l + 1 \in 1 .. n - 1
    BY <1>2, <1>3
  <2>2. st2[l] = st[l] /\ st2[l + 1] = st[l + 1]
    BY <1>3, <2>1
  <2>. QED  BY <1>1, <2>1, <2>2 DEF CallsInv
<1>13. CursorInv(qs, g, c2, st2)
  <2>1. ASSUME NEW l \in 1 .. Len(st2), st2[l].at = "return" PROVE c2[l] = st2[l].i
    <3>1. l \in 1 .. n - 1 /\ l \in 1 .. Len(st) /\ l \in 1 .. Len(qs) /\ l # n
      BY <1>2, <1>3
    <3>2. st[l].at = "return" /\ st2[l] = st[l]
      BY <1>3, <2>1, <3>1
    <3>3. cs[l] = st[l].i
      BY <1>1, <3>1, <3>2 DEF CursorInv
    <3>. QED  BY <3>1, <3>2, <3>3
  <2>2. ASSUME st2 # <<>>, NEW l \in Len(st2) + 1 .. Len(qs), NEW j \in 1 .. c2[l] - 1
        PROVE  Passed(st2[Len(st2)], qs[Len(st2)], qs[l][j].t - g \div 4)
    <3>1. n > 1 /\ Len(st2) = n - 1 /\ st2[Len(st2)] = st[n - 1]
      BY <1>2, <1>3, <2>2
    <3>2. l \in 1 .. Len(qs) /\ l >= n
      BY <1>2, <1>3
    <3>3. qs[l] \in Timelines /\ c2[l] \in 1 .. Len(qs[l]) + 1
      BY <1>2, <1>10, <3>2, LevelFacts DEF Types
    <3>4. j \in 1 .. Len(qs[l]) /\ qs[l][j].t \in Nat
      BY SMTT(60), <3>3, TimelineFacts
    <3>5. PICK t \in Nat, m \in Nat : t = qs[l][j].t /\ m = g \div 4
      BY <1>2, <3>4, MarginType
    <3>6. f.hi = Nil \/ t - m < f.hi
      <4>1. CASE l > n
        <5>1. c2[l] = cs[l] /\ l \in Len(st) + 1 .. Len(qs) /\ st # <<>>
          BY SMTT(60), <1>2, <3>2, <4>1
        <5>2. Passed(f, qs[n], t - m)
          BY <1>1, <3>5, <5>1 DEF CursorInv
        <5>. QED  BY SMTT(60), <1>6, <3>5, <5>2
      <4>2. CASE l = n
        <5>1. j \in 1 .. f.i - 1
          BY <4>2
        <5>2. j \in Inside(qs[n], SpanOf(f), g) \/ ~ InMargins(qs[n][j].t, f.lo, Nil, g)
          BY <1>5, <5>1 DEF FrameInv
        <5>3. CASE j \in Inside(qs[n], SpanOf(f), g)
          <6>1. f.hi # Nil => t < f.hi /\ f.hi \in Nat
            BY <1>2, <1>5, <3>5, <4>2, <5>3, InsideFacts, SpanFacts
          <6>. QED  BY SMTT(60), <3>5, <6>1
        <5>4. CASE ~ InMargins(qs[n][j].t, f.lo, Nil, g)
          <6>1. f.lo # Nil /\ ~ (t > f.lo + m)
            BY <3>5, <4>2, <5>4 DEF InMargins
          <6>2. f.lo \in Nat /\ (f.hi # Nil => f.lo < f.hi /\ f.hi \in Nat)
            BY <1>5, <6>1, SpanFacts
          <6>3. ASSUME f.hi # Nil PROVE t - m < f.hi
            <7>1. PICK a \in Nat, h \in Nat : a = f.lo /\ h = f.hi
              BY <6>2, <6>3
            <7>2. a < h /\ ~ (t > a + m)
              BY <6>1, <6>2, <6>3, <7>1
            <7>3. t - m < h
              BY <7>2
            <7>. QED  BY <7>1, <7>3
          <6>. QED  BY <6>3
        <5>. QED  BY <5>2, <5>3, <5>4
      <4>3. l > n \/ l = n
        BY <1>2, <3>2
      <4>. QED  BY <4>1, <4>2, <4>3
    <3>. QED  BY <1>7, <3>1, <3>5, <3>6
  <2>. QED  BY <2>1, <2>2 DEF CursorInv
<1>14. OutInv(qs, g, st2, o)
  <2>. SUFFICES ASSUME NEW e
                PROVE  (\E i \in 1 .. Len(o) : o[i] = e) <=>
                         /\ e \in Reference(qs, g)
                         /\ st2 = <<>> \/ Passed(st2[Len(st2)], qs[Len(st2)], e.t)
    BY DEF OutInv
  <2>1. (\E i \in 1 .. Len(o) : o[i] = e) <=> e \in Reference(qs, g) /\ Passed(f, qs[n], e.t)
    <3>1. st # <<>>
      BY <1>2
    <3>. QED  BY <1>1, <3>1 DEF OutInv
  <2>2. CASE n = 1
    <3>1. st2 = <<>>
      BY <1>3, <2>2
    <3>. QED  BY <1>6, <1>8, <2>1, <2>2, <3>1
  <2>3. CASE n > 1
    <3>0. n - 1 \in 1 .. n - 1 /\ n - 1 # 0
      BY <1>2, <2>3
    <3>1. st2 # <<>> /\ Len(st2) = n - 1 /\ st2[n - 1] = st[n - 1]
      BY <1>3, <3>0
    <3>2. Passed(st2[Len(st2)], qs[Len(st2)], e.t) <=> f.hi = Nil \/ e.t < f.hi
      BY <1>7, <2>3, <3>1
    <3>. QED  BY <1>6, <2>1, <3>1, <3>2
  <2>. QED  BY SMTT(60), <1>2, <2>2, <2>3
<1>15. MarkerInv(st2, o)
  BY SMTT(60), <1>1, <1>2, <1>3 DEF MarkerInv
<1>. QED  BY <1>1, <1>10, <1>11, <1>12, <1>13, <1>14, <1>15 DEF FillInv

\* A call is made and its caller waits.
LEMMA CallKeeps ==
  ASSUME NEW qs, NEW g, NEW cs, NEW st, NEW o, FillInv(qs, g, cs, st, o),
         NEW n, n = Len(st), n > 0, NEW f, f = st[n], f.at = "scan", n < Len(qs),
         NEW at, NEW upper, needsFill(f.stale, f.subLo, upper, g),
         \/ /\ at = "emit" /\ upper = qs[n][f.i].t
            /\ f.i \in Inside(qs[n], SpanOf(f), g)
         \/ /\ at = "return" /\ upper = f.hi
            /\ \A k \in Inside(qs[n], SpanOf(f), g) : k < f.i,
         NEW c2 \in [1 .. Len(qs) -> Nat], at = "return" => c2[n] = f.i, at = "emit" => c2[n] = cs[n],
         \A l \in 1 .. Len(qs) : l # n => c2[l] = cs[l],
         NEW st2, st2 = Append([st EXCEPT ![n] = [f EXCEPT !.at = at]],
                               Frame(qs, g, cs, n + 1, f.subLo, upper))
  PROVE  FillInv(qs, g, c2, st2, o)
<1>1. /\ Types(qs, g, cs, st, o) /\ FramesInv(qs, g, st) /\ CallsInv(qs, st)
      /\ CursorInv(qs, g, cs, st) /\ OutInv(qs, g, st, o) /\ OrderInv(o) /\ MarkerInv(st, o)
  BY DEF FillInv
<1>2. /\ qs \in Seq(Timelines) /\ g \in Nat /\ Len(qs) \in Nat /\ n \in Nat
      /\ n <= Len(qs) /\ st \in Seq(Frames)
      /\ \A l \in 1 .. n : OnStack(qs, g, l, st[l]) /\ st[l] \in Frames
  BY <1>1, StackFacts
<1>3. OnStack(qs, g, n, f) /\ n \in 1 .. Len(qs) /\ n + 1 \in 1 .. Len(qs)
  BY <1>2
<1>4. /\ qs[n] \in Timelines /\ f \in Frames /\ FrameInv(f, qs[n], g)
      /\ SpanOf(f) \in SpanSet /\ SpanOf(f) \in Spans(qs, g)[n]
  BY <1>2, <1>3, OnStackFacts
<1>5. <<f.subLo, upper>> \in Spans(qs, g)[n + 1] /\ <<f.subLo, upper>> \in SpanSet
  <2>1. CASE at = "emit"
    <3>1. upper = qs[n][f.i].t /\ f.i \in Inside(qs[n], SpanOf(f), g)
      BY <2>1
    <3>2. LET a == <<f.subLo, qs[n][f.i].t>> IN
          /\ a \in SpanSet
          /\ n = Len(qs) \/ ~ needsFill(f.stale, a[1], a[2], g) =>
               \A e \in Reference(qs, g) : ~ Within(e.t, a)
          /\ n < Len(qs) /\ needsFill(f.stale, a[1], a[2], g) => a \in Spans(qs, g)[n + 1]
      BY <1>2, <1>3, <3>1, AtSample, ZenonT(60)
    <3>. QED  BY ONLY n < Len(qs), needsFill(f.stale, f.subLo, upper, g), <3>1, <3>2
  <2>2. CASE at = "return"
    <3>1. upper = f.hi /\ \A k \in Inside(qs[n], SpanOf(f), g) : k < f.i
      BY <2>2
    <3>2. LET a == <<f.subLo, f.hi>> IN
          /\ a \in SpanSet
          /\ n = Len(qs) \/ ~ needsFill(f.stale, a[1], a[2], g) =>
               \A e \in Reference(qs, g) : ~ Within(e.t, a)
          /\ n < Len(qs) /\ needsFill(f.stale, a[1], a[2], g) => a \in Spans(qs, g)[n + 1]
      BY <1>2, <1>3, <3>1, AtEnd, ZenonT(60)
    <3>. QED  BY ONLY n < Len(qs), needsFill(f.stale, f.subLo, upper, g), <3>1, <3>2
  <2>. QED  BY <2>1, <2>2
<1>6. PICK h, F : h = [f EXCEPT !.at = at] /\ F = Frame(qs, g, cs, n + 1, f.subLo, upper)
  OBVIOUS
<1>7. /\ h \in Frames /\ h.at = at /\ h.i = f.i /\ h.lo = f.lo /\ h.hi = f.hi
      /\ h.subLo = f.subLo /\ h.stale = f.stale /\ h.live = f.live
  BY <1>4, <1>6 DEF Frames
<1>8. OnStack(qs, g, n, h)
  <2>1. SpanOf(h) = SpanOf(f)
    BY <1>7 DEF SpanOf
  <2>2. \A a : LeftAt(f, qs[n], g, a) => LeftAt(h, qs[n], g, a)
    BY SMTT(60), <1>7, <2>1 DEF LeftAt
  <2>3. FrameInv(h, qs[n], g)
    BY <1>4, <1>7, <2>1, <2>2 DEF FrameInv
  <2>. QED  BY <1>3, <1>4, <1>7, <2>1, <2>3 DEF OnStack
<1>9. \A j \in 1 .. cs[n + 1] - 1 : ~ InMargins(qs[n + 1][j].t, f.subLo, Nil, g)
  <2>. SUFFICES ASSUME NEW j \in 1 .. cs[n + 1] - 1
                PROVE  ~ InMargins(qs[n + 1][j].t, f.subLo, Nil, g)
    OBVIOUS
  <2>1. Passed(f, qs[n], qs[n + 1][j].t - g \div 4)
    <3>1. n + 1 \in Len(st) + 1 .. Len(qs) /\ st # <<>>
      BY <1>2
    <3>. QED  BY <1>1, <3>1 DEF CursorInv
  <2>2. f.subLo # Nil /\ qs[n + 1][j].t - g \div 4 <= f.subLo
    BY <2>1 DEF Passed
  <2>3. cs[n + 1] \in 1 .. Len(qs[n + 1]) + 1 /\ qs[n + 1] \in Timelines
    BY <1>1, <1>2, <1>3, LevelFacts DEF Types
  <2>4. qs[n + 1][j].t \in Nat
    BY SMTT(60), <2>3, TimelineFacts
  <2>5. PICK t \in Nat, m \in Nat, L \in Nat : t = qs[n + 1][j].t /\ m = g \div 4 /\ L = f.subLo
    BY <1>2, <1>4, <2>2, <2>4, MarginType, FrameTypes DEF Bound
  <2>6. ~ (t > L + m)
    BY SMTT(60), <2>2, <2>5
  <2>. QED  BY <2>2, <2>5, <2>6 DEF InMargins
<1>10. /\ OnStack(qs, g, n + 1, F)
       /\ F.lo = f.subLo /\ F.hi = upper /\ F.subLo = f.subLo /\ F.at = "scan" /\ F.live = FALSE
  <2>1. cs[n + 1] \in 1 .. Len(qs[n + 1]) + 1
    BY <1>1, <1>3 DEF Types
  <2>a. PICK k \in 1 .. Len(qs) : k = n + 1
    BY <1>3
  <2>2. PICK L : k = n + 1 /\ L = f.subLo
    BY <2>a
  <2>3. /\ <<L, upper>> \in Spans(qs, g)[k] /\ SkippedBelow(qs, g, cs, k, L)
        /\ F = Frame(qs, g, cs, k, L, upper)
    BY <1>5, <1>6, <1>9, <2>1, <2>2 DEF SkippedBelow
  <2>4. OnStack(qs, g, k, F) /\ Begun(F, L, upper)
    BY <1>2, <2>3, NewFrame
  <2>. QED  BY <2>2, <2>4 DEF Begun
<1>11. F \in Frames
  BY <1>10 DEF OnStack
<1>12. /\ st2 \in Seq(Frames) /\ Len(st2) = n + 1 /\ st2[n + 1] = F /\ st2[n] = h
       /\ \A l \in 1 .. n - 1 : st2[l] = st[l]
  <2>1. PICK s1 : s1 = [st EXCEPT ![n] = h]
    OBVIOUS
  <2>2. s1 \in Seq(Frames) /\ Len(s1) = n /\ s1[n] = h /\ \A l \in 1 .. n - 1 : s1[l] = st[l]
    BY <1>2, <1>7, <2>1
  <2>3. st2 = Append(s1, F)
    BY <1>6, <2>1
  <2>4. st2 \in Seq(Frames) /\ Len(st2) = n + 1 /\ st2[n + 1] = F
    BY ONLY <1>11, <2>2, <2>3, n \in Nat
  <2>5. \A l \in 1 .. n : st2[l] = s1[l]
    BY ONLY <1>11, <2>2, <2>3, n \in Nat
  <2>6. n \in 1 .. n /\ \A l \in 1 .. n - 1 : l \in 1 .. n
    BY <1>2
  <2>. QED  BY <2>2, <2>4, <2>5, <2>6
<1>13. \A t : Passed(F, qs[n + 1], t) <=> Passed(f, qs[n], t)
  BY <1>10 DEF Passed
<1>14. Types(qs, g, c2, st2, o)
  <2>1. ASSUME NEW l \in 1 .. Len(qs) PROVE c2[l] \in 1 .. Len(qs[l]) + 1
    <3>1. cs[l] \in 1 .. Len(qs[l]) + 1
      BY <1>1 DEF Types
    <3>2. f.i \in 1 .. Len(qs[n]) + 1
      BY <1>4 DEF FrameInv
    <3>. QED  BY <3>1, <3>2
  <2>2. Len(st2) <= Len(qs)
    BY <1>3, <1>12
  <2>. QED  BY <1>1, <1>12, <2>1, <2>2 DEF Types
<1>15. ASSUME NEW l \in 1 .. n + 1 PROVE l \in 1 .. n - 1 \/ l = n \/ l = n + 1
  BY <1>2
<1>16. FramesInv(qs, g, st2)
  <2>1. ASSUME NEW l \in 1 .. Len(st2) PROVE OnStack(qs, g, l, st2[l])
    <3>1. CASE l \in 1 .. n - 1
      <4>1. l \in 1 .. n
        BY <1>2, <3>1
      <4>. QED  BY <1>2, <1>12, <3>1, <4>1
    <3>2. CASE l = n
      BY <1>8, <1>12, <3>2
    <3>3. CASE l = n + 1
      BY <1>10, <1>12, <3>3
    <3>. QED  BY <1>12, <1>15, <3>1, <3>2, <3>3
  <2>. QED  BY <2>1, FramesFromStack
<1>17. CallsInv(qs, st2)
  <2>. SUFFICES ASSUME NEW l \in 1 .. n
                PROVE  /\ st2[l].at # "scan" /\ st2[l + 1].lo = st2[l].subLo
                       /\ st2[l + 1].hi = CallHi(st2[l], qs[l])
    <3>1. Len(st2) - 1 = n
      BY <1>2, <1>12
    <3>. QED  BY ZenonT(60), <3>1 DEF CallsInv
  <2>1. CASE l = n
    <3>1. st2[l] = h /\ st2[l + 1] = F
      BY <1>12, <2>1
    <3>2. CallHi(h, qs[n]) = upper
      BY <1>7 DEF CallHi
    <3>3. h.at # "scan"
      BY <1>7
    <3>4. st2[l].at # "scan"
      BY ONLY <3>1, <3>3
    <3>5. st2[l + 1].lo = st2[l].subLo
      BY ONLY <1>7, <1>10, <3>1
    <3>6. st2[l + 1].hi = CallHi(st2[l], qs[l])
      BY ONLY <1>10, <2>1, <3>1, <3>2
    <3>. QED  BY ONLY <3>4, <3>5, <3>6
  <2>2. CASE l \in 1 .. n - 1
    <3>1. l \in 1 .. Len(st) - 1 /\ st2[l] = st[l]
      BY <1>12, <2>2
    <3>2. /\ st[l].at # "scan" /\ st[l + 1].lo = st[l].subLo
          /\ st[l + 1].hi = CallHi(st[l], qs[l])
      BY <1>1, <3>1 DEF CallsInv
    <3>3. st2[l + 1].lo = st[l + 1].lo /\ st2[l + 1].hi = st[l + 1].hi
      <4>1. CASE l + 1 = n
        BY <1>7, <1>12, <4>1
      <4>2. CASE l + 1 \in 1 .. n - 1
        BY <1>12, <4>2
      <4>3. l + 1 = n \/ l + 1 \in 1 .. n - 1
        BY <1>2, <2>2
      <4>. QED  BY <4>1, <4>2, <4>3
    <3>. QED  BY <3>1, <3>2, <3>3
  <2>3. l = n \/ l \in 1 .. n - 1
    BY <1>2
  <2>. QED  BY <2>1, <2>2, <2>3
<1>18. CursorInv(qs, g, c2, st2)
  <2>1. ASSUME NEW l \in 1 .. Len(st2), st2[l].at = "return" PROVE c2[l] = st2[l].i
    <3>1. CASE l \in 1 .. n - 1
      <4>1. l \in 1 .. Len(st) /\ l \in 1 .. Len(qs) /\ l # n
        BY <1>2, <3>1
      <4>2. st2[l] = st[l] /\ cs[l] = st[l].i
        BY <1>1, <1>12, <2>1, <3>1, <4>1 DEF CursorInv
      <4>. QED  BY <4>1, <4>2
    <3>2. CASE l = n
      BY <1>7, <1>12, <2>1, <3>2
    <3>3. CASE l = n + 1
      BY <1>10, <1>12, <2>1, <3>3
    <3>. QED  BY <1>12, <1>15, <3>1, <3>2, <3>3
  <2>2. ASSUME NEW l \in Len(st2) + 1 .. Len(qs), NEW j \in 1 .. c2[l] - 1
        PROVE  Passed(st2[Len(st2)], qs[Len(st2)], qs[l][j].t - g \div 4)
    <3>1. l \in Len(st) + 1 .. Len(qs) /\ l \in 1 .. Len(qs) /\ l # n /\ st # <<>>
      BY <1>2, <1>12
    <3>2. Passed(f, qs[n], qs[l][j].t - g \div 4)
      BY <1>1, <3>1 DEF CursorInv
    <3>. QED  BY <1>12, <1>13, <3>2
  <2>. QED  BY <2>1, <2>2 DEF CursorInv
<1>19. OutInv(qs, g, st2, o)
  <2>1. st # <<>> /\ st2 # <<>>
    BY <1>2, <1>12
  <2>2. \A t : Passed(st2[Len(st2)], qs[Len(st2)], t) <=> Passed(st[Len(st)], qs[Len(st)], t)
    BY <1>12, <1>13
  <2>. QED  BY <1>1, <2>1, <2>2 DEF OutInv
<1>20. MarkerInv(st2, o)
  <2>1. ASSUME NEW l \in 1 .. Len(st2), st2[l].live PROVE Len(o) > 0 /\ o[Len(o)].lvl >= l
    <3>1. l # n + 1
      BY <1>10, <1>12, <2>1
    <3>2. l \in 1 .. Len(st) /\ st[l].live
      <4>1. CASE l \in 1 .. n - 1
        BY <1>2, <1>12, <2>1, <4>1
      <4>2. CASE l = n
        BY <1>2, <1>7, <1>12, <2>1, <4>2
      <4>. QED  BY <1>12, <1>15, <3>1, <4>1, <4>2
    <3>. QED  BY <1>1, <3>2 DEF MarkerInv
  <2>. QED  BY <1>1, <2>1 DEF MarkerInv
<1>. QED  BY <1>1, <1>14, <1>16, <1>17, <1>18, <1>19, <1>20 DEF FillInv

\* What the frame of a call is after it has taken its sample.
Taken(f, f2, q) ==
  /\ f2 \in Frames /\ f2.lo = f.lo /\ f2.hi = f.hi /\ f2.subLo = q[f.i].t
  /\ f2.stale = (q[f.i].kind = "stale") /\ f2.live = (q[f.i].kind # "stale")
  /\ f2.at = "scan" /\ f2.i = f.i + 1

\* Taking a sample inside the span keeps what is known of the frame.
LEMMA TakenOnStack ==
  ASSUME NEW qs \in Seq(Timelines), NEW g \in Nat, NEW n, NEW f, OnStack(qs, g, n, f),
         f.i \in Inside(qs[n], SpanOf(f), g), NEW f2, Taken(f, f2, qs[n])
  PROVE  OnStack(qs, g, n, f2)
<1>1. /\ n \in 1 .. Len(qs) /\ qs[n] \in Timelines /\ f \in Frames /\ FrameInv(f, qs[n], g)
      /\ SpanOf(f) \in SpanSet /\ SpanOf(f) \in Spans(qs, g)[n]
  BY OnStackFacts
<1>2. PICK q, s : q = qs[n] /\ s = SpanOf(f)
  OBVIOUS
<1>3. /\ f2 \in Frames /\ f2.lo = f.lo /\ f2.subLo = q[f.i].t
      /\ f2.stale = (q[f.i].kind = "stale") /\ f2.live = (q[f.i].kind # "stale")
      /\ f2.at = "scan" /\ f2.i = f.i + 1 /\ SpanOf(f2) = s
  BY <1>2 DEF Taken, SpanOf
<1>4. f.i \in 1 .. Len(q) /\ Len(q) \in Nat /\ f.i \in Nat
  BY <1>1, <1>2, InsideFacts, TimelineFacts
<1>5. \A k \in Inside(q, s, g) : k \in 1 .. Len(q)
  BY <1>1, <1>2, InsideFacts
<1>6. LeftAt(f2, q, g, f.i)
  <2>1. f.i \in Inside(q, SpanOf(f2), g) /\ f.i < f2.i /\ f.i > 0 /\ f.i # 0 /\ f.i = f2.i - 1
    BY SMTT(60), <1>2, <1>3, <1>4
  <2>2. \A k \in Inside(q, SpanOf(f2), g) : k <= f.i \/ k >= f2.i
    BY <1>3, <1>4, <1>5
  <2>3. f2.stale = (f.i > 0 /\ q[f.i].kind = "stale") /\ f2.live = (f.i > 0 /\ q[f.i].kind # "stale")
    BY ONLY <1>3, <2>1, Zenon
  <2>. QED  BY <1>3, <2>1, <2>2, <2>3 DEF LeftAt
<1>7. ASSUME NEW j \in 1 .. f2.i - 1
      PROVE  j \in Inside(q, SpanOf(f2), g) \/ ~ InMargins(q[j].t, f2.lo, Nil, g)
  <2>1. j = f.i \/ j \in 1 .. f.i - 1
    BY <1>3, <1>4
  <2>2. CASE j = f.i
    BY <1>2, <1>3, <2>2
  <2>3. CASE j \in 1 .. f.i - 1
    BY <1>1, <1>2, <1>3, <2>3 DEF FrameInv
  <2>. QED  BY <2>1, <2>2, <2>3
<1>8. ASSUME NEW j \in f2.i .. Len(q) PROVE InMargins(q[j].t, f2.lo, Nil, g)
  <2>1. j \in f.i .. Len(q)
    BY <1>3, <1>4
  <2>. QED  BY <1>1, <1>2, <1>3, <2>1 DEF FrameInv
<1>9. f2.i \in 1 .. Len(q) + 1 /\ f.i \in 0 .. Len(q) /\ f2.at # "emit" /\ f2.at # "return"
  BY <1>3, <1>4
<1>10. FrameInv(f2, q, g)
  BY <1>6, <1>7, <1>8, <1>9 DEF FrameInv
<1>. QED  BY <1>1, <1>2, <1>3, <1>10 DEF OnStack

\* What the sample at f.i adds to the output.
Added(qs, n, f, o, o2) ==
  IF qs[n][f.i].kind # "stale" \/ KeepMarker(n, f.live)
    THEN o2 = Append(o, Entry(qs, n, f.i)) ELSE o2 = o

\* The output has at most this entry more, and the entry iff it is of the reference.
LEMMA AddedFacts ==
  ASSUME NEW qs \in Seq(Timelines), NEW g \in Nat, NEW n, NEW f, OnStack(qs, g, n, f),
         f.i \in Inside(qs[n], SpanOf(f), g),
         NEW o \in Seq(Entries), NEW o2, Added(qs, n, f, o, o2)
  PROVE  /\ o2 \in Seq(Entries)
         /\ \/ /\ o2 = o /\ Entry(qs, n, f.i) \notin Reference(qs, g)
               /\ qs[n][f.i].kind = "stale"
            \/ /\ Len(o2) = Len(o) + 1 /\ o2[Len(o) + 1] = Entry(qs, n, f.i)
               /\ \A i \in 1 .. Len(o) : o2[i] = o[i]
               /\ Entry(qs, n, f.i) \in Reference(qs, g)
               /\ qs[n][f.i].kind # "stale" \/ n = 1 \/ f.live
<1>1. n \in 1 .. Len(qs) /\ qs[n] \in Timelines /\ SpanOf(f) \in SpanSet
  BY OnStackFacts
<1>2. f.i \in 1 .. Len(qs[n])
  BY <1>1, InsideFacts
<1>3. PICK e : e = Entry(qs, n, f.i)
  OBVIOUS
<1>4. e \in Entries
  BY SMTT(60), <1>1, <1>2, <1>3, TimelineFacts DEF Entry, Entries
<1>5. e \in Reference(qs, g) <=> qs[n][f.i].kind # "stale" \/ KeepMarker(n, f.live)
  BY <1>3, AtSampleEntry
<1>6. CASE qs[n][f.i].kind # "stale" \/ KeepMarker(n, f.live)
  <2>1. o2 = Append(o, e)
    BY <1>3, <1>6 DEF Added
  <2>2. o2 \in Seq(Entries) /\ Len(o2) = Len(o) + 1 /\ o2[Len(o) + 1] = e
    BY ONLY <1>4, <2>1, o \in Seq(Entries)
  <2>3. \A i \in 1 .. Len(o) : o2[i] = o[i]
    BY ONLY <1>4, <2>1, o \in Seq(Entries)
  <2>. QED  BY <1>3, <1>5, <1>6, <2>2, <2>3 DEF KeepMarker
<1>7. CASE ~ (qs[n][f.i].kind # "stale" \/ KeepMarker(n, f.live))
  BY <1>3, <1>5, <1>7 DEF Added
<1>. QED  BY <1>6, <1>7

\* The innermost call takes the sample it is at.
LEMMA EmitKeeps ==
  ASSUME NEW qs, NEW g, NEW cs, NEW st, NEW o, FillInv(qs, g, cs, st, o),
         NEW n, n = Len(st), n > 0, NEW f, f = st[n],
         f.i \in Inside(qs[n], SpanOf(f), g),
         \/ f.at = "emit"
         \/ /\ f.at = "scan"
            /\ n = Len(qs) \/ ~ needsFill(f.stale, f.subLo, qs[n][f.i].t, g),
         NEW f2, Taken(f, f2, qs[n]),
         NEW st2, st2 = [st EXCEPT ![n] = f2],
         NEW o2, Added(qs, n, f, o, o2)
  PROVE  FillInv(qs, g, cs, st2, o2)
<1>1. /\ Types(qs, g, cs, st, o) /\ FramesInv(qs, g, st) /\ CallsInv(qs, st)
      /\ CursorInv(qs, g, cs, st) /\ OutInv(qs, g, st, o) /\ OrderInv(o) /\ MarkerInv(st, o)
  BY DEF FillInv
<1>2. /\ qs \in Seq(Timelines) /\ g \in Nat /\ Len(qs) \in Nat /\ n \in Nat
      /\ n <= Len(qs) /\ st \in Seq(Frames)
      /\ \A l \in 1 .. n : OnStack(qs, g, l, st[l]) /\ st[l] \in Frames
  BY <1>1, StackFacts
<1>3. OnStack(qs, g, n, f) /\ n \in 1 .. Len(qs) /\ qs[n] \in Timelines /\ f \in Frames
      /\ SpanOf(f) \in SpanSet
  BY <1>2, OnStackFacts
<1>4. /\ f2 \in Frames /\ f2.at = "scan" /\ f2.subLo = qs[n][f.i].t /\ f2.lo = f.lo /\ f2.hi = f.hi
      /\ f2.live = (qs[n][f.i].kind # "stale")
  BY DEF Taken
<1>5. OnStack(qs, g, n, f2)
  BY <1>2, <1>3, TakenOnStack
<1>6. /\ st2 \in Seq(Frames) /\ Len(st2) = n /\ st2[n] = f2
      /\ \A l \in 1 .. n - 1 : st2[l] = st[l]
  BY <1>2, <1>4
<1>7. o \in Seq(Entries) /\ Len(o) \in Nat
  BY <1>1 DEF Types
<1>8. PICK e : e = Entry(qs, n, f.i)
  OBVIOUS
<1>9. /\ o2 \in Seq(Entries)
      /\ \/ /\ o2 = o /\ e \notin Reference(qs, g) /\ qs[n][f.i].kind = "stale"
         \/ /\ Len(o2) = Len(o) + 1 /\ o2[Len(o) + 1] = e
            /\ \A i \in 1 .. Len(o) : o2[i] = o[i]
            /\ e \in Reference(qs, g)
            /\ qs[n][f.i].kind # "stale" \/ n = 1 \/ f.live
  BY SMTT(60), <1>2, <1>3, <1>7, <1>8, AddedFacts
<1>10. e.t = qs[n][f.i].t /\ e.kind = qs[n][f.i].kind /\ e.lvl = n
  BY <1>8 DEF Entry
<1>11. /\ \A t \in Int : Passed(f, qs[n], t) => t < e.t /\ Passed(f2, qs[n], t)
       /\ \A x \in Reference(qs, g) :
            Passed(f2, qs[n], x.t) <=> Passed(f, qs[n], x.t) \/ x = e
  <2>1. /\ \A t \in Int : Passed(f, qs[n], t) => t < qs[n][f.i].t /\ Passed(f2, qs[n], t)
        /\ \A x \in Reference(qs, g) :
             Passed(f2, qs[n], x.t) <=> Passed(f, qs[n], x.t) \/ x = Entry(qs, n, f.i)
    BY SMTT(60), <1>2, <1>3, <1>4, EmitPassed
  <2>. QED  BY <1>8, <1>10, <2>1
<1>12. st # <<>> /\ st2 # <<>>
  BY <1>2, <1>6
<1>13. \A l \in 1 .. n : l = n \/ l \in 1 .. n - 1
  BY <1>2
<1>14. Types(qs, g, cs, st2, o2)
  BY <1>1, <1>2, <1>6, <1>9 DEF Types
<1>15. FramesInv(qs, g, st2)
  <2>1. ASSUME NEW l \in 1 .. Len(st2) PROVE OnStack(qs, g, l, st2[l])
    <3>1. l \in 1 .. n
      BY <1>6
    <3>. QED  BY <1>2, <1>5, <1>6, <1>13, <3>1
  <2>. QED  BY <2>1, FramesFromStack
<1>16. CallsInv(qs, st2)
  <2>. SUFFICES ASSUME NEW l \in 1 .. n - 1
                PROVE  /\ st2[l].at # "scan" /\ st2[l + 1].lo = st2[l].subLo
                       /\ st2[l + 1].hi = CallHi(st2[l], qs[l])
    BY <1>6 DEF CallsInv
  <2>1. st2[l] = st[l]
    BY <1>6
  <2>2. st2[l + 1].lo = st[l + 1].lo /\ st2[l + 1].hi = st[l + 1].hi
    <3>1. l + 1 = n \/ l + 1 \in 1 .. n - 1
      BY <1>2
    <3>2. CASE l + 1 = n
      BY <1>4, <1>6, <3>2
    <3>3. CASE l + 1 \in 1 .. n - 1
      BY <1>6, <3>3
    <3>. QED  BY <3>1, <3>2, <3>3
  <2>3. l \in 1 .. Len(st) - 1
    OBVIOUS
  <2>. QED  BY <1>1, <2>1, <2>2, <2>3 DEF CallsInv
<1>17. CursorInv(qs, g, cs, st2)
  <2>1. ASSUME NEW l \in 1 .. Len(st2), st2[l].at = "return" PROVE cs[l] = st2[l].i
    <3>1. l \in 1 .. n /\ l # n
      BY <1>4, <1>6, <2>1
    <3>2. l \in 1 .. n - 1 /\ l \in 1 .. Len(st)
      BY <1>13, <3>1
    <3>. QED  BY <1>1, <1>6, <2>1, <3>2 DEF CursorInv
  <2>2. ASSUME NEW l \in Len(st2) + 1 .. Len(qs), NEW j \in 1 .. cs[l] - 1
        PROVE  Passed(st2[Len(st2)], qs[Len(st2)], qs[l][j].t - g \div 4)
    <3>1. l \in Len(st) + 1 .. Len(qs) /\ l \in 1 .. Len(qs)
      BY <1>2, <1>6
    <3>2. Passed(f, qs[n], qs[l][j].t - g \div 4)
      BY <1>1, <1>12, <3>1 DEF CursorInv
    <3>3. qs[l] \in Timelines /\ cs[l] \in 1 .. Len(qs[l]) + 1
      BY <1>1, <1>2, <3>1, LevelFacts DEF Types
    <3>4. qs[l][j].t \in Nat
      BY SMTT(60), <3>3, TimelineFacts
    <3>5. qs[l][j].t - g \div 4 \in Int
      BY <1>2, <3>4, MarginType
    <3>. QED  BY <1>6, <1>11, <3>2, <3>5
  <2>. QED  BY <2>1, <2>2 DEF CursorInv
<1>18. \A x : (\E i \in 1 .. Len(o) : o[i] = x) <=> x \in Reference(qs, g) /\ Passed(f, qs[n], x.t)
  BY <1>1, <1>12 DEF OutInv
<1>19. OutInv(qs, g, st2, o2)
  <2>. SUFFICES ASSUME NEW x
                PROVE  (\E i \in 1 .. Len(o2) : o2[i] = x) <=>
                         x \in Reference(qs, g) /\ Passed(f2, qs[n], x.t)
    BY <1>6, <1>12 DEF OutInv
  <2>1. CASE o2 = o /\ e \notin Reference(qs, g)
    BY <1>11, <1>18, <2>1
  <2>2. CASE /\ Len(o2) = Len(o) + 1 /\ o2[Len(o) + 1] = e
             /\ \A i \in 1 .. Len(o) : o2[i] = o[i]
             /\ e \in Reference(qs, g)
    <3>1. (\E i \in 1 .. Len(o2) : o2[i] = x) <=> (\E i \in 1 .. Len(o) : o[i] = x) \/ x = e
      BY ONLY <1>7, <2>2
    <3>. QED  BY <1>11, <1>18, <2>2, <3>1
  <2>. QED  BY <1>9, <2>1, <2>2
<1>20. OrderInv(o2)
  <2>1. ASSUME NEW i \in 1 .. Len(o) PROVE o[i].t < e.t
    <3>1. o[i] \in Reference(qs, g) /\ Passed(f, qs[n], o[i].t)
      BY <1>18
    <3>2. o[i] \in Entries
      BY <1>7
    <3>3. o[i].t \in Int
      BY <3>2 DEF Entries
    <3>. QED  BY <1>11, <3>1, <3>3
  <2>2. CASE o2 = o
    BY <1>1, <2>2
  <2>3. CASE /\ Len(o2) = Len(o) + 1 /\ o2[Len(o) + 1] = e
             /\ \A i \in 1 .. Len(o) : o2[i] = o[i]
    <3>. SUFFICES ASSUME NEW i \in 1 .. Len(o2), NEW j \in 1 .. Len(o2), i < j
                  PROVE  o2[i].t < o2[j].t
      BY DEF OrderInv
    <3>1. i \in 1 .. Len(o) /\ (j = Len(o) + 1 \/ j \in 1 .. Len(o))
      BY SMTT(60), <1>7, <2>3
    <3>2. CASE j = Len(o) + 1
      BY <2>1, <2>3, <3>1, <3>2
    <3>3. CASE j \in 1 .. Len(o)
      BY <1>1, <2>3, <3>1, <3>3 DEF OrderInv
    <3>. QED  BY <3>1, <3>2, <3>3
  <2>. QED  BY <1>9, <2>2, <2>3
<1>21. MarkerInv(st2, o2)
  <2>1. \A l \in 1 .. n : st[l].live => Len(o) > 0 /\ o[Len(o)].lvl >= l
    BY <1>1 DEF MarkerInv
  <2>2. \A i \in 1 .. Len(o) :
          (o[i].lvl > 1 /\ o[i].kind = "stale") => (i > 1 /\ o[i - 1].lvl >= o[i].lvl)
    BY <1>1 DEF MarkerInv
  <2>3. CASE o2 = o /\ qs[n][f.i].kind = "stale"
    <3>1. ASSUME NEW l \in 1 .. Len(st2), st2[l].live PROVE st[l].live /\ l \in 1 .. n
      <4>1. l # n
        BY <1>4, <1>6, <2>3, <3>1
      <4>. QED  BY <1>6, <1>13, <3>1, <4>1
    <3>. QED  BY <2>1, <2>2, <2>3, <3>1 DEF MarkerInv
  <2>4. CASE /\ Len(o2) = Len(o) + 1 /\ o2[Len(o) + 1] = e
             /\ \A i \in 1 .. Len(o) : o2[i] = o[i]
             /\ qs[n][f.i].kind # "stale" \/ n = 1 \/ f.live
    <3>1. ASSUME NEW i \in 1 .. Len(o2), o2[i].lvl > 1, o2[i].kind = "stale"
          PROVE  i > 1 /\ o2[i - 1].lvl >= o2[i].lvl
      <4>1. i \in 1 .. Len(o) \/ i = Len(o) + 1
        BY <1>7, <2>4
      <4>2. CASE i \in 1 .. Len(o)
        <5>1. i > 1 /\ o[i - 1].lvl >= o[i].lvl
          BY <2>2, <2>4, <3>1, <4>2
        <5>2. i - 1 \in 1 .. Len(o)
          BY <1>7, <4>2, <5>1
        <5>. QED  BY <2>4, <4>2, <5>1, <5>2
      <4>3. CASE i = Len(o) + 1
        <5>1. o2[i] = e
          BY <2>4, <4>3
        <5>2. n > 1 /\ qs[n][f.i].kind = "stale"
          BY <1>10, <3>1, <5>1
        <5>3. f.live /\ n \in 1 .. n
          BY <1>2, <2>4, <5>2
        <5>4. Len(o) > 0 /\ o[Len(o)].lvl >= n
          BY <2>1, <5>3
        <5>5. i > 1 /\ i - 1 = Len(o) /\ Len(o) \in 1 .. Len(o)
          BY <1>7, <4>3, <5>4
        <5>. QED  BY <1>10, <2>4, <5>1, <5>4, <5>5
      <4>. QED  BY <4>1, <4>2, <4>3
    <3>2. ASSUME NEW l \in 1 .. Len(st2) PROVE Len(o2) > 0 /\ o2[Len(o2)].lvl >= l
      BY <1>2, <1>6, <1>7, <1>10, <2>4
    <3>. QED  BY <3>1, <3>2 DEF MarkerInv
  <2>. QED  BY <1>9, <2>3, <2>4
<1>. QED  BY <1>14, <1>15, <1>16, <1>17, <1>19, <1>20, <1>21 DEF FillInv

\* A timeline of a stream is a sequence of samples by time.
LEMMA TimelineOf ==
  ASSUME NEW s \in Streams, NEW q \in timelines(s)
  PROVE  q \in Timelines
<1>1. /\ IsFiniteSet(DOMAIN s) /\ DOMAIN s \subseteq Nat
      /\ \A t \in DOMAIN s : s[t] \in Kinds
  BY StreamsAssumption
<1>2. PICK n \in Nat : n = Cardinality(DOMAIN s)
  BY <1>1, FS_CardinalityType
<1>3. PICK X : X = {[t |-> t, kind |-> s[t]] : t \in DOMAIN s}
  OBVIOUS
<1>4. X \subseteq Sample
  BY <1>1, <1>3 DEF Sample
<1>5. q \in [1 .. n -> X] /\ Ordered(q)
  BY <1>2, <1>3 DEF timelines
<1>6. q \in [1 .. n -> Sample]
  BY <1>4, <1>5
<1>7. q \in Seq(Sample)
  BY <1>2, <1>6
<1>. QED  BY <1>5, <1>7 DEF Timelines

\* Twice a median is positive.
LEMMA MedianPositive ==
  ASSUME NEW q \in Timelines, NEW m \in medianInterval(q)
  PROVE  m \in Nat /\ m >= 1
<1>1. PICK i \in Intervals(q) : m = Interval(q, i)
  BY DEF medianInterval
<1>2. i \in 1 .. Len(q) /\ i + 1 \in 1 .. Len(q) /\ i < i + 1
  BY <1>1, TimelineFacts DEF Intervals
<1>3. q[i].t \in Nat /\ q[i + 1].t \in Nat /\ q[i].t < q[i + 1].t
  BY <1>2, TimelineFacts
<1>. QED  BY <1>1, <1>3 DEF Interval

\* The threshold is a natural number, and the base's median decides it when there is one.
LEMMA ThresholdFacts ==
  ASSUME NEW over \in Nat, NEW b \in Timelines, NEW fs \in Seq(Timelines),
         NEW th \in GapThreshold(over, b, fs)
  PROVE  /\ EffectiveGap(th) \in Nat /\ EffectiveGap(th) >= 1
         /\ over = 0 /\ Len(b) > 1 => \E m \in medianInterval(b) : EffectiveGap(th) = 2 * m
<1>1. CASE over > 0
  BY <1>1 DEF GapThreshold, EffectiveGap
<1>2. CASE ~ (over > 0) /\ Len(b) > 1
  <2>1. PICK m \in medianInterval(b) : th = 2 * m
    BY <1>2 DEF GapThreshold
  <2>2. m \in Nat /\ m >= 1
    BY <2>1, MedianPositive
  <2>3. EffectiveGap(th) = 2 * m
    BY <2>1, <2>2 DEF EffectiveGap
  <2>. QED  BY <2>1, <2>2, <2>3
<1>3. CASE ~ (over > 0) /\ ~ (Len(b) > 1) /\ (fs # <<>> /\ Len(fs[1]) > 1)
  <2>1. PICK m \in medianInterval(fs[1]) : th = 2 * m
    BY <1>3 DEF GapThreshold
  <2>2. fs[1] \in Timelines
    BY <1>3
  <2>3. m \in Nat /\ m >= 1
    BY <2>1, <2>2, MedianPositive
  <2>4. EffectiveGap(th) = 2 * m
    BY <2>1, <2>3 DEF EffectiveGap
  <2>. QED  BY <1>3, <2>3, <2>4
<1>4. CASE ~ (over > 0) /\ ~ (Len(b) > 1) /\ ~ (fs # <<>> /\ Len(fs[1]) > 1)
  <2>1. th = 0
    BY <1>4 DEF GapThreshold
  <2>. QED  BY <1>4, <2>1 DEF EffectiveGap
<1>. QED  BY <1>1, <1>2, <1>3, <1>4

\* The call of level 1 begins, and nothing is emitted.
LEMMA BeginKeeps ==
  ASSUME NEW qs \in Seq(Timelines), qs # <<>>, NEW g \in Nat, g >= 1,
         NEW cs, cs = [l \in 1 .. Len(qs) |-> 1],
         NEW st, st = <<Frame(qs, g, cs, 1, Nil, Nil)>>
  PROVE  FillInv(qs, g, cs, st, <<>>)
<1>1. Len(qs) \in Nat /\ 1 \in 1 .. Len(qs) /\ 1 <= Len(qs)
  OBVIOUS
<1>2. \A l \in 1 .. Len(qs) : qs[l] \in Timelines /\ Len(qs[l]) \in Nat
  BY LevelFacts, TimelineFacts
<1>3. \A l \in 1 .. Len(qs) : cs[l] = 1
  OBVIOUS
<1>4. <<Nil, Nil>> \in Spans(qs, g)[1]
  BY <1>1, LevelFacts
<1>5. SkippedBelow(qs, g, cs, 1, Nil)
  <2>1. cs[1] = 1 /\ cs[1] \in 1 .. Len(qs[1]) + 1
    BY <1>1, <1>2, <1>3
  <2>2. 1 .. cs[1] - 1 = {}
    BY <2>1
  <2>. QED  BY <2>1, <2>2 DEF SkippedBelow
<1>6. PICK F : F = Frame(qs, g, cs, 1, Nil, Nil)
  OBVIOUS
<1>7. OnStack(qs, g, 1, F) /\ Begun(F, Nil, Nil)
  BY <1>1, <1>4, <1>5, <1>6, NewFrame
<1>8. F \in Frames /\ F.at = "scan" /\ F.subLo = Nil /\ F.live = FALSE
  BY <1>7 DEF OnStack, Begun
<1>9. /\ st \in Seq(Frames) /\ Len(st) = 1 /\ st[1] = F /\ st # <<>>
      /\ \A l \in 1 .. Len(st) : l = 1
  BY <1>6, <1>8
<1>10. Types(qs, g, cs, st, <<>>)
  <2>1. cs \in [1 .. Len(qs) -> Nat]
    OBVIOUS
  <2>2. \A l \in 1 .. Len(qs) : cs[l] \in 1 .. Len(qs[l]) + 1
    BY <1>2, <1>3
  <2>3. <<>> \in Seq(Entries)
    OBVIOUS
  <2>. QED  BY <1>1, <1>9, <2>1, <2>2, <2>3 DEF Types
<1>11. FramesInv(qs, g, st)
  BY <1>7, <1>9, FramesFromStack
<1>12. CallsInv(qs, st)
  BY <1>9 DEF CallsInv
<1>13. CursorInv(qs, g, cs, st)
  <2>1. \A l \in 1 .. Len(st) : st[l].at # "return"
    BY <1>8, <1>9
  <2>2. ASSUME NEW l \in Len(st) + 1 .. Len(qs) PROVE 1 .. cs[l] - 1 = {}
    BY <1>1, <1>3, <1>9
  <2>. QED  BY <2>1, <2>2 DEF CursorInv
<1>14. \A t : ~ Passed(F, qs[1], t)
  BY <1>8 DEF Passed
<1>15. OutInv(qs, g, st, <<>>)
  BY <1>9, <1>14 DEF OutInv
<1>16. OrderInv(<<>>) /\ MarkerInv(st, <<>>)
  BY <1>8, <1>9 DEF OrderInv, MarkerInv
<1>. QED  BY <1>10, <1>11, <1>12, <1>13, <1>15, <1>16 DEF FillInv

-----------------------------------------------------------------------------
(***************************************************************************)
(* The invariant holds.                                                    *)
(***************************************************************************)
\* The step fillBucketGaps takes from the call's arguments to the first frame.
LEMMA FillBucketGapsKeeps ==
  ASSUME Inv, FillBucketGaps
  PROVE  Inv'
<1>1. /\ base \in Bases /\ fillers \in Fillers /\ override \in Overrides
      /\ seqs = <<>> /\ out = <<>>
  BY DEF Inv, FillBucketGaps
<1>2. base \in Streams /\ fillers \in Seq(Streams) /\ override \in Nat
  BY <1>1, StreamsAssumption
<1>3. PICK b \in timelines(base) :
        \E fs \in {f \in [DOMAIN fillers -> UNION {timelines(fillers[i]) : i \in DOMAIN fillers}] :
                     \A i \in DOMAIN fillers : f[i] \in timelines(fillers[i])} :
          /\ seqs' = <<b>> \o fs
          /\ \E th \in GapThreshold(override, b, fs) : gap' = EffectiveGap(th)
  BY DEF FillBucketGaps
<1>4. PICK fs : /\ fs \in [DOMAIN fillers -> UNION {timelines(fillers[i]) : i \in DOMAIN fillers}]
                /\ \A i \in DOMAIN fillers : fs[i] \in timelines(fillers[i])
                /\ seqs' = <<b>> \o fs
                /\ \E th \in GapThreshold(override, b, fs) : gap' = EffectiveGap(th)
  BY <1>3
<1>5. PICK n \in Nat : n = Len(fillers) /\ DOMAIN fillers = 1 .. n
  BY <1>2
<1>6. b \in Timelines
  BY <1>2, <1>3, TimelineOf
<1>7. \A i \in 1 .. n : fs[i] \in Timelines
  BY <1>2, <1>4, <1>5, TimelineOf
<1>8. fs \in [1 .. n -> Timelines]
  BY <1>4, <1>5, <1>7
<1>9. fs \in Seq(Timelines) /\ Len(fs) = n
  BY <1>8
<1>10. PICK qs, g, cs, st :
         qs = seqs' /\ g = gap' /\ cs = cursors' /\ st = stack'
  OBVIOUS
<1>11. qs \in Seq(Timelines) /\ Len(qs) = n + 1 /\ qs[1] = b /\ qs # <<>>
  BY <1>4, <1>6, <1>9, <1>10
<1>12. PICK th \in GapThreshold(override, b, fs) : g = EffectiveGap(th)
  BY <1>4, <1>10
<1>13. /\ g \in Nat /\ g >= 1
       /\ override = 0 /\ Len(b) > 1 => \E m \in medianInterval(b) : g = 2 * m
  BY <1>2, <1>6, <1>9, <1>12, ThresholdFacts
<1>14. cs = [l \in 1 .. Len(qs) |-> 1] /\ st = <<Frame(qs, g, cs, 1, Nil, Nil)>>
  BY <1>5, <1>10, <1>11 DEF FillBucketGaps
<1>15. FillInv(qs, g, cs, st, <<>>)
  BY <1>11, <1>13, <1>14, BeginKeeps
<1>16. /\ base' = base /\ fillers' = fillers /\ override' = override /\ out' = <<>>
       /\ filled' = [l \in 1 .. n |-> 0]
  BY <1>1, <1>5 DEF FillBucketGaps, input
<1>17. filled' \in [1 .. Len(seqs') - 1 -> Nat]
  BY <1>10, <1>11, <1>16
<1>18. CallInv'
  BY <1>5, <1>10, <1>11, <1>13, <1>16, <1>17 DEF CallInv
<1>. QED  BY <1>1, <1>10, <1>11, <1>15, <1>16, <1>18 DEF Inv

\* What the invariant says of a call in progress, under names that do not change.
Running(qs, g, cs, st, o, n, f) ==
  /\ qs = seqs /\ g = gap /\ cs = cursors /\ st = stack /\ o = out /\ n = Len(stack)
  /\ f = stack[n] /\ n \in Nat /\ n > 0 /\ n <= Len(qs) /\ n \in 1 .. Len(qs) /\ Len(qs) \in Nat
  /\ qs \in Seq(Timelines) /\ g \in Nat
  /\ qs[n] \in Timelines /\ f \in Frames /\ FrameInv(f, qs[n], g) /\ OnStack(qs, g, n, f)
  /\ cs \in [1 .. Len(qs) -> Nat] /\ CursorInv(qs, g, cs, st)
  /\ FillInv(qs, g, cs, st, o)

\* While a call is in progress the names of Running exist.
LEMMA RunningFacts ==
  ASSUME Inv, stack # <<>>
  PROVE  /\ seqs # <<>> /\ CallInv
         /\ \E qs, g, cs, st, o, n, f : Running(qs, g, cs, st, o, n, f)
<1>1. seqs # <<>> /\ CallInv /\ FillInv(seqs, gap, cursors, stack, out)
  BY DEF Inv
<1>2. PICK qs, g, cs, st, o :
        qs = seqs /\ g = gap /\ cs = cursors /\ st = stack /\ o = out
  OBVIOUS
<1>3. FillInv(qs, g, cs, st, o)
  BY <1>1, <1>2
<1>4. Types(qs, g, cs, st, o) /\ FramesInv(qs, g, st) /\ CursorInv(qs, g, cs, st)
  BY <1>3 DEF FillInv
<1>5. /\ qs \in Seq(Timelines) /\ g \in Nat /\ Len(qs) \in Nat /\ Len(st) \in Nat
      /\ Len(st) <= Len(qs) /\ st \in Seq(Frames)
      /\ \A l \in 1 .. Len(st) : OnStack(qs, g, l, st[l]) /\ st[l] \in Frames
  BY <1>4, StackFacts
<1>6. PICK n, f : n = Len(st) /\ f = st[n]
  OBVIOUS
<1>7. n \in Nat /\ n > 0 /\ n <= Len(qs) /\ n \in 1 .. Len(qs) /\ n \in 1 .. Len(st)
  BY <1>2, <1>5, <1>6
<1>8. OnStack(qs, g, n, f) /\ f \in Frames
  BY <1>5, <1>6, <1>7
<1>9. qs[n] \in Timelines /\ FrameInv(f, qs[n], g)
  BY <1>5, <1>8, OnStackFacts
<1>10. cs \in [1 .. Len(qs) -> Nat]
  BY <1>4 DEF Types
<1>11. Running(qs, g, cs, st, o, n, f)
  BY <1>2, <1>3, <1>4, <1>5, <1>6, <1>7, <1>8, <1>9, <1>10 DEF Running
<1>. QED  BY <1>1, <1>11

\* What a step of the call in progress leaves alone.
LEMMA SameCall ==
  ASSUME Inv, seqs # <<>>, CallInv, UNCHANGED <<input, seqs, gap>>,
         filled' \in [1 .. Len(seqs) - 1 -> Nat],
         FillInv(seqs, gap, cursors', stack', out')
  PROVE  Inv'
<1>1. /\ base' = base /\ fillers' = fillers /\ override' = override /\ seqs' = seqs /\ gap' = gap
  BY DEF input
<1>2. base \in Bases /\ fillers \in Fillers /\ override \in Overrides
  BY DEF Inv
<1>3. CallInv'
  BY <1>1 DEF CallInv
<1>. QED  BY <1>1, <1>2, <1>3 DEF Inv

\* Descend keeps the invariant: it is a call in front of the sample.
LEMMA DescendKeeps ==
  ASSUME Inv, Descend
  PROVE  Inv'
<1>0. stack # <<>>
  BY DEF Descend
<1>1. seqs # <<>> /\ CallInv
  BY <1>0, RunningFacts
<1>2. PICK qs, g, cs, st, o, n, f : Running(qs, g, cs, st, o, n, f)
  BY <1>0, RunningFacts
<1>3. lvl = n /\ Top = f
  BY <1>2 DEF Running, lvl, Top
<1>4. PICK u : u = qs[n][f.i].t
  BY SMTT(60)
<1>5. /\ f.at = "scan" /\ f.i <= Len(qs[n]) /\ InMargins(qs[n][f.i].t, Nil, f.hi, g)
      /\ needsFill(f.stale, f.subLo, u, g) /\ n < Len(qs)
      /\ stack' = Append([st EXCEPT ![n] = [f EXCEPT !.at = "emit"]],
                         Frame(qs, g, cs, n + 1, f.subLo, u))
  BY <1>2, <1>3, <1>4 DEF Descend, InScan, Deeper, Call, Running
<1>6. f.i \in Inside(qs[n], SpanOf(f), g)
  BY SMTT(60), <1>2, <1>5, ScanInside DEF Running
<1>7. PICK st2 : st2 = stack'
  OBVIOUS
<1>8. FillInv(qs, g, cs, st2, o)
  <2>1. FillInv(qs, g, cs, st, o) /\ n = Len(st) /\ n > 0 /\ f = st[n] /\ cs \in [1 .. Len(qs) -> Nat]
    BY <1>2 DEF Running
  <2>2. st2 = Append([st EXCEPT ![n] = [f EXCEPT !.at = "emit"]], Frame(qs, g, cs, n + 1, f.subLo, u))
    BY <1>5, <1>7
  <2>. QED  BY ZenonT(60), <1>4, <1>5, <1>6, <2>1, <2>2, CallKeeps
<1>9. UNCHANGED <<input, seqs, gap, cursors, filled, out>>
  BY DEF Descend
<1>10. FillInv(seqs, gap, cursors', stack', out')
  BY <1>2, <1>7, <1>8, <1>9 DEF Running
<1>11. filled' \in [1 .. Len(seqs) - 1 -> Nat]
  BY <1>1, <1>9 DEF CallInv
<1>. QED  BY <1>1, <1>9, <1>10, <1>11, SameCall

\* Emit keeps the invariant: it takes the sample the innermost call is at.
LEMMA EmitStep ==
  ASSUME Inv, Emit
  PROVE  Inv'
<1>0. stack # <<>>
  BY DEF Emit
<1>1. seqs # <<>> /\ CallInv
  BY <1>0, RunningFacts
<1>2. PICK qs, g, cs, st, o, n, f : Running(qs, g, cs, st, o, n, f)
  BY <1>0, RunningFacts
<1>3. lvl = n /\ Top = f
  BY <1>2 DEF Running, lvl, Top
<1>4. PICK p, marker : p = qs[n][f.i] /\ marker = (p.kind = "stale")
  OBVIOUS
<1>5. PICK f2 : f2 = [f EXCEPT !.stale = marker, !.live = ~ marker, !.subLo = p.t,
                               !.i = f.i + 1, !.at = "scan"]
  BY SMTT(60)
<1>6. /\ \/ f.at = "emit"
         \/ /\ f.at = "scan" /\ f.i <= Len(qs[n]) /\ InMargins(qs[n][f.i].t, Nil, f.hi, g)
            /\ ~ (needsFill(f.stale, f.subLo, qs[n][f.i].t, g) /\ n < Len(qs))
  BY SMTT(60), <1>2, <1>3 DEF Emit, InScan, Deeper, Running
<1>7. /\ out' = IF ~ marker \/ KeepMarker(n, f.live)
                  THEN Append(o, [t |-> p.t, kind |-> p.kind, lvl |-> n]) ELSE o
      /\ filled' = IF ~ marker /\ n > 1
                     THEN [filled EXCEPT ![n - 1] = filled[n - 1] + 1] ELSE filled
      /\ stack' = [st EXCEPT ![n] = f2]
      /\ UNCHANGED <<input, seqs, gap, cursors>>
  BY ZenonT(60), <1>2, <1>3, <1>4, <1>5 DEF Emit, Running
<1>8. f.i \in Inside(qs[n], SpanOf(f), g)
  <2>1. CASE f.at = "emit"
    BY <1>2, <2>1 DEF Running, FrameInv
  <2>2. CASE f.at = "scan" /\ f.i <= Len(qs[n]) /\ InMargins(qs[n][f.i].t, Nil, f.hi, g)
    BY <1>2, <2>2, ScanInside DEF Running
  <2>. QED  BY <1>6, <2>1, <2>2
<1>9. f.at = "scan" => n = Len(qs) \/ ~ needsFill(f.stale, f.subLo, qs[n][f.i].t, g)
  <2>1. n < Len(qs) \/ n = Len(qs)
    BY <1>2 DEF Running
  <2>. QED  BY <1>6, <2>1
<1>10. p.t \in Nat /\ p.kind \in Kinds /\ f.i \in Nat
  <2>1. qs[n] \in Timelines /\ f \in Frames /\ FrameInv(f, qs[n], g) /\ f.i \in Nat
    BY <1>2, FrameTypes DEF Running
  <2>2. f.i \in DOMAIN qs[n]
    BY <1>8 DEF Inside
  <2>. QED  BY <1>4, <2>1, <2>2, TimelineFacts
<1>11. Taken(f, f2, qs[n])
  <2>1. f \in Frames /\ marker \in BOOLEAN /\ p.t \in Bound
    BY <1>2, <1>4, <1>10 DEF Running, Bound
  <2>a. PICK live \in BOOLEAN, j \in Nat, t \in Bound : live = (~ marker) /\ j = f.i + 1 /\ t = p.t
    <3>1. (~ marker) \in BOOLEAN
      OBVIOUS
    <3>2. f.i + 1 \in Nat /\ p.t \in Bound
      BY <1>10, <2>1
    <3>. QED  BY <3>1, <3>2, Zenon
  <2>b. f2 = [f EXCEPT !.stale = marker, !.live = live, !.subLo = t, !.i = j, !.at = "scan"]
    BY <1>5, <2>a
  <2>c. /\ f2 \in Frames /\ f2.lo = f.lo /\ f2.hi = f.hi /\ f2.subLo = t
        /\ f2.stale = marker /\ f2.live = live /\ f2.at = "scan" /\ f2.i = j
    BY ONLY <2>1, <2>b, live \in BOOLEAN, j \in Nat, t \in Bound DEF Frames
  <2>2. /\ f2 \in Frames /\ f2.lo = f.lo /\ f2.hi = f.hi /\ f2.subLo = p.t
        /\ f2.stale = marker /\ f2.live = ~ marker /\ f2.at = "scan" /\ f2.i = f.i + 1
    BY <2>a, <2>c
  <2>3. f2.live = (p.kind # "stale") /\ f2.stale = (p.kind = "stale")
    BY ONLY <1>4, <2>2, Zenon
  <2>. QED  BY SMTT(60), <1>4, <2>2, <2>3 DEF Taken
<1>12. PICK o2, st2 : o2 = out' /\ st2 = stack'
  OBVIOUS
<1>13. Added(qs, n, f, o, o2)
  BY <1>4, <1>7, <1>12 DEF Added, Entry
<1>14. FillInv(qs, g, cs, st2, o2)
  <2>1. FillInv(qs, g, cs, st, o) /\ n = Len(st) /\ n > 0 /\ f = st[n]
    BY <1>2 DEF Running
  <2>2. st2 = [st EXCEPT ![n] = f2]
    BY <1>7, <1>12
  <2>3. \/ f.at = "emit"
        \/ f.at = "scan" /\ (n = Len(qs) \/ ~ needsFill(f.stale, f.subLo, qs[n][f.i].t, g))
    BY <1>6, <1>9
  <2>. QED  BY <1>8, <1>11, <1>13, <2>1, <2>2, <2>3, EmitKeeps
<1>15. FillInv(seqs, gap, cursors', stack', out')
  BY <1>2, <1>7, <1>12, <1>14 DEF Running
<1>16. filled' \in [1 .. Len(seqs) - 1 -> Nat]
  <2>1. filled \in [1 .. Len(seqs) - 1 -> Nat]
    BY <1>1 DEF CallInv
  <2>2. n > 1 => n - 1 \in 1 .. Len(seqs) - 1
    BY <1>2 DEF Running
  <2>. QED  BY <1>7, <2>1, <2>2
<1>. QED  BY <1>1, <1>7, <1>15, <1>16, SameCall

\* EndScan keeps the invariant: it is a call for what follows, or the end of this one.
LEMMA EndScanKeeps ==
  ASSUME Inv, EndScan
  PROVE  Inv'
<1>0. stack # <<>>
  BY DEF EndScan
<1>1. seqs # <<>> /\ CallInv
  BY <1>0, RunningFacts
<1>2. PICK qs, g, cs, st, o, n, f : Running(qs, g, cs, st, o, n, f)
  BY <1>0, RunningFacts
<1>3. lvl = n /\ Top = f
  BY <1>2 DEF Running, lvl, Top
<1>4. PICK c2, st2 : c2 = cursors' /\ st2 = stack'
  OBVIOUS
<1>5. /\ f.at = "scan" /\ ~ (f.i <= Len(qs[n]) /\ InMargins(qs[n][f.i].t, Nil, f.hi, g))
      /\ c2 = [cs EXCEPT ![n] = f.i]
      /\ IF needsFill(f.stale, f.subLo, f.hi, g) /\ n < Len(qs)
           THEN st2 = Append([st EXCEPT ![n] = [f EXCEPT !.at = "return"]],
                             Frame(qs, g, cs, n + 1, f.subLo, f.hi))
           ELSE st2 = SubSeq(st, 1, n - 1)
      /\ UNCHANGED <<input, seqs, gap, filled, out>>
  BY <1>2, <1>3, <1>4 DEF EndScan, InScan, Deeper, Call, Running, NextCursor
<1>6. \A k \in Inside(qs[n], SpanOf(f), g) : k < f.i
  BY <1>2, <1>5, ScanOver DEF Running
<1>7. /\ c2 \in [1 .. Len(qs) -> Nat] /\ c2[n] = f.i
      /\ \A l \in 1 .. Len(qs) : l # n => c2[l] = cs[l]
  <2>1. f.i \in Nat /\ cs \in [1 .. Len(qs) -> Nat] /\ n \in 1 .. Len(qs)
    BY <1>2, FrameTypes DEF Running
  <2>. QED  BY <1>5, <2>1
<1>8. FillInv(qs, g, cs, st, o) /\ n = Len(st) /\ n > 0 /\ f = st[n] /\ n <= Len(qs)
      /\ n \in Nat /\ Len(qs) \in Nat
  BY <1>2 DEF Running
<1>9. FillInv(qs, g, c2, st2, o)
  <2>1. CASE needsFill(f.stale, f.subLo, f.hi, g) /\ n < Len(qs)
    <3>1. st2 = Append([st EXCEPT ![n] = [f EXCEPT !.at = "return"]],
                       Frame(qs, g, cs, n + 1, f.subLo, f.hi))
      BY <1>5, <2>1
    <3>2. PICK at, upper : at = "return" /\ upper = f.hi
      OBVIOUS
    <3>3. /\ f.at = "scan" /\ needsFill(f.stale, f.subLo, upper, g) /\ n < Len(qs)
          /\ at = "return" => c2[n] = f.i
          /\ at = "emit" => c2[n] = cs[n]
          /\ \/ /\ at = "emit" /\ upper = qs[n][f.i].t
                /\ f.i \in Inside(qs[n], SpanOf(f), g)
             \/ /\ at = "return" /\ upper = f.hi
                /\ \A k \in Inside(qs[n], SpanOf(f), g) : k < f.i
      BY <1>5, <1>6, <1>7, <2>1, <3>2
    <3>4. st2 = Append([st EXCEPT ![n] = [f EXCEPT !.at = at]],
                       Frame(qs, g, cs, n + 1, f.subLo, upper))
      BY <3>1, <3>2
    <3>. QED  BY ZenonT(60), <1>7, <1>8, <3>3, <3>4, CallKeeps
  <2>2. CASE ~ (needsFill(f.stale, f.subLo, f.hi, g) /\ n < Len(qs))
    <3>1. st2 = SubSeq(st, 1, n - 1)
      BY <1>5, <2>2
    <3>2. n = Len(qs) \/ ~ needsFill(f.stale, f.subLo, f.hi, g)
      BY <1>8, <2>2
    <3>3. \/ f.at = "return"
          \/ /\ f.at = "scan"
             /\ \A k \in Inside(qs[n], SpanOf(f), g) : k < f.i
             /\ n = Len(qs) \/ ~ needsFill(f.stale, f.subLo, f.hi, g)
      BY <1>5, <1>6, <3>2
    <3>. QED  BY <1>7, <1>8, <3>1, <3>3, PopKeeps
  <2>. QED  BY SMTT(60), <2>1, <2>2
<1>10. FillInv(seqs, gap, cursors', stack', out')
  BY <1>2, <1>4, <1>5, <1>9 DEF Running
<1>11. filled' \in [1 .. Len(seqs) - 1 -> Nat]
  BY <1>1, <1>5 DEF CallInv
<1>. QED  BY <1>1, <1>5, <1>10, <1>11, SameCall

\* Return keeps the invariant: it is the end of a call.
LEMMA ReturnKeeps ==
  ASSUME Inv, Return
  PROVE  Inv'
<1>0. stack # <<>>
  BY DEF Return
<1>1. seqs # <<>> /\ CallInv
  BY <1>0, RunningFacts
<1>2. PICK qs, g, cs, st, o, n, f : Running(qs, g, cs, st, o, n, f)
  BY <1>0, RunningFacts
<1>3. lvl = n /\ Top = f
  BY <1>2 DEF Running, lvl, Top
<1>4. PICK st2 : st2 = stack'
  OBVIOUS
<1>5. /\ f.at = "return" /\ st2 = SubSeq(st, 1, n - 1)
      /\ UNCHANGED <<input, seqs, gap, cursors, filled, out>>
  BY <1>2, <1>3, <1>4 DEF Return, Running
<1>6. FillInv(qs, g, cs, st, o) /\ n = Len(st) /\ n > 0 /\ f = st[n] /\ cs \in [1 .. Len(qs) -> Nat]
  BY <1>2 DEF Running
<1>7. cs[n] = f.i
  <2>1. n \in 1 .. Len(st)
    BY <1>2 DEF Running
  <2>. QED  BY <1>2, <1>5, <1>6, <2>1 DEF Running, CursorInv
<1>8. FillInv(qs, g, cs, st2, o)
  BY <1>5, <1>6, <1>7, PopKeeps
<1>9. FillInv(seqs, gap, cursors', stack', out')
  BY <1>2, <1>4, <1>5, <1>8 DEF Running
<1>10. filled' \in [1 .. Len(seqs) - 1 -> Nat]
  BY <1>1, <1>5 DEF CallInv
<1>. QED  BY <1>1, <1>5, <1>9, <1>10, SameCall

\* At every moment of the call the output is the part of the reference that the
\* innermost call of fill has left behind, in time order, whatever the streams are
\* and however many fillers there are.
THEOREM FillInvariance == Spec => []Inv
<1>1. Init => Inv
  BY DEF Init, Inv
<1>2. Inv /\ [Next]_vars => Inv'
  <2>. SUFFICES ASSUME Inv, [Next]_vars PROVE Inv'
    OBVIOUS
  <2>1. CASE FillBucketGaps
    BY <2>1, FillBucketGapsKeeps
  <2>2. CASE Descend
    BY <2>2, DescendKeeps
  <2>3. CASE Emit
    BY <2>3, EmitStep
  <2>4. CASE EndScan
    BY <2>4, EndScanKeeps
  <2>5. CASE Return
    BY <2>5, ReturnKeeps
  <2>6. CASE UNCHANGED vars
    BY <2>6 DEF Inv, CallInv, vars
  <2>. QED  BY <2>1, <2>2, <2>3, <2>4, <2>5, <2>6 DEF Next, Done
<1>. QED  BY <1>1, <1>2, PTL DEF Spec

-----------------------------------------------------------------------------
(***************************************************************************)
(* What the invariant says of the output.                                  *)
(***************************************************************************)
LEMMA OutputFacts ==
  ASSUME Inv, seqs # <<>>
  PROVE  /\ seqs \in Seq(Timelines) /\ gap \in Nat /\ gap >= 1 /\ CallInv
         /\ DOMAIN out = 1 .. Len(out) /\ Len(out) \in Nat
         /\ OrderInv(out) /\ MarkerInv(stack, out)
         /\ \A k \in 1 .. Len(out) : out[k] \in Reference(seqs, gap)
         /\ stack = <<>> => \A e \in Reference(seqs, gap) : \E k \in 1 .. Len(out) : out[k] = e
<1>1. CallInv /\ FillInv(seqs, gap, cursors, stack, out)
  BY DEF Inv
<1>2. /\ Types(seqs, gap, cursors, stack, out) /\ OutInv(seqs, gap, stack, out)
      /\ OrderInv(out) /\ MarkerInv(stack, out)
  BY <1>1 DEF FillInv
<1>3. seqs \in Seq(Timelines) /\ gap \in Nat /\ gap >= 1 /\ out \in Seq(Entries)
  BY <1>2 DEF Types
<1>4. DOMAIN out = 1 .. Len(out) /\ Len(out) \in Nat
  BY <1>3
<1>5. \A k \in 1 .. Len(out) : out[k] \in Reference(seqs, gap)
  BY <1>2 DEF OutInv
<1>6. stack = <<>> => \A e \in Reference(seqs, gap) : \E k \in 1 .. Len(out) : out[k] = e
  BY <1>2 DEF OutInv
<1>. QED  BY <1>1, <1>2, <1>3, <1>4, <1>5, <1>6

\* The level of the winner is asked for everything, so all its samples are inside.
LEMMA WinnerInside ==
  ASSUME NEW q \in Timelines, NEW g
  PROVE  /\ <<Nil, Nil>> \in SpanSet
         /\ Inside(q, <<Nil, Nil>>, g) = 1 .. Len(q)
<1>1. <<Nil, Nil>> \in SpanSet
  BY DEF SpanSet, Bound
<1>2. DOMAIN q = 1 .. Len(q)
  BY TimelineFacts
<1>3. \A t : InMargins(t, <<Nil, Nil>>[1], <<Nil, Nil>>[2], g)
  BY DEF InMargins
<1>. QED  BY <1>1, <1>2, <1>3 DEF Inside

\* Consecutive samples of the winner are neighbours.
LEMMA WinnerNeighbours ==
  ASSUME NEW q \in Timelines, NEW g \in Nat, NEW i \in Intervals(q)
  PROVE  /\ i \in 1 .. Len(q) /\ i + 1 \in 1 .. Len(q)
         /\ q[i].t \in Nat /\ q[i + 1].t \in Nat /\ q[i].t < q[i + 1].t
         /\ <<i, i + 1>> \in Neighbours(q, <<Nil, Nil>>, g)
         /\ Between(q, <<Nil, Nil>>, <<i, i + 1>>) = <<q[i].t, q[i + 1].t>>
         /\ AfterMarker(q, <<i, i + 1>>) <=> q[i].kind = "stale"
<1>1. i \in 1 .. Len(q) /\ i + 1 \in 1 .. Len(q) /\ i < i + 1 /\ i # 0 /\ i + 1 # Len(q) + 1 /\ i > 0
  BY TimelineFacts DEF Intervals
<1>2. q[i].t \in Nat /\ q[i + 1].t \in Nat /\ q[i].t < q[i + 1].t
  BY <1>1, TimelineFacts
<1>3. Inside(q, <<Nil, Nil>>, g) = 1 .. Len(q)
  BY WinnerInside
<1>4. PICK j : j = i + 1
  OBVIOUS
<1>5. <<i, j>> \in Neighbours(q, <<Nil, Nil>>, g)
  <2>1. \A k \in 1 .. Len(q) : k <= i \/ k >= j
    BY <1>1, <1>4
  <2>. QED  BY <1>1, <1>3, <1>4, <2>1 DEF Neighbours
<1>6. Between(q, <<Nil, Nil>>, <<i, j>>) = <<q[i].t, q[j].t>>
  BY <1>1, <1>4 DEF Between
<1>7. AfterMarker(q, <<i, j>>) <=> q[i].kind = "stale"
  BY <1>1 DEF AfterMarker
<1>. QED  BY <1>1, <1>2, <1>4, <1>5, <1>6, <1>7

\* A sample of a filler keeps its distance from all samples of the winner.
LEMMA Distance ==
  ASSUME NEW qs \in Seq(Timelines), NEW g \in Nat, NEW e \in Reference(qs, g), e.lvl > 1,
         NEW j \in DOMAIN qs[1]
  PROVE  e.t - qs[1][j].t > g \div 4 \/ qs[1][j].t - e.t > g \div 4
<1>1. PICK l \in 1 .. Len(qs) : \E s \in Spans(qs, g)[l] : \E i \in EmittedIn(qs, l, s, g) :
        /\ i \in Inside(qs[l], s, g) /\ e.t = qs[l][i].t /\ e.lvl = l
  BY ReferenceFrom
<1>2. PICK s \in Spans(qs, g)[l] : \E i \in EmittedIn(qs, l, s, g) :
        /\ i \in Inside(qs[l], s, g) /\ e.t = qs[l][i].t /\ e.lvl = l
  BY <1>1
<1>3. PICK i : i \in Inside(qs[l], s, g) /\ e.t = qs[l][i].t /\ e.lvl = l
  BY <1>2
<1>4. 1 < l /\ 1 \in 1 .. Len(qs) /\ 1 <= Len(qs)
  BY <1>3, LevelFacts
<1>5. PICK S \in Spans(qs, g)[1] : \E ab, o : LeftOpen(qs[1], S, g, ab, o) /\ Nested(s, o)
  BY <1>4, SpansNested
<1>6. PICK ab, o : LeftOpen(qs[1], S, g, ab, o) /\ Nested(s, o)
  BY <1>5
<1>7. S = <<Nil, Nil>>
  BY <1>4, <1>5, LevelFacts
<1>8. /\ qs[1] \in Timelines /\ o \in SpanSet /\ ab \in Neighbours(qs[1], S, g)
      /\ o = Between(qs[1], S, ab) /\ S \in SpanSet
  BY <1>6 DEF LeftOpen
<1>9. j \in Inside(qs[1], S, g) /\ j \in 1 .. Len(qs[1])
  BY <1>7, <1>8, WinnerInside, TimelineFacts
<1>10. \/ o[1] # Nil /\ qs[1][j].t <= o[1]
       \/ o[2] # Nil /\ o[2] <= qs[1][j].t
  BY <1>8, <1>9, OutsideNeighbours
<1>11. qs[l] \in Timelines /\ s \in SpanSet
  BY <1>2, LevelFacts, SpanTypes
<1>12. /\ qs[l][i].t \in Nat
       /\ s[1] # Nil => qs[l][i].t > s[1] + g \div 4
       /\ s[2] # Nil => qs[l][i].t < s[2] - g \div 4
  BY <1>3, <1>11, InsideFacts
<1>13. qs[1][j].t \in Nat
  BY <1>8, <1>9, TimelineFacts
<1>14. PICK t \in Nat, w \in Nat, m \in Nat : t = e.t /\ w = qs[1][j].t /\ m = g \div 4
  BY <1>3, <1>12, <1>13, MarginType
<1>15. CASE o[1] # Nil /\ qs[1][j].t <= o[1]
  <2>1. s[1] # Nil /\ o[1] <= s[1]
    BY <1>6, <1>15 DEF Nested
  <2>2. PICK a \in Nat, b \in Nat : a = o[1] /\ b = s[1]
    BY <1>8, <1>11, <1>15, <2>1, SpanFacts
  <2>3. w <= a /\ a <= b /\ t > b + m
    BY <1>3, <1>12, <1>14, <1>15, <2>1, <2>2
  <2>4. t - w > m
    BY ONLY t \in Nat, w \in Nat, m \in Nat, a \in Nat, b \in Nat, <2>3
  <2>. QED  BY <1>14, <2>4
<1>16. CASE o[2] # Nil /\ o[2] <= qs[1][j].t
  <2>1. s[2] # Nil /\ s[2] <= o[2]
    BY <1>6, <1>16 DEF Nested
  <2>2. PICK a \in Nat, b \in Nat : a = o[2] /\ b = s[2]
    BY <1>8, <1>11, <1>16, <2>1, SpanFacts
  <2>3. a <= w /\ b <= a /\ t < b - m
    BY <1>3, <1>12, <1>14, <1>16, <2>1, <2>2
  <2>4. w - t > m
    BY ONLY t \in Nat, w \in Nat, m \in Nat, a \in Nat, b \in Nat, <2>3
  <2>. QED  BY <1>14, <2>4
<1>. QED  BY <1>10, <1>15, <1>16

-----------------------------------------------------------------------------
(***************************************************************************)
(* The median.                                                             *)
(***************************************************************************)
\* The intervals are natural numbers, and there is one less than there are samples.
LEMMA IntervalTypes ==
  ASSUME NEW q \in Timelines
  PROVE  /\ IsFiniteSet(Intervals(q)) /\ \A i \in Intervals(q) : Interval(q, i) \in Nat
         /\ Cardinality(Intervals(q)) = IF Len(q) = 0 THEN 0 ELSE Len(q) - 1
<1>1. Len(q) \in Nat /\ Len(q) - 1 \in Int
  BY TimelineFacts
<1>2. IsFiniteSet(1 .. Len(q) - 1)
      /\ Cardinality(1 .. Len(q) - 1) = IF 1 > Len(q) - 1 THEN 0 ELSE Len(q) - 1 - 1 + 1
  BY SMTT(60), <1>1, FS_Interval
<1>3. ASSUME NEW i \in Intervals(q) PROVE Interval(q, i) \in Nat
  <2>1. i \in 1 .. Len(q) /\ i + 1 \in 1 .. Len(q) /\ i < i + 1
    BY TimelineFacts DEF Intervals
  <2>2. q[i].t \in Nat /\ q[i + 1].t \in Nat /\ q[i].t < q[i + 1].t
    BY <2>1, TimelineFacts
  <2>. QED  BY <2>2 DEF Interval
<1>. QED  BY <1>1, <1>2, <1>3 DEF Intervals

\* The intervals shorter than d, at most d and of length d.
Below(q, d) == {i \in Intervals(q) : Interval(q, i) < d}
UpTo(q, d) == {i \in Intervals(q) : Interval(q, i) <= d}
Equal(q, d) == {i \in Intervals(q) : Interval(q, i) = d}

\* Sets of intervals are finite.
LEMMA CountTypes ==
  ASSUME NEW q \in Timelines, NEW S, S \subseteq Intervals(q)
  PROVE  IsFiniteSet(S) /\ Cardinality(S) \in Nat
BY IntervalTypes, FS_Subset, FS_CardinalityType

\* A smaller set of intervals has no more elements.
LEMMA CountMonotone ==
  ASSUME NEW q \in Timelines, NEW S, NEW T, S \subseteq T, T \subseteq Intervals(q)
  PROVE  Cardinality(S) <= Cardinality(T)
BY CountTypes, FS_Subset

\* The median by how many intervals are below it and up to it.
LEMMA MedianFacts ==
  ASSUME NEW q \in Timelines, NEW m \in medianInterval(q)
  PROVE  /\ m \in Nat
         /\ Cardinality(Below(q, m)) <= (Len(q) - 1) \div 2
         /\ Cardinality(UpTo(q, m)) > (Len(q) - 1) \div 2
<1>1. m \in Nat
  BY MedianPositive
<1>. QED  BY <1>1 DEF medianInterval, Below, UpTo

\* There is one median.
LEMMA MedianUnique ==
  ASSUME NEW q \in Timelines, NEW m \in medianInterval(q), NEW d \in medianInterval(q)
  PROVE  ~ (m < d)
<1>. SUFFICES ASSUME m < d PROVE FALSE
  OBVIOUS
<1>1. /\ m \in Nat /\ d \in Nat
      /\ Cardinality(Below(q, d)) <= (Len(q) - 1) \div 2
      /\ Cardinality(UpTo(q, m)) > (Len(q) - 1) \div 2
  BY MedianFacts
<1>2. UpTo(q, m) \subseteq Below(q, d) /\ Below(q, d) \subseteq Intervals(q)
  BY <1>1, IntervalTypes DEF UpTo, Below
<1>3. Cardinality(UpTo(q, m)) <= Cardinality(Below(q, d))
  BY <1>2, CountMonotone
<1>4. UpTo(q, m) \subseteq Intervals(q) /\ Below(q, d) \subseteq Intervals(q)
  BY DEF UpTo, Below
<1>5. Cardinality(UpTo(q, m)) \in Nat /\ Cardinality(Below(q, d)) \in Nat
  BY <1>4, CountTypes
<1>6. (Len(q) - 1) \div 2 \in Int
  BY TimelineFacts
<1>. QED  BY <1>1, <1>3, <1>5, <1>6

\* The interval most of the intervals equal is the median.
LEMMA MajorityIsMedian ==
  ASSUME NEW q \in Timelines, NEW m \in medianInterval(q), NEW d \in Nat,
         2 * Cardinality(Equal(q, d)) > Len(q) - 1
  PROVE  m = d
<1>1. /\ m \in Nat
      /\ Cardinality(Below(q, m)) <= (Len(q) - 1) \div 2
      /\ Cardinality(UpTo(q, m)) > (Len(q) - 1) \div 2
  BY MedianFacts
<1>2. /\ UpTo(q, m) \subseteq Intervals(q) /\ Below(q, m) \subseteq Intervals(q)
      /\ Equal(q, d) \subseteq Intervals(q)
  BY DEF UpTo, Below, Equal
<1>3. PICK L \in Nat : L = Len(q) - 1 /\ Cardinality(Intervals(q)) = L
  <2>1. PICK i \in Intervals(q) : TRUE
    BY DEF medianInterval
  <2>2. Len(q) \in Nat /\ i \in 1 .. Len(q) - 1
    BY <2>1, TimelineFacts DEF Intervals
  <2>3. Len(q) - 1 \in Nat /\ Len(q) # 0
    BY <2>2
  <2>. QED  BY <2>3, IntervalTypes
<1>4. PICK u \in Nat, b \in Nat, c \in Nat :
        u = Cardinality(UpTo(q, m)) /\ b = Cardinality(Below(q, m)) /\ c = Cardinality(Equal(q, d))
  BY <1>2, CountTypes
<1>5. b <= L \div 2 /\ u > L \div 2 /\ 2 * c > L
  BY <1>1, <1>3, <1>4
<1>6. ~ (d < m)
  <2>. SUFFICES ASSUME d < m PROVE FALSE
    OBVIOUS
  <2>1. Equal(q, d) \subseteq Below(q, m)
    BY DEF Equal, Below
  <2>2. c <= b
    BY <1>2, <1>4, <2>1, CountMonotone
  <2>. QED  BY <1>5, <2>2
<1>7. ~ (m < d)
  <2>. SUFFICES ASSUME m < d PROVE FALSE
    OBVIOUS
  <2>1. Equal(q, d) \cap UpTo(q, m) = {}
    BY <1>1, IntervalTypes DEF Equal, UpTo
  <2>2. IsFiniteSet(Equal(q, d)) /\ IsFiniteSet(UpTo(q, m))
    BY <1>2, CountTypes
  <2>3. Cardinality(Equal(q, d) \cup UpTo(q, m)) = c + u - 0
    BY SMTT(60), <1>4, <2>1, <2>2, FS_Union, FS_EmptySet
  <2>4. Cardinality(Equal(q, d) \cup UpTo(q, m)) <= L
    <3>1. Equal(q, d) \cup UpTo(q, m) \subseteq Intervals(q)
      BY <1>2
    <3>. QED  BY <1>3, <3>1, CountMonotone
  <2>5. c + u <= L
    BY <2>3, <2>4
  <2>. QED  BY <1>5, <2>5
<1>. QED  BY <1>1, <1>6, <1>7

-----------------------------------------------------------------------------
(***************************************************************************)
(* The properties.                                                         *)
(***************************************************************************)
\* fill emits in time order, and when it returns it has emitted exactly what the
\* reference without cursors and recursion says: no sample is lost or taken twice
\* because a level resumes at its cursor, for any streams and number of fillers.
THEOREM FillMatchesReference == Spec => []MatchesReference
<1>1. Inv => MatchesReference
  <2>. SUFFICES ASSUME Inv PROVE MatchesReference
    OBVIOUS
  <2>1. CASE seqs = <<>>
    BY <2>1 DEF Inv, MatchesReference, Ran
  <2>2. CASE seqs # <<>>
    <3>1. /\ DOMAIN out = 1 .. Len(out) /\ OrderInv(out)
          /\ \A k \in 1 .. Len(out) : out[k] \in Reference(seqs, gap)
          /\ stack = <<>> => \A e \in Reference(seqs, gap) : \E k \in 1 .. Len(out) : out[k] = e
      BY <2>2, OutputFacts
    <3>2. \A i, j \in DOMAIN out : i < j => out[i].t < out[j].t
      BY <3>1 DEF OrderInv
    <3>3. Ran => {out[i] : i \in DOMAIN out} = Reference(seqs, gap)
      BY <3>1 DEF Ran
    <3>. QED  BY <3>2, <3>3 DEF MatchesReference
  <2>. QED  BY <2>1, <2>2
<1>. QED  BY <1>1, FillInvariance, PTL

\* Fillers only add to gaps: what is taken keeps more than a quarter of the gap from
\* every sample of the winner, a filler's marker follows filler samples, and with the
\* automatic threshold nothing is taken inside the winner's normal spacing.
THEOREM FillOnlyInGaps == Spec => []OnlyGapsFilled
<1>1. Inv => OnlyGapsFilled
  <2>. SUFFICES ASSUME Inv, out # <<>>
                PROVE  FilledKeepsDistance /\ MarkersEndFill /\ NormalSpacingKept
    BY DEF OnlyGapsFilled
  <2>1. seqs # <<>>
    BY DEF Inv
  <2>2. /\ seqs \in Seq(Timelines) /\ gap \in Nat /\ CallInv
        /\ DOMAIN out = 1 .. Len(out) /\ MarkerInv(stack, out)
        /\ \A k \in 1 .. Len(out) : out[k] \in Reference(seqs, gap)
    BY <2>1, OutputFacts
  <2>3. PICK qs, g : qs = seqs /\ g = gap
    OBVIOUS
  <2>4. /\ qs \in Seq(Timelines) /\ g \in Nat
        /\ \A k \in DOMAIN out : out[k] \in Reference(qs, g)
    BY <2>2, <2>3
  <2>5. 1 \in 1 .. Len(qs) /\ 1 <= Len(qs) /\ qs[1] \in Timelines
    BY <2>1, <2>3, <2>4, LevelFacts
  <2>6. FilledKeepsDistance
    <3>1. ASSUME NEW i \in DOMAIN out, NEW j \in DOMAIN qs[1], out[i].lvl > 1
          PROVE  out[i].t - qs[1][j].t > g \div 4 \/ qs[1][j].t - out[i].t > g \div 4
      BY <2>4, <3>1, Distance
    <3>. QED  BY <2>3, <3>1 DEF FilledKeepsDistance
  <2>7. MarkersEndFill
    BY <2>2 DEF MarkerInv, MarkersEndFill
  <2>8. NormalSpacingKept
    <3>. SUFFICES ASSUME override = 0, NEW i \in Intervals(qs[1]), NEW k \in DOMAIN out,
                         qs[1][i].kind # "stale",
                         NEW m \in medianInterval(qs[1]), Interval(qs[1], i) <= m,
                         qs[1][i].t < out[k].t, out[k].t < qs[1][i + 1].t
                  PROVE  FALSE
      BY <2>3 DEF NormalSpacingKept
    <3>1. PICK q, t, lo, hi : q = qs[1] /\ t = out[k].t /\ lo = q[i].t /\ hi = q[i + 1].t
      OBVIOUS
    <3>2. /\ i \in 1 .. Len(q) /\ i + 1 \in 1 .. Len(q) /\ lo \in Nat /\ hi \in Nat /\ lo < hi
          /\ <<i, i + 1>> \in Neighbours(q, <<Nil, Nil>>, g)
          /\ Between(q, <<Nil, Nil>>, <<i, i + 1>>) = <<lo, hi>>
          /\ ~ AfterMarker(q, <<i, i + 1>>)
      BY <2>4, <2>5, <3>1, WinnerNeighbours
    <3>3. PICK l \in 1 .. Len(qs) : \E s \in Spans(qs, g)[l] : \E j \in EmittedIn(qs, l, s, g) :
            j \in Inside(qs[l], s, g) /\ out[k].t = qs[l][j].t
      BY <2>4, ReferenceFrom
    <3>4. PICK s \in Spans(qs, g)[l] : \E j \in EmittedIn(qs, l, s, g) :
            j \in Inside(qs[l], s, g) /\ out[k].t = qs[l][j].t
      BY <3>3
    <3>5. PICK j : j \in Inside(qs[l], s, g) /\ t = qs[l][j].t
      BY <3>1, <3>4
    <3>6. PICK S : S = <<Nil, Nil>> /\ S \in Spans(qs, g)[1]
      <4>1. <<Nil, Nil>> \in Spans(qs, g)[1]
        BY <2>4, <2>5, LevelFacts
      <4>. QED  BY <4>1
    <3>7. lo < t /\ t < hi
      BY <3>1
    <3>8. Within(t, <<lo, hi>>)
      BY <3>7 DEF Within
    <3>9. PICK ab : ab = <<i, i + 1>>
      OBVIOUS
    <3>10. ab \in Neighbours(qs[1], S, g) /\ Between(qs[1], S, ab) = <<lo, hi>>
      BY <3>1, <3>2, <3>6, <3>9
    <3>11. Within(qs[l][j].t, Between(qs[1], S, ab))
      BY <3>5, <3>8, <3>10
    <3>12. needsFill(AfterMarker(qs[1], ab), Between(qs[1], S, ab)[1], Between(qs[1], S, ab)[2], g)
      BY <2>4, <2>5, <3>3, <3>4, <3>5, <3>6, <3>10, <3>11, OnlyInGaps
    <3>13. needsFill(AfterMarker(q, ab), lo, hi, g)
      BY <3>1, <3>10, <3>12
    <3>14. hi - lo >= g
      BY <3>2, <3>9, <3>13 DEF needsFill, Nil
    <3>15. Len(seqs[1]) > 1
      BY <2>3, <2>5, <3>1, <3>2, TimelineFacts
    <3>16. PICK d \in medianInterval(qs[1]) : g = 2 * d
      BY <2>2, <2>3, <3>15 DEF CallInv
    <3>17. d \in Nat /\ d >= 1 /\ m \in Nat /\ ~ (m < d) /\ ~ (d < m)
      BY <2>5, <3>16, MedianPositive, MedianUnique
    <3>18. hi - lo <= m
      BY <3>1 DEF Interval
    <3>. QED  BY <3>2, <3>14, <3>16, <3>17, <3>18
  <2>. QED  BY <2>6, <2>7, <2>8
<1>. QED  BY <1>1, FillInvariance, PTL

\* With the automatic threshold, one missing step of a series most of whose intervals
\* are equal is filled from the first filler's sample in the middle of the hole.
THEOREM FillSingleHole == Spec => []SingleHoleFilled
<1>1. Inv => SingleHoleFilled
  <2>. SUFFICES ASSUME Inv, Ran, override = 0, fillers # <<>>,
                       NEW d \in {Interval(seqs[1], i) : i \in Intervals(seqs[1])},
                       2 * Cardinality({i \in Intervals(seqs[1]) : Interval(seqs[1], i) = d})
                         > Len(seqs[1]) - 1,
                       NEW i \in Intervals(seqs[1]), NEW j \in DOMAIN seqs[2],
                       Interval(seqs[1], i) = 2 * d,
                       seqs[2][j].t = seqs[1][i].t + d, seqs[2][j].kind # "stale"
                PROVE  \E k \in DOMAIN out : out[k].lvl = 2 /\ out[k].t = seqs[2][j].t
    BY DEF SingleHoleFilled
  <2>1. seqs # <<>> /\ stack = <<>>
    BY DEF Ran
  <2>2. /\ seqs \in Seq(Timelines) /\ gap \in Nat /\ CallInv /\ DOMAIN out = 1 .. Len(out)
        /\ \A e \in Reference(seqs, gap) : \E k \in 1 .. Len(out) : out[k] = e
    BY <2>1, OutputFacts
  <2>3. PICK qs, g, q : qs = seqs /\ g = gap /\ q = seqs[1]
    OBVIOUS
  <2>4. fillers \in Seq(Streams)
    BY StreamsAssumption DEF Inv
  <2>5. Len(qs) >= 2 /\ Len(qs) \in Nat /\ qs \in Seq(Timelines) /\ g \in Nat
    BY <2>2, <2>3, <2>4 DEF CallInv
  <2>6. 1 \in 1 .. Len(qs) /\ 2 \in 1 .. Len(qs) /\ 1 + 1 <= Len(qs) /\ 1 <= Len(qs) /\ 1 + 1 = 2
    BY <2>5
  <2>7. q = qs[1] /\ q \in Timelines /\ qs[2] \in Timelines
    BY <2>3, <2>5, <2>6, LevelFacts
  <2>8. PICK lo \in Nat, hi \in Nat : lo = q[i].t /\ hi = q[i + 1].t /\ lo < hi
    <3>1. q[i].t \in Nat /\ q[i + 1].t \in Nat /\ q[i].t < q[i + 1].t
      BY <2>3, <2>5, <2>7, WinnerNeighbours
    <3>. QED  BY <3>1
  <2>9. PICK ab : ab = <<i, i + 1>>
    OBVIOUS
  <2>10. ab \in Neighbours(q, <<Nil, Nil>>, g) /\ Between(q, <<Nil, Nil>>, ab) = <<lo, hi>>
    BY ZenonT(60), <2>3, <2>5, <2>7, <2>8, <2>9, WinnerNeighbours
  <2>11. d \in Nat
    BY <2>3, <2>7, IntervalTypes
  <2>12. g = 2 * d
    <3>1. Len(q) > 1
      BY <2>3, <2>7, TimelineFacts DEF Intervals
    <3>2. PICK m \in medianInterval(q) : g = 2 * m
      BY <2>2, <2>3, <3>1 DEF CallInv
    <3>3. 2 * Cardinality(Equal(q, d)) > Len(q) - 1
      BY <2>3 DEF Equal
    <3>. QED  BY <2>7, <2>11, <3>2, <3>3, MajorityIsMedian
  <2>13. hi - lo = 2 * d
    BY <2>3, <2>8 DEF Interval
  <2>14. PICK o : o = <<lo, hi>>
    OBVIOUS
  <2>15. needsFill(AfterMarker(q, ab), o[1], o[2], g)
    BY <2>8, <2>11, <2>12, <2>13, <2>14 DEF needsFill
  <2>16. o \in OpenSpans(q, <<Nil, Nil>>, g)
    BY <2>10, <2>14, <2>15, OpenSpan
  <2>17. o \in Spans(qs, g)[2]
    <3>1. <<Nil, Nil>> \in Spans(qs, g)[1]
      BY <2>5, <2>6, LevelFacts
    <3>2. o \in Spans(qs, g)[1 + 1]
      BY <2>5, <2>6, <2>7, <2>16, <3>1, LevelFacts
    <3>. QED  BY <2>6, <3>2
  <2>18. PICK t \in Nat : t = qs[2][j].t /\ j \in 1 .. Len(qs[2]) /\ j \in DOMAIN qs[2]
    BY <2>3, <2>7, TimelineFacts
  <2>19. t = lo + d
    BY <2>3, <2>8, <2>18
  <2>20. t > lo + g \div 4 /\ t < hi - g \div 4
    <3>1. PICK m \in Nat : m = g \div 4
      BY <2>5, MarginType
    <3>2. 4 * m <= 2 * d
      BY <2>5, <2>11, <2>12, <3>1
    <3>3. d >= 1 /\ hi = lo + 2 * d
      BY <2>8, <2>11, <2>13
    <3>4. t > lo + m /\ t < hi - m
      BY ONLY lo \in Nat, hi \in Nat, m \in Nat, t \in Nat, <2>11, <2>19, <3>2, <3>3
    <3>. QED  BY <3>1, <3>4
  <2>21. j \in Inside(qs[2], o, g)
    BY <2>14, <2>18, <2>20 DEF Inside, InMargins
  <2>22. j \in EmittedIn(qs, 2, o, g)
    BY <2>3, <2>21 DEF EmittedIn
  <2>23. Entry(qs, 2, j) \in Reference(qs, g)
    BY <2>5, <2>6, <2>17, <2>22, ReferenceMember
  <2>24. Entry(qs, 2, j).lvl = 2 /\ Entry(qs, 2, j).t = seqs[2][j].t
    BY <2>3 DEF Entry
  <2>. QED  BY <2>2, <2>3, <2>23, <2>24
<1>. QED  BY <1>1, FillInvariance, PTL
=============================================================================
