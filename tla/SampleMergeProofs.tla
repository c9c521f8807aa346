-------------------------- MODULE SampleMergeProofs --------------------------
(***************************************************************************)
(* Proofs about the merge of two replicas, for streams of any length, any  *)
(* times, values and buffer: the cursors stay in range, the result is in   *)
(* time order, it has exactly the samples it should have and no value in   *)
(* it is made up.                                                          *)
(***************************************************************************)
EXTENDS SampleMerge, FiniteSetTheorems, TLAPS

\* Appending a later sample keeps the order.
LEMMA AppendOrdered ==
  ASSUME NEW s \in Seq(Samples), NEW x \in Samples, Ordered(s), AllBefore(s, x.t)
  PROVE  /\ Append(s, x) \in Seq(Samples)
         /\ Append(s, x) # <<>>
         /\ Ordered(Append(s, x))
         /\ \A i \in 1 .. Len(Append(s, x)) :
              Append(s, x)[i] = x \/ (i \in 1 .. Len(s) /\ Append(s, x)[i] = s[i])
  BY SMTT(60) DEF Ordered, AllBefore, Samples

\* The estimated buffer is a natural number.
LEMMA BufferNat == ASSUME NEW in \in Inputs PROVE Buffers(in) \subseteq Nat
<1>1. \A s \in Seq(Samples) : \A g \in Gaps(s) : g[2] \in Nat
  <2>. SUFFICES ASSUME NEW s \in Seq(Samples), NEW g \in Gaps(s) PROVE g[2] \in Nat
    OBVIOUS
  <2>1. PICK i \in 2 .. Len(s) : s[i].t > s[i - 1].t /\ g = <<i, s[i].t - s[i - 1].t>>
    BY DEF Gaps
  <2>2. s[i] \in Samples /\ s[i - 1] \in Samples
    OBVIOUS
  <2>3. s[i].t \in Nat /\ s[i - 1].t \in Nat
    BY <2>2 DEF Samples
  <2>. QED  BY <2>1, <2>3
<1>2. \A a, b \in Seq(Samples) : \A g \in GapsUsed(a, b) : g[2][2] \in Nat
  BY <1>1 DEF GapsUsed
<1>3. \A a, b \in Seq(Samples) : Estimate(GapsUsed(a, b)) \subseteq Nat
  <2>. SUFFICES ASSUME NEW a \in Seq(Samples), NEW b \in Seq(Samples),
                       NEW e \in Estimate(GapsUsed(a, b))
                PROVE  e \in Nat
    OBVIOUS
  <2>1. PICK d \in Medians(GapsUsed(a, b)) : e = d \div 2
    BY DEF Estimate
  <2>2. PICK g \in GapsUsed(a, b) : d = g[2][2]
    BY DEF Medians
  <2>3. d \in Nat
    BY <1>2, <2>2
  <2>. QED  BY <2>1, <2>3
<1>4. \A a, b \in Seq(Samples) : dynamicAntiAffinity(a, b) \subseteq Nat
  BY <1>3 DEF dynamicAntiAffinity
<1>5. in.a \in Streams /\ in.b \in Streams /\ in.antiAffinity \in Nat
  BY InputsAssumption DEF CallRecords
<1>6. dynamicBufferForStream(in.a, in.b) \subseteq Nat
  BY <1>4, <1>5 DEF dynamicBufferForStream, Streams
<1>. QED  BY <1>5, <1>6 DEF Buffers

\* The invariant holds when MergeSampleStream is called.
LEMMA InitIInv == Init => IInv
<1>. SUFFICES ASSUME Init PROVE IInv
  OBVIOUS
<1>1. input \in CallRecords /\ buffer \in Nat
  BY InputsAssumption, BufferNat DEF Init
<1>2. TypeOK
  BY <1>1 DEF Init, TypeOK, Streams
<1>3. EmittedInOrder
  BY DEF Init, EmittedInOrder, Ordered
<1>4. SidesOrdered
  BY InputsAssumption DEF Init, SidesOrdered
<1>5. Placed
  BY DEF Init, Placed
<1>. QED  BY <1>2, <1>3, <1>4, <1>5 DEF IInv

\* The result of a finished pass is stored.
LEMMA FinishPassIInv ==
  ASSUME IInv, pass # "done", NEW r \in Seq(Samples), Ordered(r),
         FinishPass(r), newValues' = newValues
  PROVE  IInv'
<1>. USE DEF IInv, FinishPass
<1>0. pass \in {"histograms", "floats"}
  BY DEF TypeOK
<1>1. TypeOK'
  BY <1>0 DEF TypeOK, NextPass, Streams
<1>2. EmittedInOrder'
  BY <1>0 DEF EmittedInOrder, TypeOK, Streams
<1>3. SidesOrdered'
  BY DEF SidesOrdered
<1>4. Placed'
  BY DEF Placed
<1>. QED  BY <1>1, <1>2, <1>3, <1>4

\* A pass with an empty side stores the other, which is ordered.
LEMMA OneSidedIInv == ASSUME IInv, OneSided PROVE IInv'
<1>1. pass \in {"histograms", "floats"}
  BY DEF IInv, TypeOK, OneSided
<1>2. /\ input.a[pass] \in Seq(Samples) /\ Ordered(input.a[pass])
      /\ input.b[pass] \in Seq(Samples) /\ Ordered(input.b[pass])
  BY <1>1 DEF IInv, TypeOK, CallRecords, Streams, SidesOrdered
<1>3. PICK r \in {input.a[pass], input.b[pass]} : FinishPass(r)
  BY DEF OneSided
<1>. QED  BY <1>1, <1>2, <1>3, FinishPassIInv DEF OneSided

\* A pass starts with ordered sides, nothing emitted and the cursors at the start.
LEMMA StartPassIInv == ASSUME IInv, StartPass PROVE IInv'
<1>. USE DEF IInv, StartPass
<1>1. pass \in {"histograms", "floats"}
  BY DEF TypeOK
<1>2. /\ input.a[pass] \in Seq(Samples) /\ Ordered(input.a[pass])
      /\ input.b[pass] \in Seq(Samples) /\ Ordered(input.b[pass])
  BY <1>1 DEF TypeOK, CallRecords, Streams, SidesOrdered
<1>3. /\ base' \in Seq(Samples) /\ base' # <<>> /\ Ordered(base')
      /\ other' \in Seq(Samples) /\ other' # <<>> /\ Ordered(other')
  BY <1>2
<1>4. TypeOK'
  BY SMTT(60), <1>3 DEF TypeOK
<1>5. EmittedInOrder'
  BY DEF EmittedInOrder, Ordered
<1>6. SidesOrdered'
  BY <1>3 DEF SidesOrdered
<1>7. Placed'
  BY <1>3 DEF Placed, AllBefore
<1>. QED  BY <1>4, <1>5, <1>6, <1>7

\* A sample of a stream is a sample, and so are its time and value numbers.
LEMMA SampleAt ==
  ASSUME NEW s \in Seq(Samples), NEW i \in 1 .. Len(s)
  PROVE  s[i] \in Samples /\ s[i].t \in Nat /\ s[i].v \in Nat
<1>1. s[i] \in Samples
  OBVIOUS
<1>. QED  BY <1>1 DEF Samples

\* A nonempty stream has a first and a last sample.
LEMMA NonEmpty ==
  ASSUME NEW s \in Seq(Samples), s # <<>>
  PROVE  1 \in 1 .. Len(s) /\ Len(s) \in 1 .. Len(s)
OBVIOUS

\* Earlier by more than the buffer is earlier.
LEMMA LessTheBuffer ==
  ASSUME NEW x \in Nat, NEW y \in Nat, NEW d \in Nat, x < y - d
  PROVE  x < y
OBVIOUS

\* What comes before a time still does when an earlier sample is appended.
LEMMA AppendBefore ==
  ASSUME NEW s \in Seq(Samples), NEW x \in Samples, NEW t \in Nat,
         AllBefore(s, t), x.t < t
  PROVE  AllBefore(Append(s, x), t)
  BY DEF AllBefore

\* The last sample of an ordered stream is its latest.
LEMMA LastIsLatest ==
  ASSUME NEW s \in Seq(Samples), s # <<>>, Ordered(s)
  PROVE  LastOf(s) \in Nat /\ \A i \in 1 .. Len(s) : s[i].t <= LastOf(s)
<1>1. Len(s) \in 1 .. Len(s)
  BY NonEmpty
<1>2. LastOf(s) \in Nat
  BY <1>1, SampleAt DEF LastOf
<1>3. ASSUME NEW i \in 1 .. Len(s) PROVE s[i].t <= LastOf(s)
  <2>1. CASE i = Len(s)
    BY <1>2, <2>1 DEF LastOf
  <2>2. CASE i # Len(s)
    <3>1. i < Len(s)
      BY <2>2
    <3>2. s[i].t < s[Len(s)].t
      BY <1>1, <3>1 DEF Ordered
    <3>. QED  BY <1>2, <3>2, SampleAt DEF LastOf
  <2>. QED  BY <2>1, <2>2
<1>. QED  BY <1>2, <1>3

\* What the loops know: the sides are ordered streams of samples.
LEMMA LoopFacts ==
  ASSUME IInv, pc # "start"
  PROVE  /\ base \in Seq(Samples) /\ base # <<>> /\ Ordered(base)
         /\ other \in Seq(Samples) /\ other # <<>> /\ Ordered(other)
         /\ newValues \in Seq(Samples) /\ Ordered(newValues)
         /\ buffer \in Nat /\ lastTime \in Nat
         /\ ai \in 1 .. Len(base) + 1
         /\ bOffset \in 1 .. Len(other) + 1
         /\ lastOffset \in 1 .. Len(other) + 1
         /\ scan \in 1 .. Len(other) + 1
BY DEF IInv, TypeOK, EmittedInOrder, SidesOrdered

\* A step of a loop changes the cursors and what is emitted only; the parts of the
\* invariant about the sides and the finished passes are kept.
LEMMA LoopStep ==
  ASSUME IInv, pc # "start", UNCHANGED streams,
         pc' \in {"lead", "base", "gap", "place", "tail"},
         newValues' \in Seq(Samples), Ordered(newValues'),
         lastTime' \in Nat,
         ai' \in 1 .. Len(base) + 1,
         bOffset' \in 1 .. Len(other) + 1,
         lastOffset' \in 1 .. Len(other) + 1,
         scan' \in 1 .. Len(other) + 1
  PROVE  TypeOK' /\ EmittedInOrder' /\ SidesOrdered'
<1>1. TypeOK'
  BY DEF IInv, TypeOK, streams
<1>2. EmittedInOrder'
  BY DEF IInv, EmittedInOrder, streams
<1>3. SidesOrdered'
  BY DEF IInv, SidesOrdered, streams
<1>. QED  BY <1>1, <1>2, <1>3

\* The samples before the base begins come in the order of their own stream.
LEMMA LeadIInv == ASSUME IInv, Lead PROVE IInv'
<1>0. pc = "lead" /\ UNCHANGED <<streams, ai, scan, lastTime>> /\ lastOffset' = bOffset'
      /\ base' = base /\ other' = other
  BY DEF Lead, streams
<1>F. /\ base \in Seq(Samples) /\ base # <<>> /\ Ordered(base)
      /\ other \in Seq(Samples) /\ other # <<>> /\ Ordered(other)
      /\ newValues \in Seq(Samples) /\ Ordered(newValues)
      /\ buffer \in Nat /\ lastTime \in Nat
      /\ ai \in 1 .. Len(base) + 1
      /\ bOffset \in 1 .. Len(other) + 1
      /\ lastOffset \in 1 .. Len(other) + 1
      /\ scan \in 1 .. Len(other) + 1
  BY <1>0, LoopFacts
<1>1. /\ ai = 1 /\ bOffset \in 1 .. Len(other)
      /\ AllBefore(newValues, other[bOffset].t) /\ AllBefore(newValues, base[1].t)
  BY <1>0, <1>F DEF IInv, Placed
<1>2. /\ other[bOffset] \in Samples /\ other[bOffset].t \in Nat
      /\ base[1] \in Samples /\ base[1].t \in Nat
  BY <1>0, <1>1, <1>F, NonEmpty, SampleAt
<1>3. CASE /\ other[bOffset].t < base[1].t - buffer
           /\ newValues' = Append(newValues, other[bOffset])
           /\ bOffset' = IF bOffset < Len(other) THEN bOffset + 1 ELSE bOffset
           /\ pc' = IF bOffset < Len(other) THEN "lead" ELSE "base"
  <2>1. newValues' \in Seq(Samples) /\ newValues' # <<>> /\ Ordered(newValues')
    BY <1>0, <1>1, <1>2, <1>3, <1>F, AppendOrdered
  <2>2. other[bOffset].t < base[1].t
    BY <1>2, <1>3, <1>F, LessTheBuffer
  <2>3. AllBefore(newValues', base[1].t)
    BY <1>0, <1>1, <1>2, <1>3, <2>2, <1>F, AppendBefore
  <2>4. bOffset' \in 1 .. Len(other) /\ pc' \in {"lead", "base"}
    BY SMTT(60), <1>0, <1>1, <1>3, <1>F
  <2>5. TypeOK' /\ EmittedInOrder' /\ SidesOrdered'
    BY <1>0, <2>1, <2>4, <1>F, LoopStep
  <2>6. ASSUME bOffset < Len(other) PROVE AllBefore(newValues', other[bOffset + 1].t)
    <3>1. bOffset + 1 \in 1 .. Len(other)
      BY <1>0, <1>1, <2>6, <1>F
    <3>2. other[bOffset].t < other[bOffset + 1].t /\ other[bOffset + 1].t \in Nat
      BY <1>0, <1>1, <3>1, <1>F, SampleAt DEF Ordered
    <3>3. AllBefore(newValues, other[bOffset + 1].t)
      BY SMTT(60), <1>0, <1>1, <1>2, <3>2, <1>F, SampleAt DEF AllBefore
    <3>. QED  BY <1>0, <1>2, <1>3, <3>2, <3>3, <1>F, AppendBefore
  <2>7. Placed'
    <3>1. CASE bOffset < Len(other)
      BY <1>0, <1>1, <1>3, <2>3, <2>4, <2>6, <3>1 DEF Placed
    <3>2. CASE ~ (bOffset < Len(other))
      BY <1>0, <1>1, <1>3, <2>1, <2>3, <3>2 DEF Placed
    <3>. QED  BY <3>1, <3>2
  <2>. QED  BY <2>5, <2>7 DEF IInv
<1>4. CASE pc' = "base" /\ UNCHANGED <<newValues, bOffset>>
  <2>1. TypeOK' /\ EmittedInOrder' /\ SidesOrdered'
    BY <1>0, <1>4, <1>F, LoopStep
  <2>2. Placed'
    BY <1>0, <1>1, <1>4 DEF Placed
  <2>. QED  BY <2>1, <2>2 DEF IInv
<1>. QED  BY <1>3, <1>4 DEF Lead

\* The main loop emits its first sample, or remembers the last one emitted.
LEMMA NextBaseIInv == ASSUME IInv, NextBase PROVE IInv'
<1>0. /\ pc = "base" /\ ai <= Len(base)
      /\ UNCHANGED <<streams, bOffset, lastOffset>> /\ base' = base /\ other' = other
  BY DEF NextBase, streams
<1>1. /\ base \in Seq(Samples) /\ Ordered(base)
      /\ newValues \in Seq(Samples) /\ Ordered(newValues)
      /\ lastTime \in Nat
      /\ bOffset \in 1 .. Len(other) + 1
      /\ lastOffset \in 1 .. Len(other) + 1
      /\ scan \in 1 .. Len(other) + 1
  BY <1>0, LoopFacts
<1>2. ai \in 1 .. Len(base) /\ AllBefore(newValues, base[ai].t)
  BY <1>0, LoopFacts DEF IInv, Placed
<1>3. base[ai] \in Samples /\ base[ai].t \in Nat
  BY <1>1, <1>2, SampleAt
<1>4. CASE /\ newValues' = <<base[ai]>>
           /\ ai' = ai + 1
           /\ UNCHANGED <<pc, lastTime, scan>>
  <2>1. newValues' \in Seq(Samples) /\ newValues' # <<>> /\ Ordered(newValues')
    BY <1>3, <1>4 DEF Ordered
  <2>2. TypeOK' /\ EmittedInOrder' /\ SidesOrdered'
    BY <1>0, <1>1, <1>2, <1>4, <2>1, LoopStep
  <2>3. ASSUME ai + 1 <= Len(base) PROVE AllBefore(newValues', base[ai + 1].t)
    <3>1. ai + 1 \in 1 .. Len(base)
      BY <1>1, <1>2, <2>3
    <3>2. base[ai].t < base[ai + 1].t
      BY <1>1, <1>2, <3>1 DEF Ordered
    <3>. QED  BY <1>3, <1>4, <3>2 DEF AllBefore
  <2>4. Placed'
    BY <1>0, <1>4, <2>1, <2>3 DEF Placed
  <2>. QED  BY <2>2, <2>4 DEF IInv
<1>5. CASE /\ newValues # <<>>
           /\ lastTime' = LastOf(newValues)
           /\ scan' = lastOffset
           /\ pc' \in {"gap", "place"}
           /\ UNCHANGED <<newValues, ai>>
  <2>1. lastTime' \in Nat /\ \A i \in 1 .. Len(newValues) : newValues[i].t <= lastTime'
    BY <1>1, <1>5, LastIsLatest
  <2>2. TypeOK' /\ EmittedInOrder' /\ SidesOrdered'
    BY <1>0, <1>1, <1>2, <1>5, <2>1, LoopStep
  <2>3. BehindOffset'
    BY <1>5, <2>1 DEF BehindOffset
  <2>4. Placed'
    BY <1>0, <1>2, <1>5, <2>3 DEF Placed
  <2>. QED  BY <2>2, <2>4 DEF IInv
<1>. QED  BY <1>4, <1>5 DEF NextBase

\* One sample of the other replica is looked at and, if it is late enough, taken.
LEMMA AdvanceOther ==
  ASSUME IInv, pc \in {"gap", "tail"}, bOffset <= Len(other),
         bOffset' = bOffset + 1, other' = other, lastTime' = lastTime,
         \/ newValues' = newValues
         \/ /\ newValues' = Append(newValues, other[bOffset])
            /\ other[bOffset].t > lastTime + buffer
  PROVE  /\ newValues' \in Seq(Samples) /\ Ordered(newValues')
         /\ newValues # <<>> => newValues' # <<>>
         /\ BehindOffset'
         /\ bOffset' \in 1 .. Len(other) + 1
         /\ other[bOffset] \in Samples /\ other[bOffset].t \in Nat
         /\ \A t \in Nat : AllBefore(newValues, t) /\ other[bOffset].t < t
                              => AllBefore(newValues', t)
<1>1. /\ other \in Seq(Samples) /\ Ordered(other)
      /\ newValues \in Seq(Samples) /\ Ordered(newValues)
      /\ buffer \in Nat /\ lastTime \in Nat
      /\ bOffset \in 1 .. Len(other) /\ bOffset' \in 1 .. Len(other) + 1
  BY LoopFacts
<1>2. other[bOffset] \in Samples /\ other[bOffset].t \in Nat
  BY <1>1, SampleAt
<1>3. \A i \in 1 .. Len(newValues) :
        newValues[i].t <= lastTime \/ newValues[i].t < other[bOffset].t
  BY DEF IInv, Placed, BehindOffset
<1>4. \A i \in 1 .. Len(newValues) : newValues[i].t \in Nat
  BY <1>1, SampleAt
<1>5. ASSUME bOffset + 1 <= Len(other)
      PROVE  other[bOffset].t < other[bOffset + 1].t /\ other[bOffset + 1].t \in Nat
  <2>1. bOffset + 1 \in 1 .. Len(other)
    BY <1>1, <1>5
  <2>. QED  BY <1>1, <2>1, SampleAt DEF Ordered
<1>6. CASE newValues' = newValues
  <2>1. BehindOffset'
    BY <1>2, <1>3, <1>4, <1>5, <1>6 DEF BehindOffset
  <2>. QED  BY <1>1, <1>2, <1>6, <2>1
<1>7. CASE /\ newValues' = Append(newValues, other[bOffset])
           /\ other[bOffset].t > lastTime + buffer
  <2>1. other[bOffset].t > lastTime
    BY <1>1, <1>2, <1>7
  <2>2. AllBefore(newValues, other[bOffset].t)
    BY <1>1, <1>2, <1>3, <1>4, <2>1 DEF AllBefore
  <2>3. /\ newValues' \in Seq(Samples) /\ newValues' # <<>> /\ Ordered(newValues')
        /\ \A i \in 1 .. Len(newValues') :
             \/ newValues'[i] = other[bOffset]
             \/ i \in 1 .. Len(newValues) /\ newValues'[i] = newValues[i]
    BY <1>1, <1>2, <1>7, <2>2, AppendOrdered
  <2>4. BehindOffset'
    <3>. SUFFICES ASSUME NEW i \in 1 .. Len(newValues'), bOffset + 1 <= Len(other)
                  PROVE  newValues'[i].t <= lastTime \/ newValues'[i].t < other[bOffset + 1].t
      BY DEF BehindOffset
    <3>1. CASE newValues'[i] = other[bOffset]
      BY <1>5, <3>1
    <3>2. CASE i \in 1 .. Len(newValues) /\ newValues'[i] = newValues[i]
      <4>1. newValues[i].t < other[bOffset].t
        BY <2>2, <3>2 DEF AllBefore
      <4>. QED  BY <1>2, <1>4, <1>5, <3>2, <4>1
    <3>. QED  BY <2>3, <3>1, <3>2
  <2>5. \A t \in Nat : AllBefore(newValues, t) /\ other[bOffset].t < t
                         => AllBefore(newValues', t)
    BY <1>1, <1>2, <1>7, AppendBefore
  <2>. QED  BY <1>1, <1>2, <2>3, <2>4, <2>5
<1>. QED  BY <1>6, <1>7

\* The samples put in a hole come after what was emitted and before the base sample.
LEMMA FillGapIInv == ASSUME IInv, FillGap PROVE IInv'
<1>0. /\ pc = "gap" /\ UNCHANGED <<streams, ai, lastOffset, scan, lastTime>>
      /\ base' = base /\ other' = other /\ lastTime' = lastTime
  BY DEF FillGap, streams
<1>1. /\ base \in Seq(Samples)
      /\ newValues \in Seq(Samples) /\ Ordered(newValues)
      /\ lastTime \in Nat
      /\ ai \in 1 .. Len(base) + 1
      /\ bOffset \in 1 .. Len(other) + 1
      /\ lastOffset \in 1 .. Len(other) + 1
      /\ scan \in 1 .. Len(other) + 1
  BY <1>0, LoopFacts
<1>2. ai \in 1 .. Len(base) /\ newValues # <<>> /\ AllBefore(newValues, base[ai].t)
  BY <1>0, <1>1 DEF IInv, Placed
<1>3. base[ai].t \in Nat
  BY <1>1, <1>2, SampleAt
<1>4. CASE /\ bOffset <= Len(other)
           /\ other[bOffset].t < base[ai].t
           /\ newValues' = IF FitsGap(other[bOffset].t, lastTime, base[ai].t)
                             THEN Append(newValues, other[bOffset]) ELSE newValues
           /\ bOffset' = bOffset + 1
           /\ UNCHANGED pc
  <2>1. \/ newValues' = newValues
        \/ /\ newValues' = Append(newValues, other[bOffset])
           /\ other[bOffset].t > lastTime + buffer
    BY <1>4 DEF FitsGap
  <2>2. /\ newValues' \in Seq(Samples) /\ Ordered(newValues') /\ newValues' # <<>>
        /\ BehindOffset'
        /\ bOffset' \in 1 .. Len(other) + 1
        /\ AllBefore(newValues', base[ai].t)
    BY <1>0, <1>2, <1>3, <1>4, <2>1, AdvanceOther
  <2>3. TypeOK' /\ EmittedInOrder' /\ SidesOrdered'
    BY <1>0, <1>1, <1>4, <2>2, LoopStep
  <2>4. Placed'
    BY <1>0, <1>2, <1>4, <2>2 DEF Placed
  <2>. QED  BY <2>3, <2>4 DEF IInv
<1>5. CASE pc' = "place" /\ UNCHANGED <<newValues, bOffset>>
  <2>1. TypeOK' /\ EmittedInOrder' /\ SidesOrdered'
    BY <1>0, <1>1, <1>5, LoopStep
  <2>2. Placed'
    BY <1>0, <1>2, <1>5 DEF Placed
  <2>. QED  BY <2>1, <2>2 DEF IInv
<1>. QED  BY <1>4, <1>5 DEF FillGap

\* The search for a larger value moves only its own cursor.
LEMMA SkipOlderIInv == ASSUME IInv, SkipOlder PROVE IInv'
<1>0. /\ pc = "place" /\ scan <= Len(other) /\ scan' = scan + 1
      /\ UNCHANGED <<streams, pc, ai, bOffset, lastOffset, lastTime, newValues>>
      /\ base' = base
  BY DEF SkipOlder, streams
<1>1. TypeOK' /\ EmittedInOrder' /\ SidesOrdered'
  BY SMTT(60), <1>0, LoopFacts, LoopStep
<1>2. Placed'
  BY <1>0 DEF IInv, Placed
<1>. QED  BY <1>1, <1>2 DEF IInv

\* A sample emitted at the time of the base sample keeps the order.
LEMMA EmitAtBase ==
  ASSUME IInv, pc = "place", NEW x \in Samples, x.t = base[ai].t,
         newValues' = Append(newValues, x), ai' = ai + 1, pc' = "base",
         UNCHANGED <<streams, bOffset, scan, lastTime>>,
         lastOffset' \in 1 .. Len(other) + 1
  PROVE  IInv'
<1>1. /\ base \in Seq(Samples) /\ Ordered(base)
      /\ newValues \in Seq(Samples) /\ Ordered(newValues)
      /\ lastTime \in Nat
      /\ ai \in 1 .. Len(base) + 1
      /\ bOffset \in 1 .. Len(other) + 1
      /\ scan \in 1 .. Len(other) + 1
  BY LoopFacts
<1>2. ai \in 1 .. Len(base) /\ AllBefore(newValues, base[ai].t)
  BY <1>1 DEF IInv, Placed
<1>3. base[ai].t \in Nat
  BY <1>1, <1>2, SampleAt
<1>4. newValues' \in Seq(Samples) /\ newValues' # <<>> /\ Ordered(newValues')
  BY <1>1, <1>2, AppendOrdered
<1>5. TypeOK' /\ EmittedInOrder' /\ SidesOrdered'
  BY <1>1, <1>2, <1>4, LoopStep
<1>6. ASSUME ai + 1 <= Len(base) PROVE AllBefore(newValues', base[ai + 1].t)
  <2>1. ai + 1 \in 1 .. Len(base)
    BY <1>1, <1>2, <1>6
  <2>2. base[ai].t < base[ai + 1].t /\ base[ai + 1].t \in Nat
    BY SMTT(60), <1>1, <1>2, <2>1, SampleAt DEF Ordered
  <2>3. AllBefore(newValues, base[ai + 1].t)
    BY SMTT(60), <1>1, <1>2, <1>3, <2>2, SampleAt DEF AllBefore
  <2>. QED  BY <1>1, <2>2, <2>3, AppendBefore
<1>7. base' = base
  BY DEF streams
<1>8. Placed'
  BY <1>4, <1>6, <1>7 DEF Placed
<1>. QED  BY <1>5, <1>8 DEF IInv

\* The larger value is emitted at the time of the base sample.
LEMMA PlaceNearIInv == ASSUME IInv, PlaceNear PROVE IInv'
<1>0. /\ pc = "place" /\ pc' = "base" /\ ai' = ai + 1
      /\ UNCHANGED <<streams, bOffset, scan, lastTime>>
      /\ lastOffset' = scan /\ scan <= Len(other)
  BY DEF PlaceNear
<1>1. /\ base \in Seq(Samples) /\ other \in Seq(Samples)
      /\ ai \in 1 .. Len(base) /\ scan \in 1 .. Len(other)
  BY <1>0, LoopFacts DEF IInv, Placed
<1>2. base[ai] \in Samples /\ base[ai].t \in Nat /\ other[scan] \in Samples
  BY <1>1, SampleAt
<1>3. /\ Larger(other[scan], base[ai]) \in Samples
      /\ Larger(other[scan], base[ai]).t = base[ai].t
  BY <1>2 DEF Larger, Samples
<1>4. PICK x \in {Larger(other[scan], base[ai]), base[ai]} : newValues' = Append(newValues, x)
  BY DEF PlaceNear
<1>5. x \in Samples /\ x.t = base[ai].t
  BY <1>2, <1>3
<1>6. lastOffset' \in 1 .. Len(other) + 1
  BY <1>0, <1>1
<1>. QED  BY <1>0, <1>4, <1>5, <1>6, EmitAtBase

\* The base sample is emitted.
LEMMA PlaceBaseIInv == ASSUME IInv, PlaceBase PROVE IInv'
<1>0. /\ pc = "place" /\ pc' = "base" /\ ai' = ai + 1
      /\ newValues' = Append(newValues, base[ai])
      /\ UNCHANGED <<streams, bOffset, scan, lastTime>>
      /\ lastOffset' = lastOffset
  BY DEF PlaceBase
<1>1. /\ base \in Seq(Samples) /\ ai \in 1 .. Len(base)
      /\ lastOffset' \in 1 .. Len(other) + 1
  BY <1>0, LoopFacts DEF IInv, Placed
<1>2. base[ai] \in Samples
  BY <1>1, SampleAt
<1>. QED  BY <1>0, <1>1, <1>2, EmitAtBase

\* The base is not empty, so something has been emitted when it is used up.
LEMMA StartTailIInv == ASSUME IInv, StartTail PROVE IInv'
<1>0. /\ pc = "base" /\ ai > Len(base) /\ lastTime' = LastOf(newValues) /\ pc' = "tail"
      /\ UNCHANGED <<streams, ai, bOffset, lastOffset, scan, newValues>>
      /\ other' = other /\ newValues' = newValues
  BY DEF StartTail, streams
<1>1. /\ base \in Seq(Samples) /\ base # <<>>
      /\ newValues \in Seq(Samples) /\ Ordered(newValues)
      /\ ai \in 1 .. Len(base) + 1
      /\ bOffset \in 1 .. Len(other) + 1
      /\ lastOffset \in 1 .. Len(other) + 1
      /\ scan \in 1 .. Len(other) + 1
  BY <1>0, LoopFacts
<1>2. newValues # <<>>
  <2>1. newValues = <<>> => ai = 1
    BY <1>0 DEF IInv, Placed
  <2>. QED  BY <1>0, <1>1, <2>1, NonEmpty
<1>3. lastTime' \in Nat /\ \A i \in 1 .. Len(newValues) : newValues[i].t <= lastTime'
  BY <1>0, <1>1, <1>2, LastIsLatest
<1>4. TypeOK' /\ EmittedInOrder' /\ SidesOrdered'
  BY <1>0, <1>1, <1>3, LoopStep
<1>5. BehindOffset'
  BY <1>0, <1>3 DEF BehindOffset
<1>6. Placed'
  BY <1>0, <1>5 DEF Placed
<1>. QED  BY <1>4, <1>6 DEF IInv

\* The samples after the base, and the end of the pass.
LEMMA TailIInv == ASSUME IInv, Tail_ PROVE IInv'
<1>0. pc = "tail"
  BY DEF Tail_
<1>1. /\ newValues \in Seq(Samples) /\ Ordered(newValues)
      /\ lastTime \in Nat
      /\ ai \in 1 .. Len(base) + 1
      /\ lastOffset \in 1 .. Len(other) + 1
      /\ scan \in 1 .. Len(other) + 1
  BY <1>0, LoopFacts
<1>2. CASE /\ bOffset <= Len(other)
           /\ newValues' = IF other[bOffset].t > lastTime + buffer
                             THEN Append(newValues, other[bOffset]) ELSE newValues
           /\ bOffset' = bOffset + 1
           /\ UNCHANGED <<streams, pc, ai, lastOffset, scan, lastTime>>
  <2>1. \/ newValues' = newValues
        \/ /\ newValues' = Append(newValues, other[bOffset])
           /\ other[bOffset].t > lastTime + buffer
    BY <1>2
  <2>2. other' = other /\ lastTime' = lastTime
    BY <1>2 DEF streams
  <2>3. /\ newValues' \in Seq(Samples) /\ Ordered(newValues')
        /\ BehindOffset'
        /\ bOffset' \in 1 .. Len(other) + 1
    BY <1>0, <1>2, <2>1, <2>2, AdvanceOther
  <2>4. TypeOK' /\ EmittedInOrder' /\ SidesOrdered'
    BY <1>0, <1>1, <1>2, <2>3, LoopStep
  <2>5. Placed'
    BY <1>0, <1>2, <2>3 DEF Placed
  <2>. QED  BY <2>4, <2>5 DEF IInv
<1>3. CASE FinishPass(newValues) /\ UNCHANGED newValues
  <2>1. pass # "done"
    BY <1>0 DEF IInv, SidesOrdered
  <2>. QED  BY <1>1, <1>3, <2>1, FinishPassIInv
<1>. QED  BY <1>2, <1>3 DEF Tail_

\* Every step preserves the invariant.
LEMMA NextIInv == IInv /\ [Next]_vars => IInv'
<1>. SUFFICES ASSUME IInv, [Next]_vars PROVE IInv'
  OBVIOUS
<1>1. ASSUME UNCHANGED vars PROVE IInv'
  BY <1>1 DEF vars, IInv, TypeOK, EmittedInOrder, SidesOrdered, Placed, BehindOffset
<1>2. CASE OneSided \/ StartPass
  BY <1>2, OneSidedIInv, StartPassIInv
<1>3. CASE Lead \/ NextBase \/ FillGap
  BY <1>3, LeadIInv, NextBaseIInv, FillGapIInv
<1>4. CASE SkipOlder \/ PlaceNear \/ PlaceBase
  BY <1>4, SkipOlderIInv, PlaceNearIInv, PlaceBaseIInv
<1>5. CASE StartTail \/ Tail_
  BY <1>5, StartTailIInv, TailIInv
<1>6. CASE Done
  BY <1>1, <1>6 DEF Done
<1>. QED  BY <1>1, <1>2, <1>3, <1>4, <1>5, <1>6 DEF Next

\* The inductive invariant holds throughout the merge: where the emitted samples are
\* relative to the base sample and the sample of the other replica the loops are at.
THEOREM SpecIInv == Spec => []IInv
  BY InitIInv, NextIInv, PTL DEF Spec

\* MergeSampleStream never reads out of range: every cursor of the loops is an index
\* of its slice or just past it, whatever the streams and the buffer.
THEOREM MergeTypeCorrect == Spec => []TypeOK
<1>1. IInv => TypeOK
  BY DEF IInv
<1>. QED  BY <1>1, SpecIInv, PTL

\* The merged series is in time order without repeated times, for replicas of any
\* length, skew and buffer, with or without prefer_max: what Prometheus' iterators
\* require of the series MergeSampleStream returns.
THEOREM MergeInOrder == Spec => []EmittedInOrder
<1>1. IInv => EmittedInOrder
  BY DEF IInv
<1>. QED  BY <1>1, SpecIInv, PTL
-----------------------------------------------------------------------------
(***************************************************************************)
(* Which samples are emitted.  A second invariant, on top of IInv: what    *)
(* has been emitted of both sides, and where the samples of the other side *)
(* that are still to be emitted can be.                                    *)
(***************************************************************************)
Far(y) == FarFrom(y, base, buffer)
HasTime(t) == \E i \in 1 .. Len(newValues) : newValues[i].t = t

\* What ValuesFaithful says of one sample.
Faithful(x, p) ==
  \/ x \in Elements(Longer(p))
  \/ x \in Elements(Shorter(p)) /\ FarFrom(x, Longer(p), 0)
  \/ /\ p = "floats" /\ input.preferMax
     /\ \E y \in Elements(Longer(p)), z \in Elements(Shorter(p)) :
          /\ y.t = x.t /\ z.v = x.v /\ z.v > y.v
          /\ z.t = y.t \/ (z.t < y.t + buffer /\ z.t > y.t - buffer)

\* Every emitted sample is faithful, and at the time of a base sample passed or a
\* sample of the other side that is far from the base.
EmittedKnown ==
  \A i \in 1 .. Len(newValues) :
    /\ Faithful(newValues[i], pass)
    /\ \/ \E m \in 1 .. ai - 1 : newValues[i].t = base[m].t
       \/ newValues[i] \in Elements(other) /\ Far(newValues[i])

\* The base samples passed, and the far ones of the other side, have been emitted.
BaseEmitted == \A m \in 1 .. ai - 1 : HasTime(base[m].t)
OtherEmitted == \A j \in 1 .. bOffset - 1 : Far(other[j]) => HasTime(other[j].t)

\* What is far and still to be looked at comes after the m-th base sample.
Ahead(m) ==
  \A j \in bOffset .. Len(other) :
    Far(other[j]) => other[j].t > base[m].t \/ HasTime(other[j].t)

Progress ==
  /\ base = Longer(pass) /\ other = Shorter(pass)
  /\ EmittedKnown /\ BaseEmitted /\ OtherEmitted
  /\ pc \in {"base", "gap", "tail"} => Ahead(IF ai = 1 THEN 1 ELSE ai - 1)
  /\ pc = "place" => Ahead(ai)
  /\ pc = "base" /\ ai > 1 => newValues # <<>> /\ LastOf(newValues) = base[ai - 1].t
  /\ pc \in {"gap", "tail"} /\ ai > 1 => lastTime = base[ai - 1].t
  /\ pc = "tail" => ai = Len(base) + 1

\* What ExactMerge says of one pass.
Wanted(p) ==
  {x.t : x \in Elements(Longer(p))} \union
  {x.t : x \in {y \in Elements(Shorter(p)) : FarFrom(y, Longer(p), buffer)}}
Exact(p) == {x.t : x \in Elements(merged[p])} = Wanted(p)

PassesExact ==
  \A p \in {"histograms", "floats"} :
    Finished(p) => Exact(p) /\ \A x \in Elements(merged[p]) : Faithful(x, p)

XInv == PassesExact /\ (pc # "start" => Progress)

\* The times of an ordered stream grow with the position.
LEMMA OrderedUpTo ==
  ASSUME NEW s \in Seq(Samples), Ordered(s), NEW i \in 1 .. Len(s), NEW j \in 1 .. Len(s), i <= j
  PROVE  s[i].t <= s[j].t
<1>1. s[i].t \in Nat /\ s[j].t \in Nat
  BY SampleAt
<1>2. i = j \/ i < j
  OBVIOUS
<1>. QED  BY <1>1, <1>2 DEF Ordered

\* More than the buffer from its two neighbours is more than it from all samples.
LEMMA FarFromNeighbours ==
  ASSUME NEW s \in Seq(Samples), Ordered(s), NEW d \in Nat, NEW x \in Samples,
         NEW i \in 1 .. Len(s) + 1,
         i > 1 => x.t > s[i - 1].t + d,
         i <= Len(s) => x.t < s[i].t - d
  PROVE  FarFrom(x, s, d)
<1>. SUFFICES ASSUME NEW m \in 1 .. Len(s) PROVE x.t > s[m].t + d \/ x.t < s[m].t - d
  BY DEF FarFrom, Elements
<1>1. x.t \in Nat /\ s[m].t \in Nat
  BY SampleAt DEF Samples
<1>2. CASE m < i
  <2>1. i - 1 \in 1 .. Len(s) /\ m <= i - 1 /\ i > 1
    BY <1>2
  <2>2. s[m].t <= s[i - 1].t /\ s[i - 1].t \in Nat
    BY <2>1, OrderedUpTo, SampleAt
  <2>. QED  BY SMTT(60), <1>1, <2>1, <2>2
<1>3. CASE m >= i
  <2>1. i \in 1 .. Len(s) /\ i <= m
    BY <1>3
  <2>2. s[i].t <= s[m].t /\ s[i].t \in Nat
    BY <2>1, OrderedUpTo, SampleAt
  <2>. QED  BY SMTT(60), <1>1, <2>1, <2>2
<1>. QED  BY <1>2, <1>3

\* What is far from a stream is far from each of its samples.
LEMMA FarFromEach ==
  ASSUME NEW s \in Seq(Samples), NEW d, NEW x, FarFrom(x, s, d), NEW m \in 1 .. Len(s)
  PROVE  x.t > s[m].t + d \/ x.t < s[m].t - d
BY DEF FarFrom, Elements

\* What has been emitted after one more sample.
LEMMA EmitTimes ==
  ASSUME newValues \in Seq(Samples), NEW x \in Samples, newValues' = Append(newValues, x)
  PROVE  /\ \A t : HasTime(t)' <=> HasTime(t) \/ x.t = t
         /\ newValues' # <<>> /\ LastOf(newValues') = x.t
         /\ \A i \in 1 .. Len(newValues') :
              newValues'[i] = x \/ (i \in 1 .. Len(newValues) /\ newValues'[i] = newValues[i])
<1>1. /\ newValues' \in Seq(Samples) /\ Len(newValues') = Len(newValues) + 1
      /\ Len(newValues) \in Nat /\ newValues'[Len(newValues) + 1] = x
      /\ \A i \in 1 .. Len(newValues) : newValues'[i] = newValues[i]
      /\ \A i \in 1 .. Len(newValues') : i \in 1 .. Len(newValues) \/ i = Len(newValues) + 1
  OBVIOUS
<1>2. ASSUME NEW t PROVE HasTime(t)' <=> HasTime(t) \/ x.t = t
  <2>1. ASSUME HasTime(t)' PROVE HasTime(t) \/ x.t = t
    <3>1. PICK i \in 1 .. Len(newValues') : newValues'[i].t = t
      BY <2>1 DEF HasTime
    <3>. QED  BY <1>1, <3>1 DEF HasTime
  <2>2. ASSUME HasTime(t) PROVE HasTime(t)'
    <3>1. PICK i \in 1 .. Len(newValues) : newValues[i].t = t
      BY <2>2 DEF HasTime
    <3>2. i \in 1 .. Len(newValues') /\ newValues'[i].t = t
      BY <1>1, <3>1
    <3>. QED  BY <3>2 DEF HasTime
  <2>3. ASSUME x.t = t PROVE HasTime(t)'
    <3>1. Len(newValues) + 1 \in 1 .. Len(newValues')
      BY <1>1
    <3>. QED  BY <1>1, <2>3, <3>1 DEF HasTime
  <2>. QED  BY <2>1, <2>2, <2>3
<1>3. newValues' # <<>> /\ LastOf(newValues') = x.t
  BY <1>1 DEF LastOf
<1>. QED  BY <1>1, <1>2, <1>3

\* The predicates about the sides do not change while a pass goes on.
LEMMA SidesKept ==
  ASSUME UNCHANGED streams
  PROVE  /\ input' = input /\ buffer' = buffer /\ pass' = pass /\ base' = base
         /\ other' = other /\ merged' = merged
         /\ \A p : Longer(p)' = Longer(p) /\ Shorter(p)' = Shorter(p)
         /\ \A y : Far(y)' <=> Far(y)
         /\ \A x, p : Faithful(x, p)' <=> Faithful(x, p)
         /\ PassesExact => PassesExact'
<1>1. /\ input' = input /\ buffer' = buffer /\ pass' = pass /\ base' = base
      /\ other' = other /\ merged' = merged
  BY DEF streams
<1>2. \A p : Longer(p)' = Longer(p) /\ Shorter(p)' = Shorter(p)
  BY <1>1 DEF Longer, Shorter
<1>3. \A y : Far(y)' <=> Far(y)
  BY <1>1 DEF Far
<1>4. \A x, p : Faithful(x, p)' <=> Faithful(x, p)
  BY <1>1, <1>2 DEF Faithful
<1>5. \A p : (Exact(p)' <=> Exact(p)) /\ (Finished(p)' <=> Finished(p))
  BY <1>1, <1>2 DEF Exact, Wanted, Finished
<1>6. PassesExact => PassesExact'
  BY <1>1, <1>4, <1>5 DEF PassesExact
<1>. QED  BY <1>1, <1>2, <1>3, <1>4, <1>6

\* A step of a loop: the base sample it passes and the sample of the other side it has
\* looked at are accounted for, and what it emits is.
LEMMA LoopProgress ==
  ASSUME IInv, XInv, pc # "start", UNCHANGED streams,
         ai' = ai \/ (ai' = ai + 1 /\ ai <= Len(base)),
         bOffset' = bOffset \/ (bOffset' = bOffset + 1 /\ bOffset <= Len(other)),
         \/ newValues' = newValues
         \/ \E x \in Samples :
              /\ newValues' = Append(newValues, x) /\ Faithful(x, pass)
              /\ \/ \E m \in 1 .. ai' - 1 : x.t = base[m].t
                 \/ x \in Elements(other) /\ Far(x),
         NEW b, b = base[ai].t, ai' = ai + 1 => HasTime(b)',
         NEW o, o = other[bOffset].t,
         bOffset' = bOffset + 1 /\ Far(other[bOffset]) => HasTime(o)'
  PROVE  /\ PassesExact' /\ base' = base /\ other' = other
         /\ base' = Longer(pass)' /\ other' = Shorter(pass)'
         /\ EmittedKnown' /\ BaseEmitted' /\ OtherEmitted'
         /\ \A t : HasTime(t) => HasTime(t)'
<1>1. /\ buffer' = buffer /\ pass' = pass /\ base' = base /\ other' = other
      /\ Longer(pass)' = Longer(pass) /\ Shorter(pass)' = Shorter(pass)
      /\ \A y : Far(y)' <=> Far(y)
      /\ \A x, p : Faithful(x, p)' <=> Faithful(x, p)
      /\ PassesExact => PassesExact'
  BY SidesKept
<1>2. /\ newValues \in Seq(Samples) /\ ai \in 1 .. Len(base) + 1
      /\ bOffset \in 1 .. Len(other) + 1 /\ Len(base) \in Nat /\ Len(other) \in Nat
  BY SMTT(60), LoopFacts
<1>3. Progress /\ PassesExact
  BY DEF XInv
<1>4. \A t : HasTime(t) => HasTime(t)'
  <2>1. CASE newValues' = newValues
    BY <2>1 DEF HasTime
  <2>2. CASE \E x \in Samples : newValues' = Append(newValues, x)
    BY <1>2, <2>2, EmitTimes
  <2>. QED  BY <2>1, <2>2
<1>5. EmittedKnown'
  <2>1. \A i \in 1 .. Len(newValues) :
          /\ Faithful(newValues[i], pass)
          /\ \/ \E m \in 1 .. ai' - 1 : newValues[i].t = base[m].t
             \/ newValues[i] \in Elements(other) /\ Far(newValues[i])
    <3>1. \A m \in 1 .. ai - 1 : m \in 1 .. ai' - 1
      BY <1>2
    <3>. QED  BY <1>3, <3>1 DEF Progress, EmittedKnown
  <2>2. \A i \in 1 .. Len(newValues') :
          /\ Faithful(newValues'[i], pass)
          /\ \/ \E m \in 1 .. ai' - 1 : newValues'[i].t = base[m].t
             \/ newValues'[i] \in Elements(other) /\ Far(newValues'[i])
    <3>1. CASE newValues' = newValues
      BY <2>1, <3>1
    <3>2. CASE \E x \in Samples :
                 /\ newValues' = Append(newValues, x) /\ Faithful(x, pass)
                 /\ \/ \E m \in 1 .. ai' - 1 : x.t = base[m].t
                    \/ x \in Elements(other) /\ Far(x)
      <4>1. PICK x \in Samples :
              /\ newValues' = Append(newValues, x) /\ Faithful(x, pass)
              /\ \/ \E m \in 1 .. ai' - 1 : x.t = base[m].t
                 \/ x \in Elements(other) /\ Far(x)
        BY <3>2
      <4>2. \A i \in 1 .. Len(newValues') :
              newValues'[i] = x \/ (i \in 1 .. Len(newValues) /\ newValues'[i] = newValues[i])
        BY <1>2, <4>1, EmitTimes
      <4>. QED  BY <2>1, <4>1, <4>2
    <3>. QED  BY <3>1, <3>2
  <2>. QED  BY <1>1, <2>2 DEF EmittedKnown, Far, Faithful
<1>6. BaseEmitted'
  <2>. SUFFICES ASSUME NEW m \in 1 .. ai' - 1, NEW t, t = base[m].t PROVE HasTime(t)'
    BY <1>1 DEF BaseEmitted
  <2>1. m \in 1 .. ai - 1 \/ (m = ai /\ ai' = ai + 1)
    BY <1>2
  <2>. QED  BY <1>3, <1>4, <2>1 DEF Progress, BaseEmitted
<1>7. OtherEmitted'
  <2>. SUFFICES ASSUME NEW j \in 1 .. bOffset' - 1, Far(other[j]), NEW t, t = other[j].t
                PROVE  HasTime(t)'
    BY <1>1 DEF OtherEmitted
  <2>1. j \in 1 .. bOffset - 1 \/ (j = bOffset /\ bOffset' = bOffset + 1)
    BY <1>2
  <2>. QED  BY <1>3, <1>4, <2>1 DEF Progress, OtherEmitted
<1>. QED  BY <1>1, <1>3, <1>4, <1>5, <1>6, <1>7 DEF Progress

\* A step of a loop that emits nothing and moves neither cursor.
LEMMA QuietProgress ==
  ASSUME IInv, XInv, pc # "start", UNCHANGED streams,
         ai' = ai, bOffset' = bOffset, newValues' = newValues
  PROVE  /\ PassesExact' /\ base' = base /\ other' = other
         /\ base' = Longer(pass)' /\ other' = Shorter(pass)'
         /\ EmittedKnown' /\ BaseEmitted' /\ OtherEmitted'
         /\ \A t : HasTime(t) => HasTime(t)'
<1>1. ai \in Nat /\ bOffset \in Nat
  BY LoopFacts
<1>2. ai' # ai + 1 /\ bOffset' # bOffset + 1
  BY <1>1
<1>3. PICK b, o : b = base[ai].t /\ o = other[bOffset].t
  OBVIOUS
<1>. QED  BY <1>2, <1>3, LoopProgress

\* A base sample is faithful, and so is one of the other side that is far.
LEMMA SampleFaithful ==
  ASSUME IInv, XInv, pc # "start"
  PROVE  /\ \A m \in 1 .. Len(base) : Faithful(base[m], pass)
         /\ \A j \in 1 .. Len(other) :
              /\ other[j] \in Elements(other)
              /\ Far(other[j]) => Faithful(other[j], pass)
<1>1. /\ base \in Seq(Samples) /\ other \in Seq(Samples) /\ buffer \in Nat
      /\ base = Longer(pass) /\ other = Shorter(pass)
  BY LoopFacts DEF XInv, Progress
<1>2. \A m \in 1 .. Len(base) : Faithful(base[m], pass)
  BY <1>1 DEF Faithful, Elements
<1>3. ASSUME NEW j \in 1 .. Len(other) PROVE other[j] \in Elements(other)
  BY DEF Elements
<1>4. ASSUME NEW j \in 1 .. Len(other), Far(other[j]) PROVE Faithful(other[j], pass)
  <2>1. FarFrom(other[j], base, 0)
    <3>. SUFFICES ASSUME NEW m \in 1 .. Len(base)
                  PROVE  other[j].t > base[m].t + 0 \/ other[j].t < base[m].t - 0
      BY DEF FarFrom, Elements
    <3>1. other[j].t \in Nat /\ base[m].t \in Nat
      BY <1>1, SampleAt
    <3>2. other[j].t > base[m].t + buffer \/ other[j].t < base[m].t - buffer
      BY <1>1, <1>4, FarFromEach DEF Far
    <3>. QED  BY <1>1, <3>1, <3>2
  <2>. QED  BY <1>1, <1>3, <2>1 DEF Faithful
<1>. QED  BY <1>2, <1>3, <1>4

\* What is ahead stays ahead while the cursor of the other side moves on.
LEMMA AheadKept ==
  ASSUME IInv, pc # "start", UNCHANGED streams, NEW m, Ahead(m),
         bOffset' = bOffset \/ bOffset' = bOffset + 1,
         \A t : HasTime(t) => HasTime(t)'
  PROVE  Ahead(m)'
<1>1. base' = base /\ other' = other /\ \A y : Far(y)' <=> Far(y)
  BY SidesKept
<1>2. bOffset \in 1 .. Len(other) + 1
  BY LoopFacts
<1>. SUFFICES ASSUME NEW j \in bOffset' .. Len(other), Far(other[j]), NEW t, t = other[j].t
              PROVE  t > base[m].t \/ HasTime(t)'
  BY <1>1 DEF Ahead, Far
<1>3. j \in bOffset .. Len(other)
  BY <1>2
<1>. QED  BY <1>3 DEF Ahead

\* The samples before the base begins are far from it.
LEMMA LeadXInv == ASSUME IInv, XInv, Lead PROVE XInv'
<1>0. pc = "lead" /\ UNCHANGED <<streams, ai, scan, lastTime>> /\ UNCHANGED streams
      /\ base' = base /\ other' = other /\ ai' = ai
  BY DEF Lead, streams
<1>1. /\ base \in Seq(Samples) /\ base # <<>> /\ Ordered(base)
      /\ other \in Seq(Samples) /\ Ordered(other)
      /\ newValues \in Seq(Samples) /\ buffer \in Nat
  BY <1>0, LoopFacts
<1>2. ai = 1 /\ bOffset \in 1 .. Len(other)
  BY <1>0, LoopFacts DEF IInv, Placed
<1>3. PICK x : x = other[bOffset] /\ x \in Samples /\ x.t \in Nat
  BY <1>1, <1>2, SampleAt
<1>4. 1 \in 1 .. Len(base) /\ base[1].t \in Nat
  BY <1>1, NonEmpty, SampleAt
<1>5. CASE /\ x.t < base[1].t - buffer
           /\ newValues' = Append(newValues, x)
           /\ bOffset' = IF bOffset < Len(other) THEN bOffset + 1 ELSE bOffset
           /\ pc' = IF bOffset < Len(other) THEN "lead" ELSE "base"
  <2>1. Far(x)
    <3>1. 1 \in 1 .. Len(base) + 1 /\ x.t < base[1].t - buffer /\ ~ (1 > 1)
      BY <1>4, <1>5
    <3>. QED  BY <1>1, <1>3, <3>1, FarFromNeighbours DEF Far
  <2>2. Faithful(x, pass) /\ x \in Elements(other)
    BY <1>0, <1>2, <1>3, <2>1, SampleFaithful
  <2>3. \A t : HasTime(t)' <=> HasTime(t) \/ x.t = t
    BY <1>1, <1>3, <1>5, EmitTimes
  <2>4. bOffset' = bOffset \/ (bOffset' = bOffset + 1 /\ bOffset <= Len(other))
    BY <1>2, <1>5
  <2>5. /\ PassesExact' /\ base' = Longer(pass)' /\ other' = Shorter(pass)'
        /\ EmittedKnown' /\ BaseEmitted' /\ OtherEmitted'
    BY <1>0, <1>2, <1>3, <1>5, <2>1, <2>2, <2>3, <2>4, LoopProgress
  <2>6. ASSUME pc' = "base" PROVE Ahead(1)'
    <3>1. bOffset = Len(other) /\ bOffset' = Len(other)
      BY <1>2, <1>5, <2>6
    <3>. SUFFICES ASSUME NEW j \in bOffset' .. Len(other), NEW t, t = other[j].t
                  PROVE  HasTime(t)'
      BY <1>0 DEF Ahead
    <3>2. j = bOffset
      BY <1>2, <3>1
    <3>. QED  BY <1>3, <2>3, <3>2
  <2>7. Progress'
    BY <1>0, <1>2, <1>5, <2>5, <2>6 DEF Progress
  <2>. QED  BY <2>5, <2>7 DEF XInv
<1>6. CASE ~ (x.t < base[1].t - buffer) /\ pc' = "base" /\ UNCHANGED <<newValues, bOffset>>
  <2>1. /\ PassesExact' /\ base' = Longer(pass)' /\ other' = Shorter(pass)'
        /\ EmittedKnown' /\ BaseEmitted' /\ OtherEmitted'
    BY <1>0, <1>2, <1>6, LoopProgress
  <2>2. Ahead(1)'
    <3>. SUFFICES ASSUME NEW j \in bOffset .. Len(other), Far(other[j])
                  PROVE  other[j].t > base[1].t
      BY <1>0, <1>6, SidesKept DEF Ahead
    <3>1. x.t <= other[j].t /\ other[j].t \in Nat
      BY <1>1, <1>2, <1>3, OrderedUpTo, SampleAt
    <3>2. other[j].t > base[1].t + buffer \/ other[j].t < base[1].t - buffer
      BY <1>1, <1>4, FarFromEach DEF Far
    <3>. QED  BY SMTT(60), <1>1, <1>3, <1>4, <1>6, <3>1, <3>2
  <2>3. Progress'
    BY <1>0, <1>2, <1>6, <2>1, <2>2 DEF Progress
  <2>. QED  BY <2>1, <2>3 DEF XInv
<1>. QED  BY <1>3, <1>5, <1>6 DEF Lead

\* A time that is not near the ends of a hole of at most two buffers is after it.
LEMMA NoRoom ==
  ASSUME NEW s \in Nat, NEW e \in Nat, NEW t \in Nat, NEW d \in Nat,
         ~ (e - s > d * 2), t > s,
         t > s + d \/ t < s - d,
         t > e + d \/ t < e - d
  PROVE  t > e
OBVIOUS

\* The head of the main loop.  A hole of at most two buffers has no room for a sample
\* that is far from both its ends.
LEMMA NextBaseXInv == ASSUME IInv, XInv, NextBase PROVE XInv'
<1>0. /\ pc = "base" /\ ai <= Len(base) /\ UNCHANGED streams
      /\ base' = base /\ other' = other /\ bOffset' = bOffset
  BY DEF NextBase, streams
<1>1. /\ base \in Seq(Samples) /\ base # <<>> /\ Ordered(base)
      /\ other \in Seq(Samples) /\ Ordered(other)
      /\ newValues \in Seq(Samples) /\ buffer \in Nat
      /\ ai \in 1 .. Len(base) /\ bOffset \in 1 .. Len(other) + 1
  BY <1>0, LoopFacts
<1>2. PICK b : b = base[ai] /\ b \in Samples /\ b.t \in Nat
  BY <1>1, SampleAt
<1>3. /\ Ahead(IF ai = 1 THEN 1 ELSE ai - 1)
      /\ ai > 1 => newValues # <<>> /\ LastOf(newValues) = base[ai - 1].t
  BY <1>0 DEF XInv, Progress
<1>4. CASE newValues = <<>> /\ newValues' = <<b>> /\ ai' = ai + 1 /\ UNCHANGED <<pc, lastTime, scan>>
  <2>1. ai = 1 /\ ai' = 2
    BY <1>0, <1>4 DEF IInv, Placed
  <2>2. newValues' = Append(newValues, b)
    BY <1>4
  <2>3. /\ \A t : HasTime(t)' <=> HasTime(t) \/ b.t = t
        /\ newValues' # <<>> /\ LastOf(newValues') = b.t
    BY <1>1, <1>2, <2>2, EmitTimes
  <2>4. Faithful(b, pass)
    BY <1>0, <1>1, <1>2, SampleFaithful
  <2>5. \E m \in 1 .. ai' - 1 : b.t = base[m].t
    BY <1>2, <2>1
  <2>6. /\ PassesExact' /\ base' = Longer(pass)' /\ other' = Shorter(pass)'
        /\ EmittedKnown' /\ BaseEmitted' /\ OtherEmitted'
        /\ \A t : HasTime(t) => HasTime(t)'
    BY <1>0, <1>1, <1>2, <1>4, <2>2, <2>3, <2>4, <2>5, LoopProgress
  <2>7. Ahead(1)'
    BY <1>0, <1>3, <2>1, <2>6, AheadKept
  <2>8. Progress'
    BY <1>0, <1>2, <1>4, <2>1, <2>3, <2>6, <2>7 DEF Progress
  <2>. QED  BY <2>6, <2>8 DEF XInv
<1>5. CASE /\ newValues # <<>> /\ lastTime' = LastOf(newValues)
           /\ pc' = IF WideEnough(b.t, LastOf(newValues)) THEN "gap" ELSE "place"
           /\ UNCHANGED <<newValues, ai>>
  <2>1. /\ PassesExact' /\ base' = Longer(pass)' /\ other' = Shorter(pass)'
        /\ EmittedKnown' /\ BaseEmitted' /\ OtherEmitted'
        /\ \A t : HasTime(t) => HasTime(t)'
    BY <1>0, <1>5, QuietProgress
  <2>2. CASE WideEnough(b.t, LastOf(newValues))
    <3>1. PICK k : k = IF ai = 1 THEN 1 ELSE ai - 1
      OBVIOUS
    <3>2. Ahead(k)'
      BY <1>0, <1>3, <2>1, <3>1, AheadKept
    <3>3. Progress'
      BY <1>0, <1>3, <1>5, <2>1, <2>2, <3>1, <3>2 DEF Progress
    <3>. QED  BY <2>1, <3>3 DEF XInv
  <2>3. CASE ~ WideEnough(b.t, LastOf(newValues))
    <3>1. PICK k : k = ai
      OBVIOUS
    <3>2. Ahead(k)
      <4>1. CASE ai = 1
        BY <1>3, <3>1, <4>1
      <4>2. CASE ai # 1
        <5>1. PICK a : a = base[ai - 1] /\ a.t \in Nat
          BY <1>1, <4>2, SampleAt
        <5>2. ai - 1 \in 1 .. Len(base) /\ ~ (b.t - a.t > buffer * 2)
          BY <1>1, <1>3, <2>3, <4>2, <5>1 DEF WideEnough
        <5>3. ASSUME NEW j \in bOffset .. Len(other), Far(other[j]), ~ HasTime(other[j].t)
              PROVE  other[j].t > b.t
          <6>1. PICK t : t = other[j].t /\ t \in Nat
            BY <1>1, SampleAt
          <6>2. t > a.t
            BY <1>3, <4>2, <5>1, <5>3, <6>1 DEF Ahead
          <6>3. /\ t > a.t + buffer \/ t < a.t - buffer
                /\ t > b.t + buffer \/ t < b.t - buffer
            BY <1>1, <1>2, <5>1, <5>2, <5>3, <6>1, FarFromEach DEF Far
          <6>4. a.t \in Nat /\ b.t \in Nat /\ t \in Nat /\ buffer \in Nat
            BY <1>1, <1>2, <5>1, <6>1
          <6>5. ~ (b.t - a.t > buffer * 2)
            BY <5>2
          <6>6. t > b.t
            BY ONLY <6>2, <6>3, <6>4, <6>5, NoRoom
          <6>. QED  BY <6>1, <6>6
        <5>. QED  BY <1>2, <3>1, <5>3 DEF Ahead
      <4>. QED  BY <4>1, <4>2
    <3>3. Ahead(k)'
      BY <1>0, <2>1, <3>2, AheadKept
    <3>4. Progress'
      BY <1>0, <1>5, <2>1, <2>3, <3>1, <3>3 DEF Progress
    <3>. QED  BY <2>1, <3>4 DEF XInv
  <2>. QED  BY <2>2, <2>3
<1>. QED  BY <1>2, <1>4, <1>5 DEF NextBase

\* A sample of the other side in a hole is emitted if and only if it is far from the
\* base; what is left when the loop ends comes after the base sample.
LEMMA FillGapXInv == ASSUME IInv, XInv, FillGap PROVE XInv'
<1>0. /\ pc = "gap" /\ UNCHANGED streams /\ ai' = ai /\ lastTime' = lastTime
      /\ base' = base /\ other' = other
  BY DEF FillGap, streams
<1>1. /\ base \in Seq(Samples) /\ Ordered(base)
      /\ other \in Seq(Samples) /\ Ordered(other)
      /\ newValues \in Seq(Samples) /\ buffer \in Nat /\ lastTime \in Nat
      /\ bOffset \in 1 .. Len(other) + 1 /\ ai \in 1 .. Len(base)
  BY <1>0, LoopFacts DEF IInv, Placed
<1>2. PICK b : b = base[ai] /\ b \in Samples /\ b.t \in Nat
  BY <1>1, SampleAt
<1>3. PICK k : k = IF ai = 1 THEN 1 ELSE ai - 1
  OBVIOUS
<1>4. Ahead(k) /\ (ai > 1 => lastTime = base[ai - 1].t)
  BY <1>0, <1>3 DEF XInv, Progress
<1>5. CASE /\ bOffset <= Len(other)
           /\ other[bOffset].t < b.t
           /\ newValues' = IF FitsGap(other[bOffset].t, lastTime, b.t)
                             THEN Append(newValues, other[bOffset]) ELSE newValues
           /\ bOffset' = bOffset + 1
           /\ pc' = pc
  <2>1. PICK x : x = other[bOffset] /\ x \in Samples /\ x.t \in Nat /\ bOffset \in 1 .. Len(other)
    BY <1>1, <1>5, SampleAt
  <2>2. FitsGap(x.t, lastTime, b.t) => Far(x)
    <3>1. ai \in 1 .. Len(base) + 1 /\ ai <= Len(base)
      BY <1>1
    <3>2. ASSUME FitsGap(x.t, lastTime, b.t)
          PROVE  (ai > 1 => x.t > base[ai - 1].t + buffer) /\ x.t < base[ai].t - buffer
      BY <1>2, <1>4, <3>2 DEF FitsGap
    <3>. QED  BY <1>1, <2>1, <3>1, <3>2, FarFromNeighbours DEF Far
  <2>3. Far(x) => FitsGap(x.t, lastTime, b.t) \/ HasTime(x.t)
    <3>. SUFFICES ASSUME Far(x), ~ HasTime(x.t) PROVE FitsGap(x.t, lastTime, b.t)
      OBVIOUS
    <3>1. x.t > base[k].t
      BY <1>1, <1>4, <2>1 DEF Ahead
    <3>2. x.t > b.t + buffer \/ x.t < b.t - buffer
      BY <1>1, <1>2, FarFromEach DEF Far
    <3>3. x.t < b.t - buffer /\ ai # 1
      BY SMTT(60), <1>1, <1>2, <1>3, <1>5, <2>1, <3>1, <3>2
    <3>4. ai - 1 \in 1 .. Len(base) /\ base[ai - 1].t \in Nat /\ k = ai - 1
      BY <1>1, <1>3, <3>3, SampleAt
    <3>5. x.t > base[ai - 1].t + buffer \/ x.t < base[ai - 1].t - buffer
      BY <1>1, <3>4, FarFromEach DEF Far
    <3>. QED  BY SMTT(60), <1>1, <1>4, <2>1, <3>1, <3>3, <3>4, <3>5 DEF FitsGap
  <2>4. \A t : HasTime(t) => HasTime(t)'
    <3>1. CASE newValues' = newValues
      BY <3>1 DEF HasTime
    <3>2. CASE newValues' = Append(newValues, x)
      BY <1>1, <2>1, <3>2, EmitTimes
    <3>. QED  BY <1>5, <2>1, <3>1, <3>2
  <2>5. PICK o : o = x.t
    OBVIOUS
  <2>6. Far(x) => HasTime(o)'
    <3>1. CASE FitsGap(x.t, lastTime, b.t)
      <4>1. newValues' = Append(newValues, x)
        BY <1>5, <2>1, <3>1
      <4>. QED  BY <1>1, <2>1, <2>5, <4>1, EmitTimes
    <3>2. CASE ~ FitsGap(x.t, lastTime, b.t)
      BY <2>3, <2>4, <2>5, <3>2
    <3>. QED  BY <3>1, <3>2
  <2>7. \/ newValues' = newValues
        \/ newValues' = Append(newValues, x) /\ Far(x) /\ Faithful(x, pass) /\ x \in Elements(other)
    BY <1>0, <1>5, <2>1, <2>2, SampleFaithful
  <2>8. /\ PassesExact' /\ base' = Longer(pass)' /\ other' = Shorter(pass)'
        /\ EmittedKnown' /\ BaseEmitted' /\ OtherEmitted'
    BY SMTT(60), <1>0, <1>1, <1>5, <2>1, <2>5, <2>6, <2>7, LoopProgress
  <2>9. Ahead(k)'
    BY <1>0, <1>4, <1>5, <2>4, AheadKept
  <2>10. Progress'
    BY <1>0, <1>3, <1>4, <1>5, <2>8, <2>9 DEF Progress
  <2>. QED  BY <2>8, <2>10 DEF XInv
<1>6. CASE /\ ~ (bOffset <= Len(other) /\ other[bOffset].t < b.t)
           /\ pc' = "place" /\ UNCHANGED <<newValues, bOffset>>
  <2>1. /\ PassesExact' /\ base' = Longer(pass)' /\ other' = Shorter(pass)'
        /\ EmittedKnown' /\ BaseEmitted' /\ OtherEmitted'
        /\ \A t : HasTime(t) => HasTime(t)'
    BY <1>0, <1>6, QuietProgress
  <2>2. PICK m : m = ai
    OBVIOUS
  <2>3. Ahead(m)
    <3>. SUFFICES ASSUME NEW j \in bOffset .. Len(other), Far(other[j]) PROVE other[j].t > b.t
      BY <1>2, <2>2 DEF Ahead
    <3>1. other[bOffset].t <= other[j].t /\ other[j].t \in Nat /\ other[bOffset].t \in Nat
      BY <1>1, OrderedUpTo, SampleAt
    <3>2. other[j].t > b.t + buffer \/ other[j].t < b.t - buffer
      BY <1>1, <1>2, FarFromEach DEF Far
    <3>. QED  BY SMTT(60), <1>1, <1>2, <1>6, <3>1, <3>2
  <2>4. Ahead(m)'
    BY <1>0, <1>6, <2>1, <2>3, AheadKept
  <2>5. Progress'
    BY <1>0, <1>6, <2>1, <2>2, <2>4 DEF Progress
  <2>. QED  BY <2>1, <2>5 DEF XInv
<1>. QED  BY <1>2, <1>5, <1>6 DEF FillGap

\* The search for a larger value emits nothing.
LEMMA SkipOlderXInv == ASSUME IInv, XInv, SkipOlder PROVE XInv'
<1>0. /\ pc = "place" /\ pc' = "place" /\ UNCHANGED streams /\ ai' = ai /\ bOffset' = bOffset
      /\ newValues' = newValues
  BY DEF SkipOlder
<1>1. /\ PassesExact' /\ base' = Longer(pass)' /\ other' = Shorter(pass)'
      /\ EmittedKnown' /\ BaseEmitted' /\ OtherEmitted'
      /\ \A t : HasTime(t) => HasTime(t)'
  BY <1>0, QuietProgress
<1>2. PICK k : k = ai
  OBVIOUS
<1>3. Ahead(k)
  BY <1>0, <1>2 DEF XInv, Progress
<1>4. Ahead(k)'
  BY <1>0, <1>1, <1>3, AheadKept
<1>5. Progress'
  BY <1>0, <1>1, <1>2, <1>4 DEF Progress
<1>. QED  BY <1>1, <1>5 DEF XInv

\* The base sample is passed by a faithful sample at its time.
LEMMA EmitAtBaseXInv ==
  ASSUME IInv, XInv, pc = "place", UNCHANGED <<streams, bOffset>>,
         NEW x \in Samples, x.t = base[ai].t, Faithful(x, pass),
         newValues' = Append(newValues, x), ai' = ai + 1, pc' = "base"
  PROVE  XInv'
<1>0. UNCHANGED streams /\ bOffset' = bOffset /\ base' = base
  BY DEF streams
<1>1. /\ ai \in 1 .. Len(base) /\ bOffset \in Nat /\ newValues \in Seq(Samples)
      /\ bOffset' # bOffset + 1
  BY SMTT(60), <1>0, LoopFacts DEF IInv, Placed
<1>2. PICK k, b, o : k = ai /\ b = base[ai].t /\ o = other[bOffset].t
  OBVIOUS
<1>3. /\ \A t : HasTime(t)' <=> HasTime(t) \/ x.t = t
      /\ newValues' # <<>> /\ LastOf(newValues') = x.t
  BY <1>1, EmitTimes
<1>4. HasTime(b)'
  BY <1>2, <1>3
<1>5. \E m \in 1 .. ai' - 1 : x.t = base[m].t
  BY <1>1
<1>6. /\ PassesExact' /\ base' = Longer(pass)' /\ other' = Shorter(pass)'
      /\ EmittedKnown' /\ BaseEmitted' /\ OtherEmitted'
      /\ \A t : HasTime(t) => HasTime(t)'
  BY <1>0, <1>1, <1>2, <1>4, <1>5, LoopProgress
<1>7. Ahead(k)
  BY <1>2 DEF XInv, Progress
<1>8. Ahead(k)'
  BY <1>0, <1>6, <1>7, AheadKept
<1>9. ai' # 1 /\ ai' - 1 = k
  BY <1>1, <1>2
<1>10. Progress'
  BY <1>0, <1>2, <1>3, <1>6, <1>8, <1>9 DEF Progress
<1>. QED  BY <1>6, <1>10 DEF XInv

\* The larger value comes from a sample of the other side within the buffer.
LEMMA PlaceNearXInv == ASSUME IInv, XInv, PlaceNear PROVE XInv'
<1>0. /\ pc = "place" /\ pc' = "base" /\ ai' = ai + 1 /\ UNCHANGED <<streams, bOffset>>
      /\ pass = "floats" /\ input.preferMax
  BY DEF PlaceNear, PreferMax
<1>1. /\ base \in Seq(Samples) /\ other \in Seq(Samples) /\ buffer \in Nat
      /\ ai \in 1 .. Len(base) /\ scan \in 1 .. Len(other)
  BY <1>0, LoopFacts DEF IInv, Placed, PlaceNear
<1>2. /\ base[ai] \in Samples /\ base[ai].t \in Nat /\ base[ai].v \in Nat
      /\ other[scan] \in Samples /\ other[scan].t \in Nat /\ other[scan].v \in Nat
  BY <1>1, SampleAt
<1>3. PICK x : /\ newValues' = Append(newValues, x)
               /\ x = IF other[scan].v > base[ai].v THEN Larger(other[scan], base[ai]) ELSE base[ai]
  BY DEF PlaceNear
<1>4. /\ other[scan].t = base[ai].t
         \/ (other[scan].t < base[ai].t + buffer /\ other[scan].t > base[ai].t - buffer)
  BY SMTT(60), <1>1, <1>2 DEF PlaceNear, Beyond, Within
<1>5. base[ai] \in Elements(Longer(pass)) /\ other[scan] \in Elements(Shorter(pass))
  BY <1>0, <1>1 DEF XInv, Progress, Elements
<1>6. CASE other[scan].v > base[ai].v
  <2>1. x \in Samples /\ x.t = base[ai].t /\ x.v = other[scan].v
    BY <1>2, <1>3, <1>6 DEF Larger, Samples
  <2>2. Faithful(x, pass)
    BY <1>0, <1>4, <1>5, <1>6, <2>1 DEF Faithful
  <2>. QED  BY <1>0, <1>3, <2>1, <2>2, EmitAtBaseXInv
<1>7. CASE ~ (other[scan].v > base[ai].v)
  <2>1. x = base[ai]
    BY <1>3, <1>7
  <2>2. Faithful(x, pass)
    BY <1>5, <2>1 DEF Faithful
  <2>. QED  BY <1>0, <1>2, <1>3, <2>1, <2>2, EmitAtBaseXInv
<1>. QED  BY <1>6, <1>7

\* The base sample itself is faithful.
LEMMA PlaceBaseXInv == ASSUME IInv, XInv, PlaceBase PROVE XInv'
<1>0. /\ pc = "place" /\ pc' = "base" /\ ai' = ai + 1 /\ UNCHANGED <<streams, bOffset>>
      /\ newValues' = Append(newValues, base[ai])
  BY DEF PlaceBase
<1>1. base \in Seq(Samples) /\ ai \in 1 .. Len(base)
  BY <1>0, LoopFacts DEF IInv, Placed
<1>2. base[ai] \in Samples
  BY <1>1, SampleAt
<1>3. Faithful(base[ai], pass)
  BY <1>0, <1>1, SampleFaithful
<1>. QED  BY <1>0, <1>2, <1>3, EmitAtBaseXInv

\* The base is used up: its last sample was the last emitted.
LEMMA StartTailXInv == ASSUME IInv, XInv, StartTail PROVE XInv'
<1>0. /\ pc = "base" /\ pc' = "tail" /\ UNCHANGED streams /\ ai' = ai /\ bOffset' = bOffset
      /\ newValues' = newValues /\ lastTime' = LastOf(newValues) /\ ai > Len(base)
      /\ base' = base
  BY DEF StartTail, streams
<1>1. /\ PassesExact' /\ base' = Longer(pass)' /\ other' = Shorter(pass)'
      /\ EmittedKnown' /\ BaseEmitted' /\ OtherEmitted'
      /\ \A t : HasTime(t) => HasTime(t)'
  BY <1>0, QuietProgress
<1>2. base \in Seq(Samples) /\ base # <<>> /\ ai = Len(base) + 1 /\ ai > 1
  BY <1>0, LoopFacts
<1>3. PICK k : k = ai - 1
  OBVIOUS
<1>4. Ahead(k) /\ lastTime' = base[ai - 1].t
  BY <1>0, <1>2, <1>3 DEF XInv, Progress
<1>5. Ahead(k)'
  BY <1>0, <1>1, <1>4, AheadKept
<1>6. Progress'
  <2>1. ai' # 1 /\ ai' - 1 = k /\ ai' = Len(base') + 1 /\ lastTime' = base'[ai' - 1].t
    BY <1>0, <1>2, <1>3, <1>4
  <2>2. Ahead(IF ai = 1 THEN 1 ELSE ai - 1)'
    BY <1>5, <2>1
  <2>. QED  BY <1>0, <1>1, <2>1, <2>2 DEF Progress
<1>. QED  BY <1>1, <1>6 DEF XInv

\* A finished pass is exact and faithful, and the one finished before it is kept.
LEMMA FinishPassXInv ==
  ASSUME IInv, XInv, pass # "done", NEW r \in Seq(Samples), FinishPass(r),
         {x.t : x \in Elements(r)} = Wanted(pass),
         \A x \in Elements(r) : Faithful(x, pass)
  PROVE  XInv'
<1>1. /\ pass \in {"histograms", "floats"} /\ pass' = NextPass(pass) /\ pc' = "start"
      /\ input' = input /\ buffer' = buffer
  BY DEF IInv, TypeOK, FinishPass
<1>2. merged'[pass] = r /\ \A p \in {"histograms", "floats"} : p # pass => merged'[p] = merged[p]
  BY <1>1 DEF IInv, TypeOK, Streams, FinishPass
<1>3. \A p : Longer(p)' = Longer(p) /\ Shorter(p)' = Shorter(p)
  BY <1>1 DEF Longer, Shorter
<1>4. \A p : Wanted(p)' = Wanted(p)
  BY <1>1, <1>3 DEF Wanted
<1>5. \A x, p : Faithful(x, p)' <=> Faithful(x, p)
  BY <1>1, <1>3 DEF Faithful
<1>6. \A p \in {"histograms", "floats"} : Finished(p)' => p = pass \/ Finished(p)
  BY <1>1 DEF Finished, NextPass
<1>7. ASSUME NEW p \in {"histograms", "floats"}, Finished(p)'
      PROVE  Exact(p)' /\ \A x \in Elements(merged'[p]) : Faithful(x, p)
  <2>1. CASE p = pass
    BY <1>2, <1>4, <2>1 DEF Exact
  <2>2. CASE p # pass
    <3>1. Exact(p) /\ \A x \in Elements(merged[p]) : Faithful(x, p)
      BY <1>6, <1>7, <2>2 DEF XInv, PassesExact
    <3>. QED  BY <1>2, <1>4, <2>2, <3>1 DEF Exact
  <2>. QED  BY <2>1, <2>2
<1>8. PassesExact'
  BY <1>5, <1>7 DEF PassesExact
<1>. QED  BY <1>1, <1>8 DEF XInv

\* With both cursors past their ends everything wanted has been emitted.
LEMMA AllEmitted ==
  ASSUME IInv, XInv, pc = "tail", bOffset > Len(other)
  PROVE  /\ {x.t : x \in Elements(newValues)} = Wanted(pass)
         /\ \A x \in Elements(newValues) : Faithful(x, pass)
<1>1. /\ newValues \in Seq(Samples) /\ base \in Seq(Samples) /\ other \in Seq(Samples)
      /\ ai = Len(base) + 1 /\ bOffset = Len(other) + 1
      /\ base = Longer(pass) /\ other = Shorter(pass)
      /\ EmittedKnown /\ BaseEmitted /\ OtherEmitted
  BY LoopFacts DEF XInv, Progress
<1>2. ASSUME NEW x \in Elements(newValues) PROVE Faithful(x, pass) /\ x.t \in Wanted(pass)
  <2>1. PICK i \in 1 .. Len(newValues) : x = newValues[i]
    BY DEF Elements
  <2>2. Faithful(x, pass)
    BY <1>1, <2>1 DEF EmittedKnown
  <2>3. CASE \E m \in 1 .. ai - 1 : x.t = base[m].t
    <3>1. PICK m \in 1 .. Len(base) : x.t = base[m].t
      BY <1>1, <2>3
    <3>. QED  BY <1>1, <2>2, <3>1 DEF Wanted, Elements
  <2>4. CASE x \in Elements(other) /\ Far(x)
    BY <1>1, <2>2, <2>4 DEF Wanted, Far
  <2>. QED  BY <1>1, <2>1, <2>3, <2>4 DEF EmittedKnown
<1>3. ASSUME NEW t \in Wanted(pass) PROVE HasTime(t)
  <2>1. CASE \E y \in Elements(base) : t = y.t
    <3>1. PICK m \in 1 .. Len(base) : t = base[m].t
      BY <2>1 DEF Elements
    <3>. QED  BY <1>1, <3>1 DEF BaseEmitted
  <2>2. CASE \E y \in Elements(other) : Far(y) /\ t = y.t
    <3>1. PICK j \in 1 .. Len(other) : Far(other[j]) /\ t = other[j].t
      BY <2>2 DEF Elements
    <3>. QED  BY <1>1, <3>1 DEF OtherEmitted
  <2>. QED  BY <1>1, <1>3, <2>1, <2>2 DEF Wanted, Far
<1>4. \A t : HasTime(t) => t \in {x.t : x \in Elements(newValues)}
  BY DEF HasTime, Elements
<1>. QED  BY <1>2, <1>3, <1>4

\* After the base a sample is emitted if and only if it is far from its last sample.
LEMMA TailXInv == ASSUME IInv, XInv, Tail_ PROVE XInv'
<1>0. pc = "tail"
  BY DEF Tail_
<1>1. /\ base \in Seq(Samples) /\ base # <<>> /\ Ordered(base)
      /\ other \in Seq(Samples) /\ newValues \in Seq(Samples)
      /\ buffer \in Nat /\ bOffset \in 1 .. Len(other) + 1
  BY <1>0, LoopFacts
<1>2. PICK k : k = ai - 1
  OBVIOUS
<1>3. ai = k + 1 /\ ai > 1 /\ k = Len(base) /\ k \in 1 .. Len(base) /\ Ahead(k) /\ lastTime = base[k].t
  <2>1. ai = Len(base) + 1 /\ ai > 1 /\ Len(base) \in Nat
    BY <1>0, <1>1 DEF XInv, Progress
  <2>2. k = Len(base) /\ k \in 1 .. Len(base) /\ ai = k + 1
    BY <1>2, <2>1
  <2>3. Ahead(k) /\ lastTime = base[k].t
    BY <1>0, <1>2, <2>1 DEF XInv, Progress
  <2>. QED  BY <2>1, <2>2, <2>3
<1>4. base[k].t \in Nat
  BY <1>1, <1>3, SampleAt
<1>5. CASE /\ bOffset <= Len(other)
           /\ newValues' = IF other[bOffset].t > lastTime + buffer
                             THEN Append(newValues, other[bOffset]) ELSE newValues
           /\ bOffset' = bOffset + 1
           /\ UNCHANGED <<streams, pc, ai, lastOffset, scan, lastTime>>
  <2>0. UNCHANGED streams /\ base' = base /\ ai' = ai /\ pc' = pc /\ lastTime' = lastTime
    BY <1>5 DEF streams
  <2>1. PICK x : x = other[bOffset] /\ x \in Samples /\ x.t \in Nat /\ bOffset \in 1 .. Len(other)
    BY <1>1, <1>5, SampleAt
  <2>2. PICK b, o : b = base[ai].t /\ o = x.t
    OBVIOUS
  <2>3. ASSUME x.t > base[k].t + buffer PROVE Far(x)
    <3>1. k + 1 \in 1 .. Len(base) + 1 /\ (k + 1) - 1 = k /\ ~ (k + 1 <= Len(base))
      BY <1>3
    <3>. QED  BY <1>1, <2>1, <2>3, <3>1, FarFromNeighbours DEF Far
  <2>4. Far(x) => x.t > base[k].t + buffer \/ HasTime(x.t)
    <3>. SUFFICES ASSUME Far(x), ~ HasTime(x.t) PROVE x.t > base[k].t + buffer
      OBVIOUS
    <3>1. x.t > base[k].t
      BY <1>1, <1>3, <2>1 DEF Ahead
    <3>2. x.t > base[k].t + buffer \/ x.t < base[k].t - buffer
      BY <1>1, <1>3, FarFromEach DEF Far
    <3>. QED  BY SMTT(60), <1>1, <1>4, <2>1, <3>1, <3>2
  <2>5. \A t : HasTime(t) => HasTime(t)'
    <3>1. CASE newValues' = newValues
      BY <3>1 DEF HasTime
    <3>2. CASE newValues' = Append(newValues, x)
      BY <1>1, <2>1, <3>2, EmitTimes
    <3>. QED  BY <1>5, <2>1, <3>1, <3>2
  <2>6. Far(x) => HasTime(o)'
    <3>1. CASE x.t > base[k].t + buffer
      <4>1. newValues' = Append(newValues, x)
        BY <1>3, <1>5, <2>1, <3>1
      <4>. QED  BY <1>1, <2>1, <2>2, <4>1, EmitTimes
    <3>2. CASE ~ (x.t > base[k].t + buffer)
      BY <2>2, <2>4, <2>5, <3>2
    <3>. QED  BY <3>1, <3>2
  <2>7. \/ newValues' = newValues
        \/ newValues' = Append(newValues, x) /\ Far(x) /\ Faithful(x, pass) /\ x \in Elements(other)
    BY <1>0, <1>3, <1>5, <2>1, <2>3, SampleFaithful
  <2>8. ai' # ai + 1
    BY <1>3, <2>0
  <2>9. /\ PassesExact' /\ base' = Longer(pass)' /\ other' = Shorter(pass)'
        /\ EmittedKnown' /\ BaseEmitted' /\ OtherEmitted'
    BY <1>0, <1>5, <2>0, <2>1, <2>2, <2>6, <2>7, <2>8, LoopProgress
  <2>10. Ahead(k)'
    BY <1>0, <1>3, <1>5, <2>0, <2>5, AheadKept
  <2>11. Progress'
    <3>1. ai' # 1 /\ ai' - 1 = k /\ ai' = Len(base') + 1
      BY <1>3, <2>0
    <3>2. lastTime' = base'[ai' - 1].t /\ pc' = "tail"
      BY <1>0, <1>3, <2>0, <3>1
    <3>3. Ahead(IF ai = 1 THEN 1 ELSE ai - 1)'
      BY <2>10, <3>1
    <3>. QED  BY <2>9, <3>1, <3>2, <3>3 DEF Progress
  <2>. QED  BY <2>9, <2>11 DEF XInv
<1>6. CASE bOffset > Len(other) /\ FinishPass(newValues)
  <2>1. pass # "done"
    BY <1>0 DEF IInv, SidesOrdered
  <2>. QED  BY <1>0, <1>1, <1>6, <2>1, AllEmitted, FinishPassXInv
<1>. QED  BY <1>5, <1>6 DEF Tail_

\* With an empty side the result is the longer one.
LEMMA OneSidedXInv == ASSUME IInv, XInv, OneSided PROVE XInv'
<1>1. pass \in {"histograms", "floats"} /\ pass # "done"
  BY DEF IInv, TypeOK, OneSided
<1>2. input.a[pass] \in Seq(Samples) /\ input.b[pass] \in Seq(Samples)
  BY <1>1 DEF IInv, TypeOK, CallRecords, Streams
<1>3. Longer(pass) \in Seq(Samples) /\ Shorter(pass) = <<>> /\ FinishPass(Longer(pass))
  BY <1>2 DEF OneSided, Longer, Shorter
<1>4. {x.t : x \in Elements(Longer(pass))} = Wanted(pass)
  <2>1. Elements(Shorter(pass)) = {}
    BY <1>3 DEF Elements
  <2>. QED  BY <2>1 DEF Wanted
<1>5. \A x \in Elements(Longer(pass)) : Faithful(x, pass)
  BY DEF Faithful
<1>. QED  BY <1>1, <1>3, <1>4, <1>5, FinishPassXInv

\* A pass starts with the longer side as base and nothing emitted or passed.
LEMMA StartPassXInv == ASSUME IInv, XInv, StartPass PROVE XInv'
<1>1. /\ pass \in {"histograms", "floats"}
      /\ input' = input /\ buffer' = buffer /\ pass' = pass /\ merged' = merged
      /\ ai' = 1 /\ bOffset' = 1 /\ newValues' = <<>> /\ pc' = "lead"
  BY DEF IInv, TypeOK, StartPass
<1>2. \A p : Longer(p)' = Longer(p) /\ Shorter(p)' = Shorter(p)
  BY <1>1 DEF Longer, Shorter
<1>3. PassesExact'
  <2>1. \A x, p : Faithful(x, p)' <=> Faithful(x, p)
    BY <1>1, <1>2 DEF Faithful
  <2>2. \A p : (Exact(p)' <=> Exact(p)) /\ (Finished(p)' <=> Finished(p))
    BY <1>1, <1>2 DEF Exact, Wanted, Finished
  <2>. QED  BY <1>1, <2>1, <2>2 DEF XInv, PassesExact
<1>4. base' = Longer(pass)' /\ other' = Shorter(pass)'
  BY <1>1, <1>2 DEF StartPass, UseAsBase, Longer, Shorter
<1>5. EmittedKnown' /\ BaseEmitted' /\ OtherEmitted'
  <2>1. 1 .. Len(newValues') = {} /\ 1 .. ai' - 1 = {} /\ 1 .. bOffset' - 1 = {}
    BY <1>1
  <2>. QED  BY <2>1 DEF EmittedKnown, BaseEmitted, OtherEmitted
<1>6. Progress'
  BY <1>1, <1>4, <1>5 DEF Progress
<1>. QED  BY <1>3, <1>6 DEF XInv

\* Every step preserves what has been emitted.
LEMMA NextXInv == ASSUME IInv, XInv, [Next]_vars PROVE XInv'
<1>1. CASE UNCHANGED vars
  <2>1. UNCHANGED streams /\ pc' = pc /\ ai' = ai /\ bOffset' = bOffset /\ newValues' = newValues
        /\ lastTime' = lastTime
    BY <1>1 DEF vars, streams
  <2>2. PassesExact'
    BY <2>1, SidesKept DEF XInv
  <2>3. ASSUME pc # "start" PROVE Progress'
    <3>1. /\ base' = base /\ other' = other /\ base' = Longer(pass)' /\ other' = Shorter(pass)'
          /\ EmittedKnown' /\ BaseEmitted' /\ OtherEmitted'
          /\ \A t : HasTime(t) => HasTime(t)'
      BY <2>1, <2>3, QuietProgress
    <3>2. \A m : Ahead(m) => Ahead(m)'
      BY <2>1, <2>3, <3>1, AheadKept
    <3>. QED  BY <2>1, <2>3, <3>1, <3>2 DEF XInv, Progress
  <2>. QED  BY <2>1, <2>2, <2>3 DEF XInv
<1>2. CASE OneSided \/ StartPass
  BY <1>2, OneSidedXInv, StartPassXInv
<1>3. CASE Lead \/ NextBase \/ FillGap
  BY <1>3, LeadXInv, NextBaseXInv, FillGapXInv
<1>4. CASE SkipOlder \/ PlaceNear \/ PlaceBase
  BY <1>4, SkipOlderXInv, PlaceNearXInv, PlaceBaseXInv
<1>5. CASE StartTail \/ Tail_
  BY <1>5, StartTailXInv, TailXInv
<1>6. CASE Done
  BY <1>1, <1>6 DEF Done
<1>. QED  BY <1>1, <1>2, <1>3, <1>4, <1>5, <1>6 DEF Next

\* What the merge has emitted, throughout: every base sample passed, every far sample
\* of the other replica looked at, and nothing else; what is far and still to come is
\* after the base sample the loops are at.
THEOREM SpecXInv == Spec => []XInv
<1>1. Init => XInv
  <2>1. Init => PassesExact
    BY DEF Init, PassesExact, Finished
  <2>. QED  BY <2>1 DEF Init, XInv
<1>2. IInv /\ XInv /\ [Next]_vars => XInv'
  BY NextXInv
<1>. QED  BY <1>1, <1>2, SpecIInv, PTL DEF Spec

\* The merge keeps every sample of the longer replica and takes of the other exactly
\* those further than the buffer from all of them, for replicas of any length and any
\* buffer, although the loops of MergeSampleStream look at two neighbours only and
\* skip the holes of at most two buffers.
THEOREM MergeExact == Spec => []ExactMerge
<1>1. XInv => ExactMerge
  BY DEF XInv, PassesExact, Exact, Wanted, ExactMerge
<1>. QED  BY <1>1, SpecXInv, PTL

\* No value of the result is made up, and only prefer_max lets the other replica
\* replace a value of the base: by a larger one within the buffer, and for floats.
THEOREM MergeFaithful == Spec => []ValuesFaithful
<1>1. XInv => ValuesFaithful
  BY DEF XInv, PassesExact, Faithful, ValuesFaithful
<1>. QED  BY <1>1, SpecXInv, PTL

-----------------------------------------------------------------------------
(***************************************************************************)
(* The buffer MergeSampleStream estimates: when most intervals of the      *)
(* longer replica are the same its median is that one, and the merge with  *)
(* half of it neither interleaves the replicas nor leaves a single lost    *)
(* scrape open.                                                            *)
(***************************************************************************)
\* The intervals of a set of gaps that are shorter than d, or not longer.
ShorterThan(G, d) == {g \in G : g[2][2] < d}
UpTo(G, d) == {g \in G : g[2][2] <= d}

\* Two sets with a one-to-one correspondence have as many elements.
LEMMA SameSize ==
  ASSUME NEW S, IsFiniteSet(S), NEW T, NEW f \in [S -> T],
         \A x, y \in S : f[x] = f[y] => x = y,
         \A z \in T : \E x \in S : f[x] = z
  PROVE  IsFiniteSet(T) /\ Cardinality(T) = Cardinality(S)
<1>1. f \in Bijection(S, T)
  BY DEF Bijection, Injection, Surjection, IsInjective
<1>. QED  BY <1>1, FS_Bijection DEF ExistsBijection

\* Of a set of intervals most of which are d, the median is d.
LEMMA MajorityIsMedian ==
  ASSUME NEW G, IsFiniteSet(G), \A g \in G : g[2][2] \in Nat,
         NEW d \in Nat, NEW D \in SUBSET G, \A g \in D : g[2][2] = d,
         2 * Cardinality(D) > Cardinality(G)
  PROVE  Medians(G) = {d}
<1>1. /\ Cardinality(G) \in Nat /\ IsFiniteSet(D) /\ Cardinality(D) \in Nat
  BY FS_CardinalityType, FS_Subset
<1>2. PICK n \in Nat, c \in Nat : n = Cardinality(G) /\ c = Cardinality(D) /\ 2 * c > n
  BY <1>1
<1>3. \A e : /\ ShorterThan(G, e) \in SUBSET G /\ UpTo(G, e) \in SUBSET G
  BY DEF ShorterThan, UpTo
<1>4. \A e : /\ IsFiniteSet(ShorterThan(G, e)) /\ Cardinality(ShorterThan(G, e)) \in Nat
             /\ IsFiniteSet(UpTo(G, e)) /\ Cardinality(UpTo(G, e)) \in Nat
  BY <1>3, FS_Subset, FS_CardinalityType
<1>5. \A e : e \in Medians(G) <=>
               /\ \E g \in G : g[2][2] = e
               /\ Cardinality(ShorterThan(G, e)) <= n \div 2
               /\ Cardinality(UpTo(G, e)) > n \div 2
  BY <1>2 DEF Medians, ShorterThan, UpTo
<1>6. ASSUME NEW e \in Medians(G) PROVE e = d
  <2>1. e \in Nat
    BY <1>5
  <2>2. CASE e < d
    <3>1. UpTo(G, e) \cap D = {}
      BY <2>1, <2>2 DEF UpTo
    <3>2. ~ (Cardinality(UpTo(G, e)) + Cardinality(D) > Cardinality(G))
      BY <1>3, <3>1, FS_MajoritiesIntersect
    <3>3. PICK u \in Nat : u = Cardinality(UpTo(G, e))
      BY <1>4
    <3>4. u > n \div 2 /\ ~ (u + c > n)
      BY <1>2, <1>5, <3>2, <3>3
    <3>. QED  BY <1>2, <3>4
  <2>3. CASE e > d
    <3>1. D \subseteq ShorterThan(G, e)
      BY <2>1, <2>3 DEF ShorterThan
    <3>2. Cardinality(D) <= Cardinality(ShorterThan(G, e))
      BY <1>4, <3>1, FS_Subset
    <3>3. PICK u \in Nat : u = Cardinality(ShorterThan(G, e))
      BY <1>4
    <3>4. c <= u /\ u <= n \div 2
      BY <1>2, <1>5, <3>2, <3>3
    <3>. QED  BY <1>2, <3>4
  <2>. QED  BY <2>1, <2>2, <2>3
<1>7. d \in Medians(G)
  <2>1. \E g \in G : g[2][2] = d
    <3>1. D # {}
      BY <1>1, <1>2, FS_EmptySet
    <3>. QED  BY <3>1
  <2>2. Cardinality(ShorterThan(G, d)) <= n \div 2
    <3>1. ShorterThan(G, d) \cap D = {}
      BY DEF ShorterThan
    <3>2. ~ (Cardinality(ShorterThan(G, d)) + Cardinality(D) > Cardinality(G))
      BY <1>3, <3>1, FS_MajoritiesIntersect
    <3>3. PICK u \in Nat : u = Cardinality(ShorterThan(G, d))
      BY <1>4
    <3>4. ~ (u + c > n)
      BY <1>2, <3>2, <3>3
    <3>. QED  BY <1>2, <3>3, <3>4
  <2>3. Cardinality(UpTo(G, d)) > n \div 2
    <3>1. D \subseteq UpTo(G, d)
      BY DEF UpTo
    <3>2. Cardinality(D) <= Cardinality(UpTo(G, d))
      BY <1>4, <3>1, FS_Subset
    <3>3. PICK u \in Nat : u = Cardinality(UpTo(G, d))
      BY <1>4
    <3>. QED  BY <1>2, <3>2, <3>3
  <2>. QED  BY <1>5, <2>1, <2>2, <2>3
<1>. QED  BY <1>6, <1>7

\* The positions of a stream where an interval of length d ends.
EndsOf(s, d) == {i \in 2 .. Len(s) : s[i].t - s[i - 1].t = d}

\* An ordered stream has one interval for each sample after its first.
LEMMA GapsOfStream ==
  ASSUME NEW s \in Seq(Samples), Ordered(s), s # <<>>
  PROVE  /\ IsFiniteSet(Gaps(s)) /\ Cardinality(Gaps(s)) = Len(s) - 1
         /\ Gaps(s) = {<<i, s[i].t - s[i - 1].t>> : i \in 2 .. Len(s)}
         /\ \A i \in 2 .. Len(s) : s[i].t - s[i - 1].t \in Nat
<1>. DEFINE f == [i \in 2 .. Len(s) |-> <<i, s[i].t - s[i - 1].t>>]
<1>1. \A i \in 2 .. Len(s) : s[i].t > s[i - 1].t /\ s[i].t - s[i - 1].t \in Nat
  <2>. SUFFICES ASSUME NEW i \in 2 .. Len(s)
                PROVE  s[i].t > s[i - 1].t /\ s[i].t - s[i - 1].t \in Nat
    OBVIOUS
  <2>1. i \in 1 .. Len(s) /\ i - 1 \in 1 .. Len(s) /\ i - 1 < i
    OBVIOUS
  <2>2. s[i].t \in Nat /\ s[i - 1].t \in Nat
    BY <2>1, SampleAt
  <2>3. s[i - 1].t < s[i].t
    BY <2>1 DEF Ordered
  <2>. QED  BY <2>2, <2>3
<1>2. Gaps(s) = {<<i, s[i].t - s[i - 1].t>> : i \in 2 .. Len(s)}
  <2>1. {k \in 2 .. Len(s) : s[k].t > s[k - 1].t} = 2 .. Len(s)
    BY <1>1
  <2>. QED  BY <2>1 DEF Gaps
<1>3. /\ f \in [2 .. Len(s) -> Gaps(s)]
      /\ \A x, y \in 2 .. Len(s) : f[x] = f[y] => x = y
      /\ \A z \in Gaps(s) : \E x \in 2 .. Len(s) : f[x] = z
  BY <1>2
<1>4. IsFiniteSet(2 .. Len(s)) /\ Cardinality(2 .. Len(s)) = Len(s) - 1
  <2>1. Len(s) \in Nat /\ Len(s) >= 1
    OBVIOUS
  <2>2. PICK n \in Nat : n = Len(s) /\ n >= 1
    BY <2>1
  <2>3. /\ IsFiniteSet(2 .. n)
        /\ Cardinality(2 .. n) = IF 2 > n THEN 0 ELSE n - 2 + 1
    BY FS_Interval
  <2>4. (IF 2 > n THEN 0 ELSE n - 2 + 1) = n - 1
    BY <2>2
  <2>. QED  BY <2>2, <2>3, <2>4
<1>. HIDE DEF f
<1>5. IsFiniteSet(Gaps(s)) /\ Cardinality(Gaps(s)) = Len(s) - 1
  BY <1>3, <1>4, SameSize
<1>. QED  BY <1>1, <1>2, <1>5

\* Tagging the members of a set with one stream's number keeps its size.
LEMMA TaggedSize ==
  ASSUME NEW S, NEW T, IsFiniteSet(S), T = {1} \X S
  PROVE  IsFiniteSet(T) /\ Cardinality(T) = Cardinality(S)
<1>1. PICK f : f = [g \in S |-> <<1, g>>]
  OBVIOUS
<1>2. f \in [S -> T]
  BY <1>1
<1>3. \A x, y \in S : f[x] = f[y] => x = y
  BY <1>1
<1>4. \A z \in T : \E x \in S : f[x] = z
  BY <1>1
<1>. QED  BY ONLY IsFiniteSet(S), <1>2, <1>3, <1>4, SameSize

\* The intervals the estimate uses when the longer side has enough.
LEMMA GapsOfLonger ==
  ASSUME NEW s \in Seq(Samples), NEW r, Ordered(s), Len(s) > minDynamicGaps
  PROVE  /\ IsFiniteSet(GapsUsed(s, r)) /\ Cardinality(GapsUsed(s, r)) = Len(s) - 1
         /\ \A g \in GapsUsed(s, r) : g[2][2] \in Nat
         /\ \A d : \E D \in SUBSET GapsUsed(s, r) :
              /\ \A g \in D : g[2][2] = d
              /\ Cardinality(D) = Cardinality(EndsOf(s, d))
<1>1. s # <<>> /\ Len(s) \in Nat /\ Len(s) > 3
  BY DEF minDynamicGaps
<1>2. /\ IsFiniteSet(Gaps(s)) /\ Cardinality(Gaps(s)) = Len(s) - 1
      /\ Gaps(s) = {<<i, s[i].t - s[i - 1].t>> : i \in 2 .. Len(s)}
      /\ \A i \in 2 .. Len(s) : s[i].t - s[i - 1].t \in Nat
  BY <1>1, GapsOfStream
<1>3. GapsUsed(s, r) = {1} \X Gaps(s)
  <2>1. ~ (Cardinality(Gaps(s)) < minDynamicGaps)
    BY <1>1, <1>2 DEF minDynamicGaps
  <2>. QED  BY <2>1 DEF GapsUsed
<1>4. IsFiniteSet(GapsUsed(s, r)) /\ Cardinality(GapsUsed(s, r)) = Len(s) - 1
  <2>1. PICK T : T = {1} \X Gaps(s)
    OBVIOUS
  <2>2. IsFiniteSet(T) /\ Cardinality(T) = Cardinality(Gaps(s))
    BY SMTT(60), <1>2, <2>1, TaggedSize
  <2>. QED  BY <1>2, <1>3, <2>1, <2>2
<1>5. \A g \in GapsUsed(s, r) : g[2][2] \in Nat
  BY <1>2, <1>3
<1>6. ASSUME NEW d
      PROVE  \E D \in SUBSET GapsUsed(s, r) :
               (\A g \in D : g[2][2] = d) /\ Cardinality(D) = Cardinality(EndsOf(s, d))
  <2>. DEFINE D == {g \in GapsUsed(s, r) : g[2][2] = d}
              f == [i \in EndsOf(s, d) |-> <<1, <<i, s[i].t - s[i - 1].t>>>>]
  <2>1. EndsOf(s, d) \in SUBSET (2 .. Len(s)) /\ \A i \in EndsOf(s, d) : s[i].t - s[i - 1].t = d
    BY DEF EndsOf
  <2>2. IsFiniteSet(EndsOf(s, d))
    <3>1. IsFiniteSet(2 .. Len(s))
      BY <1>1, FS_Interval
    <3>. QED  BY <2>1, <3>1, FS_Subset
  <2>3. f \in [EndsOf(s, d) -> D]
    BY <1>2, <1>3, <2>1
  <2>4. \A x, y \in EndsOf(s, d) : f[x] = f[y] => x = y
    OBVIOUS
  <2>5. ASSUME NEW z \in D PROVE \E x \in EndsOf(s, d) : f[x] = z
    <3>1. PICK i \in 2 .. Len(s) : z = <<1, <<i, s[i].t - s[i - 1].t>>>>
      BY <1>2, <1>3
    <3>2. i \in EndsOf(s, d)
      BY <3>1 DEF EndsOf
    <3>. QED  BY <3>1, <3>2
  <2>. HIDE DEF f
  <2>6. Cardinality(D) = Cardinality(EndsOf(s, d))
    <3>. HIDE DEF D
    <3>. QED  BY <2>2, <2>3, <2>4, <2>5, SameSize
  <2>7. D \in SUBSET GapsUsed(s, r) /\ \A g \in D : g[2][2] = d
    OBVIOUS
  <2>. HIDE DEF D
  <2>. QED  BY <2>6, <2>7
<1>. QED  BY <1>4, <1>5, <1>6

\* With a majority of equal intervals the estimate is half of one of them.
LEMMA EstimateIsHalf ==
  ASSUME NEW s \in Seq(Samples), NEW r, Ordered(s), Len(s) > minDynamicGaps,
         NEW d \in Nat, Len(s) - 1 < 2 * Cardinality(EndsOf(s, d))
  PROVE  /\ Estimate(GapsUsed(s, r)) = {d \div 2}
         /\ ~ (Cardinality(GapsUsed(s, r)) < minDynamicGaps)
<1>1. /\ IsFiniteSet(GapsUsed(s, r)) /\ Cardinality(GapsUsed(s, r)) = Len(s) - 1
      /\ \A g \in GapsUsed(s, r) : g[2][2] \in Nat
  BY GapsOfLonger
<1>2. PICK D \in SUBSET GapsUsed(s, r) :
        (\A g \in D : g[2][2] = d) /\ Cardinality(D) = Cardinality(EndsOf(s, d))
  BY GapsOfLonger
<1>3. IsFiniteSet(D) /\ Cardinality(D) \in Nat /\ Len(s) \in Nat
  BY <1>1, FS_Subset, FS_CardinalityType
<1>4. 2 * Cardinality(D) > Cardinality(GapsUsed(s, r))
  BY <1>1, <1>2, <1>3
<1>5. Medians(GapsUsed(s, r)) = {d}
  BY <1>1, <1>2, <1>4, MajorityIsMedian
<1>. QED  BY <1>1, <1>3, <1>5 DEF Estimate, minDynamicGaps

\* The buffer is the one chosen for the call.
BufferChosen == buffer \in Buffers(input)

\* The call and its buffer do not change.
LEMMA SpecBufferChosen == Spec => []BufferChosen
<1>1. Init => BufferChosen
  BY DEF Init, BufferChosen
<1>2. [Next]_vars => UNCHANGED <<input, buffer>>
  BY DEF Next, vars, streams, OneSided, StartPass, Lead, NextBase, FillGap, SkipOlder, PlaceNear,
         PlaceBase, StartTail, Tail_, FinishPass, Done
<1>3. BufferChosen /\ [Next]_vars => BufferChosen'
  BY <1>2 DEF BufferChosen
<1>. QED  BY <1>1, <1>3, PTL DEF Spec

\* The two sides of the floats are ordered streams.
LEMMA FloatSides ==
  ASSUME IInv
  PROVE  /\ Longer("floats") \in Seq(Samples) /\ Ordered(Longer("floats"))
         /\ Shorter("floats") \in Seq(Samples) /\ Ordered(Shorter("floats"))
         /\ merged.floats \in Seq(Samples) /\ buffer \in Nat
BY DEF IInv, TypeOK, CallRecords, Streams, SidesOrdered, Longer, Shorter

\* The dynamic buffer of a call whose longer replica has mostly intervals of d.
LEMMA BufferIsHalf ==
  ASSUME IInv, BufferChosen, input.dynamic, NEW d \in Nat,
         Len(Longer("floats")) > minDynamicGaps,
         Len(Longer("floats")) - 1 < 2 * Cardinality(EndsOf(Longer("floats"), d))
  PROVE  buffer = d \div 2
<1>1. PICK a, b : a = Longer("floats") /\ b = Shorter("floats")
  OBVIOUS
<1>2. Estimate(GapsUsed(a, b)) = {d \div 2} /\ ~ (Cardinality(GapsUsed(a, b)) < minDynamicGaps)
  BY <1>1, FloatSides, EstimateIsHalf
<1>3. dynamicAntiAffinity(input.a.floats, input.b.floats) = {d \div 2}
  <2>1. GapsUsed(a, b) = IF Len(input.b.floats) > Len(input.a.floats)
                           THEN GapsUsed(input.b.floats, input.a.floats)
                           ELSE GapsUsed(input.a.floats, input.b.floats)
    BY <1>1 DEF Longer, Shorter
  <2>. QED  BY <1>2, <2>1 DEF dynamicAntiAffinity
<1>4. dynamicBufferForStream(input.a, input.b) = {d \div 2}
  BY <1>3 DEF dynamicBufferForStream
<1>. QED  BY <1>4 DEF BufferChosen, Buffers

\* A sample at the time of a sample of s is not far from s.
LEMMA FarIsElsewhere ==
  ASSUME NEW s \in Seq(Samples), NEW d \in Nat, NEW x, FarFrom(x, s, d), NEW y \in Elements(s)
  PROVE  x.t # y.t
<1>1. y.t \in Nat
  BY SampleAt DEF Elements
<1>2. x.t > y.t + d \/ x.t < y.t - d
  BY DEF FarFrom
<1>. QED  BY <1>1, <1>2

\* What is taken from the shorter replica is far from the longer one.
LEMMA TakenIsFar ==
  ASSUME IInv, XInv, pass = "done", ~ input.preferMax,
         NEW x \in Elements(merged.floats), x \notin Elements(Longer("floats"))
  PROVE  FarFrom(x, Longer("floats"), buffer)
<1>1. PICK a, b : a = Longer("floats") /\ b = Shorter("floats") /\ a \in Seq(Samples)
  BY FloatSides
<1>2. Exact("floats") /\ Faithful(x, "floats")
  BY DEF XInv, PassesExact, Finished
<1>3. FarFrom(x, a, 0)
  BY <1>1, <1>2 DEF Faithful
<1>4. \A y \in Elements(a) : x.t # y.t
  BY <1>1, <1>3, FarIsElsewhere
<1>5. x.t \in Wanted("floats")
  BY <1>2 DEF Exact
<1>6. PICK y \in Elements(b) : FarFrom(y, a, buffer) /\ x.t = y.t
  BY <1>1, <1>4, <1>5 DEF Wanted
<1>. QED  BY <1>1, <1>6 DEF FarFrom

\* A sample of the shorter replica that is far from the longer one is taken.
LEMMA FarIsTaken ==
  ASSUME IInv, XInv, pass = "done",
         NEW y \in Elements(Shorter("floats")), FarFrom(y, Longer("floats"), buffer)
  PROVE  y \in Elements(merged.floats) /\ y \notin Elements(Longer("floats"))
<1>1. PICK a, b : /\ a = Longer("floats") /\ a \in Seq(Samples)
                  /\ b = Shorter("floats") /\ b \in Seq(Samples) /\ Ordered(b)
  BY FloatSides
<1>2. buffer \in Nat
  BY FloatSides
<1>3. \A z \in Elements(a) : y.t # z.t
  BY <1>1, <1>2, FarIsElsewhere
<1>4. Exact("floats") /\ \A x \in Elements(merged.floats) : Faithful(x, "floats")
  BY DEF XInv, PassesExact, Finished
<1>5. y.t \in Wanted("floats")
  BY DEF Wanted
<1>6. PICK x \in Elements(merged.floats) : x.t = y.t
  BY <1>4, <1>5 DEF Exact
<1>7. x \in Elements(b)
  BY <1>1, <1>3, <1>4, <1>6 DEF Faithful
<1>8. x = y
  <2>1. PICK i \in 1 .. Len(b), j \in 1 .. Len(b) : x = b[i] /\ y = b[j]
    BY <1>1, <1>7 DEF Elements
  <2>2. b[i].t \in Nat /\ b[j].t = b[i].t
    BY <1>1, <1>6, <2>1, SampleAt
  <2>3. ~ (i < j) /\ ~ (j < i)
    BY <1>1, <2>1, <2>2 DEF Ordered
  <2>. QED  BY <2>1, <2>3
<1>. QED  BY <1>1, <1>3, <1>6, <1>8

\* A finished merge with the dynamic buffer of a regular replica.
LEMMA DynamicFits == ASSUME IInv, XInv, BufferChosen PROVE DynamicFitsInterval
<1>. SUFFICES ASSUME pass = "done", input.dynamic, NEW a, a = Longer("floats"),
                     NEW k \in 2 .. Len(a), NEW d, d = a[k].t - a[k - 1].t,
                     Len(a) > minDynamicGaps,
                     Len(a) - 1 < 2 * Cardinality({i \in 2 .. Len(a) : a[i].t - a[i - 1].t = d})
              PROVE  /\ ~ input.preferMax =>
                          \A x \in Elements(merged.floats) \ Elements(a) : FarFrom(x, a, d \div 2)
                     /\ \A i \in 2 .. Len(a), y \in Elements(Shorter("floats")) :
                          (a[i].t - a[i - 1].t = 2 * d /\ y.t = a[i - 1].t + d)
                            => y \in Elements(merged.floats) \ Elements(a)
  BY DEF DynamicFitsInterval
<1>1. /\ a \in Seq(Samples) /\ Ordered(a) /\ a # <<>>
      /\ Shorter("floats") \in Seq(Samples)
  BY FloatSides
<1>2. d \in Nat
  BY <1>1, GapsOfStream
<1>3. d > 0
  <2>1. k \in 1 .. Len(a) /\ k - 1 \in 1 .. Len(a) /\ k - 1 < k
    BY <1>1
  <2>2. a[k - 1].t < a[k].t /\ a[k - 1].t \in Nat /\ a[k].t \in Nat
    BY <1>1, <2>1, SampleAt DEF Ordered
  <2>. QED  BY <2>2
<1>4. buffer = d \div 2
  BY <1>2, BufferIsHalf DEF EndsOf
<1>5. ~ input.preferMax =>
        \A x \in Elements(merged.floats) \ Elements(a) : FarFrom(x, a, d \div 2)
  BY <1>4, TakenIsFar
<1>6. ASSUME NEW i \in 2 .. Len(a), NEW y \in Elements(Shorter("floats")),
             a[i].t - a[i - 1].t = 2 * d, y.t = a[i - 1].t + d
      PROVE  y \in Elements(merged.floats) \ Elements(a)
  <2>1. i \in 1 .. Len(a) /\ i \in 1 .. Len(a) + 1 /\ i - 1 \in 1 .. Len(a) /\ i > 1
    BY <1>1
  <2>2. a[i].t \in Nat /\ a[i - 1].t \in Nat /\ y \in Samples
    BY <1>1, <2>1, SampleAt DEF Elements
  <2>3. d \div 2 \in Nat /\ d \div 2 < d
    BY <1>2, <1>3
  <2>4. y.t > a[i - 1].t + d \div 2 /\ y.t < a[i].t - d \div 2
    <3>1. PICK p, q, u, h : p = a[i - 1].t /\ q = a[i].t /\ u = y.t /\ h = d \div 2
      OBVIOUS
    <3>2. /\ p \in Nat /\ q \in Nat /\ h \in Nat /\ d \in Nat /\ h < d
          /\ q - p = 2 * d /\ u = p + d
      BY <1>2, <1>6, <2>2, <2>3, <3>1
    <3>3. u > p + h /\ u < q - h
      BY ONLY <3>2
    <3>. QED  BY <3>1, <3>3
  <2>5. FarFrom(y, a, d \div 2)
    BY <1>1, <2>1, <2>2, <2>3, <2>4, FarFromNeighbours
  <2>. QED  BY <1>4, <2>5, FarIsTaken
<1>. QED  BY <1>5, <1>6

\* What the dynamic buffer is for, for replicas of any length: when most
\* intervals of the longer replica are d, dynamicAntiAffinityFromTimes finds d / 2,
\* without prefer_max no sample within d / 2 of it is taken, and a single lost scrape
\* is filled from its middle.
THEOREM DynamicBufferFits == Spec => []DynamicFitsInterval
<1>1. IInv /\ XInv /\ BufferChosen => DynamicFitsInterval
  BY DynamicFits
<1>. QED  BY <1>1, SpecIInv, SpecXInv, SpecBufferChosen, PTL
=============================================================================
