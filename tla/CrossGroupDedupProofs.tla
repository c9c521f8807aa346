------------------------ MODULE CrossGroupDedupProofs ------------------------
(***************************************************************************)
(* Proofs about the dedup across server groups, for any number of sets and *)
(* series, in any order: which copy wins, what fills its gaps and how the  *)
(* collisions are counted.                                                 *)
(***************************************************************************)
EXTENDS CrossGroupDedup, FiniteSetTheorems, TLAPS

-----------------------------------------------------------------------------
(* The inductive invariant. *)

\* The copies the sets hold, and those the scan has seen.
Copy(i, j) == [ordinal |-> Sets[i].ordinal, series |-> Sets[i].series[j]]
AllCopies ==
  UNION {{Copy(i, j) : j \in 1 .. Len(Sets[i].series)} : i \in SetIndices}
Arrived ==
  UNION {{Copy(i, j) : j \in {n \in 1 .. Len(Sets[i].series) : i < si \/ (i = si /\ n < sj)}} :
           i \in SetIndices}
ArrivedOf(k) == {c \in Arrived : c.series.key = k}
OfGroup(S, l) == {c \in S : c.ordinal = l}

Output == [ordinal : Ordinals, series : Series, fillers : Seq(Member)]

Types ==
  /\ input \in Inputs
  /\ pc \in {"scan", "resolve", "done", "error"}
  /\ Len(Sets) = 1 => pc # "resolve"
  /\ si \in 1 .. Len(Sets) + 1
  /\ sj \in Nat \ {0}
  /\ buckets \in [Keys -> Entry \cup {NoEntry}]
  /\ result \in Seq(Output)
  /\ pairs \in [Ordinals \X Ordinals -> Nat]
  /\ todo \subseteq Keys

Filled == {k \in Keys : buckets[k] # NoEntry}

\* Every series seen has a bucket, whose ordinal is the lowest seen of it.
LowestKept ==
  \A c \in Arrived : /\ c.series.key \in Filled
                     /\ buckets[c.series.key].ordinal <= c.ordinal

Winner(e) == [ordinal |-> e.ordinal, series |-> e.lbls]

\* The winner of a bucket is one of the copies seen, and so are its losers.
FromSets(k) ==
  /\ Winner(buckets[k]) \in ArrivedOf(k)
  /\ \A i \in 1 .. Len(buckets[k].losers) :
       \E c \in ArrivedOf(k) : c.ordinal = buckets[k].losers[i]

\* The members of a bucket: copies seen, the winner among them; all of them, once
\* each, when no two series of the call are the same.
MembersKept(k) ==
  LET ms == buckets[k].members IN
  /\ \A i \in 1 .. Len(ms) : ms[i] \in ArrivedOf(k)
  /\ \E i \in 1 .. Len(ms) : ms[i] = Winner(buckets[k])
  /\ AllDistinct =>
       /\ \A c \in ArrivedOf(k) : \E i \in 1 .. Len(ms) : ms[i] = c
       /\ \A i, j \in 1 .. Len(ms) : ms[i] = ms[j] => i = j

\* Every copy seen has lost once, except the winner.
LosersCounted(k) ==
  \A l \in Ordinals :
    Count(buckets[k].losers, l) =
      Cardinality(OfGroup(ArrivedOf(k), l))
        - (IF l = buckets[k].ordinal THEN 1 ELSE 0)

\* The slot of a bucket: its winner, until the bucket is resolved by sorting.
Sorted(k) == pc # "scan" /\ k \notin todo /\ input.fillGaps /\ Len(buckets[k].members) > 1
SlotHolds(k) ==
  LET e == buckets[k] IN
  /\ e.idx \in 1 .. Len(result)
  /\ ~ Sorted(k) => result[e.idx] = Emitted(e.ordinal, e.lbls)
  /\ Sorted(k) => \E f \in SortMembers(e.members) : result[e.idx] = fillBucketGaps(e.members, f)

\* The buckets a group has won, of those that are resolved, and what it is charged.
Charges(w) == {k \in Filled \ todo : buckets[k].ordinal = w}
ChargedTo(w, l) == {c \in Arrived : c.series.key \in Charges(w) /\ c.ordinal = l}
PairsCounted ==
  \A w, l \in Ordinals :
    /\ pairs[<<w, l>>] > 0 => ChargedTo(w, l) # {}
    /\ AllDistinct =>
         pairs[<<w, l>>] = Cardinality(ChargedTo(w, l))
                             - (IF w = l THEN Cardinality(Charges(w)) ELSE 0)

\* What is known of a bucket.
BucketKept(k) == /\ FromSets(k) /\ SlotHolds(k)
                 /\ input.fillGaps => MembersKept(k)
                 /\ AllDistinct => LosersCounted(k)

Scanned ==
  /\ IsFiniteSet(Arrived) /\ IsFiniteSet(Filled)
  /\ LowestKept
  /\ \A k \in Filled : BucketKept(k)
  /\ \A n \in 1 .. Len(result) : \E k \in Filled : buckets[k].idx = n
  /\ pc = "scan" => todo = {} /\ pairs = [p \in Ordinals \X Ordinals |-> 0]
  /\ pc # "scan" => si > Len(Sets) /\ todo \subseteq Filled /\ PairsCounted
  /\ pc = "done" => todo = {}

DInv == Types /\ (Len(Sets) # 1 /\ pc # "error" => Scanned)

-----------------------------------------------------------------------------
(* Counting. *)

\* A sequence with one more element.
LEMMA AppendElements ==
  ASSUME NEW S, NEW s \in Seq(S), NEW x \in S
  PROVE  /\ Append(s, x) \in Seq(S)
         /\ Len(Append(s, x)) = Len(s) + 1 /\ Len(s) \in Nat
         /\ Append(s, x)[Len(s) + 1] = x
         /\ \A i \in 1 .. Len(s) : Append(s, x)[i] = s[i]
         /\ \A i \in 1 .. Len(Append(s, x)) : i \in 1 .. Len(s) \/ i = Len(s) + 1
OBVIOUS

\* How often a group has lost, when it loses once more.
LEMMA CountAppend ==
  ASSUME NEW S, NEW s \in Seq(S), NEW x \in S, NEW l
  PROVE  /\ Count(s, l) \in Nat
         /\ Count(Append(s, x), l) = Count(s, l) + (IF x = l THEN 1 ELSE 0)
<1> DEFINE I == {i \in 1 .. Len(s) : s[i] = l}
           J == {i \in 1 .. Len(Append(s, x)) : Append(s, x)[i] = l}
<1>1. IsFiniteSet(I) /\ Cardinality(I) \in Nat /\ Len(s) + 1 \notin I
  <2>1. IsFiniteSet(1 .. Len(s))
    BY FS_Interval
  <2>2. QED
    BY <2>1, FS_Subset, FS_CardinalityType
<1>2. J = IF x = l THEN I \cup {Len(s) + 1} ELSE I
  OBVIOUS
<1> HIDE DEF I, J
<1>3. Cardinality(J) = Cardinality(I) + (IF x = l THEN 1 ELSE 0)
  <2>1. CASE x = l
    BY <1>1, <1>2, <2>1, FS_AddElement
  <2>2. CASE x # l
    BY <1>1, <1>2, <2>2
  <2>3. QED
    BY <2>1, <2>2
<1>4. QED
  BY <1>1, <1>3 DEF Count, I, J

\* Nobody has lost yet.
LEMMA CountEmpty == ASSUME NEW l PROVE Count(<<>>, l) = 0
<1>1. {i \in 1 .. Len(<<>>) : <<>>[i] = l} = {}
  OBVIOUS
<1>2. QED
  BY <1>1, FS_EmptySet DEF Count

\* The copies of one group, when one more copy is seen.
LEMMA CopyAdded ==
  ASSUME NEW S, IsFiniteSet(S), NEW c, c \notin S, NEW l
  PROVE  /\ Cardinality(OfGroup(S, l)) \in Nat
         /\ Cardinality(OfGroup(S \cup {c}, l)) =
              Cardinality(OfGroup(S, l)) + (IF c.ordinal = l THEN 1 ELSE 0)
<1> DEFINE I == {d \in S : d.ordinal = l}
           J == {d \in S \cup {c} : d.ordinal = l}
<1>1. IsFiniteSet(I) /\ Cardinality(I) \in Nat /\ c \notin I
  BY FS_Subset, FS_CardinalityType
<1>2. J = IF c.ordinal = l THEN I \cup {c} ELSE I
  OBVIOUS
<1> HIDE DEF I, J
<1>3. Cardinality(J) = Cardinality(I) + (IF c.ordinal = l THEN 1 ELSE 0)
  <2>1. CASE c.ordinal = l
    BY <1>1, <1>2, <2>1, FS_AddElement
  <2>2. CASE c.ordinal # l
    BY <1>1, <1>2, <2>2
  <2>3. QED
    BY <2>1, <2>2
<1>4. QED
  BY <1>1, <1>3 DEF I, J, OfGroup

\* The union of two finite sets with no element in common.
LEMMA DisjointUnion ==
  ASSUME NEW S, NEW T, IsFiniteSet(S), IsFiniteSet(T), S \cap T = {}
  PROVE  /\ IsFiniteSet(S \cup T)
         /\ Cardinality(S) \in Nat /\ Cardinality(T) \in Nat
         /\ Cardinality(S \cup T) = Cardinality(S) + Cardinality(T)
BY SMTT(60), FS_Union, FS_EmptySet, FS_CardinalityType

\* sort.Slice loses no member: an order of n members reaches every one of them.
LEMMA SortReaches ==
  ASSUME NEW ms \in Seq(Member), NEW f \in SortMembers(ms), NEW i \in 1 .. Len(ms)
  PROVE  \E j \in 1 .. Len(ms) : f[j] = i
<1> DEFINE D == 1 .. Len(ms)
<1>1. f \in [D -> D] /\ \A a, b \in D : a < b => f[a] # f[b]
  BY DEF SortMembers
<1>2. \A a, b \in D : a # b => f[a] # f[b]
  BY <1>1
<1>3. f \in Injection(D, D)
  BY <1>1, <1>2 DEF Injection, IsInjective
<1>4. IsFiniteSet(D)
  BY FS_Interval
<1>5. f \in Surjection(D, D)
  BY <1>3, <1>4, FS_Injection
<1>6. QED
  BY <1>5 DEF Surjection

-----------------------------------------------------------------------------
(* The call and what the scan has seen of it. *)

\* What the sets of a call hold.
LEMMA SetFacts ==
  ASSUME input \in Inputs
  PROVE  /\ Sets \in Seq(SeriesSets) /\ Len(Sets) \in Nat
         /\ input.fillGaps \in BOOLEAN
         /\ \A i \in SetIndices :
              /\ Sets[i].ordinal \in Ordinals /\ Sets[i].ordinal \in Nat
              /\ Sets[i].series \in Seq(Series) /\ Len(Sets[i].series) \in Nat
              /\ \A j \in 1 .. Len(Sets[i].series) :
                   /\ Sets[i].series[j] \in Series /\ Sets[i].series[j].key \in Keys
                   /\ Copy(i, j) \in Member
                   /\ Copy(i, j).ordinal = Sets[i].ordinal
                   /\ Copy(i, j).series = Sets[i].series[j]
<1>1. Sets \in Seq(SeriesSets) /\ input.fillGaps \in BOOLEAN
  BY InputsAssumption DEF Sets
<1>2. ASSUME NEW i \in SetIndices
      PROVE  /\ Sets[i].ordinal \in Ordinals /\ Sets[i].ordinal \in Nat
             /\ Sets[i].series \in Seq(Series) /\ Len(Sets[i].series) \in Nat
  <2>1. Sets[i] \in SeriesSets
    BY <1>1 DEF SetIndices
  <2>2. Sets[i].ordinal \in Ordinals /\ Sets[i].series \in Seq(Series)
    BY <2>1 DEF SeriesSets
  <2>3. Sets[i].ordinal \in Nat
    BY <2>2, InputsAssumption
  <2>4. Len(Sets[i].series) \in Nat
    BY <2>2
  <2>5. QED
    BY <2>2, <2>3, <2>4
<1>3. ASSUME NEW i \in SetIndices, NEW j \in 1 .. Len(Sets[i].series)
      PROVE  Sets[i].series[j] \in Series /\ Sets[i].series[j].key \in Keys
  <2>1. Sets[i].series[j] \in Series
    BY <1>2
  <2>2. QED
    BY <2>1 DEF Series
<1>4. QED
  BY <1>1, <1>2, <1>3 DEF Copy, Member

\* The copies there are, by their place.
LEMMA CopyElement ==
  /\ \A c : c \in AllCopies <=>
              \E i \in SetIndices : \E j \in 1 .. Len(Sets[i].series) : c = Copy(i, j)
  /\ \A c : c \in Arrived <=>
              \E i \in SetIndices : \E j \in 1 .. Len(Sets[i].series) :
                (i < si \/ (i = si /\ j < sj)) /\ c = Copy(i, j)
BY DEF AllCopies, Arrived

\* The series with reduced labels k are the copies with that key.
LEMMA CopiesOfKey ==
  ASSUME input \in Inputs, NEW k
  PROVE  /\ Copies(k) = {c \in AllCopies : c.series.key = k}
         /\ Holders(k) = {c.ordinal : c \in Copies(k)}
<1>1. \A c : c \in Copies(k) <=> c \in AllCopies /\ c.series.key = k
  <2> TAKE c
  <2>1. ASSUME c \in Copies(k) PROVE c \in AllCopies /\ c.series.key = k
    <3>1. PICK i \in SetIndices : \E x \in SeriesOf(i) :
            x.key = k /\ c = [ordinal |-> Sets[i].ordinal, series |-> x]
      BY <2>1 DEF Copies
    <3>2. PICK j \in 1 .. Len(Sets[i].series) : c = Copy(i, j) /\ Sets[i].series[j].key = k
      BY <3>1 DEF SeriesOf, Copy
    <3>3. QED
      BY <3>2, CopyElement DEF Copy
  <2>2. ASSUME c \in AllCopies, c.series.key = k PROVE c \in Copies(k)
    <3>1. PICK i \in SetIndices : \E j \in 1 .. Len(Sets[i].series) : c = Copy(i, j)
      BY <2>2, CopyElement
    <3>2. PICK j \in 1 .. Len(Sets[i].series) : c = Copy(i, j)
      BY <3>1
    <3>3. Sets[i].series[j] \in SeriesOf(i) /\ Sets[i].series[j].key = k
      BY <2>2, <3>2 DEF SeriesOf, Copy
    <3>4. QED
      BY <3>2, <3>3 DEF Copies, Copy
  <2>3. QED
    BY <2>1, <2>2
<1>2. \A o : o \in Holders(k) <=> \E c \in Copies(k) : c.ordinal = o
  <2> TAKE o
  <2>1. ASSUME o \in Holders(k) PROVE \E c \in Copies(k) : c.ordinal = o
    <3>1. PICK i \in SetIndices : \E x \in SeriesOf(i) : x.key = k /\ o = Sets[i].ordinal
      BY <2>1 DEF Holders
    <3>2. PICK x \in SeriesOf(i) : x.key = k
      BY <3>1
    <3>3. [ordinal |-> Sets[i].ordinal, series |-> x] \in Copies(k)
      BY <3>2 DEF Copies
    <3>4. QED
      BY <3>1, <3>3
  <2>2. ASSUME NEW c \in Copies(k), c.ordinal = o PROVE o \in Holders(k)
    <3>1. PICK i \in SetIndices : \E x \in SeriesOf(i) :
            x.key = k /\ c = [ordinal |-> Sets[i].ordinal, series |-> x]
      BY DEF Copies
    <3>2. QED
      BY <2>2, <3>1 DEF Holders
  <2>3. QED
    BY <2>1, <2>2
<1>3. QED
  BY <1>1, <1>2

\* What is known of a copy the scan has seen.
LEMMA ArrivedFacts ==
  ASSUME input \in Inputs, NEW c \in Arrived
  PROVE  /\ c \in AllCopies /\ c \in Member /\ c.series \in Series /\ c.series.key \in Keys
         /\ c.ordinal \in Ordinals /\ c.ordinal \in Nat
<1>1. PICK i \in SetIndices : \E j \in 1 .. Len(Sets[i].series) : c = Copy(i, j)
  BY CopyElement
<1>2. PICK j \in 1 .. Len(Sets[i].series) : c = Copy(i, j)
  BY <1>1
<1>3. QED
  BY <1>2, SetFacts, CopyElement

\* The scan looks at one more series: it is a new copy if all series differ, and a
\* copy with the same labels seen before comes from no higher a group.
LEMMA ScanStep ==
  ASSUME Types, Scanning, input' = input, si' = si, sj' = sj + 1
  PROVE  /\ Arrived' = Arrived \cup {AsMember}
         /\ AsMember \in Member /\ Current \in Series /\ Current.key \in Keys
         /\ AsMember.series = Current /\ AsMember.ordinal = Sets[si].ordinal
         /\ Sets[si].ordinal \in Ordinals /\ Sets[si].ordinal \in Nat
         /\ si' \in 1 .. Len(Sets) + 1 /\ sj' \in Nat \ {0}
         /\ AllDistinct => \A c \in Arrived : c.series # Current
         /\ \A c \in Arrived : c.series = Current => c.ordinal <= Sets[si].ordinal
<1>1. /\ input \in Inputs /\ si \in SetIndices /\ sj \in 1 .. Len(Sets[si].series)
      /\ Sets' = Sets /\ Len(Sets) \in Nat
  BY SetFacts DEF Types, Scanning, SetIndices, Sets
<1>2. AsMember = Copy(si, sj)
  BY DEF AsMember, Copy, Current
<1>3. /\ AsMember \in Member /\ Current \in Series /\ Current.key \in Keys
      /\ AsMember.series = Current /\ AsMember.ordinal = Sets[si].ordinal
      /\ Sets[si].ordinal \in Ordinals /\ Sets[si].ordinal \in Nat
  BY <1>1, <1>2, SetFacts DEF Current
<1>4. \A c : c \in Arrived' <=> c \in Arrived \/ c = AsMember
  <2>1. \A c : c \in Arrived' <=>
          \E i \in SetIndices : \E j \in 1 .. Len(Sets[i].series) :
            (i < si \/ (i = si /\ j < sj + 1)) /\ c = Copy(i, j)
    BY SMTT(60), <1>1 DEF Arrived, SetIndices, Copy
  <2>2. \A i \in SetIndices : \A j \in 1 .. Len(Sets[i].series) :
          (i < si \/ (i = si /\ j < sj + 1)) <=>
            (i < si \/ (i = si /\ j < sj)) \/ (i = si /\ j = sj)
    BY <1>1, SetFacts
  <2>3. QED
    BY <1>1, <1>2, <2>1, <2>2, CopyElement
<1>5. ASSUME NEW c \in Arrived, c.series = Current
      PROVE  ~ AllDistinct /\ c.ordinal <= Sets[si].ordinal
  <2>1. PICK i \in SetIndices : \E j \in 1 .. Len(Sets[i].series) :
               (i < si \/ (i = si /\ j < sj)) /\ c = Copy(i, j)
    BY CopyElement
  <2>2. PICK j \in 1 .. Len(Sets[i].series) : (i < si \/ (i = si /\ j < sj)) /\ c = Copy(i, j)
    BY <2>1
  <2>3. Sets[i].series[j] = Sets[si].series[sj] /\ c.ordinal = Sets[i].ordinal
        /\ Sets[i].ordinal \in Nat
    BY <1>1, <1>5, <2>2, SetFacts DEF Current
  <2>4. ~ AllDistinct
    BY SMTT(60), <1>1, <2>2, <2>3 DEF AllDistinct, SetIndices
  <2>5. i < si => Sets[i].ordinal < Sets[si].ordinal
    <3>1. /\ i \in 1 .. Len(input.sets) /\ si \in 1 .. Len(input.sets)
          /\ j \in 1 .. Len(input.sets[i].series) /\ sj \in 1 .. Len(input.sets[si].series)
      BY <1>1 DEF Sets, SetIndices
    <3>2. \A a, b \in 1 .. Len(input.sets) : a < b =>
            \A k \in 1 .. Len(input.sets[a].series), l \in 1 .. Len(input.sets[b].series) :
              input.sets[a].series[k] = input.sets[b].series[l] =>
                input.sets[a].ordinal < input.sets[b].ordinal
      BY <1>1, InputsAssumption
    <3>3. QED
      BY <2>3, <3>1, <3>2 DEF Sets
  <2>6. QED
    BY <1>3, <2>2, <2>3, <2>4, <2>5
<1>6. si' \in 1 .. Len(Sets) + 1 /\ sj' \in Nat \ {0}
  BY DEF Types
<1>7. QED
  BY <1>3, <1>4, <1>5, <1>6

\* The scan has seen everything when it has used up the last set.
LEMMA ScanComplete ==
  ASSUME Types, si > Len(Sets) PROVE Arrived = AllCopies
<1>1. \A i \in SetIndices : i < si
  BY SetFacts DEF SetIndices, Types
<1>2. QED
  BY <1>1, CopyElement

-----------------------------------------------------------------------------
(* The invariant is kept. *)

\* The fields of a bucket.
LEMMA EntryFacts ==
  ASSUME Types, NEW k \in Filled
  PROVE  /\ k \in Keys /\ buckets[k] \in Entry
         /\ buckets[k].lbls \in Series
         /\ buckets[k].ordinal \in Ordinals /\ buckets[k].ordinal \in Nat
         /\ buckets[k].idx \in Nat \ {0}
         /\ buckets[k].losers \in Seq(Ordinals)
         /\ buckets[k].members \in Seq(Member)
         /\ Winner(buckets[k]) \in Member
         /\ Winner(buckets[k]).ordinal = buckets[k].ordinal
         /\ Winner(buckets[k]).series = buckets[k].lbls
<1>1. k \in Keys /\ buckets[k] \in Entry
  BY DEF Types, Filled
<1>2. /\ buckets[k].lbls \in Series
      /\ buckets[k].ordinal \in Ordinals
      /\ buckets[k].idx \in Nat \ {0}
      /\ buckets[k].losers \in Seq(Ordinals)
      /\ buckets[k].members \in Seq(Member)
  BY <1>1 DEF Entry
<1>3. buckets[k].ordinal \in Nat
  BY <1>2, InputsAssumption
<1>4. QED
  BY <1>1, <1>2, <1>3 DEF Winner, Member

\* The invariant holds when the dedup is called.
LEMMA InitDInv == Init => DInv
<1> SUFFICES ASSUME Init PROVE DInv
  OBVIOUS
<1>1. Types
  <2>1. input \in Inputs /\ Len(Sets) \in Nat
    BY SetFacts DEF Init
  <2>2. QED
    BY <2>1 DEF Init, Types
<1>2. Filled = {}
  BY DEF Init, Filled
<1>3. Arrived = {}
  <2>1. \A i \in SetIndices : ~ (i < si) /\ \A j \in 1 .. Len(Sets[i].series) : ~ (j < sj)
    BY SetFacts DEF Init, SetIndices
  <2>2. QED
    BY <2>1, CopyElement
<1>4. IsFiniteSet(Arrived) /\ IsFiniteSet(Filled)
  BY <1>2, <1>3, FS_EmptySet
<1>5. Scanned
  BY <1>2, <1>3, <1>4 DEF Init, Scanned, LowestKept
<1>6. QED
  BY <1>1, <1>5 DEF DInv

\* A bucket the series does not belong to is as it was.
LEMMA OtherKept ==
  ASSUME Types, pc = "scan", Scanning, input' = input, si' = si, sj' = sj + 1, pc' = pc,
         NEW k \in Filled, k # Current.key, buckets'[k] = buckets[k], BucketKept(k),
         buckets[k].idx \in 1 .. Len(result'),
         result'[buckets[k].idx] = result[buckets[k].idx]
  PROVE  BucketKept(k)'
<1>1. ArrivedOf(k)' = ArrivedOf(k)
  BY ScanStep DEF ArrivedOf
<1>2. FromSets(k)'
  BY <1>1 DEF BucketKept, FromSets
<1>3. SlotHolds(k)'
  BY DEF BucketKept, SlotHolds, Sorted
<1>4. AllDistinct' = AllDistinct
  BY DEF AllDistinct, SetIndices, Sets
<1>5. MembersKept(k) => MembersKept(k)'
  BY SMTT(60), <1>1, <1>4 DEF MembersKept
<1>6. LosersCounted(k) => LosersCounted(k)'
  BY <1>1 DEF LosersCounted
<1>7. QED
  BY <1>2, <1>3, <1>4, <1>5, <1>6 DEF BucketKept

\* A series is put into its bucket.
LEMMA ScanDInv ==
  ASSUME DInv, Scanning, input' = input, si' = si, sj' = sj + 1, pc' = pc, todo' = todo,
         pairs' = pairs,
         buckets' \in [Keys -> Entry \cup {NoEntry}], result' \in Seq(Output),
         \A k \in Keys : k # Current.key => buckets'[k] = buckets[k],
         \A k \in Filled : k # Current.key =>
           /\ buckets[k].idx \in 1 .. Len(result')
           /\ result'[buckets[k].idx] = result[buckets[k].idx],
         buckets'[Current.key] # NoEntry,
         buckets'[Current.key].ordinal <= Sets[si].ordinal,
         Existing # NoEntry => buckets'[Current.key].ordinal <= Existing.ordinal,
         NEW K, K = Current.key, BucketKept(K)',
         \A n \in 1 .. Len(result') : \E k \in Keys : buckets'[k] # NoEntry /\ buckets'[k].idx = n
  PROVE  DInv'
<1>0. Types /\ pc = "scan" /\ Len(Sets) # 1 /\ Scanned
  BY DEF DInv, Scanning
<1>1. /\ Arrived' = Arrived \cup {AsMember}
      /\ AsMember.series = Current /\ AsMember.ordinal = Sets[si].ordinal
      /\ Current.key \in Keys /\ Sets[si].ordinal \in Nat
      /\ si' \in 1 .. Len(Sets) + 1 /\ sj' \in Nat \ {0}
  BY <1>0, ScanStep
<1>2. Types'
  BY <1>0, <1>1 DEF Types, Sets
<1>3. Filled' = Filled \cup {Current.key}
  BY <1>1 DEF Filled
<1>4. IsFiniteSet(Arrived') /\ IsFiniteSet(Filled')
  BY <1>0, <1>1, <1>3, FS_AddElement DEF Scanned
<1>5. LowestKept'
  <2> SUFFICES ASSUME NEW c \in Arrived'
               PROVE  /\ c.series.key \in Filled'
                      /\ buckets'[c.series.key].ordinal <= c.ordinal
    BY DEF LowestKept
  <2>1. CASE c = AsMember
    BY <1>1, <1>3, <2>1
  <2>2. CASE c \in Arrived
    <3>1. /\ c.series.key \in Filled /\ c.series.key \in Keys
          /\ buckets[c.series.key].ordinal <= c.ordinal /\ c.ordinal \in Nat
          /\ buckets[c.series.key].ordinal \in Nat
      BY <1>0, <2>2, ArrivedFacts, EntryFacts DEF Scanned, LowestKept, Types
    <3>2. CASE c.series.key # Current.key
      BY <1>3, <3>1, <3>2
    <3>3. CASE c.series.key = Current.key
      <4>1. Current.key \in Filled'
        BY <1>3
      <4>2. buckets'[Current.key] \in Entry
        BY <1>1
      <4>3. buckets'[Current.key].ordinal \in Nat
        BY <4>2, InputsAssumption DEF Entry
      <4>4. buckets'[Current.key].ordinal <= buckets[Current.key].ordinal
        BY <3>1, <3>3 DEF Existing, Filled
      <4>5. QED
        BY <3>1, <3>3, <4>1, <4>3, <4>4
    <3>4. QED
      BY <3>2, <3>3
  <2>3. QED
    BY <1>1, <2>1, <2>2
<1>6. ASSUME NEW k \in Filled' PROVE BucketKept(k)'
  <2>1. CASE k = K
    BY <2>1
  <2>2. CASE k # K
    <3>1. k \in Filled /\ buckets'[k] = buckets[k] /\ BucketKept(k)
      BY <1>0, <1>3, <2>2 DEF Scanned, Filled
    <3>2. QED
      BY <1>0, <2>2, <3>1, OtherKept
  <2>3. QED
    BY <2>1, <2>2
<1>7. \A n \in 1 .. Len(result') : \E k \in Filled' : buckets'[k].idx = n
  BY DEF Filled
<1>8. Scanned'
  BY <1>0, <1>4, <1>5, <1>6, <1>7 DEF Scanned
<1>9. QED
  BY <1>2, <1>8 DEF DInv

\* The bucket of a series exists already: what is known of it, and of its slot.
LEMMA ExistingFacts ==
  ASSUME DInv, Scanning, Existing # NoEntry, NEW K, K = Current.key, K \in Keys
  PROVE  /\ K \in Filled /\ Existing = buckets[K] /\ BucketKept(K)
         /\ Existing \in Entry /\ Existing.lbls.key = K
         /\ Existing.idx \in 1 .. Len(result)
         /\ \A k \in Filled : /\ buckets[k].idx \in 1 .. Len(result)
                              /\ k # K => buckets[k].idx # Existing.idx
<1>1. Types /\ pc = "scan" /\ Scanned
  BY DEF DInv, Scanning
<1>2. K \in Filled /\ Existing = buckets[K] /\ Existing \in Entry
  BY <1>1, EntryFacts DEF Existing, Filled
<1>3. ASSUME NEW k \in Filled
      PROVE  /\ BucketKept(k) /\ buckets[k].idx \in 1 .. Len(result)
             /\ buckets[k].lbls.key = k
             /\ result[buckets[k].idx].series = buckets[k].lbls
  <2>1. BucketKept(k)
    BY <1>1 DEF Scanned
  <2>2. buckets[k].idx \in 1 .. Len(result)
        /\ result[buckets[k].idx] = Emitted(buckets[k].ordinal, buckets[k].lbls)
    BY <1>1, <2>1 DEF BucketKept, SlotHolds, Sorted
  <2>3. buckets[k].lbls.key = k
    BY <1>1, <2>1, EntryFacts DEF BucketKept, FromSets, ArrivedOf
  <2>4. QED
    BY <2>1, <2>2, <2>3 DEF Emitted
<1>4. QED
  BY <1>2, <1>3

\* What a series adds to the copies of its bucket.
LEMMA ArrivedOfKey ==
  ASSUME Types, Scanning, input' = input, si' = si, sj' = sj + 1,
         NEW K, K = Current.key, NEW a, a = AsMember
  PROVE  /\ ArrivedOf(K)' = ArrivedOf(K) \cup {a}
         /\ AllDistinct' = AllDistinct
         /\ AllDistinct => a \notin ArrivedOf(K)
<1>1. AllDistinct' = AllDistinct
  BY DEF AllDistinct, SetIndices, Sets
<1>2. QED
  BY <1>1, ScanStep DEF ArrivedOf

\* The members of a bucket that gains one.
LEMMA MembersGrow ==
  ASSUME Types, Scanning, input' = input, si' = si, sj' = sj + 1,
         NEW K, K = Current.key, K \in Filled, MembersKept(K),
         buckets'[K].members = Append(buckets[K].members, AsMember),
         Winner(buckets'[K]) \in {Winner(buckets[K]), AsMember}
  PROVE  MembersKept(K)'
<1>1. PICK a, ms : a = AsMember /\ ms = buckets[K].members
  OBVIOUS
<1>2. /\ ArrivedOf(K)' = ArrivedOf(K) \cup {a}
      /\ AllDistinct' = AllDistinct
      /\ AllDistinct => a \notin ArrivedOf(K)
  BY <1>1, ArrivedOfKey
<1>3. ms \in Seq(Member) /\ a \in Member
  BY <1>1, EntryFacts, ScanStep
<1>4. PICK ns : /\ ns = Append(ms, a) /\ ns = buckets'[K].members
  BY <1>1
<1>5. /\ Len(ns) = Len(ms) + 1 /\ Len(ms) \in Nat
      /\ ns[Len(ms) + 1] = a
      /\ \A i \in 1 .. Len(ms) : ns[i] = ms[i]
      /\ \A i \in 1 .. Len(ns) : i \in 1 .. Len(ms) \/ i = Len(ms) + 1
  <2>1. ns = Append(ms, a)
    BY <1>4
  <2>2. QED
    BY ONLY <1>3, <2>1, AppendElements
<1>6. /\ \A i \in 1 .. Len(ms) : ms[i] \in ArrivedOf(K)
      /\ \E i \in 1 .. Len(ms) : ms[i] = Winner(buckets[K])
      /\ AllDistinct => /\ \A c \in ArrivedOf(K) : \E i \in 1 .. Len(ms) : ms[i] = c
                        /\ \A i, j \in 1 .. Len(ms) : ms[i] = ms[j] => i = j
  BY <1>1 DEF MembersKept
<1>7. \A i \in 1 .. Len(ns) : ns[i] \in ArrivedOf(K)'
  BY <1>2, <1>5, <1>6
<1>8. \E i \in 1 .. Len(ns) : ns[i] = Winner(buckets'[K])
  <2>1. CASE Winner(buckets'[K]) = a
    BY <1>5, <2>1
  <2>2. CASE Winner(buckets'[K]) = Winner(buckets[K])
    BY <1>5, <1>6, <2>2
  <2>3. QED
    BY <1>1, <2>1, <2>2
<1>9. ASSUME AllDistinct
      PROVE  /\ \A c \in ArrivedOf(K)' : \E i \in 1 .. Len(ns) : ns[i] = c
             /\ \A i, j \in 1 .. Len(ns) : ns[i] = ns[j] => i = j
  <2>1. ASSUME NEW c \in ArrivedOf(K)' PROVE \E i \in 1 .. Len(ns) : ns[i] = c
    <3>1. CASE c = a
      BY <1>5, <3>1
    <3>2. CASE c \in ArrivedOf(K)
      <4>1. PICK i \in 1 .. Len(ms) : ms[i] = c
        BY <1>6, <1>9, <3>2
      <4>2. i \in 1 .. Len(ns) /\ ns[i] = c
        BY <1>5, <4>1
      <4>3. QED
        BY <4>2
    <3>3. QED
      BY <1>2, <3>1, <3>2
  <2>2. ASSUME NEW i \in 1 .. Len(ns), NEW j \in 1 .. Len(ns), ns[i] = ns[j] PROVE i = j
    <3>1. CASE i \in 1 .. Len(ms) /\ j \in 1 .. Len(ms)
      BY <1>5, <1>6, <1>9, <2>2, <3>1
    <3>2. CASE i \in 1 .. Len(ms) /\ j = Len(ms) + 1
      BY SMTT(60), <1>2, <1>5, <1>6, <1>9, <2>2, <3>2
    <3>3. CASE i = Len(ms) + 1 /\ j \in 1 .. Len(ms)
      BY <1>2, <1>5, <1>6, <1>9, <2>2, <3>3
    <3>4. QED
      BY <1>5, <3>1, <3>2, <3>3
  <2>3. QED
    BY <2>1, <2>2
<1>10. /\ AllDistinct' => AllDistinct
       /\ buckets'[K].members = ns
  BY <1>2, <1>4
<1>11. QED
  BY SMTT(60), <1>7, <1>8, <1>9, <1>10 DEF MembersKept

\* What a scanning action does besides updating the bucket, in rigid names.
LEMMA ScanNames ==
  ASSUME DInv, Scanning, input' = input, si' = si, sj' = sj + 1
  PROVE  \E K \in Keys, a \in Member, o \in Ordinals, x \in Series :
           /\ K = Current.key /\ a = AsMember /\ o = Sets[si].ordinal /\ x = Current
           /\ a.ordinal = o /\ a.series = x /\ x.key = K /\ o \in Nat
           /\ a = [ordinal |-> o, series |-> x]
           /\ ArrivedOf(K)' = ArrivedOf(K) \cup {a}
           /\ AllDistinct' = AllDistinct
           /\ AllDistinct => a \notin ArrivedOf(K)
           /\ Emitted(o, x) \in Output
           /\ IsFiniteSet(ArrivedOf(K))
<1>1. Types /\ Scanned
  BY DEF DInv, Scanning
<1>2. /\ AsMember \in Member /\ Current \in Series /\ Current.key \in Keys
      /\ AsMember.series = Current /\ AsMember.ordinal = Sets[si].ordinal
      /\ Sets[si].ordinal \in Ordinals /\ Sets[si].ordinal \in Nat
  BY <1>1, ScanStep
<1>3. PICK K, a, o, x :
        /\ K = Current.key /\ a = AsMember /\ o = Sets[si].ordinal /\ x = Current
        /\ a = [ordinal |-> o, series |-> x]
  BY DEF AsMember
<1>4. /\ ArrivedOf(K)' = ArrivedOf(K) \cup {a}
      /\ AllDistinct' = AllDistinct
      /\ AllDistinct => a \notin ArrivedOf(K)
  BY <1>1, <1>3, ArrivedOfKey
<1>5. Emitted(o, x) \in Output
  BY <1>2, <1>3 DEF Emitted, Output
<1>6. IsFiniteSet(ArrivedOf(K))
  BY <1>1, FS_Subset DEF Scanned, ArrivedOf
<1>7. QED
  BY <1>2, <1>3, <1>4, <1>5, <1>6

\* A bucket with one copy has no loser.
LEMMA FirstCounted ==
  ASSUME NEW a, NEW l
  PROVE  Count(<<>>, l) = Cardinality(OfGroup({a}, l)) - (IF l = a.ordinal THEN 1 ELSE 0)
<1>1. Count(<<>>, l) = 0
  BY CountEmpty
<1>2. CASE l = a.ordinal
  <2>1. OfGroup({a}, l) = {a}
    BY <1>2 DEF OfGroup
  <2>2. Cardinality(OfGroup({a}, l)) = 1
    BY <2>1, FS_Singleton
  <2>3. QED
    BY <1>1, <1>2, <2>2
<1>3. CASE l # a.ordinal
  <2>1. OfGroup({a}, l) = {}
    BY <1>3 DEF OfGroup
  <2>2. Cardinality(OfGroup({a}, l)) = 0
    BY <2>1, FS_EmptySet
  <2>3. QED
    BY <1>1, <1>3, <2>2
<1>4. QED
  BY <1>2, <1>3

\* The first series of a bucket.
LEMMA NewBucketDInv == ASSUME DInv, NewBucket PROVE DInv'
<1>1. /\ Types /\ Scanned /\ Scanning /\ pc = "scan" /\ Existing = NoEntry
      /\ input' = input /\ si' = si /\ sj' = sj + 1 /\ pc' = pc /\ todo' = todo
      /\ pairs' = pairs
  BY DEF DInv, NewBucket, Scanning
<1>2. PICK K \in Keys, a \in Member, o \in Ordinals, x \in Series :
        /\ K = Current.key /\ a = AsMember /\ o = Sets[si].ordinal /\ x = Current
        /\ a.ordinal = o /\ a.series = x /\ x.key = K /\ o \in Nat
        /\ a = [ordinal |-> o, series |-> x]
        /\ ArrivedOf(K)' = ArrivedOf(K) \cup {a}
        /\ Emitted(o, x) \in Output
  BY <1>1, ScanNames
<1>3. PICK ms : ms = WithMember(<<>>) /\ (input.fillGaps => ms = <<a>>) /\ ms \in Seq(Member)
  <2>1. Append(<<>>, a) = <<a>> /\ <<a>> \in Seq(Member) /\ <<>> \in Seq(Member)
    OBVIOUS
  <2>2. WithMember(<<>>) = IF input.fillGaps THEN Append(<<>>, a) ELSE <<>>
    BY <1>2 DEF WithMember
  <2>3. QED
    BY <2>1, <2>2
<1> DEFINE e == [lbls |-> x, ordinal |-> o, idx |-> Len(result) + 1, losers |-> <<>>,
                 members |-> ms]
<1>4. /\ result' = Append(result, Emitted(o, x))
      /\ buckets' = [buckets EXCEPT ![K] = e]
  BY <1>2, <1>3 DEF NewBucket, NewSlot
<1>5. /\ result \in Seq(Output) /\ Len(result) \in Nat /\ result' \in Seq(Output)
      /\ Len(result') = Len(result) + 1 /\ result'[Len(result) + 1] = Emitted(o, x)
      /\ \A n \in 1 .. Len(result) : result'[n] = result[n]
      /\ \A n \in 1 .. Len(result') : n \in 1 .. Len(result) \/ n = Len(result) + 1
  <2>1. result \in Seq(Output)
    BY <1>1 DEF Types
  <2>2. QED
    BY <1>2, <1>4, <2>1, AppendElements
<1>6. e \in Entry /\ e # NoEntry
  <2>1. <<>> \in Seq(Ordinals) /\ Len(result) + 1 \in Nat \ {0}
    BY <1>5
  <2>2. e \in Entry
    BY <1>2, <1>3, <2>1 DEF Entry
  <2>3. NoEntry \notin Entry
    BY InputsAssumption
  <2>4. QED
    BY <2>2, <2>3
<1>7. /\ buckets' \in [Keys -> Entry \cup {NoEntry}]
      /\ buckets'[K] = e
      /\ \A k \in Keys : k # K => buckets'[k] = buckets[k]
  BY <1>1, <1>2, <1>4, <1>6 DEF Types
<1> HIDE DEF e
<1>8. K \notin Filled /\ ArrivedOf(K) = {} /\ ArrivedOf(K)' = {a}
  BY <1>1, <1>2 DEF Existing, Filled, ArrivedOf, Scanned, LowestKept
<1>9. FromSets(K)'
  BY <1>2, <1>7, <1>8 DEF FromSets, Winner, e
<1>10. SlotHolds(K)'
  BY <1>1, <1>5, <1>7 DEF SlotHolds, Sorted, e
<1>11. input.fillGaps => MembersKept(K)'
  BY <1>2, <1>3, <1>7, <1>8 DEF MembersKept, Winner, e
<1>12. LosersCounted(K)'
  <2>1. \A l \in Ordinals :
          Count(<<>>, l) = Cardinality(OfGroup({a}, l)) - (IF l = o THEN 1 ELSE 0)
    BY <1>2, FirstCounted
  <2>2. buckets'[K].losers = <<>> /\ buckets'[K].ordinal = o
    BY <1>7 DEF e
  <2>3. QED
    BY <1>8, <2>1, <2>2 DEF LosersCounted
<1>13. BucketKept(K)'
  BY <1>1, <1>9, <1>10, <1>11, <1>12 DEF BucketKept
<1>14. ASSUME NEW k \in Filled, k # K
       PROVE  /\ buckets[k].idx \in 1 .. Len(result')
              /\ result'[buckets[k].idx] = result[buckets[k].idx]
  <2>1. buckets[k].idx \in 1 .. Len(result)
    BY <1>1 DEF Scanned, BucketKept, SlotHolds
  <2>2. QED
    BY <1>5, <2>1
<1>15. ASSUME NEW n \in 1 .. Len(result')
       PROVE  \E k \in Keys : buckets'[k] # NoEntry /\ buckets'[k].idx = n
  <2>1. CASE n = Len(result) + 1
    BY <1>6, <1>7, <2>1 DEF e
  <2>2. CASE n \in 1 .. Len(result)
    <3>1. PICK k \in Filled : buckets[k].idx = n
      BY <1>1, <2>2 DEF Scanned
    <3>2. k \in Keys /\ k # K /\ buckets[k] # NoEntry
      BY <1>8 DEF Filled
    <3>3. QED
      BY <1>7, <3>1, <3>2
  <2>3. QED
    BY <1>5, <2>1, <2>2
<1>16. buckets'[K] # NoEntry /\ buckets'[K].ordinal <= o
  BY <1>2, <1>6, <1>7 DEF e
<1>17. QED
  BY <1>1, <1>2, <1>5, <1>7, <1>13, <1>14, <1>15, <1>16, ScanDInv

\* A series with all the labels of the winner changes nothing: the copy with these
\* labels that came before it is of no higher a group.
LEMMA SkipDuplicateDInv == ASSUME DInv, SkipDuplicate PROVE DInv'
<1>1. /\ Types /\ Scanned /\ Scanning /\ pc = "scan" /\ Existing # NoEntry
      /\ input' = input /\ si' = si /\ sj' = sj + 1 /\ pc' = pc /\ todo' = todo
      /\ pairs' = pairs /\ buckets' = buckets /\ result' = result
      /\ Existing.lbls = Current
  BY DEF DInv, SkipDuplicate, Scanning
<1>2. PICK K \in Keys, a \in Member, o \in Ordinals, x \in Series :
        /\ K = Current.key /\ a = AsMember /\ o = Sets[si].ordinal /\ x = Current
        /\ a.ordinal = o /\ a.series = x /\ x.key = K /\ o \in Nat
        /\ ArrivedOf(K)' = ArrivedOf(K) \cup {a}
        /\ AllDistinct' = AllDistinct
  BY <1>1, ScanNames
<1>3. /\ K \in Filled /\ Existing = buckets[K] /\ BucketKept(K)
      /\ \A k \in Filled : buckets[k].idx \in 1 .. Len(result)
  BY <1>1, <1>2, ExistingFacts
<1>4. /\ Winner(buckets[K]) \in Arrived /\ Winner(buckets[K]).series = Current
      /\ Winner(buckets[K]).ordinal = buckets[K].ordinal /\ buckets[K].ordinal \in Nat
  BY <1>1, <1>3, EntryFacts DEF BucketKept, FromSets, ArrivedOf
<1>5. ~ AllDistinct /\ buckets[K].ordinal <= o
  BY <1>1, <1>2, <1>4, ScanStep
<1>6. FromSets(K)'
  BY <1>1, <1>2, <1>3 DEF BucketKept, FromSets
<1>7. SlotHolds(K)'
  BY <1>1, <1>3 DEF BucketKept, SlotHolds, Sorted
<1>8. MembersKept(K) => MembersKept(K)'
  BY <1>1, <1>2, <1>5 DEF MembersKept
<1>9. BucketKept(K)'
  BY <1>1, <1>2, <1>3, <1>5, <1>6, <1>7, <1>8 DEF BucketKept
<1>10. /\ \A n \in 1 .. Len(result') : \E k \in Keys : buckets'[k] # NoEntry /\ buckets'[k].idx = n
       /\ buckets'[K] # NoEntry
       /\ buckets' \in [Keys -> Entry \cup {NoEntry}] /\ result' \in Seq(Output)
  BY <1>1, <1>3 DEF Scanned, Filled, Types
<1>11. buckets'[Current.key].ordinal <= Existing.ordinal
  BY <1>1, <1>2, <1>3, <1>4
<1>12. QED
  BY <1>1, <1>2, <1>3, <1>5, <1>9, <1>10, <1>11, ScanDInv

\* One more loss of group o in the bucket, whose copies have grown by a: the counts
\* agree again when the winner is w afterwards.
LEMMA LossCounted ==
  ASSUME NEW S, IsFiniteSet(S), NEW a, a \notin S,
         NEW ls \in Seq(Ordinals), NEW v \in Ordinals, NEW o \in Ordinals, NEW w \in Ordinals,
         a.ordinal = (IF w = v THEN o ELSE w), o = v \/ w = v,
         NEW l \in Ordinals,
         Count(ls, l) = Cardinality(OfGroup(S, l)) - (IF l = v THEN 1 ELSE 0)
  PROVE  Count(Append(ls, o), l) =
           Cardinality(OfGroup(S \cup {a}, l)) - (IF l = w THEN 1 ELSE 0)
<1> DEFINE m == Count(ls, l)
           n == Cardinality(OfGroup(S, l))
           m2 == Count(Append(ls, o), l)
           n2 == Cardinality(OfGroup(S \cup {a}, l))
<1>1. m \in Nat /\ m2 = m + (IF o = l THEN 1 ELSE 0)
  BY CountAppend
<1>2. n \in Nat /\ n2 = n + (IF a.ordinal = l THEN 1 ELSE 0)
  BY CopyAdded
<1>3. m = n - (IF l = v THEN 1 ELSE 0)
  OBVIOUS
<1> HIDE DEF m, n, m2, n2
<1>4. m2 = n2 - (IF l = w THEN 1 ELSE 0)
  BY <1>1, <1>2, <1>3
<1>5. QED
  BY <1>4 DEF m2, n2

\* A collision: the bucket e becomes f, one of the two has lost and the other is in
\* the slot.
LEMMA CollisionDInv ==
  ASSUME DInv, Scanning, Existing # NoEntry, input' = input, si' = si, sj' = sj + 1,
         pc' = pc, todo' = todo, pairs' = pairs,
         NEW K \in Keys, K = Current.key, NEW e, e = buckets[K], NEW o, o = Sets[si].ordinal,
         NEW f \in Entry, buckets' = [buckets EXCEPT ![K] = f],
         f.idx = e.idx, f.members = WithMember(e.members),
         NEW lo \in Ordinals, f.losers = Append(e.losers, lo),
         \/ f.ordinal = e.ordinal /\ f.lbls = e.lbls /\ lo = o /\ e.ordinal <= o
         \/ f.ordinal = o /\ f.lbls = Current /\ lo = e.ordinal /\ o < e.ordinal,
         result' = [result EXCEPT ![e.idx] = Emitted(f.ordinal, f.lbls)]
  PROVE  DInv'
<1>1. /\ Types /\ Scanned /\ pc = "scan"
      /\ buckets \in [Keys -> Entry \cup {NoEntry}] /\ result \in Seq(Output)
  BY DEF DInv, Scanning, Types
<1>2. PICK a \in Member, x \in Series :
        /\ a = AsMember /\ x = Current /\ o \in Ordinals
        /\ a.ordinal = o /\ a.series = x /\ x.key = K /\ o \in Nat
        /\ a = [ordinal |-> o, series |-> x]
        /\ ArrivedOf(K)' = ArrivedOf(K) \cup {a}
        /\ AllDistinct' = AllDistinct
        /\ AllDistinct => a \notin ArrivedOf(K)
        /\ IsFiniteSet(ArrivedOf(K))
  BY ScanNames
<1>3. /\ K \in Filled /\ Existing = buckets[K] /\ BucketKept(K) /\ e \in Entry
      /\ e.idx \in 1 .. Len(result)
      /\ \A k \in Filled : /\ buckets[k].idx \in 1 .. Len(result)
                           /\ k # K => buckets[k].idx # e.idx
  BY <1>1, ExistingFacts
<1>4. e.ordinal \in Ordinals /\ e.ordinal \in Nat /\ e.losers \in Seq(Ordinals)
      /\ e.members \in Seq(Member) /\ Winner(e).ordinal = e.ordinal /\ e.lbls \in Series
  BY <1>1, <1>3, EntryFacts
<1>5. f.ordinal \in Ordinals /\ f.lbls \in Series /\ Emitted(f.ordinal, f.lbls) \in Output
  BY DEF Entry, Emitted, Output
<1>6. NoEntry \notin Entry /\ f # NoEntry
  BY InputsAssumption
<1>7. /\ buckets' \in [Keys -> Entry \cup {NoEntry}] /\ buckets'[K] = f
      /\ \A k \in Keys : k # K => buckets'[k] = buckets[k]
  BY <1>1
<1>8. /\ result' \in Seq(Output) /\ Len(result') = Len(result)
      /\ result'[e.idx] = Emitted(f.ordinal, f.lbls)
      /\ \A n \in 1 .. Len(result) : n # e.idx => result'[n] = result[n]
  BY <1>1, <1>3, <1>5
<1>9. Winner(f) \in {Winner(e), a}
  BY <1>2 DEF Winner
<1>10. FromSets(K)'
  <2>1. Winner(e) \in ArrivedOf(K)
    BY <1>3 DEF BucketKept, FromSets
  <2>2. Winner(f) \in ArrivedOf(K)'
    BY <1>2, <1>9, <2>1
  <2>3. \E c \in ArrivedOf(K)' : c.ordinal = lo
    BY SMTT(60), <1>2, <1>4, <2>1
  <2>4. ASSUME NEW i \in 1 .. Len(f.losers)
        PROVE  \E c \in ArrivedOf(K)' : c.ordinal = f.losers[i]
    <3>1. CASE i \in 1 .. Len(e.losers)
      <4>1. f.losers[i] = e.losers[i]
        BY <1>4, <3>1, AppendElements
      <4>2. \E c \in ArrivedOf(K) : c.ordinal = e.losers[i]
        BY <1>3, <3>1 DEF BucketKept, FromSets
      <4>3. QED
        BY <1>2, <4>1, <4>2
    <3>2. CASE i = Len(e.losers) + 1
      <4>1. f.losers[i] = lo
        BY <1>4, <3>2, AppendElements
      <4>2. QED
        BY <2>3, <4>1
    <3>3. QED
      BY <1>4, <3>1, <3>2, AppendElements
  <2>5. QED
    BY ZenonT(60), <1>7, <2>2, <2>4 DEF FromSets
<1>11. SlotHolds(K)'
  BY <1>1, <1>3, <1>7, <1>8 DEF SlotHolds, Sorted
<1>12. ASSUME input.fillGaps PROVE MembersKept(K)'
  <2>1. MembersKept(K)
    BY <1>3, <1>12 DEF BucketKept
  <2>2. buckets'[K].members = Append(buckets[K].members, AsMember)
    BY <1>7, <1>12 DEF WithMember
  <2>3. Winner(buckets'[K]) \in {Winner(buckets[K]), AsMember}
    BY <1>2, <1>7, <1>9
  <2>4. QED
    BY <1>1, <1>3, <2>1, <2>2, <2>3, MembersGrow
<1>13. ASSUME AllDistinct PROVE LosersCounted(K)'
  <2>1. ASSUME NEW l \in Ordinals
        PROVE  Count(f.losers, l) = Cardinality(OfGroup(ArrivedOf(K)', l))
                                      - (IF l = f.ordinal THEN 1 ELSE 0)
    <3>1. PICK S : S = ArrivedOf(K) /\ IsFiniteSet(S) /\ a \notin S
      BY <1>2, <1>13
    <3>2. Count(e.losers, l) = Cardinality(OfGroup(S, l)) - (IF l = e.ordinal THEN 1 ELSE 0)
      BY <1>3, <1>13, <3>1 DEF BucketKept, LosersCounted
    <3>3. a.ordinal = (IF f.ordinal = e.ordinal THEN lo ELSE f.ordinal)
          /\ (lo = e.ordinal \/ f.ordinal = e.ordinal)
      BY <1>2, <1>4
    <3>4. Count(Append(e.losers, lo), l) =
            Cardinality(OfGroup(S \cup {a}, l)) - (IF l = f.ordinal THEN 1 ELSE 0)
      BY <1>4, <1>5, <3>1, <3>2, <3>3, LossCounted
    <3>5. QED
      BY <1>2, <3>1, <3>4
  <2>2. QED
    BY <1>7, <2>1 DEF LosersCounted, OfGroup
<1>14. BucketKept(K)'
  BY <1>2, <1>10, <1>11, <1>12, <1>13 DEF BucketKept
<1>15. \A n \in 1 .. Len(result') : \E k \in Keys : buckets'[k] # NoEntry /\ buckets'[k].idx = n
  <2> SUFFICES ASSUME NEW n \in 1 .. Len(result')
               PROVE  \E k \in Keys : buckets'[k] # NoEntry /\ buckets'[k].idx = n
    OBVIOUS
  <2>1. PICK k \in Filled : buckets[k].idx = n
    BY <1>1, <1>8 DEF Scanned
  <2>2. k \in Keys /\ buckets[k] # NoEntry
    BY DEF Filled
  <2>3. QED
    BY <1>6, <1>7, <2>1, <2>2
<1>16. \A k \in Filled : k # K => /\ buckets[k].idx \in 1 .. Len(result')
                                  /\ result'[buckets[k].idx] = result[buckets[k].idx]
  BY <1>3, <1>8
<1>17. f.ordinal <= o /\ f.ordinal <= e.ordinal
  BY <1>2, <1>4
<1>18. QED
  BY <1>1, <1>3, <1>6, <1>7, <1>8, <1>14, <1>15, <1>16, <1>17, ScanDInv

\* The series of a lower group takes the slot.
LEMMA NewWinnerDInv == ASSUME DInv, NewWinner PROVE DInv'
<1>1. /\ Types /\ Scanning /\ Existing # NoEntry
      /\ input' = input /\ si' = si /\ sj' = sj + 1 /\ pc' = pc /\ todo' = todo
      /\ pairs' = pairs
  BY DEF DInv, NewWinner, Scanning
<1>2. PICK K \in Keys, a \in Member, o \in Ordinals, x \in Series :
        /\ K = Current.key /\ o = Sets[si].ordinal /\ x = Current /\ a = AsMember
  BY <1>1, ScanNames
<1>3. PICK e : e = buckets[K] /\ e = Existing /\ e \in Entry
  BY <1>1, <1>2, ExistingFacts
<1>4. PICK ms : ms = WithMember(e.members)
  OBVIOUS
<1> DEFINE f == [e EXCEPT !.losers = Append(@, e.ordinal), !.lbls = x, !.ordinal = o,
                          !.members = ms]
<1>5. /\ buckets' = [buckets EXCEPT ![K] = f]
      /\ result' = [result EXCEPT ![e.idx] = Emitted(o, x)]
      /\ o < e.ordinal
  <2>1. buckets' = [buckets EXCEPT ![Current.key] =
                      [Existing EXCEPT !.losers = Append(@, Existing.ordinal),
                                       !.lbls = Current,
                                       !.ordinal = Sets[si].ordinal,
                                       !.members = WithMember(@)]]
    BY DEF NewWinner
  <2>2. buckets' = [buckets EXCEPT ![K] = f]
    BY <1>2, <1>3, <1>4, <2>1, Zenon
  <2>3. result' = [result EXCEPT ![e.idx] = Emitted(o, x)]
    BY <1>2, <1>3 DEF NewWinner
  <2>4. o < e.ordinal
    BY <1>2, <1>3 DEF NewWinner, Beats
  <2>5. QED
    BY <2>2, <2>3, <2>4
<1>6. ms \in Seq(Member)
  BY <1>2, <1>3, <1>4 DEF WithMember, Entry
<1>7. f \in Entry /\ e.ordinal \in Ordinals
  <2>1. e.ordinal \in Ordinals /\ e.losers \in Seq(Ordinals)
    BY <1>3 DEF Entry
  <2>2. Append(e.losers, e.ordinal) \in Seq(Ordinals)
    BY <2>1, AppendElements
  <2>3. f \in Entry
    BY <1>3, <1>6, <2>2 DEF Entry
  <2>4. QED
    BY <2>1, <2>3
<1>8. /\ f.idx = e.idx /\ f.members = ms /\ f.losers = Append(e.losers, e.ordinal)
      /\ f.ordinal = o /\ f.lbls = x
  BY <1>3 DEF Entry
<1> HIDE DEF f
<1>9. QED
  BY <1>1, <1>2, <1>3, <1>4, <1>5, <1>7, <1>8, CollisionDInv

\* The series of a group that is not lower is only remembered.
LEMMA LoserDInv == ASSUME DInv, Loser PROVE DInv'
<1>1. /\ Types /\ Scanning /\ Existing # NoEntry /\ pc = "scan"
      /\ input' = input /\ si' = si /\ sj' = sj + 1 /\ pc' = pc /\ todo' = todo
      /\ pairs' = pairs /\ result' = result
  BY DEF DInv, Loser, Scanning
<1>2. PICK K \in Keys, a \in Member, o \in Ordinals, x \in Series :
        /\ K = Current.key /\ o = Sets[si].ordinal /\ x = Current /\ a = AsMember /\ o \in Nat
  BY <1>1, ScanNames
<1>3. PICK e : e = buckets[K] /\ e = Existing /\ e \in Entry
  BY <1>1, <1>2, ExistingFacts
<1>4. K \in Filled /\ BucketKept(K) /\ e.ordinal \in Nat
  BY <1>1, <1>2, <1>3, ExistingFacts, EntryFacts
<1>5. PICK ms : ms = WithMember(e.members)
  OBVIOUS
<1> DEFINE f == [e EXCEPT !.losers = Append(@, o), !.members = ms]
<1>6. buckets' = [buckets EXCEPT ![K] = f] /\ e.ordinal <= o
  <2>1. buckets' = [buckets EXCEPT ![Current.key] =
                      [Existing EXCEPT !.losers = Append(@, Sets[si].ordinal),
                                       !.members = WithMember(@)]]
    BY DEF Loser
  <2>2. buckets' = [buckets EXCEPT ![K] = f]
    BY <1>2, <1>3, <1>5, <2>1, Zenon
  <2>3. ~ (o < e.ordinal)
    BY <1>2, <1>3 DEF Loser, Beats
  <2>4. QED
    BY <1>2, <1>4, <2>2, <2>3
<1>7. ms \in Seq(Member)
  BY <1>2, <1>3, <1>5 DEF WithMember, Entry
<1>8. f \in Entry
  <2>1. Append(e.losers, o) \in Seq(Ordinals)
    BY <1>3, AppendElements DEF Entry
  <2>2. QED
    BY <1>3, <1>7, <2>1 DEF Entry
<1>9. /\ f.idx = e.idx /\ f.members = ms /\ f.losers = Append(e.losers, o)
      /\ f.ordinal = e.ordinal /\ f.lbls = e.lbls
  BY <1>3 DEF Entry
<1> HIDE DEF f
<1>10. result' = [result EXCEPT ![e.idx] = Emitted(f.ordinal, f.lbls)]
  <2>1. e.idx \in 1 .. Len(result) /\ result[e.idx] = Emitted(e.ordinal, e.lbls)
    BY <1>1, <1>3, <1>4 DEF BucketKept, SlotHolds, Sorted
  <2>2. result \in Seq(Output)
    BY <1>1 DEF Types
  <2>3. QED
    BY <1>1, <1>9, <2>1, <2>2
<1>11. /\ f.idx = e.idx /\ f.members = WithMember(e.members) /\ o = Sets[si].ordinal
       /\ f.losers = Append(e.losers, o)
       /\ f.ordinal = e.ordinal /\ f.lbls = e.lbls /\ e.ordinal <= o
  BY <1>2, <1>5, <1>6, <1>9
<1>12. /\ Scanning /\ Existing # NoEntry
       /\ input' = input /\ si' = si /\ sj' = sj + 1 /\ pc' = pc /\ todo' = todo
       /\ pairs' = pairs /\ buckets' = [buckets EXCEPT ![K] = f]
       /\ K = Current.key /\ e = buckets[K]
  BY <1>1, <1>2, <1>3, <1>6
<1>13. QED
  BY <1>8, <1>10, <1>11, <1>12, CollisionDInv

\* A set is used up, or its error ends the call.
LEMMA EndOfSetDInv == ASSUME DInv, EndOfSet PROVE DInv'
<1>1. /\ Types /\ Scanned /\ pc = "scan" /\ si \in SetIndices /\ sj > Len(Sets[si].series)
      /\ UNCHANGED <<input, buckets, pairs, todo>> /\ Sets' = Sets
  BY SetFacts DEF DInv, EndOfSet, Types, SetIndices, Sets
<1>2. CASE pc' = "error" /\ result' = <<>> /\ UNCHANGED <<si, sj>>
  BY <1>1, <1>2 DEF DInv, Types, Sets
<1>3. CASE si' = si + 1 /\ sj' = 1 /\ UNCHANGED <<pc, result>>
  <2>1. Types'
    BY <1>1, <1>3, SetFacts DEF Types, SetIndices
  <2>2. Arrived' = Arrived
    <3>1. \A i \in SetIndices : \A j \in 1 .. Len(Sets[i].series) :
            (i < si + 1 \/ (i = si + 1 /\ j < 1)) <=> (i < si \/ (i = si /\ j < sj))
      BY <1>1, SetFacts DEF SetIndices, Types
    <3>2. \A c : c \in Arrived' <=>
            \E i \in SetIndices : \E j \in 1 .. Len(Sets[i].series) :
              (i < si + 1 \/ (i = si + 1 /\ j < 1)) /\ c = Copy(i, j)
      <4>1. \A c : c \in Arrived' <=>
              \E i \in SetIndices' : \E j \in 1 .. Len(Sets'[i].series) :
                (i < si' \/ (i = si' /\ j < sj')) /\ c = Copy(i, j)'
        BY DEF Arrived
      <4>2. SetIndices' = SetIndices /\ \A i, j : Copy(i, j)' = Copy(i, j)
        BY <1>1 DEF SetIndices, Copy
      <4>3. QED
        BY <1>1, <1>3, <4>1, <4>2
    <3>3. \A c : c \in Arrived' <=> c \in Arrived
      BY <3>1, <3>2, CopyElement
    <3>4. QED
      BY <3>3
  <2>3. Filled' = Filled /\ AllDistinct' = AllDistinct
    BY <1>1 DEF Filled, AllDistinct, SetIndices
  <2>4. ASSUME NEW k \in Filled PROVE BucketKept(k)'
    <3>1. BucketKept(k) /\ ArrivedOf(k)' = ArrivedOf(k)
      BY <1>1, <2>2 DEF Scanned, ArrivedOf
    <3>2. FromSets(k)' /\ SlotHolds(k)'
      BY <1>1, <1>3, <3>1 DEF BucketKept, FromSets, SlotHolds, Sorted
    <3>3. (MembersKept(k) => MembersKept(k)') /\ (LosersCounted(k) => LosersCounted(k)')
      BY SMTT(60), <1>1, <2>3, <3>1 DEF MembersKept, LosersCounted
    <3>4. QED
      BY <1>1, <2>3, <3>1, <3>2, <3>3 DEF BucketKept
  <2>5. LowestKept'
    BY <1>1, <2>2, <2>3 DEF Scanned, LowestKept
  <2>6. Scanned'
    BY <1>1, <1>3, <2>2, <2>3, <2>4, <2>5 DEF Scanned
  <2>7. QED
    BY <2>1, <2>6 DEF DInv
<1>4. QED
  BY <1>2, <1>3 DEF EndOfSet

\* Nothing is resolved when the scan ends.
LEMMA EndOfScanDInv == ASSUME DInv, EndOfScan PROVE DInv'
<1>1. /\ Types /\ Scanned /\ pc = "scan" /\ pc' = "resolve" /\ si > Len(Sets)
      /\ todo' = Filled
      /\ UNCHANGED <<input, si, sj, buckets, result, pairs>> /\ Len(Sets) # 1
  BY DEF DInv, EndOfScan, Filled
<1>2. Types'
  BY <1>1 DEF Types, Sets, Filled
<1>3. Arrived' = Arrived /\ Filled' = Filled /\ AllDistinct' = AllDistinct
  BY <1>1 DEF Arrived, Filled, AllDistinct, SetIndices, Sets, Copy
<1>4. ASSUME NEW k \in Filled PROVE BucketKept(k)'
  <2>1. BucketKept(k) /\ ArrivedOf(k)' = ArrivedOf(k)
    BY <1>1, <1>3 DEF Scanned, ArrivedOf
  <2>2. FromSets(k)' /\ SlotHolds(k)'
    BY <1>1, <2>1 DEF BucketKept, FromSets, SlotHolds, Sorted
  <2>3. (MembersKept(k) => MembersKept(k)') /\ (LosersCounted(k) => LosersCounted(k)')
    BY <1>1, <1>3, <2>1 DEF MembersKept, LosersCounted
  <2>4. QED
    BY <1>1, <1>3, <2>1, <2>2, <2>3 DEF BucketKept
<1>5. LowestKept'
  BY <1>1, <1>3 DEF Scanned, LowestKept
<1>6. PairsCounted'
  <2>1. ASSUME NEW w \in Ordinals, NEW l \in Ordinals
        PROVE  /\ ~ (pairs'[<<w, l>>] > 0)
               /\ pairs'[<<w, l>>] = Cardinality(ChargedTo(w, l)')
                                       - (IF w = l THEN Cardinality(Charges(w)') ELSE 0)
    <3>1. pairs'[<<w, l>>] = 0
      BY <1>1 DEF Scanned
    <3>2. Charges(w)' = {} /\ ChargedTo(w, l)' = {}
      BY <1>1, <1>3 DEF Charges, ChargedTo
    <3>3. Cardinality(Charges(w)') = 0 /\ Cardinality(ChargedTo(w, l)') = 0
      BY <3>2, FS_EmptySet
    <3>4. QED
      BY <3>1, <3>3
  <2>2. QED
    BY <2>1 DEF PairsCounted
<1>7. si' > Len(Sets') /\ todo' \subseteq Filled'
  BY <1>1, <1>3 DEF Sets
<1>8. Scanned'
  BY <1>1, <1>3, <1>4, <1>5, <1>6, <1>7 DEF Scanned
<1>9. QED
  BY <1>2, <1>8 DEF DInv

\* The slot of a bucket holds a copy of it, of its winning group, also when it has
\* been filled: the order sort.Slice leaves begins with a member of that group.
LEMMA SlotFacts ==
  ASSUME Types, Scanned, NEW k \in Filled
  PROVE  LET r == result[buckets[k].idx] IN
         /\ buckets[k].idx \in 1 .. Len(result)
         /\ r.series.key = k /\ r.ordinal = buckets[k].ordinal
         /\ [ordinal |-> r.ordinal, series |-> r.series] \in ArrivedOf(k)
<1>1. BucketKept(k)
  BY DEF Scanned
<1>2. PICK e : e = buckets[k] /\ e \in Entry /\ e.members \in Seq(Member) /\ e.ordinal \in Nat
               /\ Winner(e).ordinal = e.ordinal
  BY EntryFacts
<1>3. PICK r : r = result[e.idx]
  OBVIOUS
<1>4. e.idx \in 1 .. Len(result)
  BY <1>1, <1>2 DEF BucketKept, SlotHolds
<1>5. CASE ~ Sorted(k)
  <2>1. r = Emitted(e.ordinal, e.lbls)
    BY <1>1, <1>2, <1>3, <1>5 DEF BucketKept, SlotHolds
  <2>2. [ordinal |-> e.ordinal, series |-> e.lbls] \in ArrivedOf(k)
    BY <1>1, <1>2 DEF BucketKept, FromSets, Winner
  <2>3. QED
    BY <1>2, <1>3, <1>4, <2>1, <2>2 DEF Emitted, ArrivedOf
<1>6. CASE Sorted(k)
  <2>1. PICK ms : ms = e.members /\ ms \in Seq(Member)
    BY <1>2
  <2>2. PICK f \in SortMembers(ms) : r = fillBucketGaps(ms, f)
    BY <1>1, <1>2, <1>3, <1>6, <2>1 DEF BucketKept, SlotHolds
  <2>3. /\ Len(ms) > 1 /\ Len(ms) \in Nat
        /\ \A i \in 1 .. Len(ms) : ms[i] \in ArrivedOf(k)
        /\ \E i \in 1 .. Len(ms) : ms[i] = Winner(e)
    BY <1>1, <1>2, <1>6, <2>1 DEF BucketKept, MembersKept, Sorted
  <2>4. f[1] \in 1 .. Len(ms)
    BY <2>3 DEF SortMembers
  <2>5. PICK m : m = ms[f[1]] /\ m \in ArrivedOf(k) /\ m \in Member
    BY <2>1, <2>3, <2>4
  <2>6. /\ m.series.key = k /\ m.ordinal \in Nat /\ e.ordinal <= m.ordinal
        /\ m = [ordinal |-> m.ordinal, series |-> m.series]
    <3>1. m \in Arrived /\ m.series.key = k
      BY <2>5 DEF ArrivedOf
    <3>2. m.ordinal \in Nat
      BY <3>1, ArrivedFacts DEF Types
    <3>3. e.ordinal <= m.ordinal
      BY <1>2, <3>1 DEF Scanned, LowestKept
    <3>4. QED
      BY <2>5, <3>1, <3>2, <3>3 DEF Member
  <2>7. m.ordinal <= e.ordinal
    <3>1. PICK i \in 1 .. Len(ms) : ms[i] = Winner(e)
      BY <2>3
    <3>2. PICK j \in 1 .. Len(ms) : f[j] = i
      BY <2>1, SortReaches
    <3>3. CASE j = 1
      BY <1>2, <2>5, <2>6, <3>1, <3>2, <3>3
    <3>4. CASE j # 1
      <4>1. 1 < j /\ 1 \in 1 .. Len(ms)
        BY <2>3, <3>4
      <4>2. ms[f[1]].ordinal <= ms[f[j]].ordinal
        BY <4>1 DEF SortMembers
      <4>3. QED
        BY <1>2, <2>5, <3>1, <3>2, <4>2
    <3>5. QED
      BY <3>3, <3>4
  <2>8. r.ordinal = m.ordinal /\ r.series = m.series
    BY <2>2, <2>5 DEF fillBucketGaps
  <2>9. m.ordinal = e.ordinal
    BY <1>2, <2>6, <2>7
  <2>10. QED
    BY <1>2, <1>3, <1>4, <2>5, <2>6, <2>8, <2>9
<1>7. QED
  BY <1>5, <1>6

\* The collisions of one bucket are added to the counts.
LEMMA RecordCounts ==
  ASSUME Types, NEW k \in Filled, NEW w \in Ordinals, NEW l \in Ordinals
  PROVE  /\ Count(buckets[k].losers, l) \in Nat
         /\ Record(buckets[k])[<<w, l>>] =
              pairs[<<w, l>>] +
                (IF w = buckets[k].ordinal THEN Count(buckets[k].losers, l) ELSE 0)
<1>1. PICK e : e = buckets[k] /\ e.losers \in Seq(Ordinals) /\ e.ordinal \in Ordinals
  BY EntryFacts
<1> DEFINE I == {i \in 1 .. Len(e.losers) : <<Charged(e, i), e.losers[i]>> = <<w, l>>}
<1>2. Record(e)[<<w, l>>] = pairs[<<w, l>>] + Cardinality(I)
  BY DEF Record
<1>3. I = IF w = e.ordinal THEN {i \in 1 .. Len(e.losers) : e.losers[i] = l} ELSE {}
  BY DEF Charged
<1> HIDE DEF I
<1>4. Cardinality(I) = IF w = e.ordinal THEN Count(e.losers, l) ELSE 0
  <2>1. CASE w = e.ordinal
    BY <1>3, <2>1 DEF Count
  <2>2. CASE w # e.ordinal
    BY <1>3, <2>2, FS_EmptySet
  <2>3. QED
    BY <2>1, <2>2
<1>5. Count(e.losers, l) \in Nat
  BY <1>1, CountAppend
<1>6. QED
  BY <1>1, <1>2, <1>4, <1>5

\* A group that has lost has a copy.
LEMMA LoserHasCopy ==
  ASSUME NEW k, FromSets(k), NEW l, Count(buckets[k].losers, l) > 0
  PROVE  OfGroup(ArrivedOf(k), l) # {}
<1>1. {i \in 1 .. Len(buckets[k].losers) : buckets[k].losers[i] = l} # {}
  BY FS_EmptySet DEF Count
<1>2. QED
  BY <1>1 DEF FromSets, OfGroup

\* A bucket is resolved: what its winner is charged with becomes what it has won.
LEMMA ResolveCounted ==
  ASSUME DInv, NEW k \in Keys, ResolveBucket(k), pc = "resolve", Scanned, k \in Filled,
         Len(Sets) # 1
  PROVE  PairsCounted'
<1>1. /\ Types /\ k \in todo /\ todo' = todo \ {k} /\ pairs' = Record(buckets[k])
      /\ UNCHANGED <<input, pc, si, sj, buckets>> /\ Sets' = Sets
  BY DEF DInv, ResolveBucket, Sets
<1>2. Arrived' = Arrived /\ Filled' = Filled /\ AllDistinct' = AllDistinct
  BY <1>1 DEF Arrived, Filled, AllDistinct, SetIndices, Copy
<1>3. BucketKept(k) /\ PairsCounted /\ IsFiniteSet(Arrived) /\ IsFiniteSet(Filled)
  BY DEF Scanned
<1>4. PICK v : v = buckets[k].ordinal
  OBVIOUS
<1>5. SUFFICES ASSUME NEW w \in Ordinals, NEW l \in Ordinals
               PROVE  /\ pairs'[<<w, l>>] > 0 => ChargedTo(w, l)' # {}
                      /\ AllDistinct =>
                           pairs'[<<w, l>>] = Cardinality(ChargedTo(w, l)')
                                                - (IF w = l THEN Cardinality(Charges(w)') ELSE 0)
  BY <1>2 DEF PairsCounted
<1>6. /\ Charges(w)' = IF w = v THEN Charges(w) \cup {k} ELSE Charges(w)
      /\ k \notin Charges(w)
  BY <1>1, <1>2, <1>4 DEF Charges
<1>7. /\ ChargedTo(w, l)' = IF w = v THEN ChargedTo(w, l) \cup OfGroup(ArrivedOf(k), l)
                                     ELSE ChargedTo(w, l)
      /\ ChargedTo(w, l) \cap OfGroup(ArrivedOf(k), l) = {}
  BY <1>2, <1>6 DEF ChargedTo, OfGroup, ArrivedOf
<1>8. PICK n \in Nat :
        /\ n = Count(buckets[k].losers, l)
        /\ pairs'[<<w, l>>] = pairs[<<w, l>>] + (IF w = v THEN n ELSE 0)
  BY <1>1, <1>4, RecordCounts
<1>9. pairs[<<w, l>>] \in Nat
  BY <1>1 DEF Types
<1>10. pairs'[<<w, l>>] > 0 => ChargedTo(w, l)' # {}
  <2>1. pairs[<<w, l>>] > 0 => ChargedTo(w, l) # {}
    BY <1>3 DEF PairsCounted
  <2>2. n > 0 => OfGroup(ArrivedOf(k), l) # {}
    BY <1>3, <1>8, LoserHasCopy DEF BucketKept
  <2>3. QED
    BY <1>7, <1>8, <1>9, <2>1, <2>2
<1>11. ASSUME AllDistinct
       PROVE  pairs'[<<w, l>>] = Cardinality(ChargedTo(w, l)')
                                   - (IF w = l THEN Cardinality(Charges(w)') ELSE 0)
  <2>1. pairs[<<w, l>>] = Cardinality(ChargedTo(w, l))
                            - (IF w = l THEN Cardinality(Charges(w)) ELSE 0)
    BY <1>3, <1>11 DEF PairsCounted
  <2>2. CASE w # v
    BY <1>6, <1>7, <1>8, <1>9, <2>1, <2>2
  <2>3. CASE w = v
    <3>1. n = Cardinality(OfGroup(ArrivedOf(k), l)) - (IF l = v THEN 1 ELSE 0)
      BY <1>3, <1>4, <1>8, <1>11 DEF BucketKept, LosersCounted
    <3>2. /\ IsFiniteSet(ChargedTo(w, l)) /\ IsFiniteSet(OfGroup(ArrivedOf(k), l))
          /\ IsFiniteSet(Charges(w))
      <4>1. /\ ChargedTo(w, l) \subseteq Arrived /\ OfGroup(ArrivedOf(k), l) \subseteq Arrived
            /\ Charges(w) \subseteq Filled
        BY DEF ChargedTo, OfGroup, ArrivedOf, Charges
      <4>2. QED
        BY <1>3, <4>1, FS_Subset
    <3>3. /\ Cardinality(Charges(w)) \in Nat
          /\ Cardinality(Charges(w)') = Cardinality(Charges(w)) + 1
      BY <1>6, <2>3, <3>2, FS_AddElement, FS_CardinalityType
    <3>4. /\ Cardinality(ChargedTo(w, l)) \in Nat
          /\ Cardinality(OfGroup(ArrivedOf(k), l)) \in Nat
          /\ Cardinality(ChargedTo(w, l)') =
               Cardinality(ChargedTo(w, l)) + Cardinality(OfGroup(ArrivedOf(k), l))
      BY <1>7, <2>3, <3>2, DisjointUnion
    <3>5. pairs'[<<w, l>>] = pairs[<<w, l>>] + n
      BY <1>8, <2>3
    <3>6. CASE w = l
      BY <1>9, <2>1, <2>3, <3>1, <3>3, <3>4, <3>5, <3>6
    <3>7. CASE w # l
      BY <1>9, <2>1, <2>3, <3>1, <3>4, <3>5, <3>7
    <3>8. QED
      BY <3>6, <3>7
  <2>4. QED
    BY <2>2, <2>3
<1>12. QED
  BY <1>10, <1>11

\* The sorted members fill one slot; the others keep theirs.
LEMMA ResolveDInv ==
  ASSUME DInv, NEW k \in Keys, ResolveBucket(k) PROVE DInv'
<1>1. /\ Types /\ Scanned /\ pc = "resolve" /\ k \in todo /\ k \in Filled
      /\ todo' = todo \ {k} /\ pairs' = Record(buckets[k])
      /\ UNCHANGED <<input, pc, si, sj, buckets>> /\ Sets' = Sets
      /\ Len(Sets) # 1
  BY DEF DInv, ResolveBucket, Sets, Scanned, Types
<1>2. Arrived' = Arrived /\ Filled' = Filled /\ AllDistinct' = AllDistinct
  BY <1>1 DEF Arrived, Filled, AllDistinct, SetIndices, Copy
<1>3. /\ buckets[k].members \in Seq(Member) /\ buckets[k].idx \in 1 .. Len(result)
      /\ result \in Seq(Output) /\ Len(result) \in Nat
      /\ \A i \in Filled : /\ buckets[i].idx \in 1 .. Len(result)
                           /\ i # k => buckets[i].idx # buckets[k].idx
  <2>1. result \in Seq(Output) /\ Len(result) \in Nat
    BY <1>1 DEF Types
  <2>2. \A i \in Filled : /\ buckets[i].idx \in 1 .. Len(result)
                          /\ result[buckets[i].idx].series.key = i
    BY <1>1, SlotFacts
  <2>3. \A i \in Filled : i # k => buckets[i].idx # buckets[k].idx
    BY <1>1, <2>2
  <2>4. QED
    BY <1>1, <2>1, <2>2, <2>3, EntryFacts
<1>4. /\ result' \in Seq(Output) /\ Len(result') = Len(result)
      /\ \A n \in 1 .. Len(result) : n # buckets[k].idx => result'[n] = result[n]
      /\ Sorted(k)' => \E f \in SortMembers(buckets[k].members) :
                         result'[buckets[k].idx] = fillBucketGaps(buckets[k].members, f)
      /\ ~ Sorted(k)' => result' = result
  <2>1. Sorted(k)' <=> input.fillGaps /\ Len(buckets[k].members) > 1
    BY <1>1 DEF Sorted
  <2>2. CASE Sorted(k)'
    <3>1. PICK f \in SortMembers(buckets[k].members) :
            result' = [result EXCEPT ![buckets[k].idx] = fillBucketGaps(buckets[k].members, f)]
      BY <2>1, <2>2 DEF ResolveBucket
    <3>2. PICK ms : ms = buckets[k].members /\ ms \in Seq(Member) /\ Len(ms) > 1
                    /\ Len(ms) \in Nat /\ f \in SortMembers(ms)
      BY <1>3, <2>1, <2>2
    <3>3. \A i \in 1 .. Len(ms) : f[i] \in 1 .. Len(ms) /\ ms[f[i]] \in Member
      BY <3>2 DEF SortMembers
    <3>4. ms[f[1]].ordinal \in Ordinals /\ ms[f[1]].series \in Series
      BY <3>2, <3>3 DEF Member
    <3>5. [i \in 1 .. Len(ms) - 1 |-> ms[f[i + 1]]] \in Seq(Member)
      BY <3>2, <3>3
    <3>6. fillBucketGaps(ms, f) \in Output
      BY <3>4, <3>5 DEF fillBucketGaps, Output
    <3>7. QED
      BY <1>3, <2>2, <3>1, <3>2, <3>6
  <2>3. CASE ~ Sorted(k)'
    BY <1>3, <2>1, <2>3 DEF ResolveBucket
  <2>4. QED
    BY <2>2, <2>3
<1>5. Types'
  <2>1. pairs' \in [Ordinals \X Ordinals -> Nat]
    <3>1. ASSUME NEW w \in Ordinals, NEW l \in Ordinals PROVE pairs'[<<w, l>>] \in Nat
      <4>1. pairs[<<w, l>>] \in Nat
        BY <1>1 DEF Types
      <4>2. QED
        BY <1>1, <4>1, RecordCounts
    <3>2. pairs' = [p \in Ordinals \X Ordinals |-> pairs'[p]]
      BY <1>1 DEF Record
    <3>3. QED
      BY <3>1, <3>2
  <2>2. QED
    BY <1>1, <1>4, <2>1 DEF Types
<1>6. ASSUME NEW i \in Filled PROVE BucketKept(i)'
  <2>1. BucketKept(i) /\ ArrivedOf(i)' = ArrivedOf(i)
    BY <1>1, <1>2 DEF Scanned, ArrivedOf
  <2>2. FromSets(i)'
    BY <1>1, <2>1 DEF BucketKept, FromSets
  <2>3. (MembersKept(i) => MembersKept(i)') /\ (LosersCounted(i) => LosersCounted(i)')
    BY <1>1, <1>2, <2>1 DEF MembersKept, LosersCounted
  <2>4. SlotHolds(i)'
    <3>1. CASE i # k
      <4>1. Sorted(i)' <=> Sorted(i)
        BY <1>1, <3>1 DEF Sorted
      <4>2. result'[buckets[i].idx] = result[buckets[i].idx]
            /\ buckets[i].idx \in 1 .. Len(result')
        BY <1>3, <1>4, <3>1
      <4>3. QED
        BY <1>1, <2>1, <4>1, <4>2 DEF BucketKept, SlotHolds
    <3>2. CASE i = k
      <4>1. ~ Sorted(k)
        BY <1>1 DEF Sorted
      <4>2. result[buckets[k].idx] = Emitted(buckets[k].ordinal, buckets[k].lbls)
        BY <2>1, <3>2, <4>1 DEF BucketKept, SlotHolds
      <4>3. QED
        BY <1>1, <1>3, <1>4, <3>2, <4>2 DEF SlotHolds
    <3>3. QED
      BY <3>1, <3>2
  <2>5. QED
    BY <1>1, <1>2, <2>1, <2>2, <2>3, <2>4 DEF BucketKept
<1>7. LowestKept'
  BY <1>1, <1>2 DEF Scanned, LowestKept
<1>8. PairsCounted'
  BY <1>1, ResolveCounted
<1>9. \A n \in 1 .. Len(result') : \E i \in Filled : buckets[i].idx = n
  BY <1>1, <1>4 DEF Scanned
<1>10. Scanned'
  BY <1>1, <1>2, <1>6, <1>7, <1>8, <1>9 DEF Scanned
<1>11. QED
  BY <1>5, <1>10 DEF DInv

\* A single set is handed on: nothing is claimed of it but the types.
LEMMA PassThroughDInv == ASSUME DInv, PassThrough PROVE DInv'
<1>1. /\ Types /\ Len(Sets) = 1 /\ 1 \in SetIndices /\ pc' \in {"done", "error"}
      /\ UNCHANGED <<input, si, sj, buckets, pairs, todo>> /\ Sets' = Sets
  BY DEF DInv, PassThrough, SetIndices, Sets
<1>2. result' \in Seq(Output)
  <2>1. PICK n \in Nat : n = Len(Sets[1].series)
    BY <1>1, SetFacts DEF Types
  <2>2. \A i \in 1 .. n : Emitted(Sets[1].ordinal, Sets[1].series[i]) \in Output
    BY <1>1, <2>1, SetFacts DEF Types, Emitted, Output
  <2>3. result' = [i \in 1 .. n |-> Emitted(Sets[1].ordinal, Sets[1].series[i])]
    BY <2>1 DEF PassThrough
  <2>4. QED
    BY <2>2, <2>3
<1>3. Types'
  BY <1>1, <1>2 DEF Types
<1>4. QED
  BY <1>1, <1>3 DEF DInv

\* The return, like a step that changes nothing, leaves what has been merged.
LEMMA QuietDInv == ASSUME DInv, Return \/ UNCHANGED vars PROVE DInv'
<1>1. /\ UNCHANGED <<input, si, sj, buckets, result, pairs, todo>> /\ Sets' = Sets
      /\ pc' = pc \/ (pc = "resolve" /\ pc' = "done" /\ todo = {})
  BY DEF vars, Sets, Return
<1>2. Types'
  BY <1>1 DEF DInv, Types
<1>3. Arrived' = Arrived /\ Filled' = Filled /\ AllDistinct' = AllDistinct
  BY <1>1 DEF Arrived, Filled, AllDistinct, SetIndices, Copy
<1>4. ASSUME NEW k, BucketKept(k) PROVE BucketKept(k)'
  <2>1. ArrivedOf(k)' = ArrivedOf(k)
    BY <1>3 DEF ArrivedOf
  <2>2. FromSets(k)' /\ SlotHolds(k)'
    BY <1>1, <1>4, <2>1 DEF BucketKept, FromSets, SlotHolds, Sorted
  <2>3. (MembersKept(k) => MembersKept(k)') /\ (LosersCounted(k) => LosersCounted(k)')
    BY <1>1, <1>3, <2>1 DEF MembersKept, LosersCounted
  <2>4. QED
    BY <1>1, <1>3, <1>4, <2>2, <2>3 DEF BucketKept
<1>5. PairsCounted => PairsCounted'
  <2>1. \A w, l : Charges(w)' = Charges(w) /\ ChargedTo(w, l)' = ChargedTo(w, l)
    BY <1>1, <1>3 DEF Charges, ChargedTo
  <2>2. ASSUME PairsCounted, NEW w \in Ordinals, NEW l \in Ordinals
        PROVE  /\ pairs'[<<w, l>>] > 0 => ChargedTo(w, l)' # {}
               /\ AllDistinct =>
                    pairs'[<<w, l>>] = Cardinality(ChargedTo(w, l)')
                                         - (IF w = l THEN Cardinality(Charges(w)') ELSE 0)
    BY <1>1, <2>1, <2>2 DEF PairsCounted
  <2>3. QED
    BY <1>3, <2>2 DEF PairsCounted
<1>6. LowestKept => LowestKept'
  BY <1>1, <1>3 DEF LowestKept
<1>7. Scanned => Scanned'
  BY <1>1, <1>3, <1>4, <1>5, <1>6 DEF Scanned
<1>8. QED
  BY <1>1, <1>2, <1>7 DEF DInv

\* Every step keeps the invariant.
LEMMA NextDInv == DInv /\ [Next]_vars => DInv'
<1> SUFFICES ASSUME DInv, [Next]_vars PROVE DInv'
  OBVIOUS
<1>1. CASE PassThrough \/ NewBucket \/ SkipDuplicate \/ NewWinner \/ Loser
  BY <1>1, PassThroughDInv, NewBucketDInv, SkipDuplicateDInv, NewWinnerDInv, LoserDInv
<1>2. CASE EndOfSet \/ EndOfScan
  BY <1>2, EndOfSetDInv, EndOfScanDInv
<1>3. CASE (\E k \in Keys : ResolveBucket(k)) \/ Return
  BY <1>3, ResolveDInv, QuietDInv
<1>4. CASE Done \/ UNCHANGED vars
  BY <1>4, QuietDInv DEF Done
<1>5. QED
  BY <1>1, <1>2, <1>3, <1>4 DEF Next

\* The inductive invariant of the dedup: what the buckets, their slots and the
\* counts are of the series dedupSeriesSetsFillGaps has seen so far.
THEOREM SpecDInv == Spec => []DInv
  BY InitDInv, NextDInv, PTL DEF Spec

-----------------------------------------------------------------------------
(* What it shows of the result. *)

\* After the scan a group has won exactly the buckets in which it is the lowest.
LEMMA MergedFacts ==
  ASSUME DInv, Merged
  PROVE  /\ Types /\ Scanned /\ todo = {} /\ PairsCounted
         /\ Arrived = AllCopies
         /\ \A k : ArrivedOf(k) = Copies(k)
         /\ \A k \in Keys : k \in Filled <=> Holders(k) # {}
         /\ \A k \in Filled : \A w : Wins(w, k) <=> w = buckets[k].ordinal
<1>1. Types /\ Scanned /\ todo = {} /\ PairsCounted /\ si > Len(Sets) /\ input \in Inputs
  BY DEF DInv, Merged, Scanned, Types
<1>2. Arrived = AllCopies
  BY <1>1, ScanComplete
<1>3. \A k : ArrivedOf(k) = Copies(k)
  BY <1>1, <1>2, CopiesOfKey DEF ArrivedOf
<1>4. \A k : Holders(k) = {c.ordinal : c \in Copies(k)}
  BY <1>1, CopiesOfKey
<1>5. ASSUME NEW k \in Keys PROVE k \in Filled <=> Holders(k) # {}
  <2>1. ASSUME k \in Filled PROVE Holders(k) # {}
    <3>1. Winner(buckets[k]) \in Copies(k)
      BY <1>1, <1>3, <2>1 DEF Scanned, BucketKept, FromSets
    <3>2. QED
      BY <1>4, <3>1
  <2>2. ASSUME Holders(k) # {} PROVE k \in Filled
    <3>1. PICK c \in ArrivedOf(k) : TRUE
      BY <1>3, <1>4, <2>2
    <3>2. QED
      BY <1>1, <3>1 DEF ArrivedOf, Scanned, LowestKept
  <2>3. QED
    BY <2>1, <2>2
<1>6. ASSUME NEW k \in Filled, NEW w PROVE Wins(w, k) <=> w = buckets[k].ordinal
  <2>1. PICK o \in Nat : o = buckets[k].ordinal
    BY <1>1, EntryFacts
  <2>2. o \in Holders(k)
    <3>1. Winner(buckets[k]) \in Copies(k) /\ Winner(buckets[k]).ordinal = o
      BY <1>1, <1>3, <2>1, EntryFacts DEF Scanned, BucketKept, FromSets
    <3>2. QED
      BY <1>4, <3>1
  <2>3. \A h \in Holders(k) : o <= h /\ h \in Nat
    <3> TAKE h \in Holders(k)
    <3>1. PICK c \in ArrivedOf(k) : c.ordinal = h
      BY <1>3, <1>4
    <3>2. c \in Arrived /\ c.series.key = k /\ c.ordinal \in Nat
      BY <1>1, ArrivedFacts DEF ArrivedOf
    <3>3. QED
      BY <1>1, <2>1, <3>1, <3>2 DEF Scanned, LowestKept
  <2>4. ASSUME Wins(w, k) PROVE w = o
    <3>1. w \in Holders(k) /\ w <= o
      BY <2>2, <2>4 DEF Wins
    <3>2. o <= w /\ w \in Nat
      BY <2>3, <3>1
    <3>3. QED
      BY <3>1, <3>2
  <2>5. Wins(o, k)
    BY <2>2, <2>3 DEF Wins
  <2>6. QED
    BY <2>1, <2>4, <2>5
<1>7. QED
  BY <1>1, <1>2, <1>3, <1>5, <1>6

\* Every slot is the slot of one bucket.
LEMMA SlotOwner ==
  ASSUME Types, Scanned, NEW n \in 1 .. Len(result)
  PROVE  \E k \in Filled : /\ buckets[k].idx = n /\ result[n].series.key = k
                           /\ \A m \in 1 .. Len(result) : result[m].series.key = k => m = n
<1>1. \A m \in 1 .. Len(result) : \E k \in Filled : buckets[k].idx = m
  BY DEF Scanned
<1>2. \A k \in Filled : result[buckets[k].idx].series.key = k
  BY SlotFacts
<1>3. PICK k \in Filled : buckets[k].idx = n
  BY <1>1
<1>4. QED
  BY <1>1, <1>2, <1>3

\* For any number of groups and series, in any order, with or without gap filling:
\* of the series that are the same modulo the ignored labels one is returned, whole,
\* and it is one of the lowest group that has it.
THEOREM LowestOrdinal == Spec => []LowestOrdinalWins
<1>1. DInv => LowestOrdinalWins
  <2> SUFFICES ASSUME DInv, Merged
               PROVE  /\ \A k \in Keys : Holders(k) # {} =>
                           \E n \in 1 .. Len(result) : result[n].series.key = k
                      /\ \A n \in 1 .. Len(result) :
                           LET k == result[n].series.key IN
                           /\ Wins(result[n].ordinal, k)
                           /\ [ordinal |-> result[n].ordinal, series |-> result[n].series]
                                \in Copies(k)
                           /\ \A m \in 1 .. Len(result) : result[m].series.key = k => m = n
    BY DEF LowestOrdinalWins
  <2>1. /\ Types /\ Scanned
        /\ \A k : ArrivedOf(k) = Copies(k)
        /\ \A k \in Keys : k \in Filled <=> Holders(k) # {}
        /\ \A k \in Filled : \A w : Wins(w, k) <=> w = buckets[k].ordinal
    BY MergedFacts
  <2>2. ASSUME NEW k \in Keys, Holders(k) # {}
        PROVE  \E n \in 1 .. Len(result) : result[n].series.key = k
    BY <2>1, <2>2, SlotFacts
  <2>3. ASSUME NEW n \in 1 .. Len(result), NEW k, k = result[n].series.key
        PROVE  /\ Wins(result[n].ordinal, k)
               /\ [ordinal |-> result[n].ordinal, series |-> result[n].series] \in Copies(k)
               /\ \A m \in 1 .. Len(result) : result[m].series.key = k => m = n
    <3>1. k \in Filled /\ buckets[k].idx = n
          /\ \A m \in 1 .. Len(result) : result[m].series.key = k => m = n
      BY <2>1, <2>3, SlotOwner
    <3>2. /\ result[n].ordinal = buckets[k].ordinal
          /\ [ordinal |-> result[n].ordinal, series |-> result[n].series] \in ArrivedOf(k)
      BY <2>1, <3>1, SlotFacts
    <3>3. QED
      BY <2>1, <3>1, <3>2
  <2>4. QED
    BY <2>2, <2>3
<1>2. QED
  BY <1>1, SpecDInv, PTL

\* Every collision is charged to the group that won the bucket in the end, "regardless
\* of input order", and each losing series is counted once.
THEOREM AttributionCorrect == Spec => []AttributionExact
<1>1. DInv => AttributionExact
  <2> SUFFICES ASSUME DInv, Merged, NEW w \in Ordinals, NEW l \in Ordinals
               PROVE  /\ pairs[<<w, l>>] > 0 => \E k \in Keys : Wins(w, k) /\ l \in Holders(k)
                      /\ AllDistinct =>
                           pairs[<<w, l>>] =
                             Cardinality({c \in UNION {Copies(k) : k \in {i \in Keys : Wins(w, i)}} :
                                            c.ordinal = l})
                               - (IF w = l THEN Cardinality({i \in Keys : Wins(w, i)}) ELSE 0)
    BY DEF AttributionExact
  <2>1. /\ Types /\ Scanned /\ todo = {} /\ PairsCounted
        /\ \A k : ArrivedOf(k) = Copies(k)
        /\ \A k \in Keys : k \in Filled <=> Holders(k) # {}
        /\ \A k \in Filled : \A o : Wins(o, k) <=> o = buckets[k].ordinal
    BY MergedFacts
  <2>2. {i \in Keys : Wins(w, i)} = Charges(w)
    BY <2>1 DEF Wins, Charges, Filled
  <2>3. {c \in UNION {Copies(k) : k \in Charges(w)} : c.ordinal = l} = ChargedTo(w, l)
    <3>1. \A c : c \in UNION {Copies(k) : k \in Charges(w)} <=>
                   c \in Arrived /\ c.series.key \in Charges(w)
      BY <2>1 DEF ArrivedOf
    <3>2. QED
      BY <3>1 DEF ChargedTo
  <2>4. ASSUME pairs[<<w, l>>] > 0 PROVE \E k \in Keys : Wins(w, k) /\ l \in Holders(k)
    <3>1. PICK c \in ChargedTo(w, l) : TRUE
      BY <2>1, <2>4 DEF PairsCounted
    <3>2. PICK k \in Charges(w) : c \in Copies(k) /\ c.ordinal = l
      BY <2>3, <3>1
    <3>3. k \in Keys /\ Wins(w, k)
      BY <2>2
    <3>4. l \in Holders(k)
      BY <2>1, <3>2, CopiesOfKey DEF Types
    <3>5. QED
      BY <3>3, <3>4
  <2>5. AllDistinct => pairs[<<w, l>>] = Cardinality(ChargedTo(w, l))
                                           - (IF w = l THEN Cardinality(Charges(w)) ELSE 0)
    BY SMTT(60), <2>1 DEF PairsCounted
  <2>6. QED
    BY <2>2, <2>3, <2>4, <2>5
<1>2. QED
  BY <1>1, SpecDInv, PTL

\* A resolved bucket with several members: what fillBucketGaps offers the winner.
LEMMA SortedFillers ==
  ASSUME Types, Scanned, NEW k \in Filled, Sorted(k), NEW r, r = result[buckets[k].idx]
  PROVE  /\ \A i \in 1 .. Len(r.fillers) : r.ordinal <= r.fillers[i].ordinal
         /\ \A i, j \in 1 .. Len(r.fillers) :
              i < j => r.fillers[i].ordinal <= r.fillers[j].ordinal
         /\ AllDistinct =>
              {r.fillers[i] : i \in 1 .. Len(r.fillers)} =
                ArrivedOf(k) \ {[ordinal |-> r.ordinal, series |-> r.series]}
<1>1. BucketKept(k) /\ input.fillGaps
  BY DEF Scanned, Sorted
<1>2. PICK ms : ms = buckets[k].members /\ ms \in Seq(Member) /\ Len(ms) > 1 /\ Len(ms) \in Nat
  BY EntryFacts DEF Sorted
<1>3. PICK f \in SortMembers(ms) : r = fillBucketGaps(ms, f)
  BY <1>1, <1>2 DEF BucketKept, SlotHolds
<1>4. /\ \A i \in 1 .. Len(ms) : f[i] \in 1 .. Len(ms)
      /\ \A i, j \in 1 .. Len(ms) :
           i < j => f[i] # f[j] /\ ms[f[i]].ordinal <= ms[f[j]].ordinal
  BY DEF SortMembers
<1>5. PICK g : /\ g = r.fillers /\ Len(g) = Len(ms) - 1
               /\ \A i \in 1 .. Len(ms) - 1 : g[i] = ms[f[i + 1]]
               /\ r.ordinal = ms[f[1]].ordinal /\ r.series = ms[f[1]].series
  BY SMTT(60), <1>2, <1>3 DEF fillBucketGaps
<1>6. \A i \in 1 .. Len(g) : r.ordinal <= g[i].ordinal
  <2> TAKE i \in 1 .. Len(g)
  <2>1. 1 \in 1 .. Len(ms) /\ i + 1 \in 1 .. Len(ms) /\ 1 < i + 1 /\ g[i] = ms[f[i + 1]]
    BY <1>2, <1>5
  <2>2. QED
    BY <1>4, <1>5, <2>1
<1>7. ASSUME NEW i \in 1 .. Len(g), NEW j \in 1 .. Len(g), i < j
      PROVE  g[i].ordinal <= g[j].ordinal
  <2>1. /\ i + 1 \in 1 .. Len(ms) /\ g[i] = ms[f[i + 1]]
        /\ j + 1 \in 1 .. Len(ms) /\ g[j] = ms[f[j + 1]]
        /\ i + 1 < j + 1
    BY <1>2, <1>5, <1>7
  <2>2. QED
    BY <1>4, <2>1
<1>8. ASSUME AllDistinct
      PROVE  {g[i] : i \in 1 .. Len(g)} =
               ArrivedOf(k) \ {[ordinal |-> r.ordinal, series |-> r.series]}
  <2>1. /\ \A i \in 1 .. Len(ms) : ms[i] \in ArrivedOf(k)
        /\ \A c \in ArrivedOf(k) : \E i \in 1 .. Len(ms) : ms[i] = c
        /\ \A i, j \in 1 .. Len(ms) : ms[i] = ms[j] => i = j
    BY <1>1, <1>2, <1>8 DEF BucketKept, MembersKept
  <2>2. 1 \in 1 .. Len(ms) /\ f[1] \in 1 .. Len(ms)
    BY <1>2, <1>4
  <2>3. [ordinal |-> r.ordinal, series |-> r.series] = ms[f[1]]
    <3>1. ms[f[1]] \in Member
      BY <1>2, <2>2
    <3>2. QED
      BY <1>5, <3>1 DEF Member
  <2>4. ASSUME NEW i \in 1 .. Len(g) PROVE g[i] \in ArrivedOf(k) /\ g[i] # ms[f[1]]
    <3>1. i + 1 \in 1 .. Len(ms) /\ 1 < i + 1 /\ g[i] = ms[f[i + 1]]
      BY SMTT(60), <1>2, <1>5
    <3>2. f[i + 1] \in 1 .. Len(ms) /\ f[1] # f[i + 1]
      BY <1>4, <2>2, <3>1
    <3>3. QED
      BY <2>1, <2>2, <3>1, <3>2
  <2>5. ASSUME NEW c \in ArrivedOf(k), c # ms[f[1]] PROVE \E i \in 1 .. Len(g) : g[i] = c
    <3>1. PICK i \in 1 .. Len(ms) : ms[i] = c
      BY <2>1
    <3>2. PICK j \in 1 .. Len(ms) : f[j] = i
      BY <1>2, SortReaches
    <3>3. j # 1
      BY <2>5, <3>1, <3>2
    <3>4. j - 1 \in 1 .. Len(g) /\ (j - 1) + 1 = j
      BY <1>2, <1>5, <3>3
    <3>5. g[j - 1] = c
      BY <1>5, <3>1, <3>2, <3>4
    <3>6. QED
      BY <3>4, <3>5
  <2>6. QED
    BY <2>3, <2>4, <2>5
<1>9. QED
  BY <1>5, <1>6, <1>7, <1>8

\* The gaps of a winner are offered to every other copy of the series, in the order of
\* the groups, whichever was seen first.
THEOREM PriorityFilled == Spec => []FilledByPriority
<1>1. DInv => FilledByPriority
  <2> SUFFICES ASSUME DInv, Merged, input.fillGaps, NEW n \in 1 .. Len(result),
                      NEW r, r = result[n]
               PROVE  /\ \A i \in 1 .. Len(r.fillers) : r.ordinal <= r.fillers[i].ordinal
                      /\ \A i, j \in 1 .. Len(r.fillers) :
                           i < j => r.fillers[i].ordinal <= r.fillers[j].ordinal
                      /\ AllDistinct =>
                           {r.fillers[i] : i \in 1 .. Len(r.fillers)} =
                             Copies(r.series.key) \
                               {[ordinal |-> r.ordinal, series |-> r.series]}
    BY DEF FilledByPriority
  <2>1. Types /\ Scanned /\ todo = {} /\ pc = "done" /\ \A k : ArrivedOf(k) = Copies(k)
    BY MergedFacts DEF Merged
  <2>2. PICK k \in Filled : buckets[k].idx = n /\ r.series.key = k
    BY <2>1, SlotOwner
  <2>3. CASE Sorted(k)
    BY SMTT(60), <2>1, <2>2, <2>3, SortedFillers
  <2>4. CASE ~ Sorted(k)
    <3>1. PICK ms : ms = buckets[k].members /\ ms \in Seq(Member)
      BY <2>1, EntryFacts
    <3>2. Len(ms) <= 1
      BY <2>1, <2>4, <3>1 DEF Sorted
    <3>3. r = Emitted(buckets[k].ordinal, buckets[k].lbls) /\ MembersKept(k)
      BY <2>1, <2>2, <2>4 DEF Scanned, BucketKept, SlotHolds
    <3>4. /\ r.fillers = <<>> /\ Len(<<>>) = 0
          /\ [ordinal |-> r.ordinal, series |-> r.series] = Winner(buckets[k])
      BY <3>3 DEF Emitted, Winner
    <3>5. ASSUME AllDistinct PROVE ArrivedOf(k) \ {Winner(buckets[k])} = {}
      <4>1. /\ \A c \in ArrivedOf(k) : \E i \in 1 .. Len(ms) : ms[i] = c
            /\ \E i \in 1 .. Len(ms) : ms[i] = Winner(buckets[k])
        BY <3>1, <3>3, <3>5 DEF MembersKept
      <4>2. \A i \in 1 .. Len(ms) : i = 1
        BY <3>1, <3>2
      <4>3. QED
        BY <4>1, <4>2
    <3>6. \A i \in 1 .. Len(r.fillers) : FALSE
      BY <3>4
    <3>7. QED
      BY <2>1, <2>2, <3>4, <3>5, <3>6
  <2>5. QED
    BY <2>3, <2>4
<1>2. QED
  BY <1>1, SpecDInv, PTL
=============================================================================
