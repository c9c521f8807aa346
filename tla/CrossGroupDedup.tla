-------------------------- MODULE CrossGroupDedup ---------------------------
(***************************************************************************)
(* promclient.dedupSeriesSetsFillGaps: one pass over the SeriesSets of the *)
(* server groups puts every series into the bucket of its identity (its    *)
(* labels without the ignored ones).  The lowest ordinal of a bucket wins; *)
(* collisions are attributed, and the winner's gaps filled, after the last *)
(* series has been seen.  GapFill models the filling of one bucket.        *)
(*                                                                         *)
(* A series is [key, ext]: its reduced labels and the ignored ones, which  *)
(* together are its full labels.                                           *)
(***************************************************************************)
EXTENDS Integers, Sequences, FiniteSets

CONSTANTS
  Ordinals, \* positions of the server groups in the config
  Keys,     \* reduced label sets
  Exts,     \* values of the ignored labels
  Inputs,   \* calls: [sets, fillGaps]
  NoEntry   \* a bucket that does not exist

Series == [key : Keys, ext : Exts]
SeriesSets == [ordinal : Ordinals, series : Seq(Series), fails : BOOLEAN]
Member == [ordinal : Ordinals, series : Series]
Entry == [lbls : Series, ordinal : Ordinals, idx : Nat \ {0}, losers : Seq(Ordinals),
          members : Seq(Member)]

\* The sets may come in any order, each from another group.  A series two of them
\* share with all its labels comes from the lower ordinal first: the callers sort
\* the sets, and the preflight gives the groups different labels.
ASSUME InputsAssumption ==
  /\ Ordinals \subseteq Nat
  /\ NoEntry \notin Entry
  /\ Inputs \subseteq [sets : Seq(SeriesSets), fillGaps : BOOLEAN]
  /\ \A in \in Inputs : \A i, j \in 1 .. Len(in.sets) :
       i < j =>
         /\ in.sets[i].ordinal # in.sets[j].ordinal
         /\ \A k \in 1 .. Len(in.sets[i].series), l \in 1 .. Len(in.sets[j].series) :
              in.sets[i].series[k] = in.sets[j].series[l] =>
                in.sets[i].ordinal < in.sets[j].ordinal

VARIABLES
  input,   \* the call
  pc,      \* "scan", "resolve", "done", "error"
  si, sj,  \* the set, and the series of it, the scan is at
  buckets, \* reduced labels -> entry
  result,  \* the series emitted, by first appearance, with their fillers
  pairs,   \* DedupStats.Pairs: <<winner, loser>> -> collisions
  todo     \* buckets not yet resolved

vars == <<input, pc, si, sj, buckets, result, pairs, todo>>

Sets == input.sets
Emitted(ordinal, series) == [ordinal |-> ordinal, series |-> series, fillers |-> <<>>]

Init ==
  /\ input \in Inputs
  /\ pc = "scan"
  /\ si = 1 /\ sj = 1
  /\ buckets = [k \in Keys |-> NoEntry]
  /\ result = <<>>
  /\ pairs = [p \in Ordinals \X Ordinals |-> 0]
  /\ todo = {}

\* A single set is handed on as it is, its duplicates and its error included.
PassThrough ==
  /\ pc = "scan"
  /\ Len(Sets) = 1
  /\ result' = [i \in 1 .. Len(Sets[1].series) |->
                  Emitted(Sets[1].ordinal, Sets[1].series[i])]
  /\ pc' = IF Sets[1].fails THEN "error" ELSE "done"
  /\ UNCHANGED <<input, si, sj, buckets, pairs, todo>>

(***************************************************************************)
(* The scan.                                                               *)
(***************************************************************************)
Scanning ==
  /\ pc = "scan"
  /\ Len(Sets) # 1
  /\ si <= Len(Sets)
  /\ sj <= Len(Sets[si].series)

Current == Sets[si].series[sj]
Existing == buckets[Current.key]
AsMember == [ordinal |-> Sets[si].ordinal, series |-> Current]

\* Members are only recorded when gaps are filled.
WithMember(ms) == IF input.fillGaps THEN Append(ms, AsMember) ELSE ms

\* idx: the slot the append fills.
NewSlot == Len(result) + 1

NewBucket ==
  /\ Scanning
  /\ Existing = NoEntry
  /\ result' = Append(result, Emitted(Sets[si].ordinal, Current))
  /\ buckets' = [buckets EXCEPT ![Current.key] =
                   [lbls |-> Current, ordinal |-> Sets[si].ordinal, idx |-> NewSlot,
                    losers |-> <<>>, members |-> WithMember(<<>>)]]
  /\ sj' = sj + 1
  /\ UNCHANGED <<input, pc, si, pairs, todo>>

\* Exact duplicate of the winner: the first is kept.
SkipDuplicate ==
  /\ Scanning
  /\ Existing # NoEntry
  /\ Existing.lbls = Current
  /\ sj' = sj + 1
  /\ UNCHANGED <<input, pc, si, buckets, result, pairs, todo>>

\* Mutant: the latest series of a bucket wins.
Beats_latest(ordinal, e) == TRUE

\* The lower ordinal wins.
Beats(ordinal, e) == ordinal < e.ordinal

NewWinner ==
  /\ Scanning
  /\ Existing # NoEntry
  /\ Existing.lbls # Current
  /\ Beats(Sets[si].ordinal, Existing)
  /\ buckets' = [buckets EXCEPT ![Current.key] =
                   [Existing EXCEPT !.losers = Append(@, Existing.ordinal),
                                    !.lbls = Current,
                                    !.ordinal = Sets[si].ordinal,
                                    !.members = WithMember(@)]]
  /\ result' = [result EXCEPT ![Existing.idx] = Emitted(Sets[si].ordinal, Current)]
  /\ sj' = sj + 1
  /\ UNCHANGED <<input, pc, si, pairs, todo>>

Loser ==
  /\ Scanning
  /\ Existing # NoEntry
  /\ Existing.lbls # Current
  /\ ~ Beats(Sets[si].ordinal, Existing)
  /\ buckets' = [buckets EXCEPT ![Current.key] =
                   [Existing EXCEPT !.losers = Append(@, Sets[si].ordinal),
                                    !.members = WithMember(@)]]
  /\ sj' = sj + 1
  /\ UNCHANGED <<input, pc, si, result, pairs, todo>>

\* The set is used up.  Its error discards everything.
EndOfSet ==
  /\ pc = "scan"
  /\ Len(Sets) # 1
  /\ si <= Len(Sets)
  /\ sj > Len(Sets[si].series)
  /\ \/ /\ Sets[si].fails
        /\ pc' = "error"
        /\ result' = <<>>
        /\ UNCHANGED <<si, sj>>
     \/ /\ ~ Sets[si].fails
        /\ si' = si + 1 /\ sj' = 1
        /\ UNCHANGED <<pc, result>>
  /\ UNCHANGED <<input, buckets, pairs, todo>>

EndOfScan ==
  /\ pc = "scan"
  /\ Len(Sets) # 1
  /\ si > Len(Sets)
  /\ pc' = "resolve"
  /\ todo' = {k \in Keys : buckets[k] # NoEntry}
  /\ UNCHANGED <<input, si, sj, buckets, result, pairs>>

(***************************************************************************)
(* Attribution and filling, bucket by bucket in the order of a Go map.     *)
(***************************************************************************)
Count(s, x) == Cardinality({i \in 1 .. Len(s) : s[i] = x})

\* Mutant: a collision is charged to the loser before it.
Charged_previous(e, i) == IF i = 1 THEN e.losers[1] ELSE e.losers[i - 1]

\* The winner the i-th collision of a bucket is attributed to.
Charged(e, i) == e.ordinal

\* DedupStats.Record for every loser of the bucket.
Record(e) ==
  [p \in Ordinals \X Ordinals |->
     pairs[p] + Cardinality({i \in 1 .. Len(e.losers) : <<Charged(e, i), e.losers[i]>> = p})]

\* Mutant: the members are filled from in the order they arrived in.
SortMembers_arrival(ms) == {[i \in 1 .. Len(ms) |-> i]}

\* sort.Slice by ordinal, which need not be stable: the orders it may leave.
SortMembers(ms) ==
  {f \in [1 .. Len(ms) -> 1 .. Len(ms)] :
     \A i, j \in 1 .. Len(ms) :
       i < j => f[i] # f[j] /\ ms[f[i]].ordinal <= ms[f[j]].ordinal}

\* The lowest member with its labels, and whom its gaps are filled from.
fillBucketGaps(ms, f) ==
  [ordinal |-> ms[f[1]].ordinal, series |-> ms[f[1]].series,
   fillers |-> [i \in 1 .. Len(ms) - 1 |-> ms[f[i + 1]]]]

ResolveBucket(k) ==
  /\ pc = "resolve"
  /\ k \in todo
  /\ todo' = todo \ {k}
  /\ LET e == buckets[k] IN
     /\ pairs' = Record(e)
     /\ \/ /\ input.fillGaps /\ Len(e.members) > 1
           /\ \E f \in SortMembers(e.members) :
                result' = [result EXCEPT ![e.idx] = fillBucketGaps(e.members, f)]
        \/ /\ ~ (input.fillGaps /\ Len(e.members) > 1)
           /\ UNCHANGED result
  /\ UNCHANGED <<input, pc, si, sj, buckets>>

Return ==
  /\ pc = "resolve"
  /\ todo = {}
  /\ pc' = "done"
  /\ UNCHANGED <<input, si, sj, buckets, result, pairs, todo>>

Done == pc \in {"done", "error"} /\ UNCHANGED vars

Next ==
  \/ PassThrough
  \/ NewBucket \/ SkipDuplicate \/ NewWinner \/ Loser \/ EndOfSet \/ EndOfScan
  \/ (\E k \in Keys : ResolveBucket(k)) \/ Return
  \/ Done

Spec == Init /\ [][Next]_vars

-----------------------------------------------------------------------------
(***************************************************************************)
(* Properties.                                                             *)
(***************************************************************************)
SetIndices == 1 .. Len(Sets)
SeriesOf(i) == {Sets[i].series[j] : j \in 1 .. Len(Sets[i].series)}

\* The groups that returned a series with reduced labels k.
Holders(k) == {Sets[i].ordinal : i \in {n \in SetIndices : \E x \in SeriesOf(n) : x.key = k}}
Wins(o, k) == o \in Holders(k) /\ \A h \in Holders(k) : o <= h

\* The series with reduced labels k, each with the group it came from.
Copies(k) ==
  UNION {{[ordinal |-> Sets[i].ordinal, series |-> x] : x \in {y \in SeriesOf(i) : y.key = k}} :
           i \in SetIndices}

\* No two series of the call have all their labels in common.
AllDistinct ==
  \A i, n \in SetIndices : \A j \in 1 .. Len(Sets[i].series), l \in 1 .. Len(Sets[n].series) :
    Sets[i].series[j] = Sets[n].series[l] => i = n /\ j = l

Merged == pc = "done" /\ Len(Sets) # 1

\* Of all series that are the same one modulo the ignored labels exactly one is
\* returned, whole, from the lowest group that has it; in whatever order the sets
\* come, with or without gap filling.
LowestOrdinalWins ==
  Merged =>
    /\ \A k \in Keys : Holders(k) # {} =>
         \E n \in 1 .. Len(result) : result[n].series.key = k
    /\ \A n \in 1 .. Len(result) :
         LET k == result[n].series.key IN
         /\ Wins(result[n].ordinal, k)
         /\ [ordinal |-> result[n].ordinal, series |-> result[n].series] \in Copies(k)
         /\ \A m \in 1 .. Len(result) : result[m].series.key = k => m = n

\* Every collision is charged to the final winner of its bucket and to the group
\* that lost it, and every losing series is counted once, "regardless of input
\* order" (DedupStats).
AttributionExact ==
  Merged =>
    \A w, l \in Ordinals :
      /\ pairs[w, l] > 0 => \E k \in Keys : Wins(w, k) /\ l \in Holders(k)
      /\ AllDistinct =>
           pairs[w, l] =
             LET won == {k \in Keys : Wins(w, k)} IN
             Cardinality({c \in UNION {Copies(k) : k \in won} : c.ordinal = l})
               - (IF w = l THEN Cardinality(won) ELSE 0)

\* The gaps of a winner are offered to every other copy of the series, in the
\* order of the groups, also when the winner was seen last.
FilledByPriority ==
  (Merged /\ input.fillGaps) =>
    \A n \in 1 .. Len(result) :
      LET r == result[n]
          f == r.fillers
      IN /\ \A i \in 1 .. Len(f) : r.ordinal <= f[i].ordinal
         /\ \A i, j \in 1 .. Len(f) : i < j => f[i].ordinal <= f[j].ordinal
         /\ AllDistinct =>
              {f[i] : i \in 1 .. Len(f)} =
                Copies(r.series.key) \ {[ordinal |-> r.ordinal, series |-> r.series]}
=============================================================================
