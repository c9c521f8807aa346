------------------------------ MODULE MCUIPages ------------------------------
(***************************************************************************)
(* TLC instance of the injected page, served under a route prefix.         *)
(***************************************************************************)
EXTENDS UIPages

MCPrefix == <<"px">>
MCTabs == {"query", "tsdb-status"}
MCTop == {"targets"}
MCLow == {"status", "tsdb-status"}

\* A VictoriaMetrics group with two replicas, and a group of no declared type
\* that has no target yet.
MCBackends ==
  << [name |-> "vm", type |-> "victoriametrics", urls |-> <<"u1", "u2">>, answers |-> "day"],
     [name |-> "any", type |-> "", urls |-> <<>>, answers |-> "day"] >>

Filter(n, d) == [topN |-> n, f |-> [x \in FilterNames |-> IF x = "date" THEN d ELSE ""]]
MCSubmissions == {Filter("", "2026-01-01"), Filter("0", "")}

\* Three calls, one more than the Recorder lists here; the group of the first is
\* one the snapshot misses.
MCCalls == <<1, 0, 0>>
MCSnapshot == {0}
=============================================================================
