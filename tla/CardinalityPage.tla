--------------------------- MODULE CardinalityPage ---------------------------
(***************************************************************************)
(* The Cardinality page: the form and the requests of cardinality.js, and  *)
(* the cardinality.json endpoint that asks one replica of every group.     *)
(* The page neither cancels a request when another one is sent nor checks  *)
(* which one an answer belongs to.                                         *)
(***************************************************************************)
EXTENDS Integers, Sequences, FiniteSets, SequencesExt

CONSTANTS
  CardBackends, \* the configured groups: declared type, replicas, and whether they
                \* answer for a head block or, as VictoriaMetrics does, for a day
  Submissions,  \* the filters a user may ask for, in the page's URL or its form
  MaxLoads      \* bound: requests of the page in flight at once

FilterNames == {"match[]", "focusLabel", "date"}
NoFilters   == [topN |-> "", f |-> [n \in FilterNames |-> ""]]

ASSUME CardinalityAssumption ==
  /\ \A i \in DOMAIN CardBackends : DOMAIN CardBackends[i] = {"name", "type", "urls", "answers"}
  /\ \A q \in Submissions : DOMAIN q = {"topN", "f"} /\ DOMAIN q.f = FilterNames
  /\ MaxLoads \in Nat \ {0}

VARIABLES
  filters, \* the filters of the page
  loads,   \* per slot, a request: its query and, once the server answered, the answer
  status,  \* the status line: "", "Loading...", "Updated"
  shown    \* the answer in the page: the query it belongs to, an error, the cards

cardVars == <<filters, loads, status, shown>>

LoadSlots == 1 .. MaxLoads
NoLoad  == [st |-> "free"]
Nothing == [q |-> NoFilters, error |-> FALSE, cards |-> <<>>]

Query(fs) == [fs EXCEPT !.topN = IF @ = "" THEN "10" ELSE @]

\* The filters come from the page's URL.
CardInit ==
  /\ filters \in {Query(fs) : fs \in Submissions}
  /\ loads = [s \in LoadSlots |-> NoLoad]
  /\ status = "" /\ shown = Nothing

\* The page without filters, as its link in the menu opens it.
CardReset ==
  /\ filters' = Query(NoFilters)
  /\ loads' = [s \in LoadSlots |-> NoLoad]
  /\ status' = "" /\ shown' = Nothing

-----------------------------------------------------------------------------
(* The server. *)

\* topN from 1 to 1000, a date that is one; the page never sends an empty topN.
parseCardinalityQuery(q) == q.topN \in {"5", "10"} /\ q.f["date"] # "bad"

Asked(q) == {n \in FilterNames : q.f[n] # ""}

\* Mutant: filters a backend does not take are dropped silently.
tsdbStatusParams_dropped(type, q) ==
  [sent |-> IF type = "victoriametrics" THEN Asked(q) ELSE {}, notApplied |-> {}]

\* What one backend type is sent of the filters, and what is reported back.
tsdbStatusParams(type, q) ==
  [sent |-> IF type = "victoriametrics" THEN Asked(q) ELSE {},
   notApplied |-> IF type = "victoriametrics" THEN {} ELSE Asked(q)]

\* fillCardinality names the day asked for, whether or not the date was sent.
Coverage(b, q) ==
  CASE b.answers = "head" -> "head"
    [] b.answers = "day" /\ q.f["date"] = "" -> "today"
    [] b.answers = "day" /\ q.f["date"] # "" -> q.f["date"]

\* The replicas are asked in order until one answers.
groupCardinality(b, q, up) ==
  LET p   == tsdbStatusParams(b.type, q)
      ok  == {i \in DOMAIN b.urls : b.urls[i] \in up}
  IN [name |-> b.name, sent |-> p.sent, notApplied |-> p.notApplied, topN |-> q.topN,
      error |-> ok = {}, coverage |-> IF ok = {} THEN "" ELSE Coverage(b, q),
      target |-> IF ok = {} THEN "" ELSE b.urls[CHOOSE i \in ok : \A j \in ok : i <= j]]

collectCardinality(q, up) ==
  [i \in DOMAIN CardBackends |-> groupCardinality(CardBackends[i], q, up)]

Replicas == UNION {ToSet(CardBackends[i].urls) : i \in DOMAIN CardBackends}

\* up: the replicas that answered while the request was served.
serveCardinality(s) ==
  /\ loads[s].st = "sent"
  /\ \/ /\ parseCardinalityQuery(loads[s].q)
        /\ \E up \in SUBSET Replicas :
             loads' = [loads EXCEPT ![s] = [st |-> "ok", q |-> @.q, cards |-> collectCardinality(@.q, up)]]
     \/ /\ ~ parseCardinalityQuery(loads[s].q)
        /\ loads' = [loads EXCEPT ![s] = [st |-> "rejected", q |-> @.q]]
  /\ UNCHANGED <<filters, status, shown>>

-----------------------------------------------------------------------------
(* The page. *)

\* load: the status line, then the request with the filters of this moment.
load(fs) ==
  \E s \in LoadSlots :
    /\ loads[s].st = "free" /\ \A r \in 1 .. s - 1 : loads[r].st # "free"
    /\ loads' = [loads EXCEPT ![s] = [st |-> "sent", q |-> Query(fs)]]
    /\ status' = "Loading..."
    /\ UNCHANGED shown

\* The form's submit handler takes all fields over, then loads.  The browser
\* submits no form with a topN out of range or half a date.
Submit(fs) ==
  /\ parseCardinalityQuery(Query(fs))
  /\ filters' = fs
  /\ load(fs)

\* A card shows an error or what the numbers cover, and in both cases the filters
\* that were not applied; sent, what the backend was asked, is not on it.
coverageText(g) == IF g.error THEN "" ELSE g.coverage
card(g) == [name |-> g.name, error |-> g.error, target |-> g.target, sent |-> g.sent,
            coverage |-> coverageText(g), notApplied |-> g.notApplied]

ShowCards(s) ==
  /\ loads[s].st = "ok"
  /\ shown' = [q |-> loads[s].q, error |-> FALSE,
               cards |-> [i \in DOMAIN loads[s].cards |-> card(loads[s].cards[i])]]
  /\ status' = "Updated"
  /\ loads' = [loads EXCEPT ![s] = NoLoad]
  /\ UNCHANGED filters

\* A rejected query or a request that failed on the way.
ShowLoadError(s) ==
  /\ loads[s].st # "free" /\ loads[s].st # "ok"
  /\ shown' = [Nothing EXCEPT !.q = loads[s].q, !.error = TRUE]
  /\ status' = ""
  /\ loads' = [loads EXCEPT ![s] = NoLoad]
  /\ UNCHANGED filters
=============================================================================
