----------------------------- MODULE StatsPanels -----------------------------
(***************************************************************************)
(* The per-backend statistics under every panel of the query page: what    *)
(* the server's Recorder puts into a response, and stats.js, which looks   *)
(* for each panel's current result in React's own state and keeps one      *)
(* block per panel up to date from the mutation observer, one animation    *)
(* frame later.  React changes a result first and the DOM in a later step. *)
(***************************************************************************)
EXTENDS UIShell

CONSTANTS
  Panels,      \* the panels of the query page
  Calls,       \* the group ordinal of each call a query makes, in begin order
  Snapshot,    \* group ordinals the Recorder was created with
  MaxRequests  \* querystats.MaxRequests: the request entries a Recorder keeps

ASSUME PanelsAssumption ==
  /\ IsFiniteSet(Panels)
  /\ Calls \in Seq(Nat) /\ MaxRequests \in Nat
  /\ Snapshot \subseteq Nat /\ IsFiniteSet(Snapshot)

VARIABLES
  view,   \* the tab of each panel: "table", "graph", "explain"
  result, \* its React Query result: "none", "fetching", "refetching" (old data kept),
          \* "error" or "data", with the identity and the stats of the response
  dom,    \* the result React last rendered in it
  block,  \* the block stats.js keeps in it
  frame,  \* scheduleRender's pending flag: an animation frame is requested
  stored  \* localStorage: the details are open; "broken" when it throws

statsVars == <<view, result, dom, block, frame, stored>>

NoStats == [groups |-> <<>>, requests |-> <<>>, truncated |-> 0]
NoBlock == [id |-> 0, open |-> FALSE, stats |-> NoStats]
Result(k) == [kind |-> k, id |-> 0, stats |-> NoStats]

\* Queries named in the page's URL run when it loads.
StatsInit ==
  /\ view = [p \in Panels |-> "table"]
  /\ \E k \in {"none", "fetching"} : result = [p \in Panels |-> Result(k)]
  /\ dom = result
  /\ block = [p \in Panels |-> NoBlock]
  /\ frame = FALSE
  /\ stored \in {"closed", "broken"}

\* React unmounts the panels with the query page.
PanelsGone ==
  /\ view' = [p \in Panels |-> "table"]
  /\ result' = [p \in Panels |-> Result("none")]
  /\ dom' = [p \in Panels |-> Result("none")]
  /\ block' = [p \in Panels |-> NoBlock]

PanelsThere ==
  header = "done" /\ main = "react" /\ pagePath = NoPage /\ url = Page("query")

-----------------------------------------------------------------------------
(* querystats.Recorder: the calls of one query begin in the order of Calls *)
(* and finish in any order; a query that succeeds has waited for them all. *)

Nil == -1
Recorder == [groups |-> [o \in Snapshot \cup ToSet(Calls) |-> 0],
             requests |-> [i \in 1 .. MaxRequests |-> Nil], truncated |-> 0]

\* Mutant: an entry's place is decided when it finishes.
Finish_bySlot(r, seq) ==
  LET used == Cardinality({i \in 1 .. MaxRequests : r.requests[i] # Nil})
  IN IF used = MaxRequests
     THEN [r EXCEPT !.groups[Calls[seq]] = @ + 1, !.truncated = @ + 1]
     ELSE [r EXCEPT !.groups[Calls[seq]] = @ + 1, !.requests[used + 1] = Calls[seq]]

\* finish of the call that began as number seq, counted from 1: its group's row,
\* new if the snapshot misses the ordinal, and its entry at its own place.
Finish(r, seq) ==
  IF seq > MaxRequests
  THEN [r EXCEPT !.groups[Calls[seq]] = @ + 1, !.truncated = @ + 1]
  ELSE [r EXCEPT !.groups[Calls[seq]] = @ + 1, !.requests[seq] = Calls[seq]]

\* Stats: the rows, and the entries that are there in begin order.
StatsOf(r) ==
  LET there == {i \in 1 .. MaxRequests : r.requests[i] # Nil}
      nth(k) == CHOOSE i \in there : Cardinality({j \in there : j <= i}) = k
  IN [groups |-> r.groups, truncated |-> r.truncated,
      requests |-> [k \in 1 .. Cardinality(there) |-> r.requests[nth(k)]]]

\* The orders in which the calls finish.
FinishOrders == SetToSeqs(DOMAIN Calls)
Recorders == {FoldLeft(Finish, Recorder, order) : order \in FinishOrders}
Recorded == {StatsOf(r) : r \in Recorders}

-----------------------------------------------------------------------------
(* React's panels. *)

\* The table view asks for stats itself; fetch as stats.js leaves it asks for
\* them in the range queries of the graph view.
AsksStats(v) == v \in {"table", "graph"}

\* A run of the panel's query, from what the panel shows; a changed query drops
\* the old data.
Execute(p) ==
  /\ PanelsThere /\ Task /\ view[p] # "explain" /\ dom[p] = result[p]
  /\ result[p].kind \in {"none", "error", "data"}
  /\ \/ result' = [result EXCEPT ![p] = Result("fetching")]
     \/ result[p].kind = "data" /\ result' = [result EXCEPT ![p].kind = "refetching"]
  /\ UNCHANGED <<view, dom, block, frame, stored>>

\* idOf: a response is an object of its own, no other the panel still holds.
NewId(p) ==
  CHOOSE i \in 1 .. 4 : /\ i \notin {result[p].id, dom[p].id, block[p].id}
                        /\ \A j \in 1 .. i - 1 : j \in {result[p].id, dom[p].id, block[p].id}

Answer(p) ==
  /\ PanelsThere /\ Task /\ result[p].kind \in {"fetching", "refetching"}
  /\ \E st \in IF AsksStats(view[p]) THEN Recorded ELSE {NoStats} :
       result' = [result EXCEPT ![p] = [kind |-> "data", id |-> NewId(p), stats |-> st]]
  /\ UNCHANGED <<view, dom, block, frame, stored>>

AnswerFails(p) ==
  /\ PanelsThere /\ Task /\ result[p].kind \in {"fetching", "refetching"}
  /\ result' = [result EXCEPT ![p].kind = "error"]
  /\ UNCHANGED <<view, dom, block, frame, stored>>

\* The DOM follows; the element that held the block may go or stay.
Commit(p) ==
  /\ PanelsThere /\ Task /\ dom[p] # result[p]
  /\ dom' = [dom EXCEPT ![p] = result[p]]
  /\ \E b \in {block[p], NoBlock} : block' = [block EXCEPT ![p] = b]
  /\ Mutated
  /\ UNCHANGED <<view, result, frame, stored>>

\* Tabs keep nothing mounted: another view starts anew.
SwitchView(p, v) ==
  /\ PanelsThere /\ Task /\ v # view[p]
  /\ view' = [view EXCEPT ![p] = v]
  /\ result' = [result EXCEPT ![p] = Result(IF v = "explain" THEN "none" ELSE "fetching")]
  /\ dom' = [dom EXCEPT ![p] = Result(IF v = "explain" THEN "none" ELSE "fetching")]
  /\ block' = [block EXCEPT ![p] = NoBlock]
  /\ Mutated
  /\ UNCHANGED <<frame, stored>>

-----------------------------------------------------------------------------
(* stats.js *)

\* The component of a view that runs queries, and its own current result if that
\* has stats, whether or not React has rendered it yet.
viewComponent(p) == view[p] # "explain"
backendsOf(p)    == result[p].kind \in {"data", "refetching"}
HasBackends(p)   == viewComponent(p) /\ backendsOf(p)

\* anchorIn: the row the block goes under; the table has it with an answer only,
\* the graph's controls are always there.
HasAnchor(p) == view[p] = "graph" \/ dom[p].kind = "data"

isOpen(st) == st = "open"
setOpen(st, open) == IF st = "broken" THEN st ELSE IF open THEN "open" ELSE "closed"

buildBlock(r, st) == [id |-> r.id, open |-> isOpen(st), stats |-> r.stats]

\* Mutant: a block that is there is kept, whatever response it is of.
RenderPanel_keeps(p, force, st) ==
  CASE ~ HasBackends(p) \/ ~ HasAnchor(p) -> NoBlock
    [] HasBackends(p) /\ HasAnchor(p) /\ ~ force /\ block[p] # NoBlock -> block[p]
    [] OTHER -> buildBlock(result[p], st)

\* renderPanels for one panel: drop the block, keep the one of this response, or
\* build it again.
RenderPanel(p, force, st) ==
  CASE ~ HasBackends(p) \/ ~ HasAnchor(p) -> NoBlock
    [] HasBackends(p) /\ HasAnchor(p) /\ ~ force /\ block[p].id = result[p].id -> block[p]
    [] OTHER -> buildBlock(result[p], st)

renderPanels(force, st) ==
  block' = IF PanelsThere THEN [p \in Panels |-> RenderPanel(p, force, st)] ELSE block

\* start, on DOMContentLoaded.
StartStats ==
  /\ script = "react" /\ Task /\ "stats" \notin watching
  /\ watching' = watching \cup {"stats"}
  /\ frame' = TRUE
  /\ UNCHANGED <<view, result, dom, block, stored>>
  /\ UNCHANGED <<url, script, pagePath, navReady, base, redirected, header, links, main, menu, pending, timers, called>>

\* The observer's callback, after those of observers created earlier: at most one frame is requested at a time.
scheduleRender ==
  /\ pending = {"stats"}
  /\ pending' = {}
  /\ frame' = TRUE
  /\ UNCHANGED <<view, result, dom, block, stored>>

\* Mutant: every frame builds the blocks again.
Frame_rebuilds ==
  /\ frame /\ Task
  /\ frame' = FALSE
  /\ renderPanels(TRUE, stored)
  /\ pending' = IF \E p \in Panels : block'[p] # NoBlock THEN watching ELSE pending
  /\ UNCHANGED <<view, result, dom, stored>>

\* The animation frame; a block inserted or removed calls the observers.
Frame ==
  /\ frame /\ Task
  /\ frame' = FALSE
  /\ renderPanels(FALSE, stored)
  /\ pending' = IF block' # block THEN watching ELSE pending
  /\ UNCHANGED <<view, result, dom, stored>>

\* Mutant: only blocks of a new response are built again.
Click_unforced(p) ==
  /\ PanelsThere /\ Task /\ block[p] # NoBlock
  /\ stored' = setOpen(stored, ~ isOpen(stored))
  /\ renderPanels(FALSE, stored')
  /\ Mutated
  /\ UNCHANGED <<view, result, dom, frame>>

\* A click on a block's summary line.
Click(p) ==
  /\ PanelsThere /\ Task /\ block[p] # NoBlock
  /\ stored' = setOpen(stored, ~ isOpen(stored))
  /\ renderPanels(TRUE, stored')
  /\ Mutated
  /\ UNCHANGED <<view, result, dom, frame>>

\* Another tab of the same browser.
OtherTab ==
  /\ stored # "broken"
  /\ stored' = setOpen(stored, ~ isOpen(stored))
  /\ UNCHANGED <<view, result, dom, block, frame>>
=============================================================================
