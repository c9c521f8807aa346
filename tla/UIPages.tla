------------------------------- MODULE UIPages -------------------------------
(***************************************************************************)
(* A tab on the injected Mantine page: the shell, the Cardinality page     *)
(* when it is the one loaded, and the panels' statistics when it is the    *)
(* query page.  They share the document: what any of them changes in it    *)
(* calls the observers of all.                                             *)
(***************************************************************************)
EXTENDS StatsPanels, CardinalityPage

CONSTANT MaxActs \* bound: what the user, and React unasked, do

ASSUME ActsAssumption == MaxActs \in Nat

VARIABLE acts

vars == <<shellVars, cardVars, statsVars, acts>>

\* The filters matter on the Cardinality page, the open details on the query page.
Init ==
  /\ ShellInit /\ CardInit /\ StatsInit /\ acts = 0
  /\ url # CARDINALITY_PATH => filters = Query(CHOOSE fs \in Submissions : TRUE)
  /\ url # Page("query") => stored = "closed" /\ \A p \in Panels : result[p].kind = "none"

Act == acts < MaxActs /\ acts' = acts + 1
NoAct == UNCHANGED acts

\* Shell variables but for the queue of callbacks.
shellRest == <<url, script, pagePath, navReady, base, redirected, header, links, main, menu,
               watching, timers, called>>

-----------------------------------------------------------------------------
ShellSteps ==
  /\ \/ HeadScript \/ NavScript \/ CardinalityScript \/ StartBundle
     \/ ReactRedirects \/ ReactRenders
     \/ NavCallback \/ CardinalityWaits
  /\ UNCHANGED <<cardVars, statsVars>> /\ NoAct

ShellActs ==
  /\ ReactMutates \/ OpenMenu \/ CloseMenu
  /\ UNCHANGED <<cardVars, statsVars>> /\ Act

\* The poll takes no act: it goes on for as long as the page is open.
PollSteps ==
  /\ PollBackends
  /\ UNCHANGED <<cardVars, statsVars>> /\ NoAct

\* render takes the page over and loads at once.
OpenCardinality ==
  /\ RenderCardinality
  /\ load(filters) /\ UNCHANGED filters
  /\ UNCHANGED statsVars /\ NoAct

\* A page load starts every script anew; localStorage stays.
LeavePage ==
  /\ \E a \in Clickable : FollowLink(a)
  /\ CardReset
  /\ PanelsGone /\ frame' = FALSE /\ UNCHANGED stored
  /\ Act

\* The router shows another of its pages.
RoutePage ==
  /\ \E a \in Clickable : RouteLink(a)
  /\ PanelsGone /\ UNCHANGED <<frame, stored, cardVars>>
  /\ Act

SubmitForm ==
  /\ main = "cardinality" /\ Task
  /\ \E fs \in Submissions : Submit(fs)
  /\ Mutated
  /\ UNCHANGED <<shellRest, statsVars>> /\ Act

ServeLoad(s) ==
  /\ serveCardinality(s)
  /\ UNCHANGED <<shellVars, statsVars>> /\ NoAct

\* Both ways to settle write to the page.
SettleLoad(s) ==
  /\ Task /\ (ShowCards(s) \/ ShowLoadError(s))
  /\ Mutated
  /\ UNCHANGED <<shellRest, statsVars>> /\ NoAct

PanelSteps(p) ==
  /\ \/ Answer(p) /\ UNCHANGED pending
     \/ AnswerFails(p) /\ UNCHANGED pending
     \/ Commit(p)
  /\ UNCHANGED <<shellRest, cardVars>> /\ NoAct

PanelActs(p) ==
  /\ \/ Execute(p) /\ UNCHANGED pending
     \/ \E v \in {"table", "graph", "explain"} : SwitchView(p, v)
     \/ Click(p)
  /\ UNCHANGED <<shellRest, cardVars>> /\ Act

StatsSteps ==
  /\ \/ StartStats
     \/ scheduleRender /\ UNCHANGED shellRest
     \/ Frame /\ UNCHANGED shellRest
  /\ UNCHANGED cardVars /\ NoAct

ToggleElsewhere ==
  /\ OtherTab /\ PanelsThere /\ Task
  /\ UNCHANGED <<shellVars, cardVars>> /\ Act

Next ==
  \/ ShellSteps \/ ShellActs \/ PollSteps \/ OpenCardinality \/ LeavePage \/ RoutePage \/ SubmitForm
  \/ \E s \in LoadSlots : ServeLoad(s)
  \/ \E s \in LoadSlots : SettleLoad(s)
  \/ \E p \in Panels : PanelSteps(p)
  \/ \E p \in Panels : PanelActs(p)
  \/ StatsSteps \/ ToggleElsewhere

Spec == Init /\ [][Next]_vars

\* The event loop runs every script and callback that is due, and a frame once it
\* is requested, though tasks like the poll may come before it; React renders what
\* it has; every request settles.  Nothing is assumed of the user nor of the poll.
FairSpec ==
  /\ Spec
  /\ WF_vars(ShellSteps) /\ WF_vars(OpenCardinality)
  /\ WF_vars(StatsSteps) /\ SF_vars(StatsSteps /\ frame /\ ~ frame')
  /\ \A s \in LoadSlots : WF_vars(ServeLoad(s)) /\ WF_vars(SettleLoad(s))
  /\ \A p \in Panels : WF_vars(PanelSteps(p))

-----------------------------------------------------------------------------
(* Safety. *)

\* nav.js adds its two items once to a menu and starts one polling timer, though
\* its observer is called by every change on the page, its own included.
InjectedOnce ==
  /\ timers <= 1
  /\ \A p \in PAGES : Cardinality({i \in DOMAIN menu.low : menu.low[i].to = p}) <= 1

\* Whenever the user gets a turn, every link that can be clicked leads to a route
\* the server answers with the UI, and the UI's API calls go to the API, though
\* on the proxeus pages React takes the page itself for its prefix, and React's
\* menus hold a page that proxeus has replaced.
RoutesServed ==
  Task => /\ \A a \in Clickable : isReactRoute(a.to)
          /\ called \in {NoPage, Page("api")}

\* Every card of the Cardinality page, for whichever request it was, accounts for
\* each filter that request asked for: the backend got it, or the card says it
\* was not applied.  And with no request in flight the page is not 'Loading...'.
CardinalityHonest ==
  /\ \A i \in DOMAIN shown.cards :
       LET c == shown.cards[i]
       IN c.sent \cup c.notApplied = Asked(shown.q) /\ c.sent \cap c.notApplied = {}
  /\ (\A s \in LoadSlots : loads[s].st = "free") => status # "Loading..."

Quiet == /\ pending = {} /\ ~ frame
         /\ \A p \in Panels : dom[p] = result[p]

\* Once the page has come to rest, every panel that shows an answer has the block
\* of that very answer; while the answer is being replaced it has no other, and a
\* panel without an answer has none.
BlocksCurrent ==
  PanelsThere /\ "stats" \in watching /\ Quiet =>
    \A p \in Panels :
      CASE result[p].kind = "data"       -> block[p].id = result[p].id
        [] result[p].kind = "refetching" -> block[p].id \in {0, result[p].id}
        [] OTHER                         -> block[p] = NoBlock

\* Blocks add up, in whatever order the calls of the query finished and whether or
\* not a reload renumbered the groups: the totals count every call, and the
\* requests listed are the first to begin, in that order, the others counted.
BlocksAddUp ==
  \A p \in Panels : block[p] # NoBlock =>
    LET st == block[p].stats
    IN /\ FoldFunction(+, 0, st.groups) = Len(Calls)
       /\ Len(st.requests) + st.truncated = Len(Calls)
       /\ IsPrefix(st.requests, Calls)

\* A click leaves every block of the page, also those of other panels and those
\* built before another tab changed the setting, as open as the one clicked.
ClickAgrees ==
  [][\A p \in Panels : Click(p) =>
       \A q, r \in Panels : block'[q] # NoBlock /\ block'[r] # NoBlock =>
                              block'[q].open = block'[r].open]_vars

-----------------------------------------------------------------------------
(* Liveness. *)

\* A proxeus page that is loaded gets its content, whatever the order of React's
\* rendering and of its router's first redirect, unless the user leaves it.
PageRenders ==
  \A p \in PAGES :
    pagePath = p ~> \/ main = (IF p = BACKENDS_PATH THEN "backends" ELSE "cardinality")
                   \/ pagePath # p

\* The scripts do not keep each other busy: when the user and React stop, the
\* observers' callbacks and the animation frames come to an end.  On the Backends
\* page the next poll starts them again, for ever, and they come to an end again.
PageQuiesces == []<>Quiet
=============================================================================
