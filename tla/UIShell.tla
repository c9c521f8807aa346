------------------------------- MODULE UIShell -------------------------------
(***************************************************************************)
(* One tab on the Mantine page proxeus serves, up to the content of its    *)
(* own pages: the scripts injected into it (head.js, then nav.js and       *)
(* cardinality.js), the React bundle that starts after them and knows      *)
(* nothing of /backends and /cardinality, and the mutation observers       *)
(* through which the scripts follow what React renders.  An observer's     *)
(* callback is a microtask: it runs after the step that changed the DOM    *)
(* and before any other step, and its own changes queue it again.          *)
(***************************************************************************)
EXTENDS Integers, Sequences, FiniteSets, SequencesExt

CONSTANTS
  Prefix,    \* -web.route-prefix, a path
  HeaderTabs, \* the pages React's header and side navigation link to
  MenuTop,   \* the pages under "Monitoring status" in React's status menu
  MenuLow    \* the pages under "Server status"

\* A path is the sequence of its segments.
Page(seg)  == Append(Prefix, seg)
BACKENDS_PATH    == Page("backends")
CARDINALITY_PATH == Page("cardinality")
PAGES   == {BACKENDS_PATH, CARDINALITY_PATH}
NoPage  == <<"none">>

\* The pages React knows, one of which proxeus replaces by its own.
ReactPages == {"config", "flags", "service-discovery", "alertmanager-discovery", "status",
               "targets", "alerts", "query", "rules", "agent", "tsdb-status"}

\* The paths the server answers with the injected page, and what it does with the
\* page it has replaced.
reactRouteSet == (ReactPages \ {"tsdb-status"}) \cup {"backends", "cardinality"}
isReactRoute(p) == p \in {Page(seg) : seg \in reactRouteSet}
uiRedirect(p) == IF p = Page("tsdb-status") THEN CARDINALITY_PATH ELSE p

ASSUME ShellAssumption ==
  /\ Prefix \in Seq(STRING)
  /\ HeaderTabs \subseteq ReactPages /\ HeaderTabs # {}
  /\ MenuTop \subseteq ReactPages /\ MenuLow \subseteq ReactPages /\ MenuLow # {}

VARIABLES
  url,      \* window.location.pathname
  script,   \* the script to run next: "head", "nav", "cardinality", "bundle", "react"
  pagePath, \* window.__proxeusPage
  navReady, \* window.__proxeusNavReady
  base,     \* the path prefix the React UI works with
  redirected, \* the React router has made its first redirect
  header,   \* React's header: "none", "bare" (no links yet), "raw", "done" (headerDone)
  links,    \* the links of the header and of the side navigation
  main,     \* who fills <main>: "none", "react", "backends", "cardinality"
  menu,     \* the status menu: processed, the links of its two sections
  watching, \* the mutation observers that are connected
  pending,  \* the ones with a callback queued
  timers,   \* polling intervals started by nav.js
  called    \* where the React UI's last API call went

shellVars == <<url, script, pagePath, navReady, base, redirected, header, links, main, menu,
               watching, pending, timers, called>>

NoMenu == [open |-> FALSE, processed |-> FALSE, top |-> <<>>, low |-> <<>>]

\* A page the server has just delivered.
ShellInit ==
  /\ url \in {uiRedirect(Page(seg)) : seg \in {"backends", "tsdb-status", "query"}}
  /\ script = "head"
  /\ pagePath = NoPage /\ navReady = FALSE
  /\ base = <<>> /\ redirected = FALSE
  /\ header = "none" /\ links = {} /\ main = "none" /\ menu = NoMenu
  /\ watching = {} /\ pending = {} /\ timers = 0 /\ called = NoPage

Mutated == pending' = watching
Task    == pending = {}

-----------------------------------------------------------------------------
\* The injected scripts, in the order of the document.  React has rendered
\* nothing yet, so their immediate calls find neither header nor main.
HeadScript ==
  /\ script = "head"
  /\ pagePath' = IF url \in PAGES THEN url ELSE NoPage
  /\ script' = "nav"
  /\ UNCHANGED <<url, navReady, base, redirected, header, links, main, menu, watching, pending, timers, called>>

NavScript ==
  /\ script = "nav"
  /\ watching' = watching \cup {"nav"}
  /\ script' = "cardinality"
  /\ UNCHANGED <<url, pagePath, navReady, base, redirected, header, links, main, menu, pending, timers, called>>

CardinalityScript ==
  /\ script = "cardinality"
  /\ watching' = IF pagePath = CARDINALITY_PATH THEN watching \cup {"cardinality"} ELSE watching
  /\ script' = "bundle"
  /\ UNCHANGED <<url, pagePath, navReady, base, redirected, header, links, main, menu, pending, timers, called>>

-----------------------------------------------------------------------------
(* React, modelled from what the scripts expect of it. *)

\* The UI's path prefix is the page URL without the page, if it knows the page.
PathPrefixOf(u) == IF Last(u) \in ReactPages THEN Front(u) ELSE u

\* fetch as head.js leaves it: a call below the page goes to the real prefix.
FetchPath(p) ==
  IF pagePath # NoPage /\ Len(p) > Len(pagePath) /\ SubSeq(p, 1, Len(pagePath)) = pagePath
  THEN Prefix \o SubSeq(p, Len(pagePath) + 1, Len(p)) ELSE p

\* The UI starts and calls the API.
StartBundle ==
  /\ script = "bundle"
  /\ base' = PathPrefixOf(url)
  /\ called' = FetchPath(Append(base', "api"))
  /\ script' = "react"
  /\ UNCHANGED <<url, pagePath, navReady, redirected, header, links, main, menu, watching, pending, timers>>

Link(p) == [to |-> p, full |-> FALSE, hidden |-> FALSE]

\* Mutant: the router's redirect is not held back.
SetURL_unblocked(u) == u

\* history.pushState and replaceState as head.js leaves them.
SetURL(u) == IF pagePath # NoPage /\ ~ navReady THEN url ELSE u

\* On a path it does not know the router goes to the query page under it.
ReactRedirects ==
  /\ script = "react" /\ Task /\ base = url /\ ~ redirected
  /\ redirected' = TRUE
  /\ url' = SetURL(Append(base, "query"))
  /\ UNCHANGED <<script, pagePath, navReady, base, header, links, main, menu, watching, pending, timers, called>>

\* The header's parts and main may come in one commit or in several.
ReactRenders ==
  /\ script = "react" /\ Task
  /\ \E h \in {header, "bare", "raw"}, m \in {main, "react"} :
       /\ header \in {"none", "bare"} \/ h = header
       /\ main = "none" \/ m = main
       /\ <<h, m>> # <<header, main>>
       /\ header' = h /\ main' = m
       /\ links' = IF h = "raw" THEN {Link(Append(base, t)) : t \in HeaderTabs} ELSE links
  /\ Mutated
  /\ UNCHANGED <<url, script, pagePath, navReady, base, redirected, menu, watching, timers, called>>

\* Anything else React changes on the page.
ReactMutates ==
  /\ script = "react" /\ Task /\ main # "none"
  /\ Mutated
  /\ UNCHANGED <<url, script, pagePath, navReady, base, redirected, header, links, main, menu, watching, timers, called>>

\* A popover is a new element every time it opens.
OpenMenu ==
  /\ script = "react" /\ Task /\ header = "done" /\ ~ menu.open
  /\ menu' = [open |-> TRUE, processed |-> FALSE,
              top |-> SetToSeq({Link(Append(base, t)) : t \in MenuTop}),
              low |-> SetToSeq({Link(Append(base, t)) : t \in MenuLow})]
  /\ Mutated
  /\ UNCHANGED <<url, script, pagePath, navReady, base, redirected, header, links, main, watching, timers, called>>

CloseMenu ==
  /\ Task /\ menu.open
  /\ menu' = NoMenu
  /\ Mutated
  /\ UNCHANGED <<url, script, pagePath, navReady, base, redirected, header, links, main, watching, timers, called>>

-----------------------------------------------------------------------------
(* nav.js *)

\* A link React computed below the page goes to the real prefix, by a page load.
fixPageHref(a) ==
  IF pagePath # NoPage /\ Len(a.to) > Len(pagePath) /\ SubSeq(a.to, 1, Len(pagePath)) = pagePath
  THEN [a EXCEPT !.to = Prefix \o SubSeq(@, Len(pagePath) + 1, Len(@)), !.full = TRUE]
  ELSE a

HIDE_NAV == {"alerts", "targets", "rules", "service-discovery", "tsdb-status", "alertmanager-discovery"}

\* Mutant: the page proxeus replaces stays in the menu.
HIDE_DROPDOWN_noTSDB == {"targets", "rules", "service-discovery", "alertmanager-discovery"}

HIDE_DROPDOWN == {"targets", "rules", "service-discovery", "tsdb-status", "alertmanager-discovery"}
Hide(a, segs) == [a EXCEPT !.hidden = @ \/ Last(a.to) \in segs]

\* Once, when the header has links.
customiseHeader ==
  IF header = "raw"
  THEN header' = "done" /\ links' = {fixPageHref(Hide(a, HIDE_NAV)) : a \in links}
  ELSE UNCHANGED <<header, links>>

\* menuItem: a plain link, without React's handlers.
menuItem(p) == [to |-> p, full |-> TRUE, hidden |-> FALSE]

HasOwn(m) == \E i \in DOMAIN m.low : m.low[i].to = BACKENDS_PATH /\ m.low[i].full

\* Mutant: the popover is not marked as processed nor its items looked for.
Customised_again(m) ==
  LET own == <<menuItem(BACKENDS_PATH), menuItem(CARDINALITY_PATH)>>
  IN [m EXCEPT !.low = own \o m.low]

\* A popover is customised once; the items are added once even without that.
Customised(m) ==
  LET fix(s)  == [i \in DOMAIN s |-> fixPageHref(Hide(s[i], HIDE_DROPDOWN))]
      own     == <<menuItem(BACKENDS_PATH), menuItem(CARDINALITY_PATH)>>
  IN [open |-> TRUE, processed |-> TRUE, top |-> fix(m.top),
      low |-> fix(IF HasOwn(m) THEN m.low ELSE own \o m.low)]

\* renderBackendsPage: the first time main is there and the URL is still the page's.
RendersBackends ==
  pagePath = BACKENDS_PATH /\ url = BACKENDS_PATH /\ main = "react"

\* The observer's callback, the first of those queued: header, dropdown, page.
\* What it inserted calls every observer again; the new title is a change of text,
\* which only the one of stats.js follows.
NavCallback ==
  /\ "nav" \in pending
  /\ customiseHeader
  /\ menu' = IF menu.open /\ ~ menu.processed THEN Customised(menu) ELSE menu
  /\ main' = IF RendersBackends THEN "backends" ELSE main
  /\ navReady' = (navReady \/ RendersBackends)
  /\ timers' = IF RendersBackends THEN timers + 1 ELSE timers
  /\ pending' = IF RendersBackends \/ Len(menu'.low) # Len(menu.low) THEN watching
                ELSE (pending \ {"nav"}) \cup
                     IF header' # header THEN watching \cap {"stats"} ELSE {}
  /\ UNCHANGED <<url, script, pagePath, base, redirected, watching, called>>

\* The interval of the Backends page, which is never cleared: a poll and its answer
\* each write to the page.
PollBackends ==
  /\ timers > 0 /\ main = "backends" /\ Task
  /\ Mutated
  /\ UNCHANGED <<url, script, pagePath, navReady, base, redirected, header, links, main, menu, watching, timers, called>>

-----------------------------------------------------------------------------
(* cardinality.js: the callback of its observer, which disconnects itself. *)
RendersCardinality == pagePath = CARDINALITY_PATH /\ main = "react"

RenderCardinality ==
  /\ "cardinality" \in pending /\ "nav" \notin pending /\ RendersCardinality
  /\ main' = "cardinality" /\ navReady' = TRUE
  /\ watching' = watching \ {"cardinality"}
  /\ pending' = watching \ {"cardinality"}
  /\ UNCHANGED <<url, script, pagePath, base, redirected, header, links, menu, timers, called>>

CardinalityWaits ==
  /\ "cardinality" \in pending /\ "nav" \notin pending /\ ~ RendersCardinality
  /\ pending' = pending \ {"cardinality"}
  /\ UNCHANGED <<url, script, pagePath, navReady, base, redirected, header, links, main, menu, watching, timers, called>>

-----------------------------------------------------------------------------
\* The links a user can click.
Clickable == {a \in links \cup ToSet(menu.top) \cup ToSet(menu.low) : ~ a.hidden}

\* A link without React's handlers, or fixed by nav.js, loads its page.
FollowLink(a) ==
  /\ Task /\ header = "done" /\ a \in Clickable /\ a.full
  /\ url' = uiRedirect(a.to) /\ script' = "head"
  /\ pagePath' = NoPage /\ navReady' = FALSE
  /\ base' = <<>> /\ redirected' = FALSE
  /\ header' = "none" /\ links' = {} /\ main' = "none" /\ menu' = NoMenu
  /\ watching' = {} /\ pending' = {} /\ timers' = 0 /\ called' = NoPage

\* The others are the router's.
RouteLink(a) ==
  /\ Task /\ header = "done" /\ a \in Clickable /\ ~ a.full
  /\ url' = SetURL(a.to)
  /\ Mutated
  /\ UNCHANGED <<script, pagePath, navReady, base, redirected, header, links, main, menu, watching, timers, called>>
=============================================================================
