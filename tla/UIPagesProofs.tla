---------------------------- MODULE UIPagesProofs ----------------------------
(***************************************************************************)
(* The injected page, proved for every route prefix, every header and menu *)
(* of React, any number of panels, backends and requests in flight, and    *)
(* however long the tab stays open.                                        *)
(***************************************************************************)
EXTENDS UIPages, FiniteSetTheorems, SequenceTheorems, WellFoundedInduction, TLAPS

-----------------------------------------------------------------------------
(* Paths. *)

\* Appending a segment to a path, and taking it apart again.
LEMMA AppendFacts ==
  ASSUME NEW S, NEW s \in Seq(S), NEW t \in S
  PROVE  /\ Append(s, t) \in Seq(S) /\ Len(s) \in Nat /\ Len(Append(s, t)) = Len(s) + 1
         /\ Append(s, t) # s
         /\ Last(Append(s, t)) = t /\ Front(Append(s, t)) = s
         /\ SubSeq(Append(s, t), 1, Len(s)) = s
         /\ SubSeq(Append(s, t), Len(s) + 1, Len(Append(s, t))) = <<t>>
<1>1. /\ Append(s, t) \in Seq(S) /\ Len(s) \in Nat /\ Len(Append(s, t)) = Len(s) + 1
      /\ Append(s, t)[Len(s) + 1] = t
      /\ \A i \in 1 .. Len(s) : Append(s, t)[i] = s[i]
  OBVIOUS
<1>2. SubSeq(Append(s, t), 1, Len(s)) = s
  BY <1>1
<1>3. SubSeq(Append(s, t), Len(s) + 1, Len(s) + 1) = <<t>>
  <2>1. Len(s) + 1 <= Len(s) + 1 /\ Len(s) + 1 \in 1 .. Len(Append(s, t))
    BY <1>1
  <2>2. /\ SubSeq(Append(s, t), Len(s) + 1, Len(s) + 1) \in Seq(S)
        /\ Len(SubSeq(Append(s, t), Len(s) + 1, Len(s) + 1)) = 1
        /\ SubSeq(Append(s, t), Len(s) + 1, Len(s) + 1)[1] = t
    BY <1>1, <2>1
  <2>3. <<t>> \in Seq(S) /\ Len(<<t>>) = 1 /\ <<t>>[1] = t
    OBVIOUS
  <2>4. \A i \in 1 .. 1 :
          SubSeq(Append(s, t), Len(s) + 1, Len(s) + 1)[i] = <<t>>[i]
    BY <2>2, <2>3
  <2>5. QED
    BY <2>2, <2>3, <2>4, SeqEqual
<1>4. Last(Append(s, t)) = t /\ Front(Append(s, t)) = s
  <2>1. Len(Append(s, t)) - 1 = Len(s)
    BY <1>1
  <2>2. QED
    BY <1>1, <1>2, <2>1 DEF Last, Front
<1>5. Append(s, t) # s
  BY <1>1
<1>6. QED
  BY Zenon, <1>1, <1>2, <1>3, <1>4, <1>5

\* The segments of paths: strings, the names of the pages among them.
Segments == STRING \cup ReactPages \cup {"backends", "cardinality", "api", "none"}

\* The route prefix is a path.
LEMMA PrefixFacts == Prefix \in Seq(Segments) /\ Len(Prefix) \in Nat
<1>1. Prefix \in Seq(STRING) /\ STRING \subseteq Segments
  BY ShellAssumption DEF Segments
<1>2. Prefix \in Seq(Segments)
  BY <1>1, SeqMonotonic
<1>3. QED
  BY <1>2

\* A page is one segment below the prefix.
LEMMA PageFacts ==
  ASSUME NEW s \in Segments
  PROVE  /\ Page(s) \in Seq(Segments) /\ Len(Page(s)) = Len(Prefix) + 1 /\ Len(Prefix) \in Nat
         /\ Last(Page(s)) = s /\ Front(Page(s)) = Prefix
         /\ Page(s) # Prefix
<1>1. Prefix \in Seq(Segments)
  BY PrefixFacts
<1>2. QED
  BY <1>1, AppendFacts DEF Page

\* Pages with different names are different, and none is the absent page.
LEMMA PagesDiffer ==
  ASSUME NEW s \in Segments, NEW t \in Segments
  PROVE  /\ Page(s) = Page(t) => s = t
         /\ Page(s) = NoPage => s = "none"
<1>1. Last(Page(s)) = s /\ Last(Page(t)) = t
  BY PageFacts
<1>2. Last(NoPage) = "none"
  BY DEF Last, NoPage
<1>3. QED
  BY <1>1, <1>2

\* What head.js and nav.js do to a path React computed below the page.
LEMMA BelowFacts ==
  ASSUME NEW pp \in Seq(Segments), NEW t \in Segments
  PROVE  /\ Append(pp, t) \in Seq(Segments) /\ Len(Append(pp, t)) = Len(pp) + 1 /\ Len(pp) \in Nat
         /\ Last(Append(pp, t)) = t
         /\ SubSeq(Append(pp, t), 1, Len(pp)) = pp
         /\ Prefix \o SubSeq(Append(pp, t), Len(pp) + 1, Len(Append(pp, t))) = Page(t)
<1>1. Prefix \in Seq(Segments)
  BY PrefixFacts
<1>2. Prefix \o <<t>> = Page(t)
  BY <1>1, AppendIsConcat DEF Page
<1>3. /\ Append(pp, t) \in Seq(Segments) /\ Len(Append(pp, t)) = Len(pp) + 1 /\ Len(pp) \in Nat
      /\ Last(Append(pp, t)) = t
      /\ SubSeq(Append(pp, t), 1, Len(pp)) = pp
      /\ SubSeq(Append(pp, t), Len(pp) + 1, Len(Append(pp, t))) = <<t>>
  BY AppendFacts
<1>4. QED
  BY <1>2, <1>3

-----------------------------------------------------------------------------
(***************************************************************************)
(* The shell: what head.js knows of the page, and what nav.js has made of  *)
(* the links React computed.  A link that still leads below the page is    *)
(* only there while nav.js' callback is queued.                            *)
(***************************************************************************)
Scripts == {"head", "nav", "cardinality", "bundle", "react"}

\* React's own rendering, which the injected scripts have not touched yet.
Blank == called = NoPage /\ header = "none" /\ main = "none" /\ ~ menu.open

PathsKnown ==
  /\ script \in Scripts
  /\ script # "react" => isReactRoute(url) /\ Blank /\ "stats" \notin watching
  /\ script = "head" => pagePath = NoPage
  /\ script \in {"nav", "cardinality", "bundle"} =>
       pagePath = IF url \in PAGES THEN url ELSE NoPage
  /\ script \in {"cardinality", "bundle", "react"} => "nav" \in watching
  /\ script = "react" =>
       /\ called = Page("api")
       /\ \/ pagePath = NoPage /\ base = Prefix /\ isReactRoute(url)
          \/ pagePath \in PAGES /\ base = pagePath

HeaderFixed ==
  /\ header \in {"none", "bare", "raw", "done"}
  /\ header \in {"none", "bare"} => links = {}
  /\ header = "raw" => "nav" \in pending /\ links = {Link(Append(base, t)) : t \in HeaderTabs}
  /\ header = "done" => \A a \in links : a.hidden \/ isReactRoute(a.to)

RawItems == {Link(Append(base, t)) : t \in ReactPages}

\* The sections of a menu nav.js is done with: the two own items at the top.
ServedSection(s) == \A i \in DOMAIN s : s[i].hidden \/ isReactRoute(s[i].to)
OwnOnTop(s) == \A i \in DOMAIN s : /\ s[i].to = BACKENDS_PATH => i = 1
                                   /\ s[i].to = CARDINALITY_PATH => i = 2

MenuFixed ==
  /\ ~ menu.open => menu = NoMenu
  /\ menu.open /\ ~ menu.processed =>
       "nav" \in pending /\ menu.top \in Seq(RawItems) /\ menu.low \in Seq(RawItems)
  /\ menu.open /\ menu.processed =>
       ServedSection(menu.top) /\ ServedSection(menu.low) /\ OwnOnTop(menu.low)

OneTimer == timers = IF main = "backends" THEN 1 ELSE 0

ShellInv == PathsKnown /\ HeaderFixed /\ MenuFixed /\ OneTimer

\* The names of pages.
LEMMA Names ==
  /\ \A t \in ReactPages : t \in Segments /\ Page(t) \notin PAGES
                         /\ (t # "tsdb-status" => isReactRoute(Page(t)))
  /\ \A p \in PAGES : isReactRoute(p) /\ p \in Seq(Segments) /\ p # NoPage
                      /\ Len(p) = Len(Prefix) + 1 /\ Last(p) \notin ReactPages
  /\ \A p : isReactRoute(p) => p \in Seq(Segments) /\ p # Prefix
                                 /\ p # Page("tsdb-status")
                                 /\ (p \notin PAGES => Last(p) \in ReactPages /\ Front(p) = Prefix)
  /\ BACKENDS_PATH # CARDINALITY_PATH /\ Len(Prefix) \in Nat /\ Prefix \in Seq(Segments)
<1> DEFINE Segs == ReactPages \cup {"backends", "cardinality"}
<1>1. /\ \A t \in Segs : t \in Segments /\ t # "none"
      /\ "backends" \notin ReactPages /\ "cardinality" \notin ReactPages
  <2>1. "backends" \notin ReactPages /\ "cardinality" \notin ReactPages
    BY DEF ReactPages
  <2>2. \A t \in ReactPages : t \in Segments
    BY DEF Segments
  <2>3. \A t \in ReactPages : t # "none"
    BY DEF ReactPages
  <2>4. "backends" \in Segments /\ "cardinality" \in Segments
        /\ "backends" # "none" /\ "cardinality" # "none"
    BY DEF Segments
  <2>5. QED
    BY <2>1, <2>2, <2>3, <2>4
<1>2. \A t \in Segs : isReactRoute(Page(t)) \/ t = "tsdb-status"
  BY DEF isReactRoute, reactRouteSet
<1>3. \A p : isReactRoute(p) => \E t \in Segs : p = Page(t) /\ t # "tsdb-status"
  BY <1>1 DEF isReactRoute, reactRouteSet
<1>4. "tsdb-status" \in Segs /\ "backends" # "tsdb-status" /\ "cardinality" # "tsdb-status"
  BY DEF ReactPages
<1> HIDE DEF Segs
<1>5. \A t \in Segs : /\ Page(t) \in Seq(Segments) /\ Page(t) # Prefix /\ Page(t) # NoPage
                     /\ Len(Page(t)) = Len(Prefix) + 1 /\ Last(Page(t)) = t
                     /\ Front(Page(t)) = Prefix
  BY <1>1, PageFacts, PagesDiffer
<1>6. Len(Prefix) \in Nat /\ Prefix \in Seq(Segments)
  BY PrefixFacts
<1>7. \A t \in Segs : Page(t) \in PAGES <=> t \in {"backends", "cardinality"}
  BY <1>1, PagesDiffer DEF PAGES, BACKENDS_PATH, CARDINALITY_PATH, Segs
<1>8. \A t \in ReactPages : t \in Segments /\ Page(t) \notin PAGES
                         /\ (t # "tsdb-status" => isReactRoute(Page(t)))
  BY <1>1, <1>2, <1>7 DEF Segs
<1>9. \A p \in PAGES : \E t \in {"backends", "cardinality"} : p = Page(t)
  BY DEF PAGES, BACKENDS_PATH, CARDINALITY_PATH
<1>10. \A p \in PAGES : isReactRoute(p) /\ p \in Seq(Segments) /\ p # NoPage
                      /\ Len(p) = Len(Prefix) + 1 /\ Last(p) \notin ReactPages
  BY <1>1, <1>2, <1>5, <1>9, <1>4 DEF Segs
<1>11. ASSUME NEW p, isReactRoute(p)
       PROVE  p \in Seq(Segments) /\ p # Prefix /\ p # Page("tsdb-status")
              /\ (p \notin PAGES => Last(p) \in ReactPages /\ Front(p) = Prefix)
  <2>1. PICK t \in Segs : p = Page(t) /\ t # "tsdb-status"
    BY <1>3, <1>11
  <2>2. p # Page("tsdb-status")
    BY <1>5, <1>4, <2>1
  <2>3. QED
    BY <1>5, <1>7, <2>1, <2>2 DEF Segs
<1>12. BACKENDS_PATH # CARDINALITY_PATH
  <2>1. Last(Page("backends")) = "backends" /\ Last(Page("cardinality")) = "cardinality"
    BY PageFacts DEF Segments
  <2>2. "backends" # "cardinality"
    OBVIOUS
  <2>3. QED
    BY <2>1, <2>2 DEF BACKENDS_PATH, CARDINALITY_PATH
<1>13. \A p : isReactRoute(p) => p \in Seq(Segments) /\ p # Prefix
                                 /\ p # Page("tsdb-status")
                                 /\ (p \notin PAGES => Last(p) \in ReactPages /\ Front(p) = Prefix)
  BY Zenon, <1>11
<1>14. QED
  BY <1>6, <1>8, <1>10, <1>12, <1>13

\* A link of React's comes out of nav.js as a page of the server's, or hidden.
LEMMA RawFixed ==
  ASSUME PathsKnown, script = "react", NEW t \in ReactPages, NEW segs
  PROVE  LET a == fixPageHref(Hide(Link(Append(base, t)), segs))
         IN  a.to = Page(t) /\ (t \in segs => a.hidden)
<1> DEFINE a == Hide(Link(Append(base, t)), segs)
<1>1. t \in Segments
  BY Names
<1>2. base \in Seq(Segments)
  BY Names DEF PathsKnown
<1>3. Last(Append(base, t)) = t
  BY <1>1, <1>2, AppendFacts
<1>4. /\ a.to = Append(base, t) /\ DOMAIN a = {"to", "full", "hidden"}
      /\ t \in segs => a.hidden
  BY <1>3 DEF Hide, Link
<1> HIDE DEF a
<1>5. CASE pagePath = NoPage /\ base = Prefix
  BY <1>4, <1>5 DEF fixPageHref, Page, a
<1>6. CASE pagePath \in PAGES /\ base = pagePath
  <2>1. pagePath \in Seq(Segments) /\ pagePath # NoPage
    BY <1>6, Names
  <2>2. /\ Len(a.to) > Len(pagePath) /\ SubSeq(a.to, 1, Len(pagePath)) = pagePath
        /\ Prefix \o SubSeq(a.to, Len(pagePath) + 1, Len(a.to)) = Page(t)
    <3>1. a.to = Append(pagePath, t)
      BY <1>4, <1>6
    <3>2. /\ Len(Append(pagePath, t)) = Len(pagePath) + 1 /\ Len(pagePath) \in Nat
          /\ SubSeq(Append(pagePath, t), 1, Len(pagePath)) = pagePath
          /\ Prefix \o SubSeq(Append(pagePath, t), Len(pagePath) + 1, Len(Append(pagePath, t))) = Page(t)
      BY <1>1, <2>1, BelowFacts
    <3>3. Len(Append(pagePath, t)) > Len(pagePath)
      BY <3>2
    <3>4. QED
      BY <3>1, <3>2, <3>3
  <2>3. fixPageHref(a) = [a EXCEPT !.to = Page(t), !.full = TRUE]
    BY <2>1, <2>2 DEF fixPageHref
  <2>4. fixPageHref(a).to = Page(t) /\ fixPageHref(a).hidden = a.hidden
    BY <1>4, <2>3
  <2>5. QED
    BY <1>4, <2>4 DEF a
<1>7. QED
  BY <1>5, <1>6 DEF PathsKnown

\* The items nav.js adds are not below any page and stay what they are.
LEMMA OwnKept ==
  ASSUME PathsKnown, script = "react", NEW p \in PAGES, NEW segs
  PROVE  fixPageHref(Hide(menuItem(p), segs)).to = p
<1>1. Hide(menuItem(p), segs).to = p
  BY DEF Hide, menuItem
<1>2. Len(p) = Len(Prefix) + 1 /\ Len(Prefix) \in Nat
  BY Names
<1>3. pagePath = NoPage \/ Len(pagePath) = Len(Prefix) + 1
  BY Names DEF PathsKnown
<1>4. fixPageHref(Hide(menuItem(p), segs)) = Hide(menuItem(p), segs)
  BY <1>1, <1>2, <1>3 DEF fixPageHref
<1>5. QED
  BY <1>1, <1>4

\* SetToSeq lists a finite set.
LEMMA SetToSeqFacts ==
  ASSUME NEW S, IsFiniteSet(S)
  PROVE  SetToSeq(S) \in Seq(S)
<1>1. PICK n \in Nat : ExistsBijection(1 .. n, S)
  BY FS_NatBijection
<1>2. Cardinality(S) = n
  BY <1>1, FS_CountingElements
<1>3. \E f \in [1 .. Cardinality(S) -> S] : IsInjective(f)
  BY <1>1, <1>2 DEF ExistsBijection, Bijection, Injection
<1>4. SetToSeq(S) \in [1 .. n -> S]
  BY <1>2, <1>3 DEF SetToSeq
<1>5. QED
  BY <1>4

\* React's links to some of its pages are finitely many.
LEMMA RawListed ==
  ASSUME NEW T \in SUBSET ReactPages
  PROVE  SetToSeq({Link(Append(base, t)) : t \in T}) \in Seq(RawItems)
<1> DEFINE S == {Link(Append(base, t)) : t \in T}
<1>1. IsFiniteSet(ReactPages)
  <2>1. \A x, y : IsFiniteSet({x, y})
    <3> SUFFICES ASSUME NEW x, NEW y PROVE IsFiniteSet({x, y})
      OBVIOUS
    <3>1. IsFiniteSet({x}) /\ {x, y} = {x} \cup {y}
      BY FS_Singleton
    <3>2. QED
      BY <3>1, FS_AddElement
  <2>2. \A U, x, y : IsFiniteSet(U) => IsFiniteSet({x, y} \cup U)
    BY <2>1, FS_Union
  <2>3. ReactPages = {"config", "flags"} \cup ({"service-discovery", "alertmanager-discovery"} \cup
          ({"status", "targets"} \cup ({"alerts", "query"} \cup
          ({"rules", "agent"} \cup {"tsdb-status", "tsdb-status"}))))
    BY DEF ReactPages
  <2>4. QED
    BY <2>1, <2>2, <2>3, Zenon
<1>2. IsFiniteSet(T)
  BY <1>1, FS_Subset
<1>3. [t \in T |-> Link(Append(base, t))] \in Surjection(T, S)
  BY DEF Surjection
<1>4. IsFiniteSet(S)
  BY <1>2, <1>3, FS_Surjection
<1>5. SetToSeq(S) \in Seq(S) /\ S \subseteq RawItems
  BY <1>4, SetToSeqFacts DEF RawItems
<1>6. QED
  BY <1>5, SeqMonotonic

\* One pass of nav.js over a menu serves all its links and puts its own two items
\* on top, once.
LEMMA CustomisedFacts ==
  ASSUME PathsKnown, script = "react",
         menu.top \in Seq(RawItems), menu.low \in Seq(RawItems)
  PROVE  LET c == Customised(menu)
         IN  /\ c.open /\ c.processed
             /\ ServedSection(c.top) /\ ServedSection(c.low) /\ OwnOnTop(c.low)
<1> DEFINE fix(s) == [i \in DOMAIN s |-> fixPageHref(Hide(s[i], HIDE_DROPDOWN))]
<1> DEFINE own == <<menuItem(BACKENDS_PATH), menuItem(CARDINALITY_PATH)>>
<1>1. \A a \in RawItems : ~ a.full
  BY DEF RawItems, Link
<1>2. ~ HasOwn(menu)
  BY <1>1, ElementOfSeq, LenProperties DEF HasOwn
<1>3. Customised(menu) = [open |-> TRUE, processed |-> TRUE, top |-> fix(menu.top),
                          low |-> fix(own \o menu.low)]
  BY <1>2 DEF Customised
<1>4. \A a \in RawItems : \E t \in ReactPages :
        /\ fixPageHref(Hide(a, HIDE_DROPDOWN)).to = Page(t)
        /\ t \in HIDE_DROPDOWN => fixPageHref(Hide(a, HIDE_DROPDOWN)).hidden
  BY RawFixed DEF RawItems
<1>5. "tsdb-status" \in HIDE_DROPDOWN
  BY DEF HIDE_DROPDOWN
<1>6. \A a \in RawItems :
        /\ \/ fixPageHref(Hide(a, HIDE_DROPDOWN)).hidden
           \/ isReactRoute(fixPageHref(Hide(a, HIDE_DROPDOWN)).to)
        /\ fixPageHref(Hide(a, HIDE_DROPDOWN)).to \notin PAGES
  BY <1>4, <1>5, Names
<1>7. /\ fixPageHref(Hide(menuItem(BACKENDS_PATH), HIDE_DROPDOWN)).to = BACKENDS_PATH
      /\ fixPageHref(Hide(menuItem(CARDINALITY_PATH), HIDE_DROPDOWN)).to = CARDINALITY_PATH
      /\ isReactRoute(BACKENDS_PATH) /\ isReactRoute(CARDINALITY_PATH)
      /\ BACKENDS_PATH # CARDINALITY_PATH
  BY OwnKept, Names DEF PAGES
<1>8. ServedSection(fix(menu.top))
  <2>1. \A i \in DOMAIN menu.top : menu.top[i] \in RawItems
    BY ElementOfSeq, LenProperties
  <2>2. QED
    BY <1>6, <2>1 DEF ServedSection
<1>9. \A i \in DOMAIN (own \o menu.low) :
        LET a == (own \o menu.low)[i]
        IN  \/ i = 1 /\ a = menuItem(BACKENDS_PATH)
            \/ i = 2 /\ a = menuItem(CARDINALITY_PATH)
            \/ a \in RawItems
  <2> DEFINE Items == RawItems \cup {menuItem(BACKENDS_PATH), menuItem(CARDINALITY_PATH)}
  <2>1. own \in Seq(Items) /\ Len(own) = 2
    OBVIOUS
  <2>2. menu.low \in Seq(Items)
    BY SeqMonotonic
  <2>3. /\ DOMAIN (own \o menu.low) = 1 .. 2 + Len(menu.low) /\ Len(menu.low) \in Nat
        /\ \A i \in 1 .. 2 + Len(menu.low) :
             (own \o menu.low)[i] = IF i <= 2 THEN own[i] ELSE menu.low[i - 2]
    BY <2>1, <2>2, ConcatProperties, LenProperties
  <2>4. \A i \in 1 .. Len(menu.low) : menu.low[i] \in RawItems
    BY ElementOfSeq
  <2>5. QED
    BY <2>3, <2>4
<1>10. ServedSection(fix(own \o menu.low)) /\ OwnOnTop(fix(own \o menu.low))
  <2> DEFINE s == own \o menu.low
  <2> HIDE DEF s, own
  <2>1. \A i \in DOMAIN s :
          \/ i = 1 /\ fix(s)[i].to = BACKENDS_PATH
          \/ i = 2 /\ fix(s)[i].to = CARDINALITY_PATH
          \/ /\ fix(s)[i].hidden \/ isReactRoute(fix(s)[i].to)
             /\ fix(s)[i].to \notin PAGES
    BY <1>6, <1>7, <1>9 DEF s
  <2>2. DOMAIN fix(s) = DOMAIN s
    OBVIOUS
  <2>3. BACKENDS_PATH \in PAGES /\ CARDINALITY_PATH \in PAGES
    BY DEF PAGES
  <2> HIDE DEF fix
  <2>4. ServedSection(fix(s)) /\ OwnOnTop(fix(s))
    BY <1>7, <2>1, <2>2, <2>3 DEF ServedSection, OwnOnTop
  <2>5. QED
    BY <2>4 DEF s
<1> HIDE DEF fix, own
<1>11. QED
  BY <1>3, <1>8, <1>10

\* The tab before the first script.
LEMMA InitShell == ShellInit => ShellInv
<1> SUFFICES ASSUME ShellInit PROVE ShellInv
  OBVIOUS
<1>1. isReactRoute(url)
  BY DEF ShellInit, uiRedirect, CARDINALITY_PATH, isReactRoute, reactRouteSet, ReactPages
<1>2. PathsKnown
  BY <1>1 DEF ShellInit, PathsKnown, Scripts, Blank, NoMenu
<1>3. HeaderFixed /\ OneTimer
  BY DEF ShellInit, HeaderFixed, OneTimer
<1>4. MenuFixed
  BY DEF ShellInit, MenuFixed, NoMenu
<1>5. QED
  BY <1>2, <1>3, <1>4 DEF ShellInv

\* The scripts run before React has rendered anything.
LEMMA ScriptsShell ==
  ASSUME ShellInv, HeadScript \/ NavScript \/ CardinalityScript
  PROVE  ShellInv'
<1>1. /\ UNCHANGED <<url, navReady, base, redirected, header, links, main, menu, pending, timers, called>>
      /\ script \in {"head", "nav", "cardinality"}
  BY DEF HeadScript, NavScript, CardinalityScript
<1>2. isReactRoute(url) /\ Blank /\ header = "none" /\ ~ menu.open /\ "stats" \notin watching
  BY <1>1 DEF ShellInv, PathsKnown, Blank
<1>3. PathsKnown'
  <2>1. isReactRoute(url)' /\ Blank'
    BY <1>1, <1>2 DEF isReactRoute, Blank
  <2>2. script' \in {"nav", "cardinality", "bundle"} /\ "stats" \notin watching'
    BY <1>2 DEF HeadScript, NavScript, CardinalityScript
  <2>3. pagePath' = IF url \in PAGES THEN url ELSE NoPage
    BY <1>1 DEF HeadScript, NavScript, CardinalityScript, ShellInv, PathsKnown
  <2>4. script' \in {"cardinality", "bundle", "react"} => "nav" \in watching'
    BY <1>1 DEF HeadScript, NavScript, CardinalityScript, ShellInv, PathsKnown
  <2>5. QED
    BY <1>1, <2>1, <2>2, <2>3, <2>4 DEF PathsKnown, Scripts
<1>4. HeaderFixed' /\ OneTimer'
  BY <1>1, <1>2 DEF HeaderFixed, OneTimer, ShellInv
<1>5. MenuFixed'
  BY <1>1, <1>2 DEF MenuFixed, ShellInv
<1>6. QED
  BY <1>3, <1>4, <1>5 DEF ShellInv

\* The UI takes its prefix from the URL and calls the API under the real one.
LEMMA BundleShell ==
  ASSUME ShellInv, StartBundle
  PROVE  ShellInv'
<1>1. /\ UNCHANGED <<url, pagePath, navReady, redirected, header, links, main, menu, watching,
                      pending, timers>>
      /\ script = "bundle" /\ script' = "react"
      /\ base' = PathPrefixOf(url) /\ called' = FetchPath(Append(base', "api"))
  BY DEF StartBundle
<1>2. /\ isReactRoute(url) /\ header = "none" /\ ~ menu.open /\ "nav" \in watching
      /\ pagePath = IF url \in PAGES THEN url ELSE NoPage
  BY <1>1 DEF ShellInv, PathsKnown, Blank
<1>3. "api" \in Segments
  BY DEF Segments
<1>4. CASE url \in PAGES
  <2>1. pagePath = url /\ pagePath \in PAGES /\ pagePath # NoPage /\ url \in Seq(Segments)
        /\ Last(url) \notin ReactPages
    BY <1>2, <1>4, Names
  <2>2. base' = pagePath
    BY <1>1, <2>1 DEF PathPrefixOf
  <2>3. called' = Page("api")
    <3>1. /\ Len(Append(url, "api")) = Len(url) + 1 /\ Len(url) \in Nat
          /\ SubSeq(Append(url, "api"), 1, Len(url)) = url
          /\ Prefix \o SubSeq(Append(url, "api"), Len(url) + 1, Len(Append(url, "api"))) = Page("api")
      BY <1>3, <2>1, BelowFacts
    <3>2. Len(Append(url, "api")) > Len(url)
      BY <3>1
    <3>3. QED
      BY <1>1, <2>1, <2>2, <3>1, <3>2 DEF FetchPath
  <2>4. QED
    BY <1>1, <1>2, <2>1, <2>2, <2>3 DEF ShellInv, PathsKnown, HeaderFixed, MenuFixed, OneTimer, Scripts
<1>5. CASE url \notin PAGES
  <2>1. pagePath = NoPage /\ Last(url) \in ReactPages /\ Front(url) = Prefix
    BY <1>2, <1>5, Names
  <2>2. base' = Prefix /\ called' = Page("api")
    BY <1>1, <2>1 DEF PathPrefixOf, FetchPath, Page
  <2>3. isReactRoute(url)'
    BY <1>1, <1>2 DEF isReactRoute
  <2>4. QED
    BY <1>1, <1>2, <2>1, <2>2, <2>3 DEF ShellInv, PathsKnown, HeaderFixed, MenuFixed, OneTimer, Scripts
<1>6. QED
  BY <1>4, <1>5

\* Between the callbacks nothing is left for nav.js to do, so a change of the rest
\* of the page leaves the shell as it was.
LEMMA RestShell ==
  ASSUME ShellInv, UNCHANGED shellRest, "nav" \notin pending \/ UNCHANGED pending
  PROVE  ShellInv'
<1>1. UNCHANGED <<url, script, pagePath, base, header, links, main, menu, watching, timers, called>>
  BY DEF shellRest
<1>2. PathsKnown'
  BY <1>1 DEF ShellInv, PathsKnown, Blank, isReactRoute
<1>3. HeaderFixed' /\ OneTimer'
  BY <1>1 DEF ShellInv, HeaderFixed, OneTimer, isReactRoute
<1>4. MenuFixed'
  BY <1>1 DEF ShellInv, MenuFixed, ServedSection, OwnOnTop, RawItems, isReactRoute
<1>5. QED
  BY <1>2, <1>3, <1>4 DEF ShellInv

\* The router's redirect happens on the proxeus pages only: elsewhere the URL is a
\* page below the prefix React works with.
LEMMA RedirectShell ==
  ASSUME ShellInv, ReactRedirects
  PROVE  ShellInv' /\ pagePath \in PAGES
<1>1. /\ UNCHANGED <<script, pagePath, navReady, base, header, links, main, menu, watching,
                      pending, timers, called>>
      /\ script = "react" /\ base = url
  BY DEF ReactRedirects
<1>2. pagePath \in PAGES /\ base = pagePath
  BY <1>1, Names DEF ShellInv, PathsKnown
<1>3. PathsKnown'
  BY <1>1, <1>2 DEF ShellInv, PathsKnown
<1>4. HeaderFixed' /\ OneTimer'
  BY <1>1 DEF ShellInv, HeaderFixed, OneTimer, isReactRoute
<1>5. MenuFixed'
  BY <1>1 DEF ShellInv, MenuFixed, ServedSection, OwnOnTop, RawItems, isReactRoute
<1>6. QED
  BY <1>2, <1>3, <1>4, <1>5 DEF ShellInv

\* What React renders calls the observer of nav.js.
LEMMA RenderShell ==
  ASSUME ShellInv, ReactRenders
  PROVE  ShellInv'
<1>1. /\ UNCHANGED <<url, script, pagePath, base, menu, watching, timers, called>>
      /\ script = "react" /\ pending = {} /\ pending' = watching
  BY DEF ReactRenders, Mutated, Task
<1>2. "nav" \in watching /\ header # "raw"
  BY <1>1 DEF ShellInv, PathsKnown, HeaderFixed
<1>3. PICK h \in {header, "bare", "raw"}, m \in {main, "react"} :
        /\ header \in {"none", "bare"} \/ h = header
        /\ main = "none" \/ m = main
        /\ header' = h /\ main' = m
        /\ links' = IF h = "raw" THEN {Link(Append(base, t)) : t \in HeaderTabs} ELSE links
  BY DEF ReactRenders
<1>4. PathsKnown'
  BY <1>1 DEF ShellInv, PathsKnown, isReactRoute
<1>5. HeaderFixed'
  <2>1. CASE h = "raw"
    BY <1>1, <1>2, <1>3, <2>1 DEF HeaderFixed
  <2>2. CASE h # "raw"
    BY <1>1, <1>2, <1>3, <2>2 DEF ShellInv, HeaderFixed, isReactRoute
  <2>3. QED
    BY <2>1, <2>2
<1>6. MenuFixed'
  BY <1>1 DEF ShellInv, MenuFixed, ServedSection, OwnOnTop, RawItems, isReactRoute
<1>7. OneTimer'
  BY <1>1, <1>3 DEF ShellInv, OneTimer
<1>8. QED
  BY <1>4, <1>5, <1>6, <1>7 DEF ShellInv

\* A menu opens with React's own links, and the observer of nav.js is called.
LEMMA MenuShell ==
  ASSUME ShellInv, OpenMenu \/ CloseMenu
  PROVE  ShellInv'
<1>1. /\ UNCHANGED <<url, script, pagePath, base, header, links, main, watching, timers, called>>
      /\ pending = {} /\ pending' = watching
  BY DEF OpenMenu, CloseMenu, Mutated, Task
<1>2. script = "react" /\ "nav" \in watching /\ header # "raw"
  BY <1>1 DEF OpenMenu, CloseMenu, ShellInv, PathsKnown, HeaderFixed, Blank
<1>3. PathsKnown'
  BY <1>1, <1>2 DEF ShellInv, PathsKnown, isReactRoute
<1>4. HeaderFixed' /\ OneTimer'
  BY <1>1, <1>2 DEF ShellInv, HeaderFixed, OneTimer, isReactRoute
<1>5. MenuFixed'
  <2>1. CASE OpenMenu
    <3>1. menu' = [open |-> TRUE, processed |-> FALSE,
                   top |-> SetToSeq({Link(Append(base, t)) : t \in MenuTop}),
                   low |-> SetToSeq({Link(Append(base, t)) : t \in MenuLow})]
      BY <2>1 DEF OpenMenu
    <3>2. /\ SetToSeq({Link(Append(base, t)) : t \in MenuTop}) \in Seq(RawItems)
          /\ SetToSeq({Link(Append(base, t)) : t \in MenuLow}) \in Seq(RawItems)
      BY RawListed, ShellAssumption
    <3>3. RawItems' = RawItems
      BY <1>1 DEF RawItems
    <3>4. menu'.open /\ ~ menu'.processed /\ menu'.top \in Seq(RawItems) /\ menu'.low \in Seq(RawItems)
      BY <3>1, <3>2
    <3>5. QED
      BY <1>1, <1>2, <3>3, <3>4 DEF MenuFixed
  <2>2. CASE CloseMenu
    BY <2>2 DEF CloseMenu, MenuFixed, NoMenu
  <2>3. QED
    BY <2>1, <2>2
<1>6. QED
  BY <1>3, <1>4, <1>5 DEF ShellInv

\* The callback of nav.js leaves no link behind that leads below the page.
LEMMA NavShell ==
  ASSUME ShellInv, NavCallback
  PROVE  ShellInv'
<1>1. /\ UNCHANGED <<url, script, pagePath, base, redirected, watching, called>>
      /\ "nav" \in pending
      /\ menu' = IF menu.open /\ ~ menu.processed THEN Customised(menu) ELSE menu
      /\ main' = IF RendersBackends THEN "backends" ELSE main
      /\ timers' = IF RendersBackends THEN timers + 1 ELSE timers
      /\ customiseHeader
  BY DEF NavCallback
<1>2. header # "none" \/ menu.open \/ main # "none" => script = "react"
  BY DEF ShellInv, PathsKnown, Blank
<1>3. RendersBackends => main = "react"
  BY DEF RendersBackends
<1>4. PathsKnown'
  <2>1. isReactRoute(url)' <=> isReactRoute(url)
    BY <1>1 DEF isReactRoute
  <2>2. script # "react" => Blank'
    <3> SUFFICES ASSUME script # "react" PROVE Blank'
      OBVIOUS
    <3>1. header = "none" /\ ~ menu.open /\ main = "none" /\ called = NoPage
      BY DEF ShellInv, PathsKnown, Blank
    <3>2. QED
      BY <1>1, <1>3, <3>1 DEF Blank, customiseHeader
  <2>3. QED
    BY <1>1, <2>1, <2>2 DEF ShellInv, PathsKnown
<1>5. HeaderFixed'
  <2>1. CASE header = "raw"
    <3>1. header' = "done" /\ links' = {fixPageHref(Hide(a, HIDE_NAV)) : a \in links}
      BY <1>1, <2>1 DEF customiseHeader
    <3>2. links = {Link(Append(base, t)) : t \in HeaderTabs}
      BY <2>1 DEF ShellInv, HeaderFixed
    <3>3. \A t \in HeaderTabs :
            /\ fixPageHref(Hide(Link(Append(base, t)), HIDE_NAV)).to = Page(t)
            /\ t \in HIDE_NAV => fixPageHref(Hide(Link(Append(base, t)), HIDE_NAV)).hidden
      BY <1>2, <2>1, RawFixed, ShellAssumption DEF ShellInv
    <3>4. \A a \in links' : \E t \in HeaderTabs : a.to = Page(t) /\ (t \in HIDE_NAV => a.hidden)
      BY <3>1, <3>2, <3>3
    <3>5. "tsdb-status" \in HIDE_NAV
      BY DEF HIDE_NAV
    <3>6. \A a \in links' : a.hidden \/ isReactRoute(a.to)
      BY <3>4, <3>5, Names, ShellAssumption
    <3>7. QED
      BY <3>1, <3>6 DEF HeaderFixed, isReactRoute
  <2>2. CASE header # "raw"
    BY <1>1, <2>2 DEF ShellInv, HeaderFixed, customiseHeader, isReactRoute
  <2>3. QED
    BY <2>1, <2>2
<1>6. MenuFixed'
  <2>1. CASE menu.open /\ ~ menu.processed
    <3>1. /\ PathsKnown /\ script = "react"
          /\ menu.top \in Seq(RawItems) /\ menu.low \in Seq(RawItems)
      BY <1>2, <2>1 DEF ShellInv, MenuFixed
    <3>2. /\ menu'.open /\ menu'.processed
          /\ ServedSection(menu'.top) /\ ServedSection(menu'.low) /\ OwnOnTop(menu'.low)
      BY <1>1, <2>1, <3>1, CustomisedFacts
    <3>3. QED
      BY <3>2 DEF MenuFixed
  <2>2. CASE ~ (menu.open /\ ~ menu.processed)
    BY <1>1, <2>2 DEF ShellInv, MenuFixed, ServedSection, OwnOnTop, isReactRoute
  <2>3. QED
    BY <2>1, <2>2
<1>7. OneTimer'
  BY <1>1, <1>3 DEF ShellInv, OneTimer
<1>8. QED
  BY <1>4, <1>5, <1>6, <1>7 DEF ShellInv

\* The callback of cardinality.js comes after that of nav.js.
LEMMA CardinalityShell ==
  ASSUME ShellInv, RenderCardinality \/ CardinalityWaits
  PROVE  ShellInv'
<1>1. /\ UNCHANGED <<url, script, pagePath, base, redirected, header, links, menu, timers, called>>
      /\ "nav" \notin pending
      /\ "stats" \in watching' => "stats" \in watching
      /\ "nav" \in watching => "nav" \in watching'
      /\ main' = main \/ (main = "react" /\ main' = "cardinality")
  BY DEF RenderCardinality, CardinalityWaits, RendersCardinality
<1>2. PathsKnown'
  BY <1>1 DEF ShellInv, PathsKnown, Blank, isReactRoute
<1>3. HeaderFixed' /\ OneTimer'
  BY <1>1 DEF RenderCardinality, CardinalityWaits, ShellInv, HeaderFixed, OneTimer, isReactRoute
<1>4. MenuFixed'
  BY <1>1 DEF RenderCardinality, CardinalityWaits, ShellInv, MenuFixed, ServedSection, OwnOnTop, isReactRoute
<1>5. QED
  BY <1>2, <1>3, <1>4 DEF ShellInv

\* Between the callbacks every link on the page leads to a route.
LEMMA ClickableServed ==
  ASSUME ShellInv, "nav" \notin pending, NEW a \in Clickable
  PROVE  isReactRoute(a.to)
<1>1. ~ a.hidden
  BY DEF Clickable
<1>2. CASE a \in links
  BY <1>2, <1>1 DEF ShellInv, HeaderFixed
<1>3. CASE a \in ToSet(menu.top) \cup ToSet(menu.low)
  <2>1. CASE menu.open
    BY <1>3, <1>1, <2>1 DEF ShellInv, MenuFixed, ServedSection, ToSet
  <2>2. CASE ~ menu.open
    <3>1. menu.top = <<>> /\ menu.low = <<>>
      BY <2>2 DEF ShellInv, MenuFixed, NoMenu
    <3>2. QED
      BY <1>3, <3>1 DEF ToSet
  <2>3. QED
    BY <2>1, <2>2
<1>4. QED
  BY <1>2, <1>3 DEF Clickable

\* A click loads a route of the server, or lets the router show one.
LEMMA ClickShell ==
  ASSUME ShellInv, NEW a \in Clickable, FollowLink(a) \/ RouteLink(a)
  PROVE  ShellInv'
<1>1. isReactRoute(a.to) /\ pending = {}
  BY ClickableServed DEF FollowLink, RouteLink, Task
<1>2. CASE FollowLink(a)
  <2>1. /\ url' = a.to /\ script' = "head" /\ pagePath' = NoPage /\ header' = "none" /\ links' = {}
        /\ main' = "none" /\ menu' = NoMenu /\ watching' = {} /\ timers' = 0 /\ called' = NoPage
    BY <1>1, <1>2, Names DEF FollowLink, uiRedirect
  <2>2. PathsKnown'
    BY <1>1, <2>1 DEF PathsKnown, Blank, Scripts, NoMenu, isReactRoute
  <2>3. HeaderFixed' /\ OneTimer' /\ MenuFixed'
    BY <2>1 DEF HeaderFixed, OneTimer, MenuFixed, NoMenu
  <2>4. QED
    BY <2>2, <2>3 DEF ShellInv
<1>3. CASE RouteLink(a)
  <2>1. /\ UNCHANGED <<script, pagePath, base, header, links, main, menu, watching, timers, called>>
        /\ header = "done" /\ url' = SetURL(a.to)
    BY <1>3 DEF RouteLink
  <2>2. script = "react"
    BY <2>1 DEF ShellInv, PathsKnown, Blank
  <2>3. pagePath = NoPage => url' = a.to
    BY <2>1 DEF SetURL
  <2>4. PathsKnown'
    BY <1>1, <2>1, <2>2, <2>3 DEF ShellInv, PathsKnown, isReactRoute
  <2>5. HeaderFixed' /\ OneTimer'
    BY <1>1, <2>1 DEF ShellInv, HeaderFixed, OneTimer, isReactRoute
  <2>6. MenuFixed'
    BY <1>1, <2>1 DEF ShellInv, MenuFixed, ServedSection, OwnOnTop, isReactRoute
  <2>7. QED
    BY <2>4, <2>5, <2>6 DEF ShellInv
<1>4. QED
  BY <1>2, <1>3

\* stats.js starts its observer and changes nothing of the shell.
LEMMA StartStatsShell ==
  ASSUME ShellInv, StartStats
  PROVE  ShellInv'
<1>1. /\ UNCHANGED <<url, script, pagePath, base, header, links, main, menu, pending, timers, called>>
      /\ script = "react" /\ watching \subseteq watching'
  BY DEF StartStats
<1>2. PathsKnown'
  BY <1>1 DEF ShellInv, PathsKnown, isReactRoute
<1>3. HeaderFixed' /\ OneTimer'
  BY <1>1 DEF ShellInv, HeaderFixed, OneTimer, isReactRoute
<1>4. MenuFixed'
  BY <1>1 DEF ShellInv, MenuFixed, ServedSection, OwnOnTop, RawItems, isReactRoute
<1>5. QED
  BY <1>2, <1>3, <1>4 DEF ShellInv

\* Every step of the tab keeps the shell's invariant.
LEMMA NextShell == ShellInv /\ [Next]_vars => ShellInv'
<1> SUFFICES ASSUME ShellInv, [Next]_vars PROVE ShellInv'
  OBVIOUS
<1>1. CASE ShellSteps
  BY <1>1, ScriptsShell, BundleShell, RedirectShell, RenderShell, NavShell, CardinalityShell
  DEF ShellSteps
<1>2. CASE ShellActs
  <2>1. CASE ReactMutates
    BY <2>1, RestShell DEF ReactMutates, Task, shellRest
  <2>2. QED
    BY <1>2, <2>1, MenuShell DEF ShellActs
<1>3. CASE PollSteps
  BY <1>3, RestShell DEF PollSteps, PollBackends, Task, shellRest
<1>4. CASE OpenCardinality
  BY <1>4, CardinalityShell DEF OpenCardinality
<1>5. CASE LeavePage \/ RoutePage
  BY <1>5, ClickShell DEF LeavePage, RoutePage
<1>6. CASE SubmitForm \/ \E s \in LoadSlots : SettleLoad(s)
  BY <1>6, RestShell DEF SubmitForm, SettleLoad, Task
<1>7. CASE \/ \E s \in LoadSlots : ServeLoad(s)
           \/ ToggleElsewhere
           \/ UNCHANGED vars
  <2>1. UNCHANGED shellVars
    BY <1>7 DEF ServeLoad, ToggleElsewhere, vars
  <2>2. QED
    BY <2>1, RestShell DEF shellVars, shellRest
<1>8. CASE \E p \in Panels : PanelSteps(p) \/ PanelActs(p)
  <2>1. UNCHANGED shellRest /\ (pending = {} \/ UNCHANGED pending)
    BY <1>8 DEF PanelSteps, PanelActs, Commit, SwitchView, Click, Task
  <2>2. QED
    BY <2>1, RestShell
<1>9. CASE StatsSteps
  <2>1. CASE StartStats
    BY <2>1, StartStatsShell
  <2>2. CASE (scheduleRender \/ Frame) /\ UNCHANGED shellRest
    BY <2>2, RestShell DEF scheduleRender, Frame, Task
  <2>3. QED
    BY <1>9, <2>1, <2>2 DEF StatsSteps
<1>10. QED
  BY <1>1, <1>2, <1>4, <1>5, <1>6, <1>7, <1>8, <1>9, <1>3 DEF Next

\* What the shell knows of the page and has made of its links, in every state of
\* the tab.
THEOREM SpecShell == Spec => []ShellInv
<1>1. Init => ShellInv
  BY InitShell DEF Init
<1>2. QED
  BY <1>1, NextShell, PTL DEF Spec

\* nav.js adds its items to a menu once and starts one polling timer, however often
\* its observer is called.
THEOREM ItemsInjectedOnce == Spec => []InjectedOnce
<1>1. ShellInv => InjectedOnce
  <2> SUFFICES ASSUME ShellInv PROVE InjectedOnce
    OBVIOUS
  <2>1. timers <= 1
    BY DEF ShellInv, OneTimer
  <2>2. ASSUME NEW p \in PAGES
        PROVE  Cardinality({i \in DOMAIN menu.low : menu.low[i].to = p}) <= 1
    <3> DEFINE I == {i \in DOMAIN menu.low : menu.low[i].to = p}
    <3>1. \E k \in 1 .. 2 : I \subseteq {k}
      <4>1. CASE menu.open /\ menu.processed
        <5>1. OwnOnTop(menu.low)
          BY <4>1 DEF ShellInv, MenuFixed
        <5>2. p = BACKENDS_PATH \/ p = CARDINALITY_PATH
          BY DEF PAGES
        <5>3. QED
          BY <5>1, <5>2 DEF OwnOnTop
      <4>2. CASE menu.open /\ ~ menu.processed
        <5>1. menu.low \in Seq(RawItems) /\ script = "react"
          BY <4>2 DEF ShellInv, MenuFixed, PathsKnown, Blank
        <5>2. \A i \in DOMAIN menu.low : menu.low[i] \in RawItems
          BY <5>1, ElementOfSeq, LenProperties
        <5>3. \A t \in ReactPages : Append(base, t) # p
          <6> TAKE t \in ReactPages
          <6>1. CASE base = Prefix
            BY <6>1, Names DEF Page
          <6>2. CASE base \in PAGES
            <7>1. base \in Seq(Segments) /\ t \in Segments /\ Len(base) = Len(Prefix) + 1
                  /\ Len(p) = Len(Prefix) + 1 /\ Len(Prefix) \in Nat
              BY <6>2, Names
            <7>2. Len(Append(base, t)) = Len(base) + 1
              BY <7>1, BelowFacts
            <7>3. QED
              BY <7>1, <7>2
          <6>3. QED
            BY <5>1, <6>1, <6>2 DEF ShellInv, PathsKnown
        <5>4. \A a \in RawItems : a.to # p
          BY <5>3 DEF RawItems, Link
        <5>5. QED
          BY <5>2, <5>4
      <4>3. CASE ~ menu.open
        <5>1. menu.low = <<>>
          BY <4>3 DEF ShellInv, MenuFixed, NoMenu
        <5>2. QED
          BY <5>1
      <4>4. QED
        BY <4>1, <4>2, <4>3
    <3> HIDE DEF I
    <3>2. PICK k \in 1 .. 2 : I \subseteq {k}
      BY <3>1
    <3>3. IsFiniteSet({k}) /\ Cardinality({k}) = 1
      BY FS_Singleton
    <3>4. Cardinality(I) <= 1
      BY ZenonT(60), <3>2, <3>3, FS_Subset
    <3>5. QED
      BY <3>4 DEF I
  <2>3. QED
    BY <2>1, <2>2 DEF InjectedOnce
<1>2. QED
  BY <1>1, SpecShell, PTL

\* Under every route prefix and whichever of its pages React links to, the one the
\* server does not answer among them, a link that is not hidden leads to a route of
\* the server, and the API is called under the prefix.
THEOREM LinksServed == Spec => []RoutesServed
<1>1. ShellInv => RoutesServed
  <2> SUFFICES ASSUME ShellInv, Task
               PROVE  /\ \A a \in Clickable : isReactRoute(a.to)
                      /\ called \in {NoPage, Page("api")}
    BY DEF RoutesServed
  <2>1. \A a \in Clickable : isReactRoute(a.to)
    BY ClickableServed DEF Task
  <2>2. called \in {NoPage, Page("api")}
    BY DEF ShellInv, PathsKnown, Blank
  <2>3. QED
    BY <2>1, <2>2
<1>2. QED
  BY <1>1, SpecShell, PTL

-----------------------------------------------------------------------------
(***************************************************************************)
(* The Cardinality page.  Answers may come in any order and each is shown: *)
(* what matters is that an answer carries the query it belongs to.         *)
(***************************************************************************)
Accounts(c, q) == c.sent \cup c.notApplied = Asked(q) /\ c.sent \cap c.notApplied = {}
AllAccount(cards, q) == \A i \in DOMAIN cards : Accounts(cards[i], q)

CardInv ==
  /\ DOMAIN loads = LoadSlots
  /\ \A s \in LoadSlots : loads[s].st = "ok" => AllAccount(loads[s].cards, loads[s].q)
  /\ AllAccount(shown.cards, shown.q)
  /\ status = "Loading..." => \E s \in LoadSlots : loads[s].st # "free"

\* Whatever type a group declares, its filters are sent or reported, never both.
LEMMA CollectAccounts ==
  ASSUME NEW q, NEW up
  PROVE  AllAccount(collectCardinality(q, up), q)
<1> SUFFICES ASSUME NEW i \in DOMAIN CardBackends
             PROVE  Accounts(groupCardinality(CardBackends[i], q, up), q)
  BY DEF AllAccount, collectCardinality
<1>1. /\ groupCardinality(CardBackends[i], q, up).sent = tsdbStatusParams(CardBackends[i].type, q).sent
      /\ groupCardinality(CardBackends[i], q, up).notApplied
           = tsdbStatusParams(CardBackends[i].type, q).notApplied
  BY DEF groupCardinality
<1>2. QED
  BY <1>1 DEF Accounts, tsdbStatusParams

\* A page without cards.
LEMMA NothingShown ==
  /\ Nothing.cards = <<>>
  /\ \A q, e : [Nothing EXCEPT !.q = q, !.error = e].cards = <<>>
  /\ \A q : AllAccount(<<>>, q)
<1>1. Nothing.cards = <<>> /\ \A q, e : [Nothing EXCEPT !.q = q, !.error = e].cards = <<>>
  BY DEF Nothing
<1>2. \A q : AllAccount(<<>>, q)
  BY DEF AllAccount
<1>3. QED
  BY <1>1, <1>2

\* The Cardinality page before it is opened.
LEMMA InitCard == CardInit => CardInv
<1> SUFFICES ASSUME CardInit PROVE CardInv
  OBVIOUS
<1>1. AllAccount(shown.cards, shown.q)
  BY NothingShown DEF CardInit
<1>2. DOMAIN loads = LoadSlots /\ \A s \in LoadSlots : loads[s].st = "free"
  BY DEF CardInit, NoLoad
<1>3. QED
  BY <1>1, <1>2 DEF CardInit, CardInv

\* Opening the Cardinality page begins with no cards and nothing in flight.
LEMMA ResetCard == CardReset => CardInv'
<1> SUFFICES ASSUME CardReset PROVE CardInv'
  OBVIOUS
<1>1. AllAccount(shown'.cards, shown'.q)
  BY NothingShown DEF CardReset
<1>2. DOMAIN loads' = LoadSlots /\ \A s \in LoadSlots : loads'[s].st = "free"
  BY DEF CardReset, NoLoad
<1>3. QED
  BY <1>1, <1>2 DEF CardReset, CardInv

\* A new request, with the status line saying so.
LEMMA LoadCard ==
  ASSUME CardInv, NEW fs, load(fs)
  PROVE  CardInv'
<1>1. PICK s \in LoadSlots :
        /\ loads' = [loads EXCEPT ![s] = [st |-> "sent", q |-> Query(fs)]]
        /\ UNCHANGED shown
  BY DEF load
<1>2. /\ DOMAIN loads' = LoadSlots
      /\ loads'[s].st = "sent"
      /\ \A r \in LoadSlots : r # s => loads'[r] = loads[r]
  BY <1>1 DEF CardInv
<1>3. QED
  BY <1>1, <1>2 DEF CardInv

\* The handler answers with cards that account for the filters, or rejects.
LEMMA ServeCard ==
  ASSUME CardInv, NEW s \in LoadSlots, serveCardinality(s)
  PROVE  CardInv'
<1>1. UNCHANGED <<status, shown>> /\ DOMAIN loads = LoadSlots
  BY DEF serveCardinality, CardInv
<1>2. \/ \E up : loads' = [loads EXCEPT ![s] = [st |-> "ok", q |-> loads[s].q,
                                               cards |-> collectCardinality(loads[s].q, up)]]
      \/ loads' = [loads EXCEPT ![s] = [st |-> "rejected", q |-> loads[s].q]]
  BY DEF serveCardinality
<1>3. /\ DOMAIN loads' = LoadSlots /\ loads'[s].st # "free"
      /\ \A r \in LoadSlots : r # s => loads'[r] = loads[r]
  BY <1>1, <1>2
<1>4. loads'[s].st = "ok" => AllAccount(loads'[s].cards, loads'[s].q)
  <2>1. CASE loads' = [loads EXCEPT ![s] = [st |-> "rejected", q |-> loads[s].q]]
    BY <1>1, <2>1
  <2>2. ASSUME NEW up,
               loads' = [loads EXCEPT ![s] = [st |-> "ok", q |-> loads[s].q,
                                              cards |-> collectCardinality(loads[s].q, up)]]
        PROVE  AllAccount(loads'[s].cards, loads'[s].q)
    <3>1. loads'[s].cards = collectCardinality(loads[s].q, up) /\ loads'[s].q = loads[s].q
      BY <1>1, <2>2
    <3>2. QED
      BY <3>1, CollectAccounts
  <2>3. QED
    BY <1>2, <2>1, <2>2
<1>5. QED
  BY <1>1, <1>3, <1>4 DEF CardInv

\* An answer that is shown, of whichever request, takes the status line with it.
LEMMA SettleCard ==
  ASSUME CardInv, NEW s \in LoadSlots, ShowCards(s) \/ ShowLoadError(s)
  PROVE  CardInv'
<1>1. loads' = [loads EXCEPT ![s] = NoLoad] /\ status' # "Loading..."
  BY DEF ShowCards, ShowLoadError
<1>2. /\ DOMAIN loads' = LoadSlots /\ loads'[s].st = "free"
      /\ \A r \in LoadSlots : r # s => loads'[r] = loads[r]
  BY <1>1 DEF CardInv, NoLoad
<1>3. AllAccount(shown'.cards, shown'.q)
  <2>1. CASE ShowCards(s)
    <3> DEFINE cs == [i \in DOMAIN loads[s].cards |-> card(loads[s].cards[i])]
    <3>1. shown' = [q |-> loads[s].q, error |-> FALSE, cards |-> cs]
      BY <2>1 DEF ShowCards
    <3>2. AllAccount(loads[s].cards, loads[s].q)
      BY <2>1 DEF ShowCards, CardInv
    <3>3. \A g : card(g).sent = g.sent /\ card(g).notApplied = g.notApplied
      BY DEF card
    <3>4. AllAccount(cs, loads[s].q)
      BY <3>2, <3>3 DEF AllAccount, Accounts
    <3> HIDE DEF cs
    <3>5. QED
      BY <3>1, <3>4
  <2>2. CASE ShowLoadError(s)
    <3>1. shown'.cards = <<>>
      BY <2>2, NothingShown DEF ShowLoadError
    <3>2. QED
      BY <3>1, NothingShown
  <2>3. QED
    BY <2>1, <2>2
<1>4. QED
  BY <1>1, <1>2, <1>3 DEF CardInv

\* Every step of the tab preserves CardInv.
LEMMA NextCard == CardInv /\ [Next]_vars => CardInv'
<1> SUFFICES ASSUME CardInv, [Next]_vars PROVE CardInv'
  OBVIOUS
<1>1. CASE UNCHANGED cardVars
  BY <1>1 DEF cardVars, CardInv, AllAccount
<1>2. CASE OpenCardinality \/ SubmitForm
  BY <1>2, LoadCard DEF OpenCardinality, SubmitForm, Submit
<1>3. CASE LeavePage
  BY <1>3, ResetCard DEF LeavePage
<1>4. CASE \E s \in LoadSlots : ServeLoad(s)
  BY <1>4, ServeCard DEF ServeLoad
<1>5. CASE \E s \in LoadSlots : SettleLoad(s)
  BY <1>5, SettleCard DEF SettleLoad
<1>6. QED
  BY <1>1, <1>2, <1>3, <1>4, <1>5
  DEF Next, vars, ShellSteps, ShellActs, PollSteps, RoutePage, PanelSteps, PanelActs, StatsSteps,
      ToggleElsewhere, cardVars

\* Whatever requests overlap and in whatever order they are answered, every card
\* accounts for the filters of its own request, and 'Loading...' means that one is
\* in flight.
THEOREM CardsHonest == Spec => []CardinalityHonest
<1>1. Init => CardInv
  BY InitCard DEF Init
<1>2. CardInv => CardinalityHonest
  BY DEF CardInv, CardinalityHonest, AllAccount, Accounts
<1>3. QED
  BY <1>1, <1>2, NextCard, PTL DEF Spec

-----------------------------------------------------------------------------
\* A click is answered with the same setting on every block, in any state.
THEOREM ClicksAgree == Spec => ClickAgrees
<1>1. ASSUME NEW p \in Panels, Click(p), NEW q \in Panels, block'[q] # NoBlock
      PROVE  block'[q].open = isOpen(stored')
  <2>1. block' = [r \in Panels |-> RenderPanel(r, TRUE, stored')]
    BY <1>1 DEF Click, renderPanels
  <2>2. block'[q] = buildBlock(result[q], stored')
    BY <1>1, <2>1 DEF RenderPanel
  <2>3. QED
    BY <2>2 DEF buildBlock
<1>2. [Next]_vars =>
        [\A p \in Panels : Click(p) =>
           \A q, r \in Panels : block'[q] # NoBlock /\ block'[r] # NoBlock =>
                                  block'[q].open = block'[r].open]_vars
  BY <1>1
<1>3. QED
  BY <1>2, PTL DEF Spec, ClickAgrees

-----------------------------------------------------------------------------
(***************************************************************************)
(* The blocks.  Until an animation frame is due, a panel whose result is   *)
(* on the page has the block that belongs to it; React may be one commit   *)
(* behind, and then the result is never again the one on the page, but for *)
(* a query that failed before and fails again.                             *)
(***************************************************************************)
Kinds == {"none", "fetching", "refetching", "error", "data"}
PanelStats == Recorded \cup {NoStats}
Results == [kind : Kinds, id : 0 .. 4, stats : PanelStats]

PanelTypes ==
  /\ view \in [Panels -> {"table", "graph", "explain"}]
  /\ result \in [Panels -> Results] /\ dom \in [Panels -> Results]
  /\ block \in [Panels -> [id : 0 .. 4, open : BOOLEAN, stats : PanelStats]]

PanelsMounted ==
  ~ PanelsThere => \A p \in Panels : /\ block[p] = NoBlock /\ dom[p] = result[p]
                                     /\ result[p].kind \in {"none", "fetching"}

ResultsFollow ==
  \A p \in Panels : /\ view[p] = "explain" => result[p].kind = "none"
                    /\ result[p].kind = "refetching" => dom[p].kind # "error"

Right(p) ==
  CASE result[p].kind = "data"       -> block[p].id = result[p].id
    [] result[p].kind = "refetching" -> block[p].id \in {0, result[p].id}
    [] OTHER                         -> block[p] = NoBlock

Settled(p) == /\ dom[p] = result[p] => Right(p)
              /\ result[p].kind = "fetching" /\ dom[p].kind = "error" => block[p] = NoBlock

FrameDue == frame \/ "stats" \in pending

BlocksSettled == "stats" \in watching /\ ~ FrameDue => \A p \in Panels : Settled(p)

PanelInv == PanelTypes /\ PanelsMounted /\ ResultsFollow /\ BlocksSettled

\* React's panels as they are mounted.
LEMMA FreshTypes ==
  ASSUME NEW k \in Kinds
  PROVE  /\ Result(k) \in Results /\ Result(k).kind = k /\ Result(k).id = 0
         /\ NoBlock \in [id : 0 .. 4, open : BOOLEAN, stats : PanelStats]
BY DEF Result, Results, NoBlock, PanelStats

\* Of four identities one is free.
LEMMA NewIdFacts ==
  ASSUME NEW p \in Panels
  PROVE  NewId(p) \in 1 .. 4 /\ NewId(p) \notin {result[p].id, dom[p].id, block[p].id}
<1> DEFINE X == {result[p].id, dom[p].id, block[p].id}
<1>1. \E i \in 1 .. 4 : i \notin X /\ \A j \in 1 .. i - 1 : j \in X
  <2>1. CASE 1 \notin X
    <3>1. \A j \in 1 .. 1 - 1 : j \in X
      OBVIOUS
    <3>2. QED
      BY <2>1, <3>1
  <2>2. CASE 1 \in X /\ 2 \notin X
    <3>1. \A j \in 1 .. 2 - 1 : j \in X
      <4>1. \A j \in 1 .. 2 - 1 : j = 1
        OBVIOUS
      <4>2. QED
        BY <2>2, <4>1
    <3>2. QED
      BY <2>2, <3>1
  <2>3. CASE 1 \in X /\ 2 \in X /\ 3 \notin X
    <3>1. \A j \in 1 .. 3 - 1 : j \in X
      <4>1. \A j \in 1 .. 3 - 1 : j = 1 \/ j = 2
        OBVIOUS
      <4>2. QED
        BY <2>3, <4>1
    <3>2. QED
      BY <2>3, <3>1
  <2>4. CASE 1 \in X /\ 2 \in X /\ 3 \in X
    <3>1. 4 \notin X
      BY <2>4
    <3>2. \A j \in 1 .. 4 - 1 : j \in X
      <4>1. \A j \in 1 .. 4 - 1 : j = 1 \/ j = 2 \/ j = 3
        OBVIOUS
      <4>2. QED
        BY <2>4, <4>1
    <3>3. QED
      BY <3>1, <3>2
  <2>5. QED
    BY <2>1, <2>2, <2>3, <2>4
<1>2. QED
  BY <1>1 DEF NewId

\* No panel is mounted before React runs.
LEMMA InitPanels == Init => PanelInv
<1> SUFFICES ASSUME Init PROVE PanelInv
  OBVIOUS
<1>1. PICK k \in {"none", "fetching"} : result = [p \in Panels |-> Result(k)]
  BY DEF Init, StatsInit
<1>2. k \in Kinds /\ dom = result /\ block = [p \in Panels |-> NoBlock]
      /\ view = [p \in Panels |-> "table"] /\ watching = {}
  BY DEF Init, StatsInit, ShellInit, Kinds
<1>3. \A p \in Panels : result[p] \in Results /\ result[p].kind = k
  BY <1>1, <1>2, FreshTypes
<1>4. PanelTypes
  BY <1>1, <1>2, FreshTypes DEF PanelTypes
<1>5. PanelsMounted /\ ResultsFollow /\ BlocksSettled
  BY <1>1, <1>2, <1>3 DEF PanelsMounted, ResultsFollow, BlocksSettled
<1>6. QED
  BY <1>4, <1>5 DEF PanelInv

\* A step of the rest of the page: the panels stay as they are, and a frame that is
\* due stays due.
LEMMA OtherPanels ==
  ASSUME PanelInv, UNCHANGED <<view, result, dom, block>>,
         PanelsThere => PanelsThere',
         "stats" \in watching' => ("stats" \in watching /\ (FrameDue => FrameDue')) \/ FrameDue'
  PROVE  PanelInv'
<1>1. PanelTypes' /\ PanelsMounted' /\ ResultsFollow'
  BY DEF PanelInv, PanelTypes, PanelsMounted, ResultsFollow
<1>2. BlocksSettled'
  BY DEF PanelInv, BlocksSettled, Settled, Right
<1>3. QED
  BY <1>1, <1>2 DEF PanelInv

\* The panels go with the query page.
LEMMA GonePanels ==
  ASSUME PanelInv, PanelsGone
  PROVE  PanelInv'
<1>1. /\ view' = [p \in Panels |-> "table"]
      /\ result' = [p \in Panels |-> Result("none")] /\ dom' = [p \in Panels |-> Result("none")]
      /\ block' = [p \in Panels |-> NoBlock] /\ "none" \in Kinds
  BY DEF PanelsGone, Kinds
<1>2. \A p \in Panels : /\ result'[p].kind = "none" /\ dom'[p] = result'[p]
                        /\ block'[p] = NoBlock /\ view'[p] = "table"
  BY <1>1, FreshTypes
<1>3. PanelTypes'
  BY <1>1, FreshTypes DEF PanelTypes
<1>4. PanelsMounted' /\ ResultsFollow'
  BY <1>2 DEF PanelsMounted, ResultsFollow
<1>5. \A p \in Panels : Settled(p)'
  BY <1>2 DEF Settled, Right
<1>6. QED
  BY <1>3, <1>4, <1>5 DEF PanelInv, BlocksSettled

\* A step of one panel: a change of the page makes a frame due, any other leaves the
\* panel settled.
LEMMA OnePanel ==
  ASSUME PanelInv, NEW p \in Panels, PanelTypes', PanelsThere',
         \A q \in Panels : q # p => /\ view'[q] = view[q] /\ result'[q] = result[q]
                                   /\ dom'[q] = dom[q] /\ block'[q] = block[q],
         view'[p] = "explain" => result'[p].kind = "none",
         result'[p].kind = "refetching" => dom'[p].kind # "error",
         \/ "stats" \in watching' => FrameDue'
         \/ /\ UNCHANGED <<watching, frame, pending>>
            /\ Settled(p) => Settled(p)'
  PROVE  PanelInv'
<1>1. ResultsFollow'
  BY DEF PanelInv, ResultsFollow
<1>2. BlocksSettled'
  <2> SUFFICES ASSUME "stats" \in watching', ~ FrameDue' PROVE \A q \in Panels : Settled(q)'
    BY DEF BlocksSettled
  <2>1. \A q \in Panels : Settled(q)
    BY DEF PanelInv, BlocksSettled, FrameDue
  <2>2. \A q \in Panels : q # p => Settled(q)'
    BY <2>1 DEF Settled, Right
  <2>3. QED
    BY <2>1, <2>2
<1>3. QED
  BY <1>1, <1>2 DEF PanelInv, PanelsMounted

\* Running a query leaves what is drawn alone until the next commit.
LEMMA ExecutePanel ==
  ASSUME PanelInv, NEW p \in Panels, Execute(p), UNCHANGED shellRest, UNCHANGED pending
  PROVE  PanelInv'
<1>1. /\ UNCHANGED <<view, dom, block, frame, watching, pending>> /\ PanelsThere'
      /\ dom[p] = result[p] /\ view[p] # "explain" /\ PanelTypes
  BY DEF Execute, PanelsThere, shellRest, PanelInv
<1>2. \/ result' = [result EXCEPT ![p] = Result("fetching")] /\ result[p].kind \in {"none", "error", "data"}
      \/ result[p].kind = "data" /\ result' = [result EXCEPT ![p].kind = "refetching"]
  BY DEF Execute
<1>3. CASE result' = [result EXCEPT ![p] = Result("fetching")] /\ result[p].kind \in {"none", "error", "data"}
  <2>1. Result("fetching") \in Results /\ Result("fetching").kind = "fetching"
    BY FreshTypes DEF Kinds
  <2>2. /\ result' \in [Panels -> Results] /\ result'[p].kind = "fetching"
        /\ \A q \in Panels : q # p => result'[q] = result[q]
    BY <1>1, <1>3, <2>1 DEF PanelTypes
  <2>3. PanelTypes'
    BY <1>1, <2>2 DEF PanelTypes
  <2>4. Settled(p) => Settled(p)'
    BY <1>1, <1>3, <2>2 DEF Settled, Right
  <2>5. QED
    BY <1>1, <2>2, <2>3, <2>4, OnePanel
<1>4. CASE result[p].kind = "data" /\ result' = [result EXCEPT ![p].kind = "refetching"]
  <2>1. result[p] \in Results /\ "refetching" \in Kinds
    BY <1>1 DEF PanelTypes, Kinds
  <2>2. /\ result' \in [Panels -> Results] /\ result'[p].kind = "refetching"
        /\ \A q \in Panels : q # p => result'[q] = result[q]
    BY <1>1, <1>4, <2>1 DEF PanelTypes, Results
  <2>3. PanelTypes'
    BY <1>1, <2>2 DEF PanelTypes
  <2>4. Settled(p)'
    BY <1>1, <1>4, <2>2 DEF Settled, Right
  <2>5. QED
    BY <1>1, <1>4, <2>2, <2>3, <2>4, OnePanel
<1>5. QED
  BY <1>2, <1>3, <1>4

\* An answer has a new identity, so no block drawn before can be taken for it.
LEMMA AnswerPanel ==
  ASSUME PanelInv, NEW p \in Panels, Answer(p), UNCHANGED shellRest, UNCHANGED pending
  PROVE  PanelInv'
<1>1. /\ UNCHANGED <<view, dom, block, frame, watching, pending>> /\ PanelsThere'
      /\ result[p].kind \in {"fetching", "refetching"} /\ PanelTypes
  BY DEF Answer, PanelsThere, shellRest, PanelInv
<1>2. PICK st \in PanelStats :
        result' = [result EXCEPT ![p] = [kind |-> "data", id |-> NewId(p), stats |-> st]]
  BY DEF Answer, PanelStats
<1>3. NewId(p) \in 0 .. 4 /\ NewId(p) # dom[p].id
  BY NewIdFacts
<1>4. [kind |-> "data", id |-> NewId(p), stats |-> st] \in Results
  BY <1>3 DEF Results, Kinds
<1>5. /\ result' \in [Panels -> Results] /\ result'[p].kind = "data" /\ result'[p].id = NewId(p)
      /\ \A q \in Panels : q # p => result'[q] = result[q]
  BY <1>1, <1>2, <1>4 DEF PanelTypes
<1>6. PanelTypes'
  BY <1>1, <1>5 DEF PanelTypes
<1>7. Settled(p)'
  BY <1>1, <1>3, <1>5 DEF Settled
<1>8. view'[p] # "explain"
  BY <1>1 DEF PanelInv, ResultsFollow
<1>9. QED
  BY <1>1, <1>5, <1>6, <1>7, <1>8, OnePanel

\* A query that fails again leaves the page as the first failure did, without a block.
LEMMA FailPanel ==
  ASSUME PanelInv, NEW p \in Panels, AnswerFails(p), UNCHANGED shellRest, UNCHANGED pending
  PROVE  PanelInv'
<1>1. /\ UNCHANGED <<view, dom, block, frame, watching, pending>> /\ PanelsThere'
      /\ result[p].kind \in {"fetching", "refetching"} /\ PanelTypes
      /\ result' = [result EXCEPT ![p].kind = "error"]
  BY DEF AnswerFails, PanelsThere, shellRest, PanelInv
<1>2. result[p] \in Results /\ "error" \in Kinds
  BY <1>1 DEF PanelTypes, Kinds
<1>3. /\ result' \in [Panels -> Results] /\ result'[p].kind = "error"
      /\ \A q \in Panels : q # p => result'[q] = result[q]
  BY <1>1, <1>2 DEF PanelTypes, Results
<1>4. PanelTypes'
  BY <1>1, <1>3 DEF PanelTypes
<1>5. result[p].kind = "refetching" => dom[p].kind # "error"
  BY DEF PanelInv, ResultsFollow
<1>6. Settled(p) => Settled(p)'
  BY <1>1, <1>3, <1>5 DEF Settled, Right
<1>7. view'[p] # "explain"
  BY <1>1 DEF PanelInv, ResultsFollow
<1>8. QED
  BY <1>1, <1>3, <1>4, <1>6, <1>7, OnePanel

\* What React commits wakes the observer of stats.js.
LEMMA CommitPanel ==
  ASSUME PanelInv, NEW p \in Panels, Commit(p), UNCHANGED shellRest
  PROVE  PanelInv'
<1>1. /\ UNCHANGED <<view, result, watching>> /\ PanelsThere' /\ pending' = watching
      /\ PanelTypes /\ dom' = [dom EXCEPT ![p] = result[p]]
  BY DEF Commit, PanelsThere, shellRest, PanelInv, Mutated
<1>2. PICK b \in {block[p], NoBlock} : block' = [block EXCEPT ![p] = b]
  BY DEF Commit
<1>3. NoBlock \in [id : 0 .. 4, open : BOOLEAN, stats : PanelStats]
  BY FreshTypes DEF Kinds
<1>4. PanelTypes'
  BY <1>1, <1>2, <1>3 DEF PanelTypes
<1>5. /\ \A q \in Panels : q # p => dom'[q] = dom[q] /\ block'[q] = block[q]
      /\ dom'[p] = result[p]
  BY <1>1, <1>2 DEF PanelTypes
<1>6. "stats" \in watching' => FrameDue'
  BY <1>1 DEF FrameDue
<1>7. /\ view'[p] = "explain" => result'[p].kind = "none"
      /\ result'[p].kind = "refetching" => dom'[p].kind # "error"
  BY <1>1, <1>5 DEF PanelInv, ResultsFollow
<1>8. QED
  BY <1>1, <1>4, <1>5, <1>6, <1>7, OnePanel

\* Switching the view of a panel mounts it anew, without a block.
LEMMA SwitchPanel ==
  ASSUME PanelInv, NEW p \in Panels, NEW v \in {"table", "graph", "explain"}, SwitchView(p, v),
         UNCHANGED shellRest
  PROVE  PanelInv'
<1> DEFINE k == IF v = "explain" THEN "none" ELSE "fetching"
<1>1. /\ UNCHANGED watching /\ PanelsThere' /\ pending' = watching /\ PanelTypes
      /\ view' = [view EXCEPT ![p] = v] /\ block' = [block EXCEPT ![p] = NoBlock]
      /\ result' = [result EXCEPT ![p] = Result(k)] /\ dom' = [dom EXCEPT ![p] = Result(k)]
  BY DEF SwitchView, PanelsThere, shellRest, PanelInv, Mutated
<1>2. k \in Kinds /\ k # "refetching" /\ (v = "explain" => k = "none")
  BY DEF Kinds
<1> HIDE DEF k
<1>3. Result(k) \in Results /\ Result(k).kind = k
      /\ NoBlock \in [id : 0 .. 4, open : BOOLEAN, stats : PanelStats]
  BY <1>2, FreshTypes
<1>4. PanelTypes'
  BY <1>1, <1>3 DEF PanelTypes
<1>5. /\ \A q \in Panels : q # p => /\ view'[q] = view[q] /\ result'[q] = result[q]
                                   /\ dom'[q] = dom[q] /\ block'[q] = block[q]
      /\ view'[p] = v /\ result'[p].kind = k
  BY <1>1, <1>3 DEF PanelTypes
<1>6. "stats" \in watching' => FrameDue'
  BY <1>1 DEF FrameDue
<1>7. QED
  BY <1>1, <1>2, <1>4, <1>5, <1>6, OnePanel

\* What renderPanels puts into a panel is typed.
LEMMA RenderTypes ==
  ASSUME PanelTypes, NEW p \in Panels, NEW force \in BOOLEAN, NEW st
  PROVE  RenderPanel(p, force, st) \in [id : 0 .. 4, open : BOOLEAN, stats : PanelStats]
<1>1. /\ block[p] \in [id : 0 .. 4, open : BOOLEAN, stats : PanelStats]
      /\ NoBlock \in [id : 0 .. 4, open : BOOLEAN, stats : PanelStats]
      /\ result[p] \in Results
  BY FreshTypes DEF PanelTypes, Kinds
<1>2. buildBlock(result[p], st) \in [id : 0 .. 4, open : BOOLEAN, stats : PanelStats]
  BY <1>1 DEF buildBlock, isOpen, Results
<1>3. RenderPanel(p, force, st) \in {NoBlock, block[p], buildBlock(result[p], st)}
  BY DEF RenderPanel
<1>4. QED
  BY <1>1, <1>2, <1>3

\* A click draws all blocks anew from what is in the page.
LEMMA ClickPanel ==
  ASSUME PanelInv, NEW p \in Panels, Click(p), UNCHANGED shellRest
  PROVE  PanelInv'
<1>1. /\ UNCHANGED <<view, result, dom, watching>> /\ PanelsThere' /\ pending' = watching /\ PanelTypes
      /\ block' = [q \in Panels |-> RenderPanel(q, TRUE, stored')]
  BY DEF Click, PanelsThere, shellRest, PanelInv, Mutated, renderPanels
<1>2. PanelTypes'
  BY <1>1, RenderTypes DEF PanelTypes
<1>3. QED
  BY <1>1, <1>2 DEF PanelInv, PanelsMounted, ResultsFollow, BlocksSettled, FrameDue

\* A frame that finds nothing to change has found every block right.
LEMMA FramePanel ==
  ASSUME PanelInv, Frame, UNCHANGED shellRest
  PROVE  PanelInv'
<1>1. /\ UNCHANGED <<view, result, dom, watching>> /\ PanelTypes
      /\ renderPanels(FALSE, stored) /\ (PanelsThere' <=> PanelsThere)
      /\ pending' = IF block' # block THEN watching ELSE pending
  BY DEF Frame, PanelsThere, shellRest, PanelInv
<1>2. CASE ~ PanelsThere
  <2>1. block' = block
    BY <1>2 DEF Frame, renderPanels
  <2>2. \A p \in Panels : /\ block[p] = NoBlock /\ dom[p] = result[p]
                          /\ result[p].kind \in {"none", "fetching"}
    BY <1>2 DEF PanelInv, PanelsMounted
  <2>3. \A p \in Panels : Settled(p)'
    BY <1>1, <2>1, <2>2 DEF Settled, Right
  <2>4. QED
    BY <1>1, <2>1, <2>2, <2>3
    DEF PanelInv, PanelTypes, PanelsMounted, ResultsFollow, BlocksSettled
<1>3. CASE PanelsThere
  <2>1. block' = [p \in Panels |-> RenderPanel(p, FALSE, stored)]
    BY <1>1, <1>3 DEF renderPanels
  <2>2. PanelTypes'
    BY <1>1, <2>1, RenderTypes DEF PanelTypes
  <2>3. BlocksSettled'
    <3> SUFFICES ASSUME "stats" \in watching', ~ FrameDue', NEW p \in Panels
                 PROVE  Settled(p)'
      BY DEF BlocksSettled
    <3>1. block' = block /\ block[p] = RenderPanel(p, FALSE, stored)
      BY <1>1, <2>1 DEF FrameDue
    <3>2. view[p] = "explain" => result[p].kind = "none"
      BY DEF PanelInv, ResultsFollow
    <3>3. buildBlock(result[p], stored).id = result[p].id
      BY DEF buildBlock
    <3>4. /\ ~ (HasBackends(p) /\ HasAnchor(p)) => block[p] = NoBlock
          /\ HasBackends(p) /\ HasAnchor(p) => block[p].id = result[p].id
      BY <3>1, <3>3 DEF RenderPanel
    <3>5. NoBlock.id = 0
      BY DEF NoBlock
    <3>6. /\ dom[p] = result[p] => Right(p)
          /\ result[p].kind = "fetching" => block[p] = NoBlock
      BY <3>2, <3>4, <3>5 DEF Right, HasBackends, backendsOf, viewComponent, HasAnchor
    <3>7. QED
      BY <1>1, <3>1, <3>6 DEF Settled, Right
  <2>4. QED
    BY <1>1, <1>3, <2>2, <2>3 DEF PanelInv, PanelsMounted, ResultsFollow
<1>4. QED
  BY <1>2, <1>3

\* The shell never takes the query page away by itself, and it never forgets that
\* stats.js is to be called.
LEMMA ShellPanels ==
  ASSUME ShellInv, PanelInv, ShellSteps \/ ShellActs \/ OpenCardinality
  PROVE  PanelInv'
<1>1. UNCHANGED <<view, result, dom, block, frame>>
  BY DEF ShellSteps, ShellActs, OpenCardinality, statsVars
<1>2. CASE HeadScript \/ NavScript \/ CardinalityScript \/ StartBundle
  <2>1. header # "done" /\ "stats" \notin watching'
    BY <1>2 DEF HeadScript, NavScript, CardinalityScript, StartBundle, ShellInv, PathsKnown, Blank
  <2>2. QED
    BY <1>1, <2>1, OtherPanels DEF PanelsThere
<1>3. CASE ReactRedirects
  <2>1. pagePath # NoPage /\ UNCHANGED <<watching, pending>>
    BY <1>3, RedirectShell, Names DEF ReactRedirects
  <2>2. QED
    BY <1>1, <2>1, OtherPanels DEF PanelsThere, FrameDue
<1>4. CASE ReactRenders \/ ReactMutates \/ OpenMenu \/ CloseMenu
  <2>1. /\ UNCHANGED <<url, pagePath, watching>> /\ pending' = watching
        /\ PanelsThere => header' = "done" /\ main' = "react"
    BY <1>4 DEF ReactRenders, ReactMutates, OpenMenu, CloseMenu, Mutated, PanelsThere
  <2>2. QED
    BY <1>1, <2>1, OtherPanels DEF PanelsThere, FrameDue
<1>5. CASE NavCallback
  <2>1. /\ UNCHANGED <<url, pagePath, watching>>
        /\ header = "done" => header' = "done"
        /\ pagePath = NoPage => main' = main
        /\ "stats" \in pending /\ "stats" \in watching => "stats" \in pending'
    <3>1. pagePath = NoPage => ~ RendersBackends
      BY Names DEF RendersBackends, PAGES
    <3>2. QED
      BY <1>5, <3>1 DEF NavCallback, customiseHeader
  <2>2. QED
    BY <1>1, <2>1, OtherPanels DEF PanelsThere, FrameDue
<1>6. CASE RenderCardinality \/ CardinalityWaits
  <2>1. /\ UNCHANGED <<url, pagePath, header>>
        /\ "stats" \in watching' => "stats" \in watching
        /\ "stats" \in pending /\ "stats" \in watching => "stats" \in pending'
        /\ pagePath = NoPage => main' = main
    <3>1. pagePath = NoPage => ~ RendersCardinality
      BY Names DEF RendersCardinality, PAGES
    <3>2. QED
      BY <1>6, <3>1 DEF RenderCardinality, CardinalityWaits
  <2>2. QED
    BY <1>1, <2>1, OtherPanels DEF PanelsThere, FrameDue
<1>7. QED
  BY <1>2, <1>3, <1>4, <1>5, <1>6 DEF ShellSteps, ShellActs, OpenCardinality

\* Every step of the tab preserves PanelInv.
LEMMA NextPanels == ShellInv /\ PanelInv /\ [Next]_vars => PanelInv'
<1> SUFFICES ASSUME ShellInv, PanelInv, [Next]_vars PROVE PanelInv'
  OBVIOUS
<1>1. CASE ShellSteps \/ ShellActs \/ OpenCardinality
  BY <1>1, ShellPanels
<1>2. CASE LeavePage \/ RoutePage
  BY <1>2, GonePanels DEF LeavePage, RoutePage
<1>3. CASE PollSteps \/ SubmitForm \/ \E s \in LoadSlots : SettleLoad(s)
  <2>1. UNCHANGED <<view, result, dom, block, frame, url, pagePath, header, main, watching>>
        /\ pending' = watching
    BY <1>3 DEF PollSteps, PollBackends, SubmitForm, SettleLoad, shellRest, statsVars, Mutated
  <2>2. QED
    BY <2>1, OtherPanels DEF PanelsThere, FrameDue
<1>4. CASE \/ \E s \in LoadSlots : ServeLoad(s)
           \/ ToggleElsewhere
           \/ UNCHANGED vars
  <2>1. UNCHANGED <<view, result, dom, block, frame, url, pagePath, header, main, watching, pending>>
    BY <1>4 DEF ServeLoad, ToggleElsewhere, OtherTab, vars, shellVars, statsVars
  <2>2. QED
    BY <2>1, OtherPanels DEF PanelsThere, FrameDue
<1>5. CASE \E p \in Panels : PanelSteps(p) \/ PanelActs(p)
  BY <1>5, AnswerPanel, FailPanel, CommitPanel, ExecutePanel, SwitchPanel, ClickPanel
  DEF PanelSteps, PanelActs
<1>6. CASE StatsSteps
  <2>1. CASE StartStats \/ (scheduleRender /\ UNCHANGED shellRest)
    <3>1. /\ UNCHANGED <<view, result, dom, block, url, pagePath, header, main>> /\ frame' = TRUE
      BY <2>1 DEF StartStats, scheduleRender, shellRest
    <3>2. QED
      BY <3>1, OtherPanels DEF PanelsThere, FrameDue
  <2>2. CASE Frame /\ UNCHANGED shellRest
    BY <2>2, FramePanel
  <2>3. QED
    BY <1>6, <2>1, <2>2 DEF StatsSteps
<1>7. QED
  BY <1>1, <1>2, <1>3, <1>4, <1>5, <1>6 DEF Next

\* What the panels show and when a frame is due, in every state of the tab.
THEOREM SpecPanels == Spec => []PanelInv
BY SpecShell, InitPanels, NextPanels, PTL DEF Spec

\* A page at rest shows, in any number of panels, under each answer the block of
\* that answer and nowhere else one.
THEOREM BlocksAreCurrent == Spec => []BlocksCurrent
<1>1. PanelInv => BlocksCurrent
  <2> SUFFICES ASSUME PanelInv, "stats" \in watching, Quiet, NEW p \in Panels PROVE Right(p)
    BY DEF BlocksCurrent, Right
  <2>1. Settled(p) /\ dom[p] = result[p]
    BY DEF PanelInv, BlocksSettled, FrameDue, Quiet
  <2>2. QED
    BY <2>1 DEF Settled
<1>2. QED
  BY <1>1, SpecPanels, PTL

-----------------------------------------------------------------------------
(***************************************************************************)
(* The numbers in a block.  A fold is the choice of a function with an     *)
(* equation; what that function is for a fold of this model is shown by    *)
(* giving one that satisfies the equation, and that no other does, by      *)
(* induction over the subsets of the set it folds.                         *)
(***************************************************************************)
\* Induction over the subsets of a finite set, as its least counterexample.
LEMMA SubsetInduction ==
  ASSUME NEW S, IsFiniteSet(S), NEW G, {} \in G,
         \A T \in SUBSET S : T # {} /\ (\A x \in T : T \ {x} \in G) => T \in G
  PROVE  \A T \in SUBSET S : T \in G
<1>. SUFFICES ASSUME NEW T0 \in SUBSET S, T0 \notin G PROVE FALSE
  OBVIOUS
<1>1. PICK B : B = {T \in SUBSET S : T \notin G}
  OBVIOUS
<1>2. PICK C : C = {Cardinality(T) : T \in B}
  OBVIOUS
<1>3. \A T \in SUBSET S : IsFiniteSet(T) /\ Cardinality(T) \in Nat
  BY FS_Subset, FS_CardinalityType
<1>4. C \subseteq Nat /\ C # {}
  BY <1>1, <1>2, <1>3
<1>5. PICK n \in C : \A m \in C : ~ (<<m, n>> \in OpToRel(<, Nat))
  BY <1>4, NatLessThanWellFounded, WFMin
<1>6. \A m \in Nat, r \in Nat : <<m, r>> \in OpToRel(<, Nat) <=> m < r
  BY DEF OpToRel
<1>7. \A m \in C : ~ (m < n)
  BY <1>4, <1>5, <1>6
<1>8. PICK T \in SUBSET S : T \notin G /\ n = Cardinality(T)
  BY <1>1, <1>2, <1>5
<1>9. T # {} /\ IsFiniteSet(T) /\ n \in Nat
  BY <1>3, <1>8
<1>10. ASSUME NEW x \in T PROVE T \ {x} \in G
  <2>1. Cardinality(T \ {x}) = n - 1 /\ T \ {x} \in SUBSET S
    BY <1>8, <1>9, FS_RemoveElement
  <2>2. n - 1 < n
    BY <1>9
  <2>3. Cardinality(T \ {x}) \notin C
    BY <1>7, <2>1, <2>2
  <2>. QED  BY <1>1, <1>2, <2>1, <2>3
<1>. QED  BY <1>8, <1>9, <1>10

\* A set of positions that has a member has a largest one.
LEMMA MaxOf ==
  ASSUME NEW n \in Nat, NEW s \in SUBSET (1 .. n), s # {}
  PROVE  Max(s) \in s
<1>1. PICK C : C = {n - i : i \in s}
  OBVIOUS
<1>2. C \subseteq Nat /\ C # {}
  <2>1. \A i \in s : n - i \in Nat
    OBVIOUS
  <2>2. PICK i : i \in s
    OBVIOUS
  <2>3. n - i \in C
    BY <1>1, <2>2
  <2>. QED  BY <1>1, <2>1, <2>3
<1>3. PICK m \in C : \A r \in C : ~ (<<r, m>> \in OpToRel(<, Nat))
  BY <1>2, NatLessThanWellFounded, WFMin
<1>4. \A r \in Nat, k \in Nat : <<r, k>> \in OpToRel(<, Nat) <=> r < k
  BY DEF OpToRel
<1>5. \A r \in C : ~ (r < m)
  BY <1>2, <1>3, <1>4
<1>6. PICK i \in s : m = n - i
  BY <1>1, <1>3
<1>7. \A j \in s : i >= j
  <2>. SUFFICES ASSUME NEW j \in s, ~ (i >= j) PROVE FALSE
    OBVIOUS
  <2>1. n - j \in C /\ n - j < n - i
    BY <1>1
  <2>. QED  BY <1>5, <1>6, <2>1
<1>. QED  BY <1>6, <1>7 DEF Max

\* The calls of X that go to the group o, or to a group of T.
To(X, o) == {c \in X : Calls[c] = o}
Into(X, T) == {c \in X : Calls[c] \in T}

\* The calls of a query and the groups a Recorder has rows for.
CallNumbers == 1 .. Len(Calls)
Groups == Snapshot \cup ToSet(Calls)

\* The calls and the rows are finitely many, and every call has its row.
LEMMA CallFacts ==
  /\ Len(Calls) \in Nat /\ DOMAIN Calls = CallNumbers /\ MaxRequests \in Nat
  /\ IsFiniteSet(CallNumbers) /\ Cardinality(CallNumbers) = Len(Calls)
  /\ \A c \in CallNumbers : c \in Nat /\ Calls[c] \in Nat /\ Calls[c] \in Groups
  /\ IsFiniteSet(Groups)
<1>1. Len(Calls) \in Nat /\ DOMAIN Calls = CallNumbers /\ MaxRequests \in Nat
  BY PanelsAssumption DEF CallNumbers
<1>2. IsFiniteSet(CallNumbers) /\ Cardinality(CallNumbers) = Len(Calls)
  <2>1. /\ IsFiniteSet(1 .. Len(Calls))
        /\ Cardinality(1 .. Len(Calls)) = IF 1 > Len(Calls) THEN 0 ELSE Len(Calls) - 1 + 1
    BY SMTT(60), <1>1, FS_Interval
  <2>. QED  BY <1>1, <2>1 DEF CallNumbers
<1>3. \A c \in CallNumbers : c \in Nat /\ Calls[c] \in Nat /\ Calls[c] \in Groups
  BY <1>1, PanelsAssumption DEF CallNumbers, Groups, ToSet
<1>4. IsFiniteSet(ToSet(Calls))
  <2>1. PICK f : f = [c \in CallNumbers |-> Calls[c]]
    OBVIOUS
  <2>2. f \in Surjection(CallNumbers, ToSet(Calls))
    BY <1>1, <2>1 DEF Surjection, ToSet
  <2>. QED  BY <1>2, <2>2, FS_Surjection
<1>5. IsFiniteSet(Groups)
  BY <1>4, FS_Union, PanelsAssumption DEF Groups
<1>. QED  BY <1>1, <1>2, <1>3, <1>5

\* Some of the calls are finitely many.
LEMMA SomeCalls ==
  ASSUME NEW X, X \subseteq CallNumbers
  PROVE  IsFiniteSet(X) /\ Cardinality(X) \in Nat
BY CallFacts, FS_Subset, FS_CardinalityType

\* The sum over the rows of a Recorder with which all calls are done is their number.
LEMMA RowsSum ==
  ASSUME NEW rows, rows = [o \in Groups |-> Cardinality(To(CallNumbers, o))]
  PROVE  FoldFunction(+, 0, rows) = Len(Calls)
<1>1. DOMAIN rows = Groups
  OBVIOUS
<1>. DEFINE Fits(h) == h = [s \in SUBSET Groups |-> IF s = {} THEN 0 ELSE
                              rows[CHOOSE x \in s : TRUE] + h[s \ {CHOOSE x \in s : TRUE}]]
<1>2. FoldFunction(+, 0, rows) = (CHOOSE h : Fits(h))[Groups]
  BY <1>1 DEF FoldFunction, FoldFunctionOnSet, MapThenFoldSet
<1>3. PICK w : w = [s \in SUBSET Groups |-> Cardinality(Into(CallNumbers, s))]
  OBVIOUS
<1>4. ASSUME NEW s \in SUBSET Groups, NEW x \in s
      PROVE  w[s] = rows[x] + w[s \ {x}]
  <2>1. PICK A, B : A = To(CallNumbers, x) /\ B = Into(CallNumbers, s \ {x})
    OBVIOUS
  <2>2. /\ Into(CallNumbers, s) = A \cup B /\ A \cap B = {}
        /\ A \subseteq CallNumbers /\ B \subseteq CallNumbers
    BY <2>1 DEF To, Into
  <2>3. IsFiniteSet(A) /\ IsFiniteSet(B) /\ Cardinality(A) \in Nat /\ Cardinality(B) \in Nat
    BY <2>2, SomeCalls
  <2>4. Cardinality(A \cup B) = Cardinality(A) + Cardinality(B) - Cardinality(A \cap B)
    BY <2>3, FS_Union
  <2>5. Cardinality(A \cup B) = Cardinality(A) + Cardinality(B)
    <3>1. Cardinality(A \cap B) = 0
      BY <2>2, FS_EmptySet
    <3>. QED  BY ONLY <2>3, <2>4, <3>1
  <2>6. rows[x] = Cardinality(A) /\ w[s] = Cardinality(A \cup B) /\ w[s \ {x}] = Cardinality(B)
    BY <1>3, <2>1, <2>2
  <2>. QED  BY <2>5, <2>6
<1>5. w[{}] = 0
  <2>1. Into(CallNumbers, {}) = {}
    BY DEF Into
  <2>. QED  BY <1>3, <2>1, FS_EmptySet
<1>6. Fits(w)
  <2>1. ASSUME NEW s \in SUBSET Groups, s # {}
        PROVE  w[s] = rows[CHOOSE x \in s : TRUE] + w[s \ {CHOOSE x \in s : TRUE}]
    <3>1. (CHOOSE x \in s : TRUE) \in s
      BY <2>1
    <3>. QED  BY <1>4, <3>1
  <2>2. w = [s \in SUBSET Groups |-> w[s]]
    BY <1>3
  <2>. QED  BY <1>5, <2>1, <2>2
<1>7. PICK h : h = CHOOSE f : Fits(f)
  OBVIOUS
<1>8. Fits(h)
  <2>. HIDE DEF Fits
  <2>. QED  BY <1>6, <1>7
<1>9. \A s \in SUBSET Groups : h[s] = w[s]
  <2>1. PICK G : G = {s \in SUBSET Groups : h[s] = w[s]}
    OBVIOUS
  <2>2. {} \in G
    BY <1>5, <1>8, <2>1
  <2>3. ASSUME NEW s \in SUBSET Groups, s # {}, \A x \in s : s \ {x} \in G PROVE s \in G
    <3>1. PICK x \in s : x = CHOOSE y \in s : TRUE
      BY <2>3
    <3>2. h[s] = rows[x] + h[s \ {x}]
      BY <1>8, <2>3, <3>1
    <3>3. h[s \ {x}] = w[s \ {x}]
      BY <2>1, <2>3
    <3>. QED  BY <1>4, <2>1, <3>2, <3>3
  <2>4. \A s \in SUBSET Groups : s \in G
    BY <2>2, <2>3, CallFacts, SubsetInduction
  <2>. QED  BY <2>1, <2>4
<1>10. w[Groups] = Len(Calls)
  <2>1. Into(CallNumbers, Groups) = CallNumbers
    BY CallFacts DEF Into
  <2>. QED  BY <1>3, <2>1, CallFacts
<1>. QED  BY <1>2, <1>7, <1>9, <1>10

\* A Recorder with which the calls of X are done.
After(X) ==
  [groups    |-> [o \in Groups |-> Cardinality(To(X, o))],
   requests  |-> [i \in 1 .. MaxRequests |-> IF i \in X THEN Calls[i] ELSE Nil],
   truncated |-> Cardinality({c \in X : c > MaxRequests})]

\* One more call is one more in the row of its group.
LEMMA RowStep ==
  ASSUME NEW X, X \subseteq CallNumbers, NEW c \in CallNumbers, c \notin X
  PROVE  [o \in Groups |-> Cardinality(To(X \cup {c}, o))]
           = [[o \in Groups |-> Cardinality(To(X, o))]
                EXCEPT ![Calls[c]] = Cardinality(To(X, Calls[c])) + 1]
<1>1. ASSUME NEW o \in Groups, o # Calls[c] PROVE To(X \cup {c}, o) = To(X, o)
  BY <1>1 DEF To
<1>2. To(X \cup {c}, Calls[c]) = To(X, Calls[c]) \cup {c} /\ c \notin To(X, Calls[c])
  BY DEF To
<1>3. To(X, Calls[c]) \subseteq CallNumbers
  BY DEF To
<1>4. Cardinality(To(X \cup {c}, Calls[c])) = Cardinality(To(X, Calls[c])) + 1
  BY <1>2, <1>3, SomeCalls, FS_AddElement
<1>5. Calls[c] \in Groups
  BY CallFacts
<1>. QED  BY <1>1, <1>4, <1>5

\* finish takes a Recorder from the calls done to these and one more.
LEMMA FinishStep ==
  ASSUME NEW X, X \subseteq CallNumbers, NEW c \in CallNumbers, c \notin X
  PROVE  Finish(After(X), c) = After(X \cup {c})
<1>1. PICK g : g = [o \in Groups |-> Cardinality(To(X, o))]
  OBVIOUS
<1>2. PICK q : q = [i \in 1 .. MaxRequests |-> IF i \in X THEN Calls[i] ELSE Nil]
  OBVIOUS
<1>3. PICK t : t = Cardinality({d \in X : d > MaxRequests})
  OBVIOUS
<1>4. After(X) = [groups |-> g, requests |-> q, truncated |-> t]
  BY <1>1, <1>2, <1>3 DEF After
<1>5. c \in Nat /\ MaxRequests \in Nat /\ Calls[c] \in Groups /\ DOMAIN g = Groups
  BY <1>1, CallFacts
<1>6. g[Calls[c]] = Cardinality(To(X, Calls[c]))
  BY <1>1, <1>5
<1>7. After(X \cup {c}).groups = [g EXCEPT ![Calls[c]] = g[Calls[c]] + 1]
  <2>1. After(X \cup {c}).groups = [o \in Groups |-> Cardinality(To(X \cup {c}, o))]
    BY DEF After
  <2>. QED  BY SMTT(60), <1>1, <1>6, <2>1, RowStep
<1>8. PICK X2 : X2 = X \cup {c}
  OBVIOUS
<1>9. After(X2) = [groups |-> After(X2).groups, requests |-> After(X2).requests,
                   truncated |-> After(X2).truncated]
  BY DEF After
<1>10. PICK f : f = Finish(After(X), c)
  OBVIOUS
<1>11. ASSUME f = [groups |-> f.groups, requests |-> f.requests, truncated |-> f.truncated],
              f.groups = [g EXCEPT ![Calls[c]] = g[Calls[c]] + 1],
              f.requests = After(X2).requests, f.truncated = After(X2).truncated
       PROVE  f = After(X2)
  BY <1>7, <1>8, <1>9, <1>11
<1>12. CASE c > MaxRequests
  <2>1. f = [After(X) EXCEPT !.groups[Calls[c]] = @ + 1, !.truncated = @ + 1]
    BY <1>10, <1>12 DEF Finish
  <2>2. f = [groups |-> f.groups, requests |-> f.requests, truncated |-> f.truncated]
    BY ONLY <1>4, <2>1
  <2>3. f.groups = [g EXCEPT ![Calls[c]] = g[Calls[c]] + 1]
    BY ONLY <1>4, <2>1
  <2>4. f.requests = q /\ f.truncated = t + 1
    BY ONLY <1>4, <2>1
  <2>5. After(X2).requests = q
    BY <1>2, <1>5, <1>8, <1>12 DEF After
  <2>6. After(X2).truncated = t + 1
    <3>1. {d \in X2 : d > MaxRequests} = {d \in X : d > MaxRequests} \cup {c}
      BY <1>8, <1>12
    <3>2. c \notin {d \in X : d > MaxRequests} /\ {d \in X : d > MaxRequests} \subseteq CallNumbers
      OBVIOUS
    <3>3. Cardinality({d \in X2 : d > MaxRequests}) = t + 1
      BY <1>3, <3>1, <3>2, SomeCalls, FS_AddElement
    <3>. QED  BY <3>3 DEF After
  <2>. QED  BY <1>8, <1>10, <1>11, <2>2, <2>3, <2>4, <2>5, <2>6
<1>13. CASE ~ (c > MaxRequests)
  <2>1. f = [After(X) EXCEPT !.groups[Calls[c]] = @ + 1, !.requests[c] = Calls[c]]
    BY <1>10, <1>13 DEF Finish
  <2>2. f = [groups |-> f.groups, requests |-> f.requests, truncated |-> f.truncated]
    BY ONLY <1>4, <2>1
  <2>3. f.groups = [g EXCEPT ![Calls[c]] = g[Calls[c]] + 1]
    BY ONLY <1>4, <2>1
  <2>4. f.requests = [q EXCEPT ![c] = Calls[c]] /\ f.truncated = t
    BY ONLY <1>4, <2>1
  <2>5. After(X2).requests = [q EXCEPT ![c] = Calls[c]]
    <3>1. After(X2).requests = [i \in 1 .. MaxRequests |-> IF i \in X2 THEN Calls[i] ELSE Nil]
      BY DEF After
    <3>. QED  BY <1>2, <1>8, <3>1
  <2>6. After(X2).truncated = t
    <3>1. {d \in X2 : d > MaxRequests} = {d \in X : d > MaxRequests}
      BY <1>8, <1>13
    <3>. QED  BY <1>3, <3>1 DEF After
  <2>. QED  BY <1>8, <1>10, <1>11, <2>2, <2>3, <2>4, <2>5, <2>6
<1>. QED  BY <1>12, <1>13

\* A Recorder starts with no call done.
LEMMA RecorderAtFirst == Recorder = After({})
<1>1. \A o \in Groups : Cardinality(To({}, o)) = 0
  BY FS_EmptySet DEF To
<1>2. Cardinality({c \in {} : c > MaxRequests}) = 0
  BY FS_EmptySet
<1>. QED  BY <1>1, <1>2 DEF Recorder, After, Groups

\* A fold of finish over an order of the calls ends with all calls done.
LEMMA AllDone ==
  ASSUME NEW order \in FinishOrders
  PROVE  FoldLeft(Finish, Recorder, order) = After(CallNumbers)
<1>1. /\ order \in [CallNumbers -> CallNumbers]
      /\ \A i, j \in CallNumbers : i # j => order[i] # order[j]
  BY CallFacts DEF FinishOrders, SetToSeqs, CallNumbers
<1>2. DOMAIN order = CallNumbers
  BY <1>1
<1>. DEFINE Fits(h) == h = [s \in SUBSET CallNumbers |->
                              IF s = {} THEN Recorder ELSE Finish(h[s \ {Max(s)}], order[Max(s)])]
            Done(s) == {order[i] : i \in s}
<1>3. FoldLeft(Finish, Recorder, order) = (CHOOSE h : Fits(h))[CallNumbers]
  BY <1>2 DEF FoldLeft, MapThenFoldSet
<1>4. PICK w : w = [s \in SUBSET CallNumbers |-> After(Done(s))]
  OBVIOUS
<1>5. ASSUME NEW s \in SUBSET CallNumbers, s # {}
      PROVE  Max(s) \in s /\ w[s] = Finish(w[s \ {Max(s)}], order[Max(s)])
  <2>1. Max(s) \in s
    BY <1>5, CallFacts, MaxOf DEF CallNumbers
  <2>2. PICK m : m = Max(s)
    OBVIOUS
  <2>3. m \in s /\ m \in CallNumbers /\ order[m] \in CallNumbers
    BY <1>1, <2>1, <2>2
  <2>4. /\ Done(s \ {m}) \subseteq CallNumbers /\ order[m] \notin Done(s \ {m})
        /\ Done(s) = Done(s \ {m}) \cup {order[m]}
    BY <1>1, <2>3
  <2>5. w[s] = After(Done(s)) /\ w[s \ {m}] = After(Done(s \ {m}))
    BY <1>4
  <2>. HIDE DEF Done
  <2>6. Finish(w[s \ {m}], order[m]) = w[s]
    BY ZenonT(60), <2>3, <2>4, <2>5, FinishStep
  <2>. QED  BY <2>1, <2>2, <2>6
<1>6. w[{}] = Recorder
  <2>1. Done({}) = {}
    OBVIOUS
  <2>. HIDE DEF Done
  <2>. QED  BY <1>4, <2>1, RecorderAtFirst
<1>7. Fits(w)
  <2>1. w = [s \in SUBSET CallNumbers |-> w[s]]
    BY <1>4
  <2>. QED  BY <1>5, <1>6, <2>1
<1>8. PICK h : h = CHOOSE f : Fits(f)
  OBVIOUS
<1>9. Fits(h)
  <2>. HIDE DEF Fits
  <2>. QED  BY <1>7, <1>8
<1>10. \A s \in SUBSET CallNumbers : h[s] = w[s]
  <2>1. PICK G : G = {s \in SUBSET CallNumbers : h[s] = w[s]}
    OBVIOUS
  <2>2. {} \in G
    BY <1>6, <1>9, <2>1
  <2>3. ASSUME NEW s \in SUBSET CallNumbers, s # {}, \A x \in s : s \ {x} \in G PROVE s \in G
    <3>1. PICK m : m = Max(s)
      OBVIOUS
    <3>2. h[s] = Finish(h[s \ {m}], order[m])
      BY <1>9, <2>3, <3>1
    <3>3. h[s \ {m}] = w[s \ {m}]
      BY <1>5, <2>1, <2>3, <3>1
    <3>. QED  BY <1>5, <2>1, <2>3, <3>1, <3>2, <3>3
  <2>4. \A s \in SUBSET CallNumbers : s \in G
    BY <2>2, <2>3, CallFacts, SubsetInduction
  <2>. QED  BY <2>1, <2>4
<1>11. Done(CallNumbers) = CallNumbers
  <2>1. order \in Injection(CallNumbers, CallNumbers)
    BY <1>1 DEF Injection, IsInjective
  <2>2. order \in Surjection(CallNumbers, CallNumbers)
    BY <2>1, CallFacts, FS_Injection
  <2>. QED  BY <1>1, <2>2 DEF Surjection
<1>12. w[CallNumbers] = After(CallNumbers)
  <2>. HIDE DEF Done
  <2>. QED  BY <1>4, <1>11
<1>. QED  BY <1>3, <1>8, <1>10, <1>12

\* What BlocksAddUp says of the stats of one response.
AddsUp(st) ==
  /\ FoldFunction(+, 0, st.groups) = Len(Calls)
  /\ Len(st.requests) + st.truncated = Len(Calls)
  /\ IsPrefix(st.requests, Calls)

\* Whatever the order in which the calls finish, what is recorded adds up.
LEMMA RecordedAddsUp ==
  ASSUME NEW st \in Recorded
  PROVE  AddsUp(st)
<1>1. st = StatsOf(After(CallNumbers))
  BY AllDone DEF Recorded, Recorders
<1>2. PICK n, M : n = Len(Calls) /\ M = MaxRequests
  OBVIOUS
<1>3. n \in Nat /\ M \in Nat /\ CallNumbers = 1 .. n /\ Calls \in Seq(Nat)
  BY <1>2, CallFacts, PanelsAssumption DEF CallNumbers
<1>4. PICK m \in Nat : m <= n /\ m <= M /\ (m = n \/ m = M)
  <2>1. CASE n <= M
    BY SMTT(60), <1>3, <2>1
  <2>2. CASE ~ (n <= M)
    <3>1. M <= n /\ M <= M
      BY <1>3, <2>2
    <3>. QED  BY <1>3, <3>1
  <2>. QED  BY <2>1, <2>2
<1>5. PICK q : q = [i \in 1 .. M |-> IF i \in CallNumbers THEN Calls[i] ELSE Nil]
  OBVIOUS
<1>6. PICK there : there = {i \in 1 .. M : q[i] # Nil}
  OBVIOUS
<1>7. there = 1 .. m
  <2>1. \A i \in CallNumbers : Calls[i] # Nil
    BY CallFacts DEF Nil
  <2>2. \A i \in 1 .. M : q[i] # Nil <=> i \in 1 .. n
    BY <1>3, <1>5, <2>1
  <2>. QED  BY <1>3, <1>4, <1>6, <2>2
<1>8. \A k \in 0 .. m : IsFiniteSet(1 .. k) /\ Cardinality(1 .. k) = k
  <2>. SUFFICES ASSUME NEW k \in 0 .. m PROVE IsFiniteSet(1 .. k) /\ Cardinality(1 .. k) = k
    OBVIOUS
  <2>1. IsFiniteSet(1 .. k) /\ Cardinality(1 .. k) = IF 1 > k THEN 0 ELSE k - 1 + 1
    BY <1>4, FS_Interval
  <2>. QED  BY <1>4, <2>1
<1>9. \A i \in there : {j \in there : j <= i} = 1 .. i /\ Cardinality({j \in there : j <= i}) = i
  <2>. SUFFICES ASSUME NEW i \in there PROVE {j \in there : j <= i} = 1 .. i /\ i \in 0 .. m
    BY <1>8
  <2>. QED  BY <1>4, <1>7
<1>10. \A k \in 1 .. m : (CHOOSE i \in there : Cardinality({j \in there : j <= i}) = k) = k
  <2>. SUFFICES ASSUME NEW k \in 1 .. m
                PROVE  (CHOOSE i \in there : Cardinality({j \in there : j <= i}) = k) = k
    OBVIOUS
  <2>1. \A i \in there : Cardinality({j \in there : j <= i}) = k <=> i = k
    BY <1>9
  <2>2. k \in there
    BY <1>7
  <2>. QED  BY <2>1, <2>2
<1>11. st.requests = [k \in 1 .. m |-> Calls[k]]
  <2>1. After(CallNumbers).requests = q
    BY <1>2, <1>5 DEF After
  <2>2. st.requests = [k \in 1 .. Cardinality(there) |->
                         q[CHOOSE i \in there : Cardinality({j \in there : j <= i}) = k]]
    BY <1>1, <1>2, <1>6, <2>1 DEF StatsOf
  <2>3. Cardinality(there) = m
    BY <1>4, <1>7, <1>8
  <2>4. \A k \in 1 .. m : q[k] = Calls[k]
    BY <1>3, <1>4, <1>5
  <2>. QED  BY ZenonT(60), <1>10, <2>2, <2>3, <2>4
<1>12. st.truncated = n - m
  <2>1. st.truncated = Cardinality({c \in CallNumbers : c > MaxRequests})
    BY <1>1 DEF StatsOf, After
  <2>2. {c \in CallNumbers : c > MaxRequests} = (m + 1) .. n
    BY <1>2, <1>3, <1>4
  <2>3. Cardinality((m + 1) .. n) = IF m + 1 > n THEN 0 ELSE n - (m + 1) + 1
    BY <1>3, <1>4, FS_Interval
  <2>4. Cardinality((m + 1) .. n) = n - m
    BY ONLY <1>3, <1>4, <2>3
  <2>. QED  BY <2>1, <2>2, <2>4
<1>13. FoldFunction(+, 0, st.groups) = Len(Calls)
  <2>1. st.groups = [o \in Groups |-> Cardinality(To(CallNumbers, o))]
    BY <1>1 DEF StatsOf, After
  <2>. QED  BY <2>1, RowsSum
<1>14. Len(st.requests) = m /\ st.requests \in Seq(Nat)
  BY <1>3, <1>4, <1>11, CallFacts
<1>15. Len(st.requests) + st.truncated = Len(Calls)
  BY <1>2, <1>3, <1>4, <1>12, <1>14
<1>16. IsPrefix(st.requests, Calls)
  <2>1. SubSeq(st.requests, 1, m) = [k \in 1 .. m |-> Calls[k]]
    BY <1>3, <1>4, <1>11, <1>14
  <2>2. SubSeq(Calls, 1, m) = [k \in 1 .. m |-> Calls[k]]
    BY <1>2, <1>3, <1>4
  <2>. QED  BY <1>2, <1>4, <1>14, <2>1, <2>2 DEF IsPrefix
<1>. QED  BY <1>13, <1>15, <1>16 DEF AddsUp

\* An answer a panel keeps, and the block of one, has stats that were recorded.
Kept(p) == result[p].kind \in {"data", "refetching"} => result[p].stats \in Recorded
Drawn(p) == block[p] # NoBlock => block[p].stats \in Recorded

StatsInv == \A p \in Panels : Kept(p) /\ Drawn(p)

\* What renderPanels puts into a panel was in it, or is built from a kept answer.
LEMMA RenderDrawn ==
  ASSUME NEW p \in Panels, Kept(p), Drawn(p), NEW force \in BOOLEAN, NEW st,
         RenderPanel(p, force, st) # NoBlock
  PROVE  RenderPanel(p, force, st).stats \in Recorded
<1>1. PICK b : b = RenderPanel(p, force, st)
  OBVIOUS
<1>2. HasBackends(p) /\ HasAnchor(p)
  BY DEF RenderPanel
<1>3. b = block[p] \/ b = buildBlock(result[p], st)
  BY <1>1, <1>2 DEF RenderPanel
<1>4. result[p].stats \in Recorded
  BY <1>2 DEF HasBackends, backendsOf, Kept
<1>5. buildBlock(result[p], st).stats = result[p].stats
  BY DEF buildBlock
<1>. QED  BY <1>1, <1>3, <1>4, <1>5 DEF Drawn

\* A step of one panel.
LEMMA OneStats ==
  ASSUME StatsInv, NEW p \in Panels,
         \A q \in Panels : q # p => result'[q] = result[q] /\ block'[q] = block[q],
         Kept(p)', Drawn(p)'
  PROVE  StatsInv'
BY DEF StatsInv, Kept, Drawn

\* What a panel does keeps it so: data comes with an answer that was recorded, and is
\* refetched from data only.
LEMMA PanelStatsKept ==
  ASSUME PanelInv, StatsInv, NEW p \in Panels, PanelSteps(p) \/ PanelActs(p)
  PROVE  StatsInv'
<1>1. Kept(p) /\ Drawn(p) /\ result \in [Panels -> Results] /\ DOMAIN block = Panels
  BY DEF StatsInv, PanelInv, PanelTypes
<1>2. CASE Answer(p)
  <2>1. view[p] # "explain" /\ view[p] \in {"table", "graph", "explain"}
    BY <1>2 DEF Answer, PanelInv, ResultsFollow, PanelTypes
  <2>2. AsksStats(view[p])
    BY <2>1 DEF AsksStats
  <2>3. PICK st \in Recorded :
          result' = [result EXCEPT ![p] = [kind |-> "data", id |-> NewId(p), stats |-> st]]
    BY <1>2, <2>2 DEF Answer
  <2>4. /\ \A q \in Panels : q # p => result'[q] = result[q]
        /\ result'[p].stats = st /\ block' = block
    BY <1>1, <1>2, <2>3 DEF Answer
  <2>. QED  BY <1>1, <2>4, OneStats DEF Kept, Drawn
<1>3. CASE AnswerFails(p)
  <2>1. /\ result' = [result EXCEPT ![p].kind = "error"] /\ block' = block
    BY <1>3 DEF AnswerFails
  <2>2. result[p] \in Results
    BY <1>1
  <2>3. result'[p].kind = "error" /\ \A q \in Panels : q # p => result'[q] = result[q]
    BY <1>1, <2>1, <2>2 DEF Results
  <2>. QED  BY <1>1, <2>1, <2>3, OneStats DEF Kept, Drawn
<1>4. CASE Commit(p)
  <2>1. PICK b \in {block[p], NoBlock} : block' = [block EXCEPT ![p] = b] /\ result' = result
    BY <1>4 DEF Commit
  <2>2. block'[p] = b /\ \A q \in Panels : q # p => block'[q] = block[q]
    BY <1>1, <2>1
  <2>. QED  BY <1>1, <2>1, <2>2, OneStats DEF Kept, Drawn
<1>5. CASE Execute(p)
  <2>1. /\ block' = block
        /\ \/ result' = [result EXCEPT ![p] = Result("fetching")]
           \/ result[p].kind = "data" /\ result' = [result EXCEPT ![p].kind = "refetching"]
    BY <1>5 DEF Execute
  <2>2. result[p] \in Results /\ Result("fetching").kind = "fetching"
    BY <1>1, FreshTypes DEF Kinds
  <2>3. CASE result' = [result EXCEPT ![p] = Result("fetching")]
    <3>1. result'[p].kind = "fetching" /\ \A q \in Panels : q # p => result'[q] = result[q]
      BY <1>1, <2>2, <2>3
    <3>. QED  BY <1>1, <2>1, <3>1, OneStats DEF Kept, Drawn
  <2>4. CASE result[p].kind = "data" /\ result' = [result EXCEPT ![p].kind = "refetching"]
    <3>1. result'[p].stats = result[p].stats /\ \A q \in Panels : q # p => result'[q] = result[q]
      BY <1>1, <2>2, <2>4 DEF Results
    <3>. QED  BY <1>1, <2>1, <2>4, <3>1, OneStats DEF Kept, Drawn
  <2>. QED  BY <2>1, <2>3, <2>4
<1>6. ASSUME NEW v \in {"table", "graph", "explain"}, SwitchView(p, v) PROVE StatsInv'
  <2>1. PICK k \in {"none", "fetching"} :
          result' = [result EXCEPT ![p] = Result(k)] /\ block' = [block EXCEPT ![p] = NoBlock]
    BY <1>6 DEF SwitchView
  <2>2. Result(k).kind = k
    BY FreshTypes DEF Kinds
  <2>3. /\ \A q \in Panels : q # p => result'[q] = result[q] /\ block'[q] = block[q]
        /\ result'[p].kind = k /\ block'[p] = NoBlock
    BY <1>1, <2>1, <2>2
  <2>. QED  BY <2>3, OneStats DEF Kept, Drawn
<1>7. CASE Click(p)
  <2>1. result' = result /\ block' = [q \in Panels |-> RenderPanel(q, TRUE, stored')]
    BY <1>7 DEF Click, renderPanels
  <2>. QED  BY <2>1, RenderDrawn DEF StatsInv, Kept, Drawn
<1>. QED  BY <1>2, <1>3, <1>4, <1>5, <1>6, <1>7 DEF PanelSteps, PanelActs

\* Every step of the tab preserves StatsInv.
LEMMA NextStats == PanelInv /\ StatsInv /\ [Next]_vars => StatsInv'
<1>. SUFFICES ASSUME PanelInv, StatsInv, [Next]_vars PROVE StatsInv'
  OBVIOUS
<1>1. CASE UNCHANGED <<result, block>>
  BY <1>1 DEF StatsInv, Kept, Drawn
<1>2. CASE LeavePage \/ RoutePage
  <2>1. \A p \in Panels : result'[p] = Result("none") /\ block'[p] = NoBlock
    BY <1>2 DEF LeavePage, RoutePage, PanelsGone
  <2>2. Result("none").kind = "none"
    BY DEF Result
  <2>. QED  BY <2>1, <2>2 DEF StatsInv, Kept, Drawn
<1>3. CASE \E p \in Panels : PanelSteps(p) \/ PanelActs(p)
  BY <1>3, PanelStatsKept
<1>4. CASE StatsSteps
  <2>1. CASE StartStats \/ scheduleRender
    BY <1>1, <2>1 DEF StartStats, scheduleRender
  <2>2. CASE Frame
    <3>1. result' = result /\ renderPanels(FALSE, stored)
      BY <2>2 DEF Frame
    <3>2. CASE PanelsThere
      <4>1. block' = [q \in Panels |-> RenderPanel(q, FALSE, stored)]
        BY <3>1, <3>2 DEF renderPanels
      <4>. QED  BY <3>1, <4>1, RenderDrawn DEF StatsInv, Kept, Drawn
    <3>3. CASE ~ PanelsThere
      BY <1>1, <3>1, <3>3 DEF renderPanels
    <3>. QED  BY <3>2, <3>3
  <2>. QED  BY <1>4, <2>1, <2>2 DEF StatsSteps
<1>5. CASE \/ ShellSteps \/ ShellActs \/ PollSteps \/ OpenCardinality \/ SubmitForm \/ ToggleElsewhere
           \/ \E s \in LoadSlots : ServeLoad(s) \/ SettleLoad(s)
           \/ UNCHANGED vars
  BY <1>1, <1>5 DEF ShellSteps, ShellActs, PollSteps, OpenCardinality, SubmitForm, ToggleElsewhere,
                    ServeLoad, SettleLoad, OtherTab, statsVars, vars
<1>. QED  BY <1>2, <1>3, <1>4, <1>5 DEF Next

\* The block of any panel, for any calls a query makes, any bound on the request
\* entries and any order in which the calls finish, counts every call once, lists the
\* first to begin in that order and counts the rest.
THEOREM BlocksAlwaysAddUp == Spec => []BlocksAddUp
<1>1. Init => StatsInv
  <2>. SUFFICES ASSUME Init PROVE StatsInv
    OBVIOUS
  <2>1. PICK k \in {"none", "fetching"} : result = [p \in Panels |-> Result(k)]
    BY DEF Init, StatsInit
  <2>2. block = [p \in Panels |-> NoBlock] /\ Result(k).kind = k
    BY FreshTypes DEF Init, StatsInit, Kinds
  <2>. QED  BY <2>1, <2>2 DEF StatsInv, Kept, Drawn
<1>2. StatsInv => BlocksAddUp
  BY RecordedAddsUp DEF StatsInv, Drawn, BlocksAddUp, AddsUp
<1>. QED  BY <1>1, <1>2, NextStats, SpecPanels, PTL DEF Spec
=============================================================================
