--------------------------- MODULE InventoryProofs ---------------------------
(***************************************************************************)
(* Safety of the inventory for all sequences of configs, any number of     *)
(* polls in flight and any limit on probes: NoForeignTargets and           *)
(* IdlePageTruthful.                                                       *)
(***************************************************************************)
EXTENDS Inventory, TLAPS

\* What the properties need of the shapes of a poll and of the page.
PollShape(q) ==
  /\ q = [st |-> q.st, cfg |-> q.cfg, body |-> q.body]
  /\ q.st \in {"free", "sent", "answered"}

Shapes ==
  /\ gen \in Nat
  /\ poll = [s \in Slots |-> poll[s]]
  /\ \A s \in Slots : PollShape(poll[s])
  /\ page = [kind |-> page.kind, open |-> page.open, busy |-> page.busy, error |-> page.error,
             cards |-> page.cards, since |-> page.since, last |-> page.last]
  /\ page.busy \in BOOLEAN /\ page.error \in BOOLEAN
  /\ page.last \in {"none", "ok", "failed"}

\* The page claims to be refreshing only while it is, and to be in error only
\* since the last poll failed.
Honest ==
  /\ page.busy => \E s \in Slots : poll[s].st # "free"
  /\ page.error <=> page.last = "failed"

IdleInv == Shapes /\ Honest

-----------------------------------------------------------------------------
\* A page that is not open yet is idle and has no error.
LEMMA IdleInit == Init => IdleInv
<1> SUFFICES ASSUME Init PROVE IdleInv
  OBVIOUS
<1>1. PICK k \in {"nav", "app"} :
        page = [kind |-> k, open |-> FALSE, busy |-> FALSE, error |-> FALSE,
                cards |-> <<>>, since |-> 0, last |-> "none"]
  BY DEF Init
<1>2. gen \in Nat /\ poll = [s \in Slots |-> NoPoll]
  BY DEF Init
<1> QED
  BY <1>1, <1>2 DEF IdleInv, Shapes, PollShape, Honest, NoPoll

\* Every step, of prober, handler and page, preserves IdleInv.
LEMMA IdleStep == IdleInv /\ [Next]_vars => IdleInv'
<1> SUFFICES ASSUME IdleInv, [Next]_vars PROVE IdleInv'
  OBVIOUS
<1> USE DEF IdleInv, Shapes, Honest
<1>1. CASE gen' \in Nat /\ UNCHANGED <<poll, page>>
  BY <1>1
<1>2. ASSUME NEW s \in Slots, Poll(s) PROVE IdleInv'
  <2>1. poll' = [poll EXCEPT ![s] = [NoPoll EXCEPT !.st = "sent", !.cfg = gen]]
    BY <1>2 DEF Poll
  <2>2. poll'[s] = [st |-> "sent", cfg |-> gen, body |-> <<>>]
    BY <2>1 DEF NoPoll
  <2>3. \A r \in Slots : r # s => poll'[r] = poll[r]
    BY <2>1
  <2>4. page' = [page EXCEPT !.busy = @ \/ HasStatus] /\ gen' = gen
    BY <1>2 DEF Poll
  <2>5. HasStatus \in BOOLEAN
    BY DEF HasStatus
  <2>6. page' = [kind |-> page.kind, open |-> page.open, busy |-> (page.busy \/ HasStatus),
                 error |-> page.error, cards |-> page.cards, since |-> page.since, last |-> page.last]
    BY <2>4
  <2>7. poll' = [r \in Slots |-> poll'[r]]
    BY <2>1
  <2> QED
    BY <2>2, <2>3, <2>4, <2>5, <2>6, <2>7 DEF PollShape
<1>3. ASSUME NEW s \in Slots, ServeGroups(s) PROVE IdleInv'
  <2>1. poll' = [poll EXCEPT ![s].st = "answered", ![s].body = InventoryOf(poll[s].cfg, gen)]
    BY <1>3 DEF ServeGroups
  <2>2. poll'[s] = [st |-> "answered", cfg |-> poll[s].cfg, body |-> InventoryOf(poll[s].cfg, gen)]
    <3>1. PollShape(poll[s])
      OBVIOUS
    <3>2. poll'[s] = [[poll[s] EXCEPT !.st = "answered"] EXCEPT !.body = InventoryOf(poll[s].cfg, gen)]
      BY <2>1
    <3>3. [poll[s] EXCEPT !.st = "answered"] = [st |-> "answered", cfg |-> poll[s].cfg, body |-> poll[s].body]
      BY <3>1 DEF PollShape
    <3> QED
      BY <3>2, <3>3
  <2>3. \A r \in Slots : r # s => poll'[r] = poll[r]
    BY <2>1
  <2>4. UNCHANGED <<page, gen>> /\ poll[s].st = "sent"
    BY <1>3 DEF ServeGroups
  <2>5. poll' = [r \in Slots |-> poll'[r]]
    BY <2>1
  <2> QED
    BY <2>2, <2>3, <2>4, <2>5 DEF PollShape
<1>4. ASSUME NEW s \in Slots, Settle(s) PROVE IdleInv'
  <2>1. poll' = [poll EXCEPT ![s] = NoPoll] /\ gen' = gen
    BY <1>4 DEF Settle
  <2>2. page' = [page EXCEPT !.cards = Rendered(poll[s].body), !.since = poll[s].cfg,
                             !.busy = FALSE, !.error = FALSE, !.last = "ok"]
    BY <1>4 DEF Settle, ShowInventory
  <2>3. page' = [kind |-> page.kind, open |-> page.open, busy |-> FALSE, error |-> FALSE,
                 cards |-> Rendered(poll[s].body), since |-> poll[s].cfg, last |-> "ok"]
    BY <2>2
  <2> QED
    BY <2>1, <2>3 DEF PollShape, NoPoll
<1>5. ASSUME NEW s \in Slots, FailPoll(s) PROVE IdleInv'
  <2>1. poll' = [poll EXCEPT ![s] = NoPoll] /\ gen' = gen
    BY <1>5 DEF FailPoll
  <2>2. page' = [page EXCEPT !.cards = IF page.kind = "nav" THEN <<>> ELSE @,
                             !.busy = FALSE, !.error = TRUE, !.last = "failed"]
    BY <1>5 DEF FailPoll, ShowFailure
  <2>3. page' = [kind |-> page.kind, open |-> page.open, busy |-> FALSE, error |-> TRUE,
                 cards |-> IF page.kind = "nav" THEN <<>> ELSE page.cards,
                 since |-> page.since, last |-> "failed"]
    BY <2>2
  <2> QED
    BY <2>1, <2>3 DEF PollShape, NoPoll
<1>6. CASE OpenPage
  <2>1. page' = [page EXCEPT !.open = TRUE] /\ UNCHANGED <<poll, gen>>
    BY <1>6 DEF OpenPage
  <2>2. page' = [kind |-> page.kind, open |-> TRUE, busy |-> page.busy, error |-> page.error,
                 cards |-> page.cards, since |-> page.since, last |-> page.last]
    BY <2>1
  <2> QED
    BY <2>1, <2>2
<1>7. CASE ProberNext
  BY <1>1, <1>7 DEF ProberNext, StartSweep, ReadGroups, EndSweep, StartProbe, ProbeBuildInfo,
                    checkLabelsEndpoint
<1>8. CASE Reload
  BY <1>1, <1>8 DEF Reload
<1>9. ASSUME NEW u \in URLs, Flip(u) PROVE IdleInv'
  BY <1>1, <1>9 DEF Flip
<1>10. CASE UNCHANGED vars
  BY <1>1, <1>10 DEF vars
<1> QED
  BY <1>2, <1>3, <1>4, <1>5, <1>6, <1>7, <1>8, <1>9, <1>10 DEF Next

\* IdleInv holds throughout.
LEMMA IdleInvariant == Spec => []IdleInv
BY IdleInit, IdleStep, PTL DEF Spec

\* With no poll in flight the page neither claims to be refreshing nor hides or
\* makes up an error, however many polls overlapped and in whatever order they
\* settled.
THEOREM IdlePageTruthfulHolds == Spec => []IdlePageTruthful
<1>1. IdleInv => IdlePageTruthful
  BY DEF IdleInv, Honest, IdlePageTruthful
<1> QED
  BY <1>1, IdleInvariant, PTL
-----------------------------------------------------------------------------
\* The entries of an answer name the targets of one config that was loaded while
\* the request was served.
Sound(body, lo, hi) ==
  \A i \in DOMAIN body : \E g \in lo .. hi :
    {t.target : t \in body[i].targets} = TargetsByName(g, body[i].name)

PollSound(q, hi) ==
  /\ q.st # "free" => q.cfg \in Nat /\ q.cfg <= hi
  /\ q.st = "answered" => Sound(q.body, q.cfg, hi)

TargetsInv ==
  /\ IdleInv
  /\ \A s \in Slots : PollSound(poll[s], gen)
  /\ page.since \in Nat /\ page.since <= gen
  /\ NoForeignTargets

\* An inventory lists per group the targets its name has in the generation read.
LEMMA InventoryTargets ==
  ASSUME NEW c, NEW g, NEW i \in DOMAIN InventoryOf(c, g)
  PROVE  {t.target : t \in InventoryOf(c, g)[i].targets} = TargetsByName(g, InventoryOf(c, g)[i].name)
<1> DEFINE gr == Generations[c][i]
           T  == TargetsByName(g, gr.name)
<1>1. InventoryOf(c, g)[i] = [name |-> gr.name, targets |-> {TargetInfo(gr, t) : t \in T}]
  BY DEF InventoryOf
<1>2. \A t \in T : TargetInfo(gr, t).target = t
  BY DEF TargetInfo
<1>3. {x.target : x \in {TargetInfo(gr, t) : t \in T}} = T
  <2> HIDE DEF T, gr
  <2> QED
    BY <1>2
<1> QED
  BY <1>1, <1>3

\* Both pages draw the targets of the answer under the name the answer gives.
LEMMA RenderedTargets ==
  ASSUME NEW body, NEW i \in DOMAIN Rendered(body)
  PROVE  /\ i \in DOMAIN body
         /\ Rendered(body)[i].name = body[i].name
         /\ {r.target : r \in Rendered(body)[i].rows} = {t.target : t \in body[i].targets}
<1>1. CASE page.kind = "nav"
  <2>1. Rendered(body) = renderBackendsData(body)
    BY <1>1 DEF Rendered
  <2>2. i \in DOMAIN body
    BY <2>1 DEF renderBackendsData
  <2> DEFINE row(t) == [url |-> t.url, target |-> t.target,
                        health |-> IF t.healthy THEN "Up" ELSE "Down",
                        probed |-> relTime(t.lastProbeAt)]
  <2>3. /\ Rendered(body)[i].name = body[i].name
        /\ Rendered(body)[i].rows = {row(t) : t \in body[i].targets}
    BY <2>1, <2>2 DEF renderBackendsData
  <2>4. \A t : row(t).target = t.target
    OBVIOUS
  <2> HIDE DEF row
  <2> QED
    BY <2>2, <2>3, <2>4
<1>2. CASE page.kind # "nav"
  <2>1. Rendered(body) = buildInventory(body)
    BY <1>2 DEF Rendered
  <2>2. i \in DOMAIN body
    BY <2>1 DEF buildInventory
  <2>3. /\ Rendered(body)[i].name = body[i].name
        /\ Rendered(body)[i].rows = {buildTargetRow(t) : t \in body[i].targets}
    BY <2>1, <2>2 DEF buildInventory
  <2>4. \A t : buildTargetRow(t).target = t.target
    BY DEF buildTargetRow
  <2> QED
    BY <2>2, <2>3, <2>4
<1> QED
  BY <1>1, <1>2

\* With nothing in flight and nothing drawn TargetsInv holds.
LEMMA TargetsInit == Init => TargetsInv
<1> SUFFICES ASSUME Init PROVE TargetsInv
  OBVIOUS
<1>1. IdleInv
  BY IdleInit
<1>2. page.since = 0 /\ page.cards = <<>> /\ gen = 0 /\ poll = [s \in Slots |-> NoPoll]
  BY DEF Init
<1>3. \A s \in Slots : PollSound(poll[s], gen)
  BY <1>2 DEF PollSound, NoPoll
<1>4. NoForeignTargets
  BY <1>2 DEF NoForeignTargets
<1> QED
  BY <1>1, <1>2, <1>3, <1>4 DEF TargetsInv

\* A later config widens the range of what may be shown.
LEMMA SoundLater ==
  ASSUME NEW q, NEW lo \in Nat, NEW hi \in Nat, lo <= hi, PollSound(q, lo)
  PROVE  PollSound(q, hi)
<1>1. q.st # "free" => q.cfg \in Nat /\ q.cfg <= hi
  BY DEF PollSound
<1>2. ASSUME q.st = "answered" PROVE Sound(q.body, q.cfg, hi)
  <2>1. q.cfg \in Nat /\ Sound(q.body, q.cfg, lo)
    BY <1>2 DEF PollSound
  <2>2. \A g \in q.cfg .. lo : g \in q.cfg .. hi
    BY <2>1
  <2> QED
    BY <2>1, <2>2 DEF Sound
<1> QED
  BY <1>1, <1>2 DEF PollSound

\* Every step preserves TargetsInv.
LEMMA TargetsStep == TargetsInv /\ [Next]_vars => TargetsInv'
<1> SUFFICES ASSUME TargetsInv, [Next]_vars PROVE TargetsInv'
  OBVIOUS
<1>0. IdleInv' /\ gen \in Nat
  BY IdleStep DEF TargetsInv, IdleInv, Shapes
<1>a. poll = [s \in Slots |-> poll[s]] /\ \A s \in Slots : PollShape(poll[s])
  BY DEF TargetsInv, IdleInv, Shapes
<1>b. page = [kind |-> page.kind, open |-> page.open, busy |-> page.busy, error |-> page.error,
              cards |-> page.cards, since |-> page.since, last |-> page.last]
  BY DEF TargetsInv, IdleInv, Shapes
<1>1. CASE UNCHANGED <<gen, poll, page>>
  BY <1>0, <1>1 DEF TargetsInv, NoForeignTargets
<1>2. CASE Reload
  <2>1. gen' = gen + 1 /\ UNCHANGED <<poll, page>>
    BY <1>2 DEF Reload
  <2>2. \A s \in Slots : PollSound(poll'[s], gen')
    BY <2>1, <1>0, SoundLater DEF TargetsInv
  <2>3. \A g \in page.since .. gen : g \in page.since .. gen'
    BY <2>1, <1>0 DEF TargetsInv
  <2>4. NoForeignTargets'
    BY <2>1, <2>3 DEF TargetsInv, NoForeignTargets
  <2> QED
    BY <1>0, <2>1, <2>2, <2>4 DEF TargetsInv
<1>3. ASSUME NEW s \in Slots, Poll(s) PROVE TargetsInv'
  <2>1. /\ poll' = [poll EXCEPT ![s] = [NoPoll EXCEPT !.st = "sent", !.cfg = gen]]
        /\ gen' = gen /\ page' = [page EXCEPT !.busy = @ \/ HasStatus]
    BY <1>3 DEF Poll
  <2>2. poll'[s] = [st |-> "sent", cfg |-> gen, body |-> <<>>]
    BY <2>1, <1>a DEF NoPoll
  <2>3. \A r \in Slots : r # s => poll'[r] = poll[r]
    BY <2>1, <1>a
  <2>4. \A r \in Slots : PollSound(poll'[r], gen')
    BY <1>0, <2>1, <2>2, <2>3 DEF TargetsInv, PollSound
  <2>5. page'.since = page.since /\ page'.cards = page.cards
    BY <2>1, <1>b
  <2> QED
    BY <1>0, <2>1, <2>4, <2>5 DEF TargetsInv, NoForeignTargets
<1>4. ASSUME NEW s \in Slots, ServeGroups(s) PROVE TargetsInv'
  <2>1. /\ poll' = [poll EXCEPT ![s].st = "answered", ![s].body = InventoryOf(poll[s].cfg, gen)]
        /\ UNCHANGED <<gen, page>> /\ poll[s].st = "sent"
    BY <1>4 DEF ServeGroups
  <2>2. poll'[s] = [st |-> "answered", cfg |-> poll[s].cfg, body |-> InventoryOf(poll[s].cfg, gen)]
    <3>1. PollShape(poll[s])
      BY <1>a
    <3>2. poll'[s] = [[poll[s] EXCEPT !.st = "answered"] EXCEPT !.body = InventoryOf(poll[s].cfg, gen)]
      BY <2>1, <1>a
    <3>3. [poll[s] EXCEPT !.st = "answered"] = [st |-> "answered", cfg |-> poll[s].cfg, body |-> poll[s].body]
      BY <3>1 DEF PollShape
    <3> QED
      BY <3>2, <3>3
  <2>3. poll[s].cfg \in Nat /\ poll[s].cfg <= gen
    BY <2>1 DEF TargetsInv, PollSound
  <2>4. gen \in poll[s].cfg .. gen
    BY <2>3, <1>0
  <2>5. Sound(InventoryOf(poll[s].cfg, gen), poll[s].cfg, gen)
    BY <2>4, InventoryTargets DEF Sound
  <2>6. PollSound(poll'[s], gen)
    BY <2>2, <2>3, <2>5 DEF PollSound
  <2>7. \A r \in Slots : r # s => poll'[r] = poll[r]
    BY <2>1, <1>a
  <2> QED
    BY <1>0, <2>1, <2>6, <2>7 DEF TargetsInv, NoForeignTargets
<1>5. ASSUME NEW s \in Slots, Settle(s) PROVE TargetsInv'
  <2>1. /\ poll' = [poll EXCEPT ![s] = NoPoll] /\ gen' = gen /\ poll[s].st = "answered"
        /\ page' = [page EXCEPT !.cards = Rendered(poll[s].body), !.since = poll[s].cfg,
                                !.busy = FALSE, !.error = FALSE, !.last = "ok"]
    BY <1>5 DEF Settle, ShowInventory
  <2>2. page'.cards = Rendered(poll[s].body) /\ page'.since = poll[s].cfg
    BY <2>1, <1>b
  <2>3. poll[s].cfg \in Nat /\ poll[s].cfg <= gen /\ Sound(poll[s].body, poll[s].cfg, gen)
    BY <2>1 DEF TargetsInv, PollSound
  <2>4. ASSUME NEW i \in DOMAIN page'.cards
        PROVE  \E g \in page'.since .. gen' :
                 {r.target : r \in page'.cards[i].rows} = TargetsByName(g, page'.cards[i].name)
    <3>a. PICK C, b : C = page'.cards /\ b = poll[s].body
      OBVIOUS
    <3>b. C = Rendered(b) /\ i \in DOMAIN C
      BY <2>2, <3>a
    <3>c. /\ i \in DOMAIN b /\ C[i].name = b[i].name
          /\ {r.target : r \in C[i].rows} = {t.target : t \in b[i].targets}
      BY ONLY <3>b, RenderedTargets
    <3>1. /\ i \in DOMAIN poll[s].body
          /\ page'.cards[i].name = poll[s].body[i].name
          /\ {r.target : r \in page'.cards[i].rows} = {t.target : t \in poll[s].body[i].targets}
      BY ONLY <3>a, <3>c
    <3>2. PICK g \in poll[s].cfg .. gen :
            {t.target : t \in poll[s].body[i].targets} = TargetsByName(g, poll[s].body[i].name)
      BY <2>3, <3>1 DEF Sound
    <3> QED
      BY <2>1, <2>2, <3>1, <3>2
  <2>5. \A r \in Slots : PollSound(poll'[r], gen')
    BY <2>1, <1>a DEF TargetsInv, PollSound, NoPoll
  <2> QED
    BY <1>0, <2>1, <2>2, <2>3, <2>4, <2>5 DEF TargetsInv, NoForeignTargets
<1>6. ASSUME NEW s \in Slots, FailPoll(s) PROVE TargetsInv'
  <2>1. /\ poll' = [poll EXCEPT ![s] = NoPoll] /\ gen' = gen
        /\ page' = [page EXCEPT !.cards = IF page.kind = "nav" THEN <<>> ELSE @,
                                !.busy = FALSE, !.error = TRUE, !.last = "failed"]
    BY <1>6 DEF FailPoll, ShowFailure
  <2>2. page'.since = page.since /\ (page'.cards = <<>> \/ page'.cards = page.cards)
    BY <2>1, <1>b
  <2>3. NoForeignTargets'
    <3>1. CASE page'.cards = <<>>
      <4>1. DOMAIN page'.cards = {}
        BY <3>1
      <4> QED
        BY <4>1 DEF NoForeignTargets
    <3>2. CASE page'.cards = page.cards
      BY <2>1, <2>2, <3>2 DEF TargetsInv, NoForeignTargets
    <3> QED
      BY <2>2, <3>1, <3>2
  <2>4. \A r \in Slots : PollSound(poll'[r], gen')
    BY <2>1, <1>a DEF TargetsInv, PollSound, NoPoll
  <2> QED
    BY <1>0, <2>1, <2>2, <2>3, <2>4 DEF TargetsInv
<1>7. CASE OpenPage
  <2>1. page' = [page EXCEPT !.open = TRUE] /\ UNCHANGED <<poll, gen>>
    BY <1>7 DEF OpenPage
  <2>2. page'.since = page.since /\ page'.cards = page.cards
    BY <2>1, <1>b
  <2> QED
    BY <1>0, <2>1, <2>2 DEF TargetsInv, NoForeignTargets
<1>8. CASE ProberNext
  BY <1>1, <1>8 DEF ProberNext, StartSweep, ReadGroups, EndSweep, StartProbe, ProbeBuildInfo,
                    checkLabelsEndpoint
<1>9. ASSUME NEW u \in URLs, Flip(u) PROVE TargetsInv'
  BY <1>1, <1>9 DEF Flip
<1>10. CASE UNCHANGED vars
  BY <1>1, <1>10 DEF vars
<1> QED
  BY <1>2, <1>3, <1>4, <1>5, <1>6, <1>7, <1>8, <1>9, <1>10 DEF Next

\* Whatever the configs and however reloads fall between the reads of a request, a
\* card never carries targets its group's name did not have in a config loaded
\* while the request was served.
THEOREM NoForeignTargetsHolds == Spec => []NoForeignTargets
<1>1. TargetsInv => NoForeignTargets
  BY DEF TargetsInv
<1> QED
  BY <1>1, TargetsInit, TargetsStep, PTL DEF Spec
=============================================================================
