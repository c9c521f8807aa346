------------------------------ MODULE Inventory ------------------------------
(***************************************************************************)
(* The backend inventory, from the backends to the screen: the prober's    *)
(* sweeps over the targets of the loaded config, the backends.json         *)
(* handler that joins probe results with config, and the two pages that    *)
(* poll it every five seconds without waiting for the previous answer:     *)
(* the Backends page nav.js renders into the Mantine UI and the            *)
(* stand-alone page of app.js.  Reloads swap the storage state while a     *)
(* sweep or a request is half way through reading it.                      *)
(***************************************************************************)
EXTENDS Integers, Sequences, FiniteSets

CONSTANTS
  Generations, \* the configs loaded one after the other, each the sequence of its groups
  InitialHealth, \* how the backends may answer at boot
  MaxPolls,    \* bound: polls of the page in flight at once
  MaxProbes,   \* maxProbeConcurrency
  MaxFlips,    \* bound: changes of a backend's health
  MaxFailures  \* bound: polls that fail

\* A group is [name, path, targets]: server_group name, path_prefix, the targets
\* of its State.  Names need not differ: nothing validates that.
Loaded  == 1 .. Len(Generations)
Groups  == UNION {{Generations[g][i] : i \in DOMAIN Generations[g]} : g \in Loaded}
Targets == UNION {gr.targets : gr \in Groups}

backendBaseURL(gr, t) == <<gr.path, t>>
probeKey(n, t) == <<n, t>>
Keys == {gr.name : gr \in Groups} \X Targets

URLs == UNION {{backendBaseURL(gr, t) : t \in UNION {h.targets : h \in {x \in Groups : x.name = gr.name}}} :
               gr \in Groups}

\* lastProbeAt as JSON carries it: Go's zero time is a non-empty string.
ZeroTime   == "0001-01-01T00:00:00Z"
SomeTime   == "2026-01-01T00:00:00Z"
Unprobed   == [healthy |-> FALSE, at |-> ZeroTime]
Probed(ok) == [healthy |-> ok, at |-> SomeTime]

ASSUME InventoryAssumption ==
  /\ InitialHealth \subseteq [URLs -> {"ok", "labelsOnly", "down"}]
  /\ MaxPolls \in Nat \ {0} /\ MaxProbes \in Nat \ {0} /\ MaxFlips \in Nat /\ MaxFailures \in Nat
  /\ \A g \in Loaded : \A i \in DOMAIN Generations[g] :
       DOMAIN Generations[g][i] = {"name", "path", "targets"}

Slots == 1 .. MaxPolls

VARIABLES
  gen,     \* the generation in ProxyStorage's state, 0 before the first load
  backend, \* how each URL answers: "ok", "labelsOnly" (no buildinfo), "down"
  results, \* the prober's results; a missing key reads as the zero ProbeResult
  sweep,   \* probeAll: where it is, the config it read, probes to start, probes running
  poll,    \* per slot, a request for backends.json
  page,    \* the page in the browser
  flips, failures

vars == <<gen, backend, results, sweep, poll, page, flips, failures>>

NoSweep == [pc |-> "idle", cfg |-> 0, todo |-> {}, running |-> {}]
NoPoll  == [st |-> "free", cfg |-> 0, body |-> <<>>]

\* The HTTP server starts after the first load, so no page is open at boot; the
\* prober is started before it.
Init ==
  /\ gen = 0
  /\ backend \in InitialHealth
  /\ results = [k \in Keys |-> Unprobed]
  /\ sweep = NoSweep
  /\ poll = [s \in Slots |-> NoPoll]
  /\ page \in [kind : {"nav", "app"}, open : {FALSE}, busy : {FALSE}, error : {FALSE},
               cards : {<<>>}, since : {0}, last : {"none"}]
  /\ flips = 0 /\ failures = 0

-----------------------------------------------------------------------------
\* The environment: reloads and backends that come and go.
Reload ==
  /\ gen < Len(Generations)
  /\ gen' = gen + 1
  /\ UNCHANGED <<backend, results, sweep, poll, page, flips, failures>>

Flip(u) ==
  /\ flips < MaxFlips
  /\ \E h \in {"ok", "labelsOnly", "down"} \ {backend[u]} :
       backend' = [backend EXCEPT ![u] = h]
  /\ flips' = flips + 1
  /\ UNCHANGED <<gen, results, sweep, poll, page, failures>>

-----------------------------------------------------------------------------
\* sgByName: of groups with one name the last one wins.
TargetsByName(g, n) ==
  LET named == {i \in DOMAIN Generations[g] : Generations[g][i].name = n}
  IN IF named = {} THEN {}
     ELSE Generations[g][CHOOSE i \in named : \A j \in named : j <= i].targets

ProbesOf(c, g) ==
  UNION {{[key |-> probeKey(gr.name, t), url |-> backendBaseURL(gr, t), step |-> "buildinfo"] :
             t \in TargetsByName(g, gr.name)} :
         gr \in {Generations[c][i] : i \in DOMAIN Generations[c]}}

\* A sweep before the first load finds no config and returns at once.
StartSweep ==
  /\ sweep.pc = "idle" /\ gen # 0
  /\ sweep' = [NoSweep EXCEPT !.pc = "config", !.cfg = gen]
  /\ UNCHANGED <<gen, backend, results, poll, page, flips, failures>>

\* Mutant: targets that have a result are not probed again.
ReadGroups_known ==
  /\ sweep.pc = "config"
  /\ sweep' = [sweep EXCEPT !.pc = "probing",
                            !.todo = {p \in ProbesOf(sweep.cfg, gen) : results[p.key].at = ZeroTime}]
  /\ UNCHANGED <<gen, backend, results, poll, page, flips, failures>>

\* ServerGroups() is a second read: another config may be loaded by now.
ReadGroups ==
  /\ sweep.pc = "config"
  /\ sweep' = [sweep EXCEPT !.pc = "probing", !.todo = ProbesOf(sweep.cfg, gen)]
  /\ UNCHANGED <<gen, backend, results, poll, page, flips, failures>>

\* errgroup's limit: g.Go blocks while MaxProbes probes run.
StartProbe(p) ==
  /\ p \in sweep.todo /\ Cardinality(sweep.running) < MaxProbes
  /\ sweep' = [sweep EXCEPT !.todo = @ \ {p}, !.running = @ \cup {p}]
  /\ UNCHANGED <<gen, backend, results, poll, page, flips, failures>>

Store(p, ok) ==
  /\ results' = [results EXCEPT ![p.key] = Probed(ok)]
  /\ sweep' = [sweep EXCEPT !.running = @ \ {p}]

\* A buildinfo answer other than 200 is followed by a second request.
ProbeBuildInfo(p) ==
  /\ p \in sweep.running /\ p.step = "buildinfo"
  /\ \/ backend[p.url] = "ok" /\ Store(p, TRUE)
     \/ backend[p.url] = "down" /\ Store(p, FALSE)
     \/ /\ backend[p.url] = "labelsOnly"
        /\ sweep' = [sweep EXCEPT !.running = (@ \ {p}) \cup {[p EXCEPT !.step = "labels"]}]
        /\ UNCHANGED results
  /\ UNCHANGED <<gen, backend, poll, page, flips, failures>>

checkLabelsEndpoint(p) ==
  /\ p \in sweep.running /\ p.step = "labels"
  /\ Store(p, backend[p.url] # "down")
  /\ UNCHANGED <<gen, backend, poll, page, flips, failures>>

EndSweep ==
  /\ sweep.pc = "probing" /\ sweep.todo = {} /\ sweep.running = {}
  /\ sweep' = NoSweep
  /\ UNCHANGED <<gen, backend, results, poll, page, flips, failures>>

-----------------------------------------------------------------------------
\* The handler read Config() when the request came (Poll); ServerGroups() and the
\* results it reads later.
TargetInfo(gr, t) ==
  [url |-> backendBaseURL(gr, t), target |-> t,
   healthy |-> results[probeKey(gr.name, t)].healthy,
   lastProbeAt |-> results[probeKey(gr.name, t)].at]

\* Mutant: config and groups are joined by their position.
InventoryOf_byPosition(c, g) ==
  [i \in DOMAIN Generations[c] |->
    LET gr == Generations[c][i]
        ts == IF i \in DOMAIN Generations[g] THEN Generations[g][i].targets ELSE {}
    IN [name |-> gr.name, targets |-> {TargetInfo(gr, t) : t \in ts}]]

\* One entry per group of the config, with the targets of the group of its name.
InventoryOf(c, g) ==
  [i \in DOMAIN Generations[c] |->
    LET gr == Generations[c][i]
    IN [name |-> gr.name,
        targets |-> {TargetInfo(gr, t) : t \in TargetsByName(g, gr.name)}]]

ServeGroups(s) ==
  /\ poll[s].st = "sent"
  /\ poll' = [poll EXCEPT ![s].st = "answered", ![s].body = InventoryOf(poll[s].cfg, gen)]
  /\ UNCHANGED <<gen, backend, results, sweep, page, flips, failures>>

-----------------------------------------------------------------------------
\* nav.js: what renderBackendsData shows of one group.
relTime(at) == IF at \in {"", ZeroTime} THEN "-" ELSE "ago"

UpCount(targets) == Cardinality({t \in targets : t.healthy})

DotColor(targets) ==
  CASE targets = {}                          -> "grey"
    [] targets # {} /\ UpCount(targets) = 0  -> "red"
    [] UpCount(targets) = Cardinality(targets) /\ targets # {} -> "green"
    [] OTHER                                 -> "yellow"

renderBackendsData(body) ==
  [i \in DOMAIN body |->
    [name |-> body[i].name, dot |-> DotColor(body[i].targets), up |-> UpCount(body[i].targets),
     rows |-> {[url |-> t.url, target |-> t.target,
                health |-> IF t.healthy THEN "Up" ELSE "Down",
                probed |-> relTime(t.lastProbeAt)] : t \in body[i].targets}]]

\* app.js: buildInventory, buildGroupCard and buildTargetRow.
relativeTime(at) == IF at = "" THEN "Never" ELSE "ago"

healthLabel(healthy, at) ==
  CASE at = ""             -> "Unknown"
    [] at # "" /\ healthy  -> "Up"
    [] at # "" /\ ~healthy -> "Down"

buildTargetRow(t) ==
  [url |-> t.url, target |-> t.target,
   health |-> healthLabel(t.healthy, t.lastProbeAt), probed |-> relativeTime(t.lastProbeAt)]

buildInventory(body) ==
  [i \in DOMAIN body |->
    [name |-> body[i].name, dot |-> "none", up |-> UpCount(body[i].targets),
     rows |-> {buildTargetRow(t) : t \in body[i].targets}]]

Rendered(body) == IF page.kind = "nav" THEN renderBackendsData(body) ELSE buildInventory(body)

\* nav.js opens on the Backends page, app.js on DOMContentLoaded.
OpenPage ==
  /\ ~ page.open /\ gen # 0
  /\ page' = [page EXCEPT !.open = TRUE]
  /\ UNCHANGED <<gen, backend, results, sweep, poll, flips, failures>>

\* nav.js finds no status element to write to before the first rendering and
\* after an error.
HasStatus == page.kind = "app" \/ (page.last # "none" /\ ~ page.error)

\* The request's way to the handler is no step of its own; the slot is the first
\* free one.
Poll(s) ==
  /\ page.open /\ poll[s].st = "free"
  /\ \A r \in 1 .. s - 1 : poll[r].st # "free"
  /\ poll' = [poll EXCEPT ![s] = [NoPoll EXCEPT !.st = "sent", !.cfg = gen]]
  /\ page' = [page EXCEPT !.busy = @ \/ HasStatus]
  /\ UNCHANGED <<gen, backend, results, sweep, flips, failures>>

\* Mutant: a good answer leaves the error banner up.
ShowInventory_keepBanner(s) ==
  page' = [page EXCEPT !.cards = Rendered(poll[s].body), !.since = poll[s].cfg,
                       !.busy = FALSE, !.last = "ok"]

\* renderBackendsData, or clearError, innerHTML, setGeneratedAt and
\* setRefreshing(false): the view of the answer, whichever poll it is for.
ShowInventory(s) ==
  page' = [page EXCEPT !.cards = Rendered(poll[s].body), !.since = poll[s].cfg,
                       !.busy = FALSE, !.error = FALSE, !.last = "ok"]

\* nav.js replaces the page by the error; app.js raises its banner over the old cards.
ShowFailure ==
  page' = [page EXCEPT !.cards = IF page.kind = "nav" THEN <<>> ELSE @,
                       !.busy = FALSE, !.error = TRUE, !.last = "failed"]

Settle(s) ==
  /\ poll[s].st = "answered"
  /\ ShowInventory(s)
  /\ poll' = [poll EXCEPT ![s] = NoPoll]
  /\ UNCHANGED <<gen, backend, results, sweep, flips, failures>>

\* The network, a status other than 200 or a body that is no JSON.
FailPoll(s) ==
  /\ poll[s].st # "free" /\ failures < MaxFailures
  /\ ShowFailure
  /\ poll' = [poll EXCEPT ![s] = NoPoll]
  /\ failures' = failures + 1
  /\ UNCHANGED <<gen, backend, results, sweep, flips>>

-----------------------------------------------------------------------------
ProberNext ==
  \/ StartSweep \/ ReadGroups \/ EndSweep
  \/ \E p \in sweep.todo : StartProbe(p)
  \/ \E p \in sweep.running : ProbeBuildInfo(p)
  \/ \E p \in sweep.running : checkLabelsEndpoint(p)

Next ==
  \/ Reload
  \/ \E u \in URLs : Flip(u)
  \/ ProberNext
  \/ OpenPage
  \/ \E s \in Slots : Poll(s)
  \/ \E s \in Slots : ServeGroups(s)
  \/ \E s \in Slots : Settle(s)
  \/ \E s \in Slots : FailPoll(s)

Spec == Init /\ [][Next]_vars

\* The prober's ticker and the poll timer never stop, every probe has a timeout,
\* and the handler answers without waiting for anything.  Reloads, backends and
\* failures owe nothing.
FairSpec ==
  /\ Spec
  /\ WF_vars(ProberNext)
  /\ WF_vars(OpenPage)
  /\ WF_vars(\E s \in Slots : Poll(s))
  /\ \A s \in Slots : WF_vars(ServeGroups(s)) /\ WF_vars(Settle(s))

-----------------------------------------------------------------------------
(* Safety. *)

\* A card lists the targets one config gave a group of that name, and that
\* config was loaded while the request was served: prober.go reads Config() and
\* ServerGroups() apart and joins them by name, so a reload in between may
\* empty a card but never put one group's targets under another's name.
NoForeignTargets ==
  \A i \in DOMAIN page.cards :
    LET c == page.cards[i]
    IN \E g \in page.since .. gen : {r.target : r \in c.rows} = TargetsByName(g, c.name)

\* With no poll in flight the page says what the last answer was: no
\* 'Refreshing...' and no lit refresh dot left behind, and the error is shown
\* exactly when the poll that settled last failed.
IdlePageTruthful ==
  (\A s \in Slots : poll[s].st = "free") => ~ page.busy /\ (page.error <=> page.last = "failed")

-----------------------------------------------------------------------------
(* Liveness. *)

\* Two groups of one name share their probe results and their targets.
DistinctNames ==
  \A i, j \in DOMAIN Generations[gen] : Generations[gen][i].name = Generations[gen][j].name => i = j

ShowsTruth ==
  /\ Len(page.cards) = Len(Generations[gen])
  /\ \A i \in DOMAIN Generations[gen] :
       LET gr == Generations[gen][i]
           c  == page.cards[i]
           ts == TargetsByName(gen, gr.name)
       IN /\ c.name = gr.name
          /\ {r.url : r \in c.rows} = {backendBaseURL(gr, t) : t \in ts}
          /\ \A r \in c.rows : r.health = IF backend[r.url] = "down" THEN "Down" ELSE "Up"
          /\ page.kind = "nav" =>
               (c.dot = "green" <=> ts # {} /\ \A r \in c.rows : backend[r.url] # "down")

\* Once the config and the backends stop changing, the page ends up showing every
\* group of the config with the health its backends really have, and stays there:
\* answers that overtook each other and results of earlier configs do not last.
\* Groups that share a name are left out: each shows the other's.
PageConverges == <>[](gen # 0 /\ DistinctNames => ShowsTruth)
=============================================================================
