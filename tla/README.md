# proxeus in TLA+

proxeus is a read-only proxy in front of many Prometheus-compatible backends. A
query is fanned out to *server groups*, by each server group to its *targets* (HA
replicas of the same data), and the answers are merged into one. This directory
holds TLA+ modules of the parts of proxeus that decide what a query returns, when
the process is in a state to answer it, and what its pages show in the browser, the
TLC runs that check them on small
instances, and TLAPS proofs of the properties that matter most.

Paths are relative to the repository's `src/`; `multi_api.go:354` stands for
`src/pkg/promclient/multi_api.go`, line 354.

## Inventory

| component | state | operations | interacts with |
|---|---|---|---|
| Fan-out `promclient.MultiAPI` (`multi_api.go`) | per call: a buffered channel, counts per fingerprint bucket, results, warnings, last error | `scatterGather` / `scatterMerge`, one goroutine per backend; `QueryExemplars` with a loop of its own | target clients below, cross-group dedup or HA merge as its merge function |
| Cross-group dedup (`cross_group_multi_api.go`, `cross_group_dedup.go`) | per call: buckets by reduced labels, collision statistics | constructor, `dedupSeriesSetsFillGaps` | fan-out above it, gap filling below |
| Gap filling (`gap_fill.go`) | one cursor per stream | `PriorityMergeSampleStream`, `GapThreshold` | dedup |
| HA sample merge (`merge.go`, `merge_seriesset.go`) | offsets into two streams | `MergeSampleStream`, `mergeHistogramSamples`, dynamic anti-affinity | fan-out of a server group |
| Server group (`servergroup.go`) | current state (targets, client, context), `Ready`, target gauge | `NewServerGroup`, `Sync`, `loadTargetGroupMap`, `State`, `Cancel` | discovery manager, label-filter pollers, proxy storage |
| Label filter (`labelfilter.go`) | an atomically replaced filter | start-up sync, poller, query decisions | server group (context), targets |
| Proxy storage (`proxy.go`) | current generation of server groups | `ApplyConfig`, `GetState`, `Querier` | server groups, `main`, engine |
| Process (`cmd/proxeus/main.go`) | signal channel, reloadables, reload metrics | boot, `reloadConfig`, signal loop, `/-/reload`, `/-/quit`, shutdown | all reloadables |
| Query pushdown (`node_replacer.go`) | none of its own; reads the storage state | which subtree the backends may evaluate | proxy storage, histogram cache |
| Client decorators (`timefilter.go`, `label.go`, `step_align.go`, `ignore_error.go`, ...) | none | rewrite a request or a response | stacked by `loadTargetGroupMap` |
| Query statistics (`querystats.go`) | per query: totals per group, a bounded list of requests, a count of those cut off | `Begin`, `finish`, `Stats` | every backend call of the query; `stats.js` |
| Prober and inventory (`proxeusui/prober.go`, `handler.go`, `cardinality.go`) | last probe result per group name and target | a sweep every interval, `Inventory`, `serveJSON`, `serveCardinality` | proxy storage (two reads), backends, the pages below |
| Scripts in the Prometheus UI (`ui/head.js`, `nav.js`, `cardinality.js`, `stats.js`) | flags on `window`, patched `history` and `fetch`, elements they added, one polling timer, the remembered open state | observer callbacks, rendering, polling, form submission, clicks | the React bundle, the handlers above |
| Stand-alone page (`static/app.js`) | refresh indicator, banner, cards | `fetchAndRender` every 5 s | `backends.json` |
| Protocol clients and decoders, authentication, MCP, federation, logging | none relevant | I/O and formatting | HTTP |

What is hard in this code, and therefore what the properties are about:

* **Arrival order.** Answers, errors and the end of the context meet in one
  `select`; the result must depend on which backends answered, never on when.
* **Partial failure.** A tolerated failure must be reported, a failure that is not
  tolerated must not return data, and "nothing answered" must not look like
  "nothing found". One of several reloadables may fail; one of several groups of a
  new generation may fail.
* **Lifetimes.** Each load of a server group owns a context under which pollers
  run; each reload owns a generation of groups. Retries, swaps, failures and
  cancellation must neither leak nor kill the wrong one.
* **Publication order.** Queries run while targets and generations are replaced.
* **Boundaries.** The merges are loops with several cursors and strict and
  non-strict comparisons of times.
* **Progress.** Deadlines, shutdown, and a loader that retries for ever.
* **Someone else's page.** The scripts share a document with a React application
  that knows nothing of them: it renders when it likes, redirects paths it does not
  know, and its changes and the scripts' own wake the same observers.
* **Overlapping requests.** Both pages poll without waiting for the answer before;
  forms can be submitted twice; a reload falls between two reads of one handler.

`PROJECT.json` lists the hazards at the lines where they bite, with the properties
that would catch them.

## Modules

| module | models | extends / uses |
|---|---|---|
| `MultiAPI` | buckets, constructors, `abortOnError`, `missingRequired`, `fetchError` | |
| `FanOutContract` | what a fan-out promises, as a function of the answers heard | `MultiAPI` |
| `ScatterGather` | one fan-out call: workers, channel, select loop, cancellation | `MultiAPI`; refines `FanOutContract` |
| `ScatterGatherProofs` | its proofs | `ScatterGather` |
| `ServerGroup` | one server group from construction to cancellation | |
| `ServerGroupProofs` | its proofs | `ServerGroup` |
| `Reload` | main loop, `reloadConfig`, `ProxyStorage.ApplyConfig`, generations | abstracts `ServerGroup` to "loads once" |
| `ReloadProofs` | its proofs | `Reload` |
| `SampleMerge` | `MergeSampleStream` and `mergeHistogramSamples`, one step per loop iteration | |
| `SampleMergeProofs` | its proofs: order, exactness, faithfulness, what the estimated buffer is for | `SampleMerge` |
| `CrossGroupDedup` | `dedupSeriesSetsFillGaps`, one step per series | its filling is `GapFill` |
| `CrossGroupDedupProofs` | its proofs | `CrossGroupDedup` |
| `GapFill` | `GapThreshold` and `PriorityMergeSampleStream`, one step per loop iteration of `fill` with its calls on an explicit stack; a declarative reference | |
| `GapFillProofs` | its proofs | `GapFill` |
| `Inventory` | probe sweeps, `backends.json`, the Backends page of `nav.js` and the page of `app.js` | |
| `InventoryProofs` | its proofs | `Inventory` |
| `UIShell` | the tab: `head.js`, `nav.js`, the part of `cardinality.js` that takes the page over, React as their environment | |
| `CardinalityPage` | the form, `load` and cards of `cardinality.js` with the handler behind them | `UIShell` |
| `StatsPanels` | the `Recorder` of a query and `stats.js` | `UIShell` |
| `UIPages` | the composition of the three on one tab | `CardinalityPage`, `StatsPanels` |
| `UIPagesProofs` | its proofs, and those of the three modules it composes | `UIPages` |
| `MC...` | the instances TLC checks | |

An operator whose comment begins with "Mutant" is a plausible bug in the definition
that follows it. `PROJECT.json` pairs each property with one that TLC must find to
violate it; nothing else uses them.

### ScatterGather

`m` is the `MultiAPI` (fingerprints, `requiredCount`, `partialResponse`); `Init`
ranges over those the constructors can build. Per backend, `worker` and `reply`
stand for its goroutine: `CallReturns` ends the backend call with success, with a
rejection of the query (`ErrBadData` and the like after `NormalizePromError`) or as
unavailable; `Send` puts the answer into `resultChan`, whose capacity is `N`.
`Receive`, `ReturnOnCtxDone` and `Finish` are the iterations of the loop and its
end; `outstanding`, `success`, `results`, `warnings` and `lastError` are the
variables of the same names. When the context has ended and an answer waits, both
`Receive` and `ReturnOnCtxDone` are enabled, as in Go's `select`. Values are
abstracted to the ordinal they came from and warnings to who raised them: merging
is the business of the modules below. `scatterGather` and `scatterMerge` are the
same protocol over different types, and one module stands for both.

### ServerGroup

`sync` is the program counter of the `Sync` goroutine: idle, building, retrying,
then the three publication steps (gauge, `state.Store` with the cancellation of the
old context, `Ready`). `live` holds the contexts that were not cancelled; a poller
of the label filter lives as long as its context and the group's. Targets go up and
down at any time, discovery changes its mind at any time, also to a map in which a
target lost its address label in relabelling, and `Cancel` may come anywhere.
Context names are reused once they are cancelled, so a fixed number of names covers
any number of loads.

### Reload

`pc` walks through `reloadConfig` with `ProxyStorage.ApplyConfig` inlined as its
first reloadable. A config is abstracted to how far loading it gets: whether it
parses, passes the label preflight, which groups fail in `NewServerGroup` or in
`ServerGroup.ApplyConfig`, and whether the query log can be opened. `created`,
`loaded` and `cancelled` describe generations of groups. A group's first load
(`GroupLoads`) is the one step of `ServerGroup` that `Reload` sees. The signal
channel holds one signal. When `NewServerGroup` fails, its slot in `sgs` stays nil
and `newState.Cancel()` dereferences it (`proxy.go:59-63`): `CancelNew` then ends
in `panicked`.

### SampleMerge, CrossGroupDedup, GapFill

These are algorithms on the data of one call, modelled as step machines: one step per
loop iteration, the code's cursors as variables. In `GapFill` the function `fill`
calls itself with the next filler; the calls in progress are the frames of `stack`,
the frame of level `l` at position `l`, each with the parameters and local variables
of its call and where it goes on. `FillBucketGaps` makes the first call, `Descend` a
call from inside the loop and `Emit` the rest of that iteration, `EndScan` leaves the
loop, keeps the cursor and makes the call that follows it, `Return` ends a call that
has waited for that. `Reference` says the same without scanning: which spans each
level is asked for, and what it has inside them.

A stream is its timestamps with small values (`SampleMerge`) or kinds of
sample (`GapFill`: float, histogram, stale marker). A series is its reduced labels
and the ignored ones. `dynamicAntiAffinity` picks element `len/2` of the sorted
intervals; the model states which intervals that can be. `sort.Slice` is not stable,
so where it sorts with possibly equal keys the model allows every sorted order.

### Inventory

`sweep` is the goroutine of `Prober.Run`: `StartSweep` reads `Config()`,
`ReadGroups` reads `ServerGroups()`, and a reload may come between; probes then run
up to the limit of the errgroup, with the second request to the labels endpoint a
step of its own. A request for `backends.json` (`poll`) makes the same two reads
(`Poll`, `ServeGroups`) and is drawn by `Settle` or `FailPoll`; slots are taken and
freed in any order, so an answer may overtake another. `page.kind` selects between
`nav.js` and `app.js`: they draw different things of the same answer and treat a
failure differently. Results are kept per group *name* and target, so groups that
share a name share them; `PageConverges` leaves those out. The config a request read
first is kept as `page.since`, to state `NoForeignTargets`.

### UIShell, CardinalityPage, StatsPanels, UIPages

`script` walks through the scripts in the order `loadReactScripts` injects them. An
observer's callback is a microtask: `pending` holds the observers that owe one, and
while it is not empty no other step is taken (`Task`). React is external: it starts,
redirects once if it does not know the path, renders its header in two commits, its
menus whenever one is opened, and may change anything else at any time. What React
knows (`ReactPages`) and what the server answers (`reactRouteSet`) differ: React's
menus also link to the TSDB status page, which the server redirects to the Cardinality
page (`uiRedirect`) and `nav.js` has to hide. The interval of the Backends page, never
cleared, is `PollBackends`: it rewrites the page and wakes every observer, without
bound. A path is the
sequence of its segments, so "under the page's own path" and "under the route
prefix" are told apart as `fixPageHref` does. `StatsPanels` separates what React
knows (`result`), what it has rendered (`dom`) and what `stats.js` drew (`block`),
with the animation frame between. An answer's statistics are those of a `Recorder`
whose calls finished in any order. The user has `MaxActs` acts: links, menus,
submissions, runs, tabs and clicks, and a click in another browser tab on the same
origin.

## Runs

| run | instance | checks |
|---|---|---|
| `fanout` | 3 backends; every bucket layout the constructors allow, strict and partial | completeness of strict calls, accounting of partial ones, every group heard and results by ordinal whatever the arrival order, no silent empty result, refinement of `FanOutContract` (no failure without a cause), termination of the call and of its workers |
| `fanout_cancel_race` | 2 backends, partial | *violation*, finding 1 |
| `servergroup` | 2 targets, all maps and one without an address, 3 context names, 2 discovery updates, dynamic label filter | no nil state behind `Ready`, no leaked poller, none stopped too early, only whole rounds published, last round adopted |
| `reload` | 2 groups, 6 configs, 3 requests after boot | only loaded groups are served, no orphaned generation, success means one config everywhere, and, provided the configured groups load, requests answered and SIGTERM exits |
| `reload_quit` | 2 groups, 2 configs, 1 request | *violation*, finding 2 |
| `samplemerge` | two replicas, up to 3 floats of 2 values on 5 ticks with buffers 0 to 2; up to 4 and 2 samples on 8 ticks with the dynamic buffer; histograms beside floats | cursors in range, time order, exactly the samples the buffer allows, no made-up value, dynamic buffer fits the interval |
| `samplemerge_prefer_max` | up to 3 floats on each side | *violation*, finding 3 |
| `dedup` | 1 to 3 groups in any order, up to 2 series each, 2 identities, 3 external labels | lowest group wins, exact attribution, fillers by priority |
| `gapfill` | winner of up to 4 samples on 6 ticks, up to 2 losers, fixed and automatic threshold | equality with the declarative reference, only gaps filled (distance kept, markers only after filled samples, normal spacing untouched), single holes filled |
| `gapfill_passed_on` | 4 ticks, 2 losers | *violation*, finding 4 |
| `inventory` | 2 configs of 2 groups (one removed, one moved to another path, one added), 1 change of a backend, 1 failing poll, 2 polls in flight, 1 probe at a time | no group's targets under another name, an idle page tells the truth about the last poll, the page ends up showing what is |
| `ui_pages` | route prefix of one segment, 2 panels, 3 calls with room for 2, 2 groups of backends, 2 submissions, 2 acts of the user | injected once, every link that is not hidden and every API call reaches a route, cards account for every filter, blocks belong to the answer shown and add up, a click makes all blocks agree, pages get their content, the scripts come to rest again and again, between polls |

Why the bounds suffice. *Fan-out*: three backends give one bucket of three, two
buckets of different size and three of one, and an answer before, between and after
any other event. *Server group*: two targets allow a load that fails half way; three
context names are the most that are alive at once (state, running load) plus one, so
a context is never reused while it could be confused; two updates put one behind a
load and one behind its retry. *Reload*: boot and three requests give every pair of
generations and a failed one between two good ones. *Merges*: the loops compare a
sample with two neighbours and the buffer; three samples a side and buffers 0 to 2
include every relation `<`, `=`, `>` at distance one and two buffers, four samples
are the fewest that estimate an interval without borrowing. *Dedup*: three groups in
all orders include the descending one, in which the winner changes twice. *Gap
filling*: six ticks hold a gap of the threshold with samples at every distance up to
the margin. *Inventory*: two configs and two slots are what one overtaking needs;
the reload renames the first position, so a join by position shows. *Pages*: with two
panels a click reaches a block it was not made on; two acts reach a menu opened on a
page left by a link, a second query behind a first, two submissions in flight;
three calls exceed the recorder's two.

### Fairness

* `ScatterGather`: the calling goroutine and the senders are scheduled
  (`WF(Gather)`, `WF(Send(i))`), and every query has a deadline (`WF(CallerDone)`:
  `--query.timeout` bounds every query context). No backend is assumed to answer.
* `ServerGroup`: only the `Sync` goroutine is scheduled (`WF(SyncStep)`). Targets
  are under no obligation; `FollowsDiscovery` states their recovery as a premise.
* `Reload`: main is scheduled (`WF(Main)`). Nothing is assumed of the groups'
  loads, which the code cannot force: `proxyStorageState.Ready` waits without a
  timeout (`proxy.go:50`), and a group that never loads keeps main from handling
  signals. `RequestsServed` therefore has a premise, `GroupsLoad`: again and again
  every group that was created and configured has loaded. It says nothing of groups
  that failed to configure, so a reload that waited for one of those is caught.
* `Inventory`: the prober's ticker and the page's timer go on, probes have a timeout
  and the handler waits for nothing. Backends, reloads and failures owe nothing.
* `UIPages`: the event loop runs what is due, React renders what it has, requests
  settle. Nothing is assumed of the user, and no act is owed. The poll of the
  Backends page is a step that may be taken for ever; it owes nothing either. An
  animation frame that was requested runs though polls come before it (`SF`): a
  browser renders between two tasks, and the poll is one every five seconds.

## Findings

1. *An answer may be discarded at the deadline* (`multi_api.go:356`). The comment at
   297-300 promises that with partial response what already answered is kept. An
   answer that still waits in the channel when the context ends may lose against
   `ctx.Done()` in the `select` and is discarded with `ctx.Err()`.
2. *`/-/quit` does nothing* (`main.go:781`). `--web.enable-lifecycle` says "Enable
   shutdown and reload via HTTP request."; no one receives from `webHandler.Quit()`.
3. *prefer_max skips the first sample* (`merge.go:317`). The configuration reference
   says the max value at a given timestamp is preferred; the first sample of the
   result is never compared, which for instant queries is the only one.
4. *A short span after a stale marker reaches only the first loser*
   (`gap_fill.go:188`), although "a gap a filler also has is passed on to the next
   one".

Seen while modelling and not made a run: the gauge of a group that a reload removed
keeps its last value; `NewServerGroup` failing makes the reload panic instead of
fail; a SIGTERM that arrives while a SIGHUP waits in the one-slot channel is lost; a
replica's histograms and another's floats of one series are not held apart by the
anti-affinity buffer, as each kind is merged by itself; a discovery round that cannot
be loaded is retried for ever without a look at newer ones, so the gauge "Number of
targets currently discovered" stays at the last loadable round
(`servergroup.go:253`).

In the prober and on the pages: `app.js` shows a target that was never probed as
"Down" and with an age, because Go's zero time arrives as a non-empty string
(`nav.js` handles it); the prober starts before the first config is loaded, so its
first sweep may find none; groups that share a name show the last one's targets and
each other's results; after a change of path prefix a target keeps its old result
until the next sweep; an older answer may overwrite a newer one, on both inventory
pages until the next poll and on the Cardinality page until the next submission; the
coverage of an undeclared group that answers like VictoriaMetrics names the date
asked for even if it was not sent (`cardinality.go:227`); where `localStorage`
throws, statistics cannot be opened; groups missing from the recorder's snapshot have
no name and share one label; `app.js` ignores the route prefix.

## Proofs

`tlapm` checks the modules named `...Proofs` for every value of the constants: any
number of backends, groups, samples, series or panels. Each temporal theorem is an
inductive invariant (`Init` implies it, every action preserves it, one lemma per
action) and the implication from it to the property. TLC checked each inductive
invariant on the instance of the component's run (that of `GapFill` on one with a tick
fewer).

| theorem | states | of run |
|---|---|---|
| `TypeCorrect`, `StrictCompleteness`, `PartialAccounting`, `NeverSilentlyEmpty`, `CompleteAnswers` | the invariants of the fan-out | `fanout` |
| `RefinesContract` | a fan-out implements `FanOutContract` | `fanout` |
| `ReadyMeansLoaded`, `NoLeakedPollers`, `StateStaysFresh`, `PublishesWholeMaps` | the safety of a server group | `servergroup` |
| `OnlyLoadedServed`, `NoOrphans`, `SuccessIsUniform` | the safety of reloads | `reload` |
| `MergeTypeCorrect`, `MergeInOrder`, `MergeExact`, `MergeFaithful`, `DynamicBufferFits` | all invariants of the HA merge | `samplemerge` |
| `LowestOrdinal`, `AttributionCorrect`, `PriorityFilled` | all invariants of the dedup | `dedup` |
| `IdlePageTruthfulHolds`, `NoForeignTargetsHolds` | the safety of the inventory | `inventory` |
| `FillInvariance`, `FillMatchesReference`, `FillOnlyInGaps`, `FillSingleHole` | all invariants of the gap filling | `gapfill` |
| `ItemsInjectedOnce`, `LinksServed`, `CardsHonest`, `ClicksAgree`, `BlocksAreCurrent`, `BlocksAlwaysAddUp` | the safety of the pages | `ui_pages` |

**ScatterGather.** From `NAssumption` (`N` is a natural number) and
`MultiAPIsAssumption` (what the constructors guarantee: `requiredCount` is positive
and no bucket is smaller than it). The properties are not inductive: that a strict
call returns complete data follows from counters, and that the counters are right
depends on no answer being taken twice. `IInv` adds

* `CountersExact`: `outstanding[b]` and `success[b]` are the sizes of the sets they
  stand for;
* `ChanFresh`: the channel holds each sent, not yet received answer once;
* `ResultsExact`: the results are the successes received, and a returned call heard
  everyone or says that it was cut short;
* `DegradedReported`: each tolerated failure has its warning.

One lemma per action, cardinality steps in `CountStep`. From `SpecIInv` follow
`TypeCorrect`, `StrictCompleteness`, `PartialAccounting` and `NeverSilentlyEmpty`.
`AInv` is a second invariant on top of it: no backend is gathered twice, what is
returned ascends, and the remembered error is one that was received. That the sorted
results ascend *strictly* needs the first part: a sort is onto the elements it sorts,
and onto a finite set of the same size is one to one. `CompleteAnswers` follows.

`RefinesContract` maps the answers received to the answers the contract has heard.
`Receive` is the contract's `Hear`, `Finish` its `Conclude` and `ReturnOnCtxDone` its
`Cancel`, the end of the caller's context is in both, everything else stutters. The steps use `IInv`
and `AInv` in the state before: the contract decides by counting the answers of a
bucket, the code by counters it has decremented.

**ServerGroup.** From `MapsAssumption`. `IInv` adds `OpenContexts` (which contexts
are open at each point of a load, and that the running load's is not the published
one's) and `PublishOrder` (what is about to be published is complete; `Ready` is
closed behind a state). From it follow `TypeCorrect`, `ReadyMeansLoaded`,
`NoLeakedPollers`, `StateStaysFresh` and the action property `PublishesWholeMaps`.

**Reload.** From `ConfigsAssumption`. That only loaded groups are served and that no
generation is orphaned depend on what a reload under way holds. `IInv` adds
`UnderConstruction` (the generation a reload builds is the last one, of the config
being applied, and neither served nor cancelled), `Lifetimes` (every generation is
served, cancelled, or the one under construction, or was left behind by the panic),
`Spread` (how far a reload that has not failed has carried its config) and
`RoomForGens`, a bound of the model only: every reload that will still build a
generation was requested, so the numbering of generations suffices.

**SampleMerge.** From `InputsAssumption`: the samples of each replica are in time
order, without repeated times. That the result is ordered too is not inductive: the
loops compare a sample of the other replica with the time emitted before the inner
loop began (`lastTime`), not with the last one emitted. `IInv` adds `SidesOrdered`
and `Placed`, which says where the emitted samples are at each loop: before the base
sample it is at and, in the loops over the other replica, no later than `lastTime`
or before the sample under `bOffset` (`BehindOffset`). One lemma per action;
`AdvanceOther` serves the hole and the tail, `EmitAtBase` both ways to emit a base
sample. From it follow `MergeTypeCorrect` (no read out of range) and `MergeInOrder`,
for streams of any length and any buffer.

*Which* samples are emitted is a second invariant, `XInv`. `EmittedKnown`,
`BaseEmitted` and `OtherEmitted` say that of what both cursors have passed exactly
the base samples and the far samples of the other replica are out, each with a value
`ValuesFaithful` allows. What makes this inductive is `Ahead`: a sample of the other
replica that is far from the whole base and still to be looked at comes after the
base sample the loops are at (or is already out, since the first loop stays on the
last sample). It survives the holes the code does not look into because one of at
most two buffers has no room for a sample far from both ends (`NoRoom`), and the loops
may compare with two neighbours only because in an ordered stream that is enough
(`FarFromNeighbours`). At the end of a pass both cursors are past their ends, and
`MergeExact` and `MergeFaithful` follow (`AllEmitted`).

`DynamicBufferFits` combines this with the estimate: if most intervals of the longer
replica are `d`, the median is `d` (`MajorityIsMedian`: two majorities intersect), so
the buffer is `d/2`, and `MergeExact` says what is taken with it.

**CrossGroupDedup.** From `InputsAssumption`: groups have different ordinals, and a
series two groups share with all labels comes from the lower ordinal first, as the
callers sort the sets. The comment at `cross_group_dedup.go:22-24` claims that the
winner does not depend on the order; "keep first" (line 88) makes it depend on it for
such a series, hence the assumption. Series that differ in an ignored label may come in
any order. `DInv` relates the buckets to `Arrived`, the copies the scan
has seen: the lowest ordinal that has a key is kept with its series (`LowestKept`,
`FromSets`), the members are the copies that arrived, each once (`MembersKept`), each
loss is counted for its loser (`LosersCounted`), the slot of a bucket holds its winner
or, once resolved, the sorted fill (`SlotHolds`), and the pairs charged so far are the
losing copies of the buckets resolved (`PairsCounted`). Counts are cardinalities of
sets of copies: a step adds one copy, resolving a bucket joins two disjoint sets. That
the unstable sort loses no member is the argument of `CompleteAnswers` again
(`SortReaches`).

**GapFill.** From `StreamsAssumption`: streams are finite, with one sample at a time;
any number of fillers. That the output is the reference is a statement about the end;
inductive is `Inv`, which says it of every moment of a call: what was emitted is the
part of the reference that the innermost call has left behind (`OutInv`, with `Passed`
for "left behind"), in time order (`OrderInv`). It needs

* `FramesInv`: each call on the stack is for a span its level has by the reference,
  and its cursor stands behind what it took and before what it may take;
* `CallsInv`: each call but the innermost waits for the next one, whose span is the
  gap it has just found;
* `CursorInv`: what a level has skipped in earlier calls lies below the lower margin of
  whatever it can still be asked for. This is why one cursor per level is enough, and
  it is the claim about the code that is easiest to doubt;
* `MarkerInv`: a filler's stale marker comes after a sample of that filler or of a
  later one.

That a level is never asked twice for the same time rests on its spans being disjoint,
which follows level by level, because the spans a call leaves open lie inside its own
and between different neighbours. `FillMatchesReference`, `FillOnlyInGaps` and
`FillSingleHole` follow from `Inv` at the end of the call; the last also uses that the
median of intervals most of which are `d` is `d`. `OutInv` quantifies over everything;
TLC checked it as an equality of two sets.

**Inventory.** From the definitions alone. `IdlePageTruthful` speaks of a page with no
poll in flight; inductive is `IdleInv`: the page is busy only while a poll is, and in
error exactly since the last one failed. `NoForeignTargets` needs what is still in
flight: `TargetsInv` adds `PollSound`, that each answer under way lists, per group,
the targets one config gave it, loaded since that request came. `InventoryTargets`
and `RenderedTargets` carry the set of targets through the handler and through both
renderings; `SoundLater` says that a reload only widens the range.

**UIPages.** From `ShellAssumption` (the route prefix is a path; the header has a tab
and the menu a lower section, both of pages React knows), `PanelsAssumption`,
`CardinalityAssumption` and `ActsAssumption`. Three invariants over the whole tab,
and a fourth for `BlocksAddUp`, below:

* `ShellInv`: which paths are known at each script; that a header or menu React has
  rendered and `nav.js` has not fixed is there only while its callback is queued, and
  holds React's own links only; that in those it is done with every link is hidden or
  served; that in a menu it is done with the two own items are
  the first two and nowhere else; one timer exactly while the Backends page is shown.
  `InjectedOnce` and `RoutesServed` are about menus and links after any number of
  callbacks; both follow only because nothing half done can be met by one.
* `CardInv`: answers in flight account for their own query, not for the one in the
  form, so whichever of two overlapping answers comes last is honest about what was
  asked.
* `PanelInv`, which uses `ShellInv`: when no frame is due and no callback pending,
  each block belongs to what its panel shows (`BlocksSettled`). `BlocksCurrent` speaks
  of such states only; inductive is that whatever disturbs a block leaves a frame or a
  callback behind.

`ClicksAgree` is an action property and needs no invariant.

`BlocksAlwaysAddUp` has two halves. What a `Recorder` holds when the calls of a set `X`
are done is `After(X)`, whatever the order in which they finished (`FinishStep`: one
more call takes it from `X` to `X` and that call), so every order ends with the same
statistics (`AllDone`); of these the rows add up to the number of calls (`RowsSum`) and
the requests listed are the first to begin (`RecordedAddsUp`). And `StatsInv`, which
uses `PanelInv`: an answer a panel keeps, also while it is fetched again, and the block
of one carry statistics that were recorded. The first half is about folds. A fold is
the choice of a function that satisfies an equation: the proof gives one that does, and
shows by induction over the subsets of the folded set that any other agrees with it.

Induction, here and over the levels of `GapFill`, is written as the least
counterexample in a set (`SubsetInduction`, `LevelInduction`), since the library's
induction theorems take a predicate as a parameter.

**Only model-checked.** All liveness (`CallTerminates`, `WorkersTerminate`,
`FollowsDiscovery`, `RequestsServed` (with its premise), `PageConverges`, `PageRenders`,
`PageQuiesces`): it needs fairness and `ENABLED`.
All invariants and action properties of the runs that pass are theorems; what a
violating run shows is a counterexample, which TLC finds and nothing needs to prove.

## Not modelled

HTTP and JSON decoding, remote read, TLS and transport set-up, authentication, the
MCP server, federation output, logging: I/O and formatting without a state that a
property could relate. `fakeprom` is a test double. The client decorators, the label
filter's decisions, the native histogram routing and query pushdown are functions of
one query over the AST or its labels, for which a small model would not tell right
from wrong; the reload that may fall between two nodes of one query is listed as a
hazard. The validation rules of the configuration are only modelled by which step of
a reload rejects it.

Of the parts that are modelled: the error path of `NewMultiAPI` in `ApplyConfig`
(`proxy.go:175-178`), which cannot be taken: it needs a bucket smaller than
`requiredCount`, and server groups have no `Key()`, so without cross-group dedup all
share one bucket of exactly that size, and with it one answer suffices; the fields
`remoteRead` and `timeRange` of the inventory (copied from the config read first, like
the declared type); `QueryExemplars`; `MergeValues` (not called by the
proxy any more), the fold of `SampleMerge` over more than two replicas, label unions
and metadata merges after a fan-out (set unions); of the pages, markup, colours and
number formats, the 15 s refresh of relative times, exceptions inside `renderPanels`,
and what React would render into `<main>` after a script took it over. The bundle of
the Prometheus UI (`mantineui/static`) is generated code: `UIShell` treats it as the
environment, from what the scripts rely on.

## Plan

Of the fan-out, `QueryExemplars`, which repeats the policy with a loop of its own,
could be a second refinement of `FanOutContract`.
