---------------------------- MODULE ServerGroup -----------------------------
(***************************************************************************)
(* One server group from NewServerGroup to Cancel: the Sync goroutine      *)
(* receives target group maps from the discovery manager, builds an API    *)
(* client per target, and swaps the result in for the queries.  With a     *)
(* label_filter the construction of a client calls its target, and leaves  *)
(* a poller behind that runs until the context of the build ends.          *)
(***************************************************************************)
EXTENDS Integers, FiniteSets

CONSTANTS
  Targets,      \* the targets discovery may find
  Maps,         \* the target group maps discovery may produce
  LabelFilter,  \* the group is configured with a dynamic label_filter
  CtxIds,       \* names for contexts; a name is free again once cancelled
  NoState,      \* State() before the first load: nil
  MaxUpdates    \* bound: discovery updates after the first

\* A map is the targets left after relabelling; noAddress says that one of them
\* lost its address label on the way.
ASSUME MapsAssumption ==
  /\ Maps \subseteq [targets : SUBSET Targets, noAddress : BOOLEAN]
  /\ IsFiniteSet(Targets)
  /\ LabelFilter \in BOOLEAN
  /\ MaxUpdates \in Nat
  /\ NoState \notin [ctx : CtxIds, targets : SUBSET Targets]

VARIABLES
  up,        \* the targets that answer
  disc,      \* the map the discovery manager holds
  pending,   \* the manager has a map to send on SyncCh
  updates,   \* updates so far
  cancelled, \* s.ctx has ended
  sync,      \* where the Sync goroutine is
  map,       \* the map it is loading
  built,     \* the targets of the map it has built clients for
  ctx,       \* the context of the running load
  live,      \* contexts not cancelled by their own cancel function
  state,     \* s.state: what queries use
  gauge,     \* proxeus_server_group_targets, -1 when never set
  ready      \* the Ready channel is closed (s.loaded)

vars == <<up, disc, pending, updates, cancelled, sync, map, built, ctx, live,
          state, gauge, ready>>
discovery == <<up, disc, pending, updates>>

NoCtx == "none"
SyncPCs == {"idle", "build", "retry", "gauge", "store", "ready", "done"}

Init ==
  /\ up \in SUBSET Targets
  /\ disc \in Maps
  /\ pending = TRUE
  /\ updates = 0
  /\ cancelled = FALSE
  /\ sync = "idle"
  /\ map = disc
  /\ built = {}
  /\ ctx = NoCtx
  /\ live = {}
  /\ state = NoState
  /\ gauge = -1
  /\ ready = FALSE

(***************************************************************************)
(* Environment: targets come and go, discovery finds new maps.             *)
(***************************************************************************)
TargetFlips(t) ==
  /\ up' = IF t \in up THEN up \ {t} ELSE up \union {t}
  /\ UNCHANGED <<disc, pending, updates, cancelled, sync, map, built, ctx, live,
                 state, gauge, ready>>

Discover(d) ==
  /\ updates < MaxUpdates
  /\ d # disc
  /\ disc' = d
  /\ pending' = TRUE
  /\ updates' = updates + 1
  /\ UNCHANGED <<up, cancelled, sync, map, built, ctx, live, state, gauge, ready>>

\* ProxyStorage cancels the group.
Cancel ==
  /\ ~ cancelled
  /\ cancelled' = TRUE
  /\ UNCHANGED <<discovery, sync, map, built, ctx, live, state, gauge, ready>>

(***************************************************************************)
(* The Sync goroutine.                                                     *)
(***************************************************************************)

\* Mutant: the clients of the attempt before are kept.
BuiltAtStart_kept == built

\* Every attempt starts from empty lists.
BuiltAtStart == {}

\* The start of loadTargetGroupMap: a context of its own for the attempt.
BeginLoad(d) ==
  /\ map' = d
  /\ built' = BuiltAtStart
  /\ \E c \in CtxIds \ (live \union IF state = NoState THEN {} ELSE {state.ctx}) :
       ctx' = c /\ live' = live \union {c}
  /\ sync' = "build"
  /\ UNCHANGED <<up, disc, updates, cancelled, state, gauge, ready>>

Receive ==
  /\ sync = "idle"
  /\ pending
  /\ pending' = FALSE
  /\ BeginLoad(disc)

\* One second later the same map is tried again.
Retry ==
  /\ sync = "retry"
  /\ UNCHANGED pending
  /\ BeginLoad(map)

\* Mutant: the context of a failed attempt is left open.
ReleaseOnError_leak == live

\* The deferred cancel of a load that returns an error.
ReleaseOnError == live \ {ctx}

\* NewLabelFilterClient syncs before it returns: it fails when its target does
\* and when its context, a child of the group's, has ended.
ClientFails(t) == LabelFilter /\ (t \notin up \/ cancelled)

BuildTarget(t) ==
  /\ sync = "build"
  /\ t \in map.targets \ built
  /\ ~ ClientFails(t)
  /\ built' = built \union {t}
  /\ UNCHANGED <<discovery, cancelled, sync, map, ctx, live, state, gauge, ready>>

\* Mutant: a failed load waits for the next update instead of retrying.
AfterFailure_drop == "idle"

AfterFailure == "retry"

BuildFails ==
  /\ sync = "build"
  /\ map.noAddress \/ \E t \in map.targets \ built : ClientFails(t)
  /\ live' = ReleaseOnError
  /\ sync' = AfterFailure
  /\ UNCHANGED <<discovery, cancelled, map, built, ctx, state, gauge, ready>>

\* Mutant: a load with at least one client counts as complete.
BuildComplete_any == ~ map.noAddress /\ (built # {} \/ map.targets = {})

BuildComplete == ~ map.noAddress /\ built = map.targets

BuildDone ==
  /\ sync = "build"
  /\ BuildComplete
  /\ sync' = "gauge"
  /\ UNCHANGED <<discovery, cancelled, map, built, ctx, live, state, gauge, ready>>

\* Mutant: Ready is closed before the state is stored.
PublishNext_readyFirst(pc) ==
  CASE pc = "gauge" -> "ready" [] pc = "ready" -> "store" [] pc = "store" -> "idle"

\* The order in which a completed load publishes its result.
PublishNext(pc) ==
  CASE pc = "gauge" -> "store" [] pc = "store" -> "ready" [] pc = "ready" -> "idle"

SetGauge ==
  /\ sync = "gauge"
  /\ gauge' = Cardinality(built)
  /\ sync' = PublishNext(sync)
  /\ UNCHANGED <<discovery, cancelled, map, built, ctx, live, state, ready>>

\* Mutant: the context of the new state is cancelled instead of the old one's.
ReleaseOld_new == IF state = NoState THEN live ELSE live \ {ctx}

ReleaseOld == IF state = NoState THEN live ELSE live \ {state.ctx}

\* Swap in the new state, then cancel the one it replaces.
StoreState ==
  /\ sync = "store"
  /\ state' = [ctx |-> ctx, targets |-> built]
  /\ live' = ReleaseOld
  /\ sync' = PublishNext(sync)
  /\ UNCHANGED <<discovery, cancelled, map, built, ctx, gauge, ready>>

CloseReady ==
  /\ sync = "ready"
  /\ ready' = TRUE
  /\ sync' = PublishNext(sync)
  /\ UNCHANGED <<discovery, cancelled, map, built, ctx, live, state, gauge>>

\* Sync looks at its context only while it waits.
Stop ==
  /\ sync \in {"idle", "retry"}
  /\ cancelled
  /\ sync' = "done"
  /\ UNCHANGED <<discovery, cancelled, map, built, ctx, live, state, gauge, ready>>

SyncStep ==
  \/ Receive \/ Retry
  \/ (\E t \in Targets : BuildTarget(t)) \/ BuildFails \/ BuildDone
  \/ SetGauge \/ StoreState \/ CloseReady
  \/ Stop

Next ==
  \/ SyncStep
  \/ \E t \in Targets : TargetFlips(t)
  \/ \E d \in Maps : Discover(d)
  \/ Cancel

Spec == Init /\ [][Next]_vars
FairSpec == Spec /\ WF_vars(SyncStep)

-----------------------------------------------------------------------------
(***************************************************************************)
(* Properties.                                                             *)
(***************************************************************************)

\* The contexts whose label-filter pollers run: those neither cancelled
\* themselves nor with their parent s.ctx.
Pollers == IF cancelled THEN {} ELSE live

StateCtx == IF state = NoState THEN {} ELSE {state.ctx}

\* Type correctness of a server group; a load never holds a client of a target
\* that is not in its map.
TypeOK ==
  /\ up \in SUBSET Targets
  /\ disc \in Maps
  /\ pending \in BOOLEAN
  /\ updates \in 0 .. MaxUpdates
  /\ cancelled \in BOOLEAN
  /\ sync \in SyncPCs
  /\ map \in Maps
  /\ built \in SUBSET map.targets
  /\ ctx \in CtxIds \union {NoCtx}
  /\ live \in SUBSET CtxIds
  /\ state \in [ctx : CtxIds, targets : SUBSET Targets] \union {NoState}
  /\ gauge \in Nat \union {-1}
  /\ ready \in BOOLEAN

\* Whoever waited for Ready finds a state: the methods that dereference
\* s.State().apiClient never meet nil.
ReadyHasState == ready => state # NoState

\* Pollers never outlive their state: while no load is under way only the
\* published state may have any, and after Cancel nobody has.
PollersStopped ==
  /\ sync \in {"idle", "retry", "done"} => Pollers \subseteq StateCtx
  /\ cancelled => Pollers = {}

\* The published state can keep its label filter fresh: until the group is
\* cancelled its context is the one context that is never cancelled.
StateCtxLive == ~ cancelled => StateCtx \subseteq Pollers

\* Queries never see a part of a discovery round: what is swapped in has a client
\* for every target of the map.
WholeMapPublished ==
  [][state' # state => state'.targets = map.targets /\ ~ map.noAddress]_vars

\* When the targets recover, the group ends up with what discovery last found,
\* provided no map ever lacked an address: Sync retries a map it cannot load and
\* never looks at newer ones.
FollowsDiscovery ==
  (<>[](up = Targets) /\ [](~ disc.noAddress)) =>
    <>[](cancelled \/ (ready /\ state.targets = disc.targets))

(***************************************************************************)
(* The inductive invariant.  Which contexts are open depends on where Sync *)
(* is: between loads only the published state's, during a load also the    *)
(* load's own, which is another one.                                       *)
(***************************************************************************)
OpenContexts ==
  /\ sync \in {"idle", "retry", "done", "ready"} => live = StateCtx
  /\ sync \in {"build", "gauge", "store"} =>
       ctx \in CtxIds /\ ctx \notin StateCtx /\ live = StateCtx \union {ctx}

\* What is about to be published is complete, and Ready closes behind a state.
PublishOrder ==
  /\ sync \in {"gauge", "store"} => built = map.targets /\ ~ map.noAddress
  /\ sync = "ready" => state # NoState
  /\ ready => state # NoState

\* The strengthening from which the safety properties follow.
IInv == TypeOK /\ OpenContexts /\ PublishOrder
=============================================================================
