------------------------- MODULE ServerGroupProofs --------------------------
(***************************************************************************)
(* Proofs about ServerGroup, for every set of targets and every map that   *)
(* discovery may find.                                                     *)
(***************************************************************************)
EXTENDS ServerGroup, TLAPS, FiniteSetTheorems

\* The invariant holds when NewServerGroup returns.
LEMMA InitIInv == Init => IInv
<1> SUFFICES ASSUME Init PROVE IInv
  OBVIOUS
<1>1. TypeOK
  <2>1. map \in Maps /\ built \in SUBSET map.targets
    BY DEF Init
  <2>2. gauge \in Nat \union {-1} /\ updates \in 0 .. MaxUpdates
    BY MapsAssumption DEF Init
  <2>3. ctx \in CtxIds \union {NoCtx} /\ live \in SUBSET CtxIds
    BY DEF Init
  <2> QED
    BY <2>1, <2>2, <2>3 DEF Init, TypeOK, SyncPCs
<1>2. OpenContexts
  BY DEF Init, OpenContexts, StateCtx
<1>3. PublishOrder
  BY DEF Init, PublishOrder
<1> QED
  BY <1>1, <1>2, <1>3 DEF IInv

\* A load, first attempt or retry, opens a context that is not in use.
LEMMA BeginLoadIInv ==
  ASSUME IInv, NEW d \in Maps, sync \in {"idle", "retry"}, BeginLoad(d), pending' \in BOOLEAN
  PROVE  IInv'
<1>1. PICK c \in CtxIds \ (live \union StateCtx) : ctx' = c /\ live' = live \union {c}
  BY DEF BeginLoad, StateCtx
<1>2. StateCtx' = StateCtx
  BY DEF BeginLoad, StateCtx
<1>3. TypeOK'
  BY <1>1, MapsAssumption DEF IInv, TypeOK, BeginLoad, BuiltAtStart, SyncPCs
<1>4. OpenContexts'
  BY <1>1, <1>2 DEF IInv, OpenContexts, BeginLoad
<1>5. PublishOrder'
  BY DEF IInv, PublishOrder, BeginLoad
<1> QED
  BY <1>3, <1>4, <1>5 DEF IInv

\* Every step preserves the invariant.
LEMMA NextIInv == IInv /\ [Next]_vars => IInv'
<1> SUFFICES ASSUME IInv, [Next]_vars PROVE IInv'
  OBVIOUS
<1> USE MapsAssumption DEF IInv
<1>1. CASE Receive
  <2>1. disc \in Maps /\ sync \in {"idle", "retry"} /\ pending' \in BOOLEAN /\ BeginLoad(disc)
    BY <1>1 DEF Receive, TypeOK
  <2> QED
    BY <2>1, BeginLoadIInv
<1>2. CASE Retry
  <2>1. map \in Maps /\ sync \in {"idle", "retry"} /\ pending' \in BOOLEAN /\ BeginLoad(map)
    BY <1>2 DEF Retry, TypeOK
  <2> QED
    BY <2>1, BeginLoadIInv
<1>3. ASSUME NEW t \in Targets, BuildTarget(t) PROVE IInv'
  BY <1>3 DEF BuildTarget, discovery, TypeOK, OpenContexts, PublishOrder, StateCtx
<1>4. CASE BuildFails
  BY <1>4 DEF BuildFails, ReleaseOnError, AfterFailure, discovery, TypeOK, OpenContexts,
              PublishOrder, StateCtx, SyncPCs
<1>5. CASE BuildDone
  BY <1>5 DEF BuildDone, BuildComplete, discovery, TypeOK, OpenContexts, PublishOrder,
              StateCtx, SyncPCs
<1>6. CASE SetGauge
  <2>1. Cardinality(built) \in Nat
    <3>1. built \subseteq Targets
      BY DEF TypeOK
    <3> QED
      BY <3>1, FS_Subset, FS_CardinalityType
  <2> QED
    BY <1>6, <2>1 DEF SetGauge, PublishNext, discovery, TypeOK, OpenContexts, PublishOrder,
                      StateCtx, SyncPCs
<1>7. CASE StoreState
  <2>1. state' = [ctx |-> ctx, targets |-> built] /\ ctx \in CtxIds /\ built \in SUBSET Targets
    BY <1>7 DEF StoreState, TypeOK, OpenContexts
  <2>2. state' # NoState /\ state'.ctx = ctx
    BY <2>1
  <2>3. sync' = "ready" /\ live' = {ctx}
    BY <1>7 DEF StoreState, PublishNext, ReleaseOld, OpenContexts, StateCtx
  <2>4. TypeOK'
    BY <1>7, <2>1, <2>3 DEF StoreState, discovery, TypeOK, SyncPCs
  <2>5. OpenContexts'
    BY <2>2, <2>3 DEF OpenContexts, StateCtx
  <2>6. PublishOrder'
    BY <2>2, <2>3 DEF PublishOrder
  <2> QED
    BY <2>4, <2>5, <2>6
<1>8. CASE CloseReady
  BY <1>8 DEF CloseReady, PublishNext, discovery, TypeOK, OpenContexts, PublishOrder,
              StateCtx, SyncPCs
<1>9. CASE Stop
  BY <1>9 DEF Stop, discovery, TypeOK, OpenContexts, PublishOrder, StateCtx, SyncPCs
<1>10. ASSUME NEW t \in Targets, TargetFlips(t) PROVE IInv'
  BY <1>10 DEF TargetFlips, TypeOK, OpenContexts, PublishOrder, StateCtx
<1>11. ASSUME NEW d \in Maps, Discover(d) PROVE IInv'
  BY <1>11 DEF Discover, TypeOK, OpenContexts, PublishOrder, StateCtx
<1>12. CASE Cancel
  BY <1>12 DEF Cancel, discovery, TypeOK, OpenContexts, PublishOrder, StateCtx
<1>13. CASE UNCHANGED vars
  BY <1>13 DEF vars, TypeOK, OpenContexts, PublishOrder, StateCtx
<1> QED
  BY <1>1, <1>2, <1>3, <1>4, <1>5, <1>6, <1>7, <1>8, <1>9, <1>10, <1>11, <1>12, <1>13
  DEF Next, SyncStep

\* The inductive invariant of a server group holds in every reachable state.
THEOREM SpecIInv == Spec => []IInv
  BY InitIInv, NextIInv, PTL DEF Spec

\* Every variable of a server group keeps its type, whatever discovery finds.
THEOREM TypeCorrect == Spec => []TypeOK
<1>1. IInv => TypeOK
  BY DEF IInv
<1> QED
  BY <1>1, SpecIInv, PTL

\* Whoever waited for Ready finds a state, so no method dereferences nil.
THEOREM ReadyMeansLoaded == Spec => []ReadyHasState
<1>1. IInv => ReadyHasState
  BY DEF IInv, PublishOrder, ReadyHasState
<1> QED
  BY <1>1, SpecIInv, PTL

\* No label-filter poller outlives its state or its group, after any sequence of
\* failed loads, retries, swaps and cancellation.
THEOREM NoLeakedPollers == Spec => []PollersStopped
<1>1. IInv => PollersStopped
  BY DEF IInv, OpenContexts, PollersStopped, Pollers
<1> QED
  BY <1>1, SpecIInv, PTL

\* The pollers of the state that queries use run until the group is cancelled.
THEOREM StateStaysFresh == Spec => []StateCtxLive
<1>1. IInv => StateCtxLive
  BY DEF IInv, TypeOK, SyncPCs, OpenContexts, StateCtxLive, Pollers
<1> QED
  BY <1>1, SpecIInv, PTL

\* Only a complete discovery round is ever swapped in.
THEOREM PublishesWholeMaps == Spec => WholeMapPublished
<1>1. IInv /\ [Next]_vars =>
        [state' # state => state'.targets = map.targets /\ ~ map.noAddress]_vars
  <2> SUFFICES ASSUME IInv, Next, state' # state
               PROVE  state'.targets = map.targets /\ ~ map.noAddress
    BY DEF vars
  <2>1. StoreState
    BY DEF Next, SyncStep, Receive, Retry, BeginLoad, BuildTarget, BuildFails, BuildDone,
           SetGauge, CloseReady, Stop, TargetFlips, Discover, Cancel
  <2> QED
    BY <2>1 DEF StoreState, IInv, PublishOrder
<1> QED
  BY <1>1, SpecIInv, PTL DEF Spec, WholeMapPublished
=============================================================================
