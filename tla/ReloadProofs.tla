----------------------------- MODULE ReloadProofs -----------------------------
(***************************************************************************)
(* Safety of reloads, for every set of groups, every set of configs and    *)
(* every number of requests: what is served is loaded, no generation is    *)
(* orphaned, and a reload that reports success left one config everywhere. *)
(***************************************************************************)
EXTENDS Reload, TLAPS

Reloading == {"read", "validate", "build", "cancelNew", "wait", "logger", "result"}
PCs       == Reloading \union {"idle", "fatal", "panicked", "exited"}

Shapes ==
  /\ file \in ConfigRecords
  /\ pc \in PCs
  /\ cause \in {"boot", "signal", "web", "none"}
  /\ pc \in Reloading \ {"read"} => cfg \in ConfigRecords
  /\ failed \in BOOLEAN
  /\ DOMAIN applied = Components /\ applied = [c \in Components |-> applied[c]]
  /\ gens \in Nat /\ serving \in 0 .. gens
  /\ genCfg = [g \in Gens |-> genCfg[g]]
  /\ sig \in {"none", "HUP", "TERM"}
  /\ requests \in 0 .. MaxRequests

One(b) == IF b THEN 1 ELSE 0

\* Every reload that will still build a generation was asked for, so there is a
\* place for the generation.
RoomForGens ==
  /\ gens + One(pc \in {"read", "validate", "build"}) + One(sig = "HUP")
       + One(web = "waiting" /\ cause # "web") <= requests + 1
  /\ pc = "idle" => cause = "none"
  /\ cause = "web" => web = "waiting"

\* The generation under construction is the last one, and not yet anyone's.
UnderConstruction ==
  pc \in {"cancelNew", "wait"} =>
    /\ gens \in Gens /\ genCfg[gens] = cfg
    /\ serving # gens /\ gens \notin cancelled

Lifetimes ==
  /\ cancelled \subseteq 1 .. gens
  /\ serving \notin cancelled
  /\ \A g \in 1 .. gens :
       \/ g = serving
       \/ g \in cancelled
       \/ g = gens /\ pc \in {"cancelNew", "wait", "panicked"}

\* How far a reload that has not failed has spread its config.
Spread ==
  /\ pc \in {"logger", "result"} /\ ~ failed =>
       serving # 0 /\ applied["storage"] = cfg /\ genCfg[serving] = cfg
  /\ pc = "result" /\ ~ failed => \A c \in Components : applied[c] = cfg

IInv ==
  /\ Shapes /\ RoomForGens /\ UnderConstruction /\ Lifetimes /\ Spread
  /\ ServedGroupsLoaded /\ SuccessMeansUniform

-----------------------------------------------------------------------------
\* It holds at boot.
LEMMA InitIInv == Init => IInv
<1> SUFFICES ASSUME Init PROVE IInv
  OBVIOUS
<1>1. file \in ConfigRecords /\ MaxRequests \in Nat
  BY ConfigsAssumption DEF Init
<1>2. Shapes
  <2>1. applied = [c \in Components |-> applied[c]] /\ genCfg = [g \in Gens |-> genCfg[g]]
    BY DEF Init
  <2>2. DOMAIN applied = Components
    BY DEF Init
  <2>3. gens \in Nat /\ serving \in 0 .. gens /\ requests \in 0 .. MaxRequests
    BY <1>1 DEF Init
  <2>4. pc \in PCs /\ ~ (pc \in Reloading \ {"read"}) /\ failed \in BOOLEAN
    BY DEF Init, PCs, Reloading
  <2>5. cause \in {"boot", "signal", "web", "none"} /\ sig \in {"none", "HUP", "TERM"}
    BY DEF Init
  <2> QED
    BY <1>1, <2>1, <2>2, <2>3, <2>4, <2>5 DEF Shapes
<1>3. RoomForGens
  BY DEF Init, RoomForGens, One
<1> QED
  BY <1>2, <1>3 DEF Init, IInv, UnderConstruction, Lifetimes, Spread, ServedGroupsLoaded,
                    SuccessMeansUniform

\* The served generation and its config survive a step that leaves them alone.
LEMMA KeepsServed ==
  ASSUME IInv, UNCHANGED <<storeVars, applied, noStep, success>>, loaded \subseteq loaded',
         pc' # "idle" \/ pc = "idle"
  PROVE  ServedGroupsLoaded' /\ SuccessMeansUniform'
BY DEF IInv, storeVars, ServedGroupsLoaded, SuccessMeansUniform, GroupsOf

\* What the outside does between two steps of main.
LEMMA OutsideIInv ==
  ASSUME IInv,
         EditFile \/ WebReload \/ WebQuit \/ Hup \/ Term \/ \E g \in Gens, s \in Groups : GroupLoads(g, s)
  PROVE  IInv'
<1> USE DEF IInv
<1>1. UNCHANGED <<mainVars, storeVars>> /\ loaded \subseteq loaded'
  BY DEF EditFile, WebReload, WebQuit, Hup, Term, GroupLoads
<1>2. ServedGroupsLoaded' /\ SuccessMeansUniform'
  BY <1>1, KeepsServed DEF mainVars
<1>3. UnderConstruction' /\ Lifetimes' /\ Spread'
  BY <1>1 DEF mainVars, storeVars, UnderConstruction, Lifetimes, Spread
<1>4. Shapes'
  <2>1. file' \in ConfigRecords
    BY ConfigsAssumption DEF Shapes, EditFile, WebReload, WebQuit, Hup, Term, GroupLoads, reqVars
  <2>2. sig' \in {"none", "HUP", "TERM"} /\ requests' \in 0 .. MaxRequests
    <3>1. requests' = requests \/ (requests < MaxRequests /\ requests' = requests + 1)
      BY DEF EditFile, WebReload, WebQuit, Hup, Term, GroupLoads, reqVars, Request
    <3>2. requests' \in 0 .. MaxRequests
      BY <3>1, ConfigsAssumption DEF Shapes
    <3>3. sig' \in {sig, "HUP", "TERM"}
      BY DEF EditFile, WebReload, WebQuit, Hup, Term, GroupLoads, reqVars
    <3> QED
      BY <3>2, <3>3 DEF Shapes
  <2> QED
    BY <1>1, <2>1, <2>2 DEF Shapes, mainVars, storeVars
<1>5. RoomForGens'
  <2>0. gens \in Nat /\ requests \in Nat
    BY ConfigsAssumption DEF Shapes
  <2>1. CASE EditFile \/ WebQuit \/ Term \/ \E g \in Gens, s \in Groups : GroupLoads(g, s)
    <3>1. /\ sig' = "HUP" => sig = "HUP"
          /\ web' = web
          /\ requests' = requests \/ requests' = requests + 1
      BY <2>1 DEF EditFile, WebQuit, Term, GroupLoads, Request, reqVars
    <3> QED
      BY <1>1, <2>0, <3>1 DEF RoomForGens, One, mainVars, storeVars
  <2>2. CASE Hup
    BY <1>1, <2>0, <2>2 DEF RoomForGens, One, Hup, Request, mainVars, storeVars
  <2>3. CASE WebReload
    BY <1>1, <2>0, <2>3 DEF RoomForGens, One, WebReload, Request, mainVars, storeVars
  <2> QED
    BY <2>1, <2>2, <2>3
<1> QED
  BY <1>2, <1>3, <1>4, <1>5

\* main takes a signal or a request.
LEMMA TakeIInv ==
  ASSUME IInv, TakeHup \/ TakeWebReload \/ TakeTerm
  PROVE  IInv'
<1> USE DEF IInv
<1>1. /\ pc = "idle" /\ pc' \in {"read", "exited"} /\ cause' \in {"signal", "web", "none"}
      /\ UNCHANGED <<cfg, failed, applied, noStep, success, storeVars, loaded, file, requests>>
  BY DEF TakeHup, TakeWebReload, TakeTerm, StartReload, reqVars, RoomForGens
<1>2. ServedGroupsLoaded' /\ SuccessMeansUniform'
  BY <1>1, KeepsServed
<1>3. UnderConstruction' /\ Lifetimes' /\ Spread'
  BY <1>1 DEF storeVars, UnderConstruction, Lifetimes, Spread
<1>4. Shapes'
  <2>1. sig' \in {"none", "HUP", "TERM"}
    BY DEF Shapes, TakeHup, TakeWebReload, TakeTerm, reqVars
  <2> QED
    BY <1>1, <2>1 DEF Shapes, storeVars, PCs, Reloading
<1>5. RoomForGens'
  <2>0. gens \in Nat /\ requests \in Nat
    BY ConfigsAssumption DEF Shapes
  <2>1. CASE TakeHup
    BY <1>1, <2>0, <2>1 DEF RoomForGens, One, TakeHup, StartReload, storeVars
  <2>2. CASE TakeWebReload
    BY <1>1, <2>0, <2>2 DEF RoomForGens, One, TakeWebReload, StartReload, storeVars
  <2>3. CASE TakeTerm
    BY <1>1, <2>0, <2>3 DEF RoomForGens, One, TakeTerm, storeVars, reqVars
  <2> QED
    BY <2>1, <2>2, <2>3
<1> QED
  BY <1>2, <1>3, <1>4, <1>5

\* Reading and checking the config touches no generation.
LEMMA CheckIInv ==
  ASSUME IInv, ReadFile \/ Validate
  PROVE  IInv'
<1> USE DEF IInv
<1>1. /\ pc \in {"read", "validate"} /\ pc' \in {"validate", "build", "logger", "result"}
      /\ pc = "validate" => pc' # "validate"
      /\ pc' \in {"logger", "result"} => failed'
      /\ UNCHANGED <<cause, applied, noStep, success, storeVars, loaded, reqVars>>
  BY DEF ReadFile, Validate
<1>2. ServedGroupsLoaded' /\ SuccessMeansUniform'
  BY <1>1, KeepsServed
<1>3. UnderConstruction' /\ Lifetimes' /\ Spread'
  BY <1>1 DEF storeVars, UnderConstruction, Lifetimes, Spread
<1>4. Shapes'
  <2>1. cfg' \in ConfigRecords /\ failed' \in BOOLEAN
    BY DEF Shapes, ReadFile, Validate, Reloading, PCs, ConfigRecords
  <2> QED
    BY <1>1, <2>1 DEF Shapes, storeVars, reqVars, PCs, Reloading
<1>5. RoomForGens'
  <2>0. gens \in Nat /\ requests \in Nat
    BY ConfigsAssumption DEF Shapes
  <2> QED
    BY <1>1, <2>0 DEF RoomForGens, One, storeVars, reqVars
<1> QED
  BY <1>2, <1>3, <1>4, <1>5

\* A new generation gets the next number, which is free.
LEMMA BuildGroupsIInv ==
  ASSUME IInv, BuildGroups
  PROVE  IInv'
<1> USE DEF IInv
<1>1. /\ pc = "build" /\ pc' \in {"wait", "cancelNew"} /\ gens' = gens + 1
      /\ genCfg' = [genCfg EXCEPT ![gens + 1] = cfg]
      /\ UNCHANGED <<cause, cfg, failed, applied, noStep, success, cancelled, serving, loaded, reqVars>>
  BY DEF BuildGroups, AfterBuild
<1>0. gens \in Nat /\ requests \in Nat /\ requests <= MaxRequests /\ MaxRequests \in Nat
  BY ConfigsAssumption DEF Shapes
<1>2. gens + 1 \in Gens
  BY <1>0, <1>1 DEF RoomForGens, One, Gens
<1>3. genCfg'[gens'] = cfg /\ \A g \in 1 .. gens : genCfg'[g] = genCfg[g]
  <2>1. \A g \in 1 .. gens : g \in Gens /\ g # gens + 1
    BY <1>0, <1>2 DEF Gens
  <2> QED
    BY <1>1, <1>2, <2>1 DEF Shapes
<1>4. Shapes'
  BY <1>0, <1>1 DEF Shapes, reqVars, PCs, Reloading
<1>5. RoomForGens'
  BY <1>0, <1>1 DEF RoomForGens, One, reqVars
<1>6. UnderConstruction'
  BY <1>0, <1>1, <1>2, <1>3 DEF UnderConstruction, Shapes, Lifetimes
<1>7. Lifetimes'
  <2>1. \A g \in 1 .. gens' : g = gens' \/ g \in 1 .. gens
    BY <1>0, <1>1
  <2>2. 1 .. gens \subseteq 1 .. gens'
    BY <1>0, <1>1
  <2> QED
    BY <1>0, <1>1, <2>1, <2>2 DEF Lifetimes
<1>8. Spread'
  BY <1>1 DEF Spread
<1>9. ServedGroupsLoaded' /\ SuccessMeansUniform'
  <2>1. serving # 0 => serving \in 1 .. gens
    BY <1>0 DEF Shapes
  <2> QED
    BY <1>1, <1>3, <2>1 DEF ServedGroupsLoaded, SuccessMeansUniform, GroupsOf
<1> QED
  BY <1>4, <1>5, <1>6, <1>7, <1>8, <1>9

\* A generation that failed half way is cancelled before the reload goes on.
LEMMA CancelNewIInv ==
  ASSUME IInv, CancelNew
  PROVE  IInv'
<1> USE DEF IInv
<1>1. /\ pc = "cancelNew"
      /\ UNCHANGED <<cause, cfg, applied, noStep, success, gens, genCfg, created, serving, loaded, reqVars>>
  BY DEF CancelNew
<1>0. gens \in Nat /\ requests \in Nat
  BY ConfigsAssumption DEF Shapes
<1>2. \/ pc' = "logger" /\ failed' = TRUE /\ cancelled' = cancelled \union {gens}
      \/ pc' = "panicked" /\ failed' = failed /\ cancelled' = cancelled
  BY DEF CancelNew, CancelledNew
<1>3. gens \in 1 .. gens /\ serving # gens
  BY <1>0, <1>1 DEF UnderConstruction, Gens
<1>4. Shapes'
  BY <1>1, <1>2 DEF Shapes, reqVars, PCs, Reloading
<1>5. RoomForGens'
  BY <1>0, <1>1, <1>2 DEF RoomForGens, One, reqVars
<1>6. UnderConstruction' /\ Spread'
  BY <1>2 DEF UnderConstruction, Spread
<1>7. Lifetimes'
  BY <1>1, <1>2, <1>3 DEF Lifetimes
<1>8. ServedGroupsLoaded' /\ SuccessMeansUniform'
  BY <1>1, <1>2 DEF ServedGroupsLoaded, SuccessMeansUniform, GroupsOf
<1> QED
  BY <1>4, <1>5, <1>6, <1>7, <1>8

\* The swap: the new generation is loaded, the old one cancelled.
LEMMA PublishIInv ==
  ASSUME IInv, Publish
  PROVE  IInv'
<1> USE DEF IInv
<1>1. /\ pc = "wait" /\ pc' = "logger" /\ NewStateReady
      /\ serving' = gens
      /\ cancelled' = cancelled \union (IF serving = 0 THEN {} ELSE {serving})
      /\ applied' = [applied EXCEPT !["storage"] = cfg]
      /\ UNCHANGED <<cause, cfg, failed, noStep, success, gens, genCfg, created, loaded, reqVars>>
  BY DEF Publish, CancelledOld
<1>0. gens \in Nat /\ requests \in Nat
  BY ConfigsAssumption DEF Shapes
<1>2. /\ gens \in 1 .. gens /\ serving # gens /\ gens \notin cancelled /\ genCfg[gens] = cfg
      /\ serving # 0 => serving \in 1 .. gens
  BY <1>0, <1>1 DEF UnderConstruction, Gens, Shapes
<1>3. applied'["storage"] = cfg
  BY <1>1 DEF Shapes, Components
<1>4. Shapes'
  <2>1. DOMAIN applied' = Components /\ applied' = [c \in Components |-> applied'[c]]
    BY <1>1 DEF Shapes
  <2> QED
    BY <1>0, <1>1, <2>1 DEF Shapes, reqVars, PCs, Reloading
<1>5. RoomForGens'
  BY <1>0, <1>1 DEF RoomForGens, One, reqVars
<1>6. UnderConstruction'
  BY <1>1 DEF UnderConstruction
<1>7. Lifetimes'
  BY <1>0, <1>1, <1>2 DEF Lifetimes
<1>8. Spread'
  BY <1>0, <1>1, <1>2, <1>3 DEF Spread
<1>9. ServedGroupsLoaded' /\ SuccessMeansUniform'
  BY <1>1, <1>2 DEF ServedGroupsLoaded, SuccessMeansUniform, GroupsOf, NewStateReady
<1> QED
  BY <1>4, <1>5, <1>6, <1>7, <1>8, <1>9

\* The other reloadables run; the config is everywhere unless one of them failed.
LEMMA ApplyRestIInv ==
  ASSUME IInv, ApplyRest
  PROVE  IInv'
<1> USE DEF IInv
<1>1. /\ pc = "logger" /\ pc' = "result"
      /\ failed' = (failed \/ cfg.loggerFails)
      /\ applied' = [c \in Components |->
                       CASE c \in {"web", "federate"} -> cfg
                         [] c = "logger" /\ ~ cfg.loggerFails -> cfg
                         [] OTHER -> applied[c]]
      /\ UNCHANGED <<cause, cfg, noStep, success, storeVars, loaded, reqVars>>
  BY DEF ApplyRest, LoggerFailed
<1>0. /\ gens \in Nat /\ requests \in Nat /\ failed \in BOOLEAN /\ cfg.loggerFails \in BOOLEAN
      /\ cfg \in ConfigRecords
  BY <1>1, ConfigsAssumption DEF Shapes, Reloading, ConfigRecords
<1>2. Shapes'
  <2>1. DOMAIN applied' = Components /\ applied' = [c \in Components |-> applied'[c]]
    BY <1>1
  <2>2. failed' \in BOOLEAN
    BY <1>0, <1>1
  <2> QED
    BY <1>0, <1>1, <2>1, <2>2 DEF Shapes, storeVars, reqVars, PCs, Reloading
<1>3. RoomForGens'
  BY <1>0, <1>1 DEF RoomForGens, One, storeVars, reqVars
<1>4. UnderConstruction' /\ Lifetimes'
  BY <1>1 DEF UnderConstruction, Lifetimes, storeVars
<1>5. Spread'
  <2> SUFFICES ASSUME ~ failed'
               PROVE  /\ serving # 0 /\ genCfg[serving] = cfg
                      /\ \A c \in Components : applied'[c] = cfg
    BY <1>1 DEF Spread, storeVars, Components
  <2>1. ~ failed /\ ~ cfg.loggerFails
    BY <1>0, <1>1
  <2>2. serving # 0 /\ applied["storage"] = cfg /\ genCfg[serving] = cfg
    BY <1>1, <2>1 DEF Spread
  <2>3. \A c \in Components : applied'[c] = cfg
    BY <1>1, <2>1, <2>2 DEF Components
  <2> QED
    BY <2>2, <2>3
<1>6. ServedGroupsLoaded' /\ SuccessMeansUniform'
  BY <1>1 DEF ServedGroupsLoaded, SuccessMeansUniform, GroupsOf, storeVars
<1> QED
  BY <1>2, <1>3, <1>4, <1>5, <1>6

\* The gauge is set to what the reload has established.
LEMMA ResultIInv ==
  ASSUME IInv, Result
  PROVE  IInv'
<1> USE DEF IInv
<1>1. /\ pc = "result" /\ pc' \in {"fatal", "idle"}
      /\ success' = ~ failed
      /\ noStep' = IF failed THEN noStep ELSE cfg
      /\ web' = IF cause = "web" THEN (IF failed THEN "err" ELSE "ok") ELSE web
      /\ cause' \in {"boot", "none"} /\ (pc' = "idle" => cause' = "none")
      /\ UNCHANGED <<cfg, failed, applied, storeVars, loaded, file, sig, quit, requests>>
  BY DEF Result
<1>0. gens \in Nat /\ requests \in Nat
  BY ConfigsAssumption DEF Shapes
<1>2. Shapes'
  BY <1>0, <1>1 DEF Shapes, storeVars, PCs, Reloading
<1>3. RoomForGens'
  BY <1>0, <1>1 DEF RoomForGens, One, storeVars
<1>4. UnderConstruction' /\ Lifetimes' /\ Spread'
  BY <1>1 DEF UnderConstruction, Lifetimes, Spread, storeVars
<1>5. ServedGroupsLoaded'
  BY <1>1 DEF ServedGroupsLoaded, GroupsOf, storeVars
<1>6. SuccessMeansUniform'
  BY <1>1 DEF SuccessMeansUniform, Spread, storeVars
<1> QED
  BY <1>2, <1>3, <1>4, <1>5, <1>6

\* Every step, of main and of its environment, preserves it.
LEMMA NextIInv == IInv /\ [Next]_vars => IInv'
<1> SUFFICES ASSUME IInv, [Next]_vars PROVE IInv'
  OBVIOUS
<1>1. CASE UNCHANGED vars
  BY <1>1 DEF IInv, vars, Shapes, RoomForGens, UnderConstruction, Lifetimes, Spread,
              ServedGroupsLoaded, SuccessMeansUniform, GroupsOf
<1>2. CASE EditFile \/ WebReload \/ WebQuit \/ Hup \/ Term \/ \E g \in Gens, s \in Groups : GroupLoads(g, s)
  BY <1>2, OutsideIInv
<1>3. CASE Main
  BY <1>3, TakeIInv, CheckIInv, BuildGroupsIInv, CancelNewIInv, PublishIInv, ApplyRestIInv, ResultIInv
     DEF Main
<1> QED
  BY <1>1, <1>2, <1>3 DEF Next, Stopped

\* Everything below follows from this invariant of reloadConfig and ApplyConfig.
THEOREM SpecIInv == Spec => []IInv
BY InitIInv, NextIInv, PTL DEF Spec

\* Whatever configs are tried and however often, a query never gets a state with
\* a group whose first load is not done (proxyStorageState.Ready).
THEOREM OnlyLoadedServed == Spec => []ServedGroupsLoaded
<1>1. IInv => ServedGroupsLoaded
  BY DEF IInv
<1> QED
  BY <1>1, SpecIInv, PTL

\* When main is back in its loop every generation but the served one has been
\* cancelled, also after any number of reloads that failed half way.
THEOREM NoOrphans == Spec => []NoOrphanGroups
<1>1. IInv => NoOrphanGroups
  BY DEF IInv, Lifetimes, NoOrphanGroups
<1> QED
  BY <1>1, SpecIInv, PTL

\* The reload gauge is 1 only if storage, logger, web handler and /federate all
\* run the config the served groups were built from.
THEOREM SuccessIsUniform == Spec => []SuccessMeansUniform
<1>1. IInv => SuccessMeansUniform
  BY DEF IInv
<1> QED
  BY <1>1, SpecIInv, PTL
=============================================================================
