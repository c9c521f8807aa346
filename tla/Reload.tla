------------------------------- MODULE Reload -------------------------------
(***************************************************************************)
(* The process around the server groups: main's signal loop, reloadConfig  *)
(* over the registered reloadables, and ProxyStorage.ApplyConfig, which    *)
(* builds the next generation of server groups, waits for it, swaps it in  *)
(* and cancels the old one, while queries and the groups' own goroutines   *)
(* keep running.                                                           *)
(***************************************************************************)
EXTENDS Integers, FiniteSets

CONSTANTS
  Groups,   \* server group names (with their ordinals)
  Configs,  \* the contents the config file may have
  NoConfig, \* a component that was never configured
  MaxRequests \* bound: reloads and shutdowns asked for after boot

(***************************************************************************)
(* A config is abstracted to how loading it goes:                          *)
(*   parses      ConfigFromFile accepts it: YAML, no write side, Validate, *)
(*   valid       the label preflight of ApplyConfig accepts it,            *)
(*   groups      its server groups,                                        *)
(*   newFails    groups NewServerGroup fails for,                          *)
(*   applyFails  groups ServerGroup.ApplyConfig fails for,                 *)
(*   loggerFails the query log file cannot be opened.                      *)
(***************************************************************************)
ConfigRecords ==
  [id : Nat, parses : BOOLEAN, valid : BOOLEAN, groups : SUBSET Groups,
   newFails : SUBSET Groups, applyFails : SUBSET Groups, loggerFails : BOOLEAN]

ASSUME ConfigsAssumption ==
  /\ Configs \subseteq ConfigRecords
  /\ NoConfig \notin ConfigRecords
  /\ MaxRequests \in Nat

\* Boot and every reload build at most one generation each.
Gens == 1 .. MaxRequests + 1

VARIABLES
  file,      \* what the config file holds
  pc,        \* where main's goroutine is
  cause,     \* why it reloads: "boot", "signal", "web"
  cfg,       \* the config being applied
  failed,    \* reloadConfig's flag
  applied,   \* per component, the config it runs
  noStep,    \* the config the default subquery interval was taken from
  success,   \* prometheus_config_last_reload_successful
  gens,      \* generations built so far
  genCfg,    \* the config of each generation
  created,   \* <<generation, group>>: NewServerGroup started its goroutines
  loaded,    \* <<generation, group>>: the group's first load is done, Ready closed
  cancelled, \* generations cancelled
  serving,   \* the generation in ProxyStorage.state, 0 for none
  sig,       \* the signal channel, which holds one signal
  web,       \* a /-/reload request: "none", "waiting", "ok", "err"
  quit,      \* /-/quit was requested
  requests   \* reloads and shutdowns over HTTP asked for so far

mainVars  == <<pc, cause, cfg, failed, applied, noStep, success>>
storeVars == <<gens, genCfg, created, cancelled, serving>>
reqVars   == <<file, sig, web, quit, requests>>
vars == <<file, pc, cause, cfg, failed, applied, noStep, success, gens, genCfg,
          created, loaded, cancelled, serving, sig, web, quit, requests>>

Components == {"storage", "logger", "web", "federate"}

GroupsOf(g) == genCfg[g].groups

\* Boot: the HTTP server starts after the first successful reload.
Init ==
  /\ file \in Configs
  /\ pc = "read" /\ cause = "boot"
  /\ cfg = NoConfig /\ failed = FALSE
  /\ applied = [c \in Components |-> NoConfig]
  /\ noStep = NoConfig /\ success = FALSE
  /\ gens = 0 /\ genCfg = [g \in Gens |-> NoConfig]
  /\ created = {} /\ loaded = {} /\ cancelled = {} /\ serving = 0
  /\ sig = "none" /\ web = "none" /\ quit = FALSE /\ requests = 0

Up == pc \notin {"fatal", "panicked", "exited"}
Serving == Up /\ serving # 0 /\ ~ (cause = "boot")

(***************************************************************************)
(* The outside: the operator edits the file, signals the process and uses  *)
(* the lifecycle endpoints.  signal.Notify drops a signal when the channel *)
(* is full.                                                                *)
(***************************************************************************)
EditFile ==
  /\ Up
  /\ \E c \in Configs \ {file} : file' = c
  /\ UNCHANGED <<mainVars, storeVars, loaded, sig, web, quit, requests>>

\* One more request, within the bound.
Request == requests < MaxRequests /\ requests' = requests + 1

Hup ==
  /\ Up
  /\ sig = "none"
  /\ sig' = "HUP"
  /\ Request
  /\ UNCHANGED <<mainVars, storeVars, loaded, file, web, quit>>

Term ==
  /\ Up
  /\ sig = "none"
  /\ sig' = "TERM"
  /\ UNCHANGED <<mainVars, storeVars, loaded, file, web, quit, requests>>

WebReload ==
  /\ Serving
  /\ web # "waiting"
  /\ web' = "waiting"
  /\ Request
  /\ UNCHANGED <<mainVars, storeVars, loaded, file, sig, quit>>

WebQuit ==
  /\ Serving
  /\ ~ quit
  /\ quit' = TRUE
  /\ Request
  /\ UNCHANGED <<mainVars, storeVars, loaded, file, sig, web>>

(***************************************************************************)
(* The first load of a server group, after which its Ready channel is      *)
(* closed; ServerGroup models it in detail.  A load that is under way when *)
(* the group is cancelled still completes.  A group whose ApplyConfig      *)
(* failed has no discovery and never loads.                                *)
(***************************************************************************)
GroupLoads(g, s) ==
  /\ Up
  /\ <<g, s>> \in created \ loaded
  /\ s \notin genCfg[g].applyFails
  /\ loaded' = loaded \union {<<g, s>>}
  /\ UNCHANGED <<mainVars, storeVars, reqVars>>

(***************************************************************************)
(* main's loop.                                                            *)
(***************************************************************************)
StartReload(why) ==
  /\ pc' = "read"
  /\ cause' = why
  /\ UNCHANGED <<cfg, failed, applied, noStep, success, storeVars, loaded, file, quit, requests>>

TakeHup ==
  /\ pc = "idle" /\ sig = "HUP"
  /\ sig' = "none" /\ UNCHANGED web
  /\ StartReload("signal")

TakeWebReload ==
  /\ pc = "idle" /\ web = "waiting"
  /\ UNCHANGED <<sig, web>>
  /\ StartReload("web")

\* SIGTERM or SIGINT: the graceful shutdown runs and main returns.
TakeTerm ==
  /\ pc = "idle" /\ sig = "TERM"
  /\ pc' = "exited"
  /\ UNCHANGED <<cause, cfg, failed, applied, noStep, success, storeVars, loaded, reqVars>>

(***************************************************************************)
(* reloadConfig and, inlined, ProxyStorage.ApplyConfig.                    *)
(***************************************************************************)
ReadFile ==
  /\ pc = "read"
  /\ cfg' = file
  /\ failed' = ~ file.parses
  /\ pc' = IF file.parses THEN "validate" ELSE "result"
  /\ UNCHANGED <<cause, applied, noStep, success, storeVars, loaded, reqVars>>

Validate ==
  /\ pc = "validate"
  /\ \/ cfg.valid /\ pc' = "build" /\ UNCHANGED failed
     \/ ~ cfg.valid /\ pc' = "logger" /\ failed' = TRUE
  /\ UNCHANGED <<cause, cfg, applied, noStep, success, storeVars, loaded, reqVars>>

\* Mutant: a group that failed to build does not fail the reload.
AfterBuild_unchecked == "wait"

AfterBuild == IF cfg.newFails = {} /\ cfg.applyFails = {} THEN "wait" ELSE "cancelNew"

\* Every group is created and configured; a failure does not stop the loop.
BuildGroups ==
  /\ pc = "build"
  /\ gens' = gens + 1
  /\ genCfg' = [genCfg EXCEPT ![gens'] = cfg]
  /\ created' = created \union ({gens'} \X (cfg.groups \ cfg.newFails))
  /\ pc' = AfterBuild
  /\ UNCHANGED <<cause, cfg, failed, applied, noStep, success, cancelled, serving,
                 loaded, reqVars>>

\* Mutant: a failed generation is dropped without cancelling it.
CancelledNew_dropped == cancelled

CancelledNew == cancelled \union {gens}

\* newState.Cancel() visits every slot of sgs; the slot of a group whose
\* construction failed is nil.
CancelNew ==
  /\ pc = "cancelNew"
  /\ \/ /\ cfg.newFails = {}
        /\ cancelled' = CancelledNew
        /\ failed' = TRUE
        /\ pc' = "logger"
     \/ /\ cfg.newFails # {}
        /\ pc' = "panicked"
        /\ UNCHANGED <<failed, cancelled>>
  /\ UNCHANGED <<cause, cfg, applied, noStep, success, gens, genCfg, created, serving,
                 loaded, reqVars>>

\* Mutant: the new state is stored without waiting for its groups.
NewStateReady_skipped == TRUE

\* newState.Ready(): every group has completed its first load.
NewStateReady == ({gens} \X cfg.groups) \subseteq loaded

CancelledOld == cancelled \union (IF serving = 0 THEN {} ELSE {serving})

\* The swap, then the cancellation of the old state; queries that already hold
\* the old state keep using its clients.
Publish ==
  /\ pc = "wait"
  /\ NewStateReady
  /\ serving' = gens
  /\ cancelled' = CancelledOld
  /\ applied' = [applied EXCEPT !["storage"] = cfg]
  /\ pc' = "logger"
  /\ UNCHANGED <<cause, cfg, failed, noStep, success, gens, genCfg, created, loaded,
                 reqVars>>

\* Mutant: the error of a later reloadable is logged and forgotten.
LoggerFailed_swallowed == failed

LoggerFailed == failed \/ cfg.loggerFails

\* The remaining reloadables run whatever happened before: the query logger,
\* which may fail, then the web handler and /federate, which cannot.
ApplyRest ==
  /\ pc = "logger"
  /\ failed' = LoggerFailed
  /\ applied' = [c \in Components |->
                   CASE c \in {"web", "federate"} -> cfg
                     [] c = "logger" /\ ~ cfg.loggerFails -> cfg
                     [] OTHER -> applied[c]]
  /\ pc' = "result"
  /\ UNCHANGED <<cause, cfg, noStep, success, storeVars, loaded, reqVars>>

\* The deferred part of reloadConfig and what main does with the result.
Result ==
  /\ pc = "result"
  /\ success' = ~ failed
  /\ noStep' = IF failed THEN noStep ELSE cfg
  /\ web' = IF cause = "web" THEN (IF failed THEN "err" ELSE "ok") ELSE web
  /\ pc' = IF cause = "boot" /\ failed THEN "fatal" ELSE "idle"
  /\ cause' = IF cause = "boot" /\ failed THEN cause ELSE "none"
  /\ UNCHANGED <<cfg, failed, applied, storeVars, loaded, file, sig, quit, requests>>

Main ==
  \/ TakeHup \/ TakeWebReload \/ TakeTerm
  \/ ReadFile \/ Validate \/ BuildGroups \/ CancelNew \/ Publish \/ ApplyRest \/ Result

Stopped == ~ Up /\ UNCHANGED vars

Next ==
  \/ EditFile \/ WebReload \/ WebQuit
  \/ Hup \/ Term
  \/ \E g \in Gens, s \in Groups : GroupLoads(g, s)
  \/ Main
  \/ Stopped

Spec == Init /\ [][Next]_vars

\* main is scheduled.  Nothing is assumed of the groups' loads.
FairSpec == Spec /\ WF_vars(Main)

-----------------------------------------------------------------------------
(***************************************************************************)
(* Properties.                                                             *)
(***************************************************************************)

\* A query is never handed a state with a group that has not loaded, whose
\* State() would be nil.
ServedGroupsLoaded ==
  serving # 0 => ({serving} \X GroupsOf(serving)) \subseteq loaded

\* The goroutines of a generation live exactly as long as it is served: when main
\* is back in its loop every other generation has been cancelled, also one that
\* failed half way, and the served one never is.
NoOrphanGroups ==
  /\ serving \notin cancelled
  /\ pc = "idle" => \A g \in 1 .. gens : g # serving => g \in cancelled

\* The reload gauge tells the truth: after a successful reload every component
\* runs the same config, and it is the one the served groups were built from.
SuccessMeansUniform ==
  (pc = "idle" /\ success) =>
    /\ \A c \in Components : applied[c] = noStep
    /\ genCfg[serving] = noStep

\* The backends let every group that was created and configured load once: neither
\* set of groups ever shrinks, so each new group loads some time later.
GroupsLoad ==
  []<>(Up => \A g \in 1 .. gens : \A s \in GroupsOf(g) \ genCfg[g].applyFails :
                <<g, s>> \in created => <<g, s>> \in loaded)

\* If they do, the process stays responsive through reloads that succeed, fail at
\* any step or wait for their groups: whoever asks for a reload over HTTP gets an
\* answer, and a termination signal that made it into the channel ends the process.
\* Without the premise it is false: Ready waits with no timeout, in main's goroutine.
RequestsServed ==
  GroupsLoad =>
    /\ (web = "waiting") ~> (web # "waiting" \/ ~ Up)
    /\ (sig = "TERM") ~> ~ Up

\* --web.enable-lifecycle: "Enable shutdown and reload via HTTP request."
\* (Refuted: nothing in main receives the quit request.)
QuitExits == quit ~> ~ Up
=============================================================================
