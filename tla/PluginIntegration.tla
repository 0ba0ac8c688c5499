--------------------------- MODULE PluginIntegration ---------------------------
(***************************************************************************)
(* The plugin runtime of the frontend: the integration of a plugin with    *)
(* its rollback, the life cycle operations and their hooks, the loader,    *)
(* the sandboxes and the capabilities.  The frontend has one thread: code  *)
(* runs until it awaits something, and turn tells whose code is running.   *)
(* startup, shutdown and reload are sequences of the calls modelled here.  *)
(***************************************************************************)

CONSTANTS
  Plugins,
  Requires,   \* the dependencies of each plugin that are not optional
  Provides,   \* the plugins that declare a capability
  Clients,    \* callers of deactivate, unload and activate
  Nobody,     \* no client, no plugin
  Alone       \* whether callers keep off a plugin that another one handles

ASSUME PluginsAssumption ==
  /\ Requires \in [Plugins -> SUBSET Plugins]
  /\ Provides \subseteq Plugins
  /\ Nobody \notin Plugins \cup Clients
  /\ Alone \subseteq BOOLEAN

Kinds == {"initialize", "activate", "deactivate", "dispose"}

Modules == {"NOT_LOADED", "LOADING", "LOADED", "FAILED"}

States == {"UNLOADED", "LOADING", "LOADED", "INITIALIZING", "DEACTIVATED", "ACTIVE",
           "DEACTIVATING", "DISPOSING", "DISPOSED", "FAILED"}

Sandboxes == {"none", "CREATED", "ACTIVE", "SUSPENDED"}

\* How far a life cycle operation is: an operation that was refused has still to fail,
\* and dispose waits for the deactivation it calls.
Progress == {"idle", "hook", "refused", "waiting", "deactivated"}

\* The places of integrate and its rollback, and those of the other calls.
IntegrationSteps ==
  {"idle", "load", "loading", "sandbox", "initializing", "activate", "activating", "register",
   "undo", "undoing: deactivating", "undo: dispose", "undoing: disposing", "undo: erase"}

ClientSteps ==
  {"deactivate", "deactivating", "deactivated", "unload", "disposing", "erase",
   "activate", "reactivating", "over"}

VARIABLES
  status,       \* pluginStates, "none" for a plugin that has no entry
  module,       \* what the loader knows of a plugin
  sandbox,
  provided,     \* the plugins whose capability is registered
  operation,    \* inFlightOps: how far each life cycle operation is
  integrating,  \* how far the integration of each plugin is
  inFlight,     \* inFlightIntegrations: a promise under way, or one that was left there
  report,       \* what the last integrate of a plugin returned, until it is handled again
  stale,        \* the plugins whose report is that of an earlier integration
  client,       \* how far each caller is
  turn,         \* whose code runs
  alone         \* the element of Alone chosen

runtime == <<status, module, sandbox, provided>>
integration == <<integrating, inFlight, report, stale>>
pluginVars == <<status, module, sandbox, provided, operation, integrating, inFlight,
                report, stale, client, turn, alone>>

(***************************************************************************)
(* Life cycle operations.  A call starts the operation, or shares the one  *)
(* that is under way; its hook ends at some later time, well or badly.     *)
(***************************************************************************)
FromLoader == [NOT_LOADED |-> "UNLOADED", LOADING |-> "LOADING", LOADED |-> "LOADED", FAILED |-> "FAILED"]

State(p) == IF status[p] = "none" THEN FromLoader[module[p]] ELSE status[p]

Active(p) == State(p) = "ACTIVE"

Allows(p, kind) ==
  CASE kind = "initialize" -> State(p) = "LOADED" /\ \A d \in Requires[p] : State(d) \in {"DEACTIVATED", "ACTIVE"}
    [] kind = "activate"   -> State(p) \in {"DEACTIVATED", "INITIALIZING"} /\ \A d \in Requires[p] : Active(d)
    [] kind = "deactivate" -> Active(p)
    [] kind = "dispose"    -> State(p) # "DISPOSED"

\* The state while the hook runs, and after it has ended well.
During(p, kind) ==
  CASE kind = "initialize" -> "INITIALIZING"
    [] kind = "activate"   -> status[p]
    [] kind = "deactivate" -> "DEACTIVATING"
    [] kind = "dispose"    -> "DISPOSING"

Resulting == [initialize |-> "DEACTIVATED", activate |-> "ACTIVE", deactivate |-> "DEACTIVATED", dispose |-> "DISPOSED"]

Idle(p, kind) == operation[p][kind] = "idle"

\* Active plugins are deactivated before they are disposed of.
CallDispose(p) ==
  /\ operation' = [operation EXCEPT ![p]["dispose"] = "waiting",
                                    ![p]["deactivate"] = IF Idle(p, "deactivate") THEN "hook" ELSE @]
  /\ status' = [status EXCEPT ![p] = IF Idle(p, "deactivate") THEN "DEACTIVATING" ELSE @]

Call(p, kind) ==
  CASE ~Idle(p, kind) -> UNCHANGED <<operation, status>>
    [] Idle(p, kind) /\ ~Allows(p, kind) ->
         operation' = [operation EXCEPT ![p][kind] = "refused"] /\ UNCHANGED status
    [] Idle(p, kind) /\ Allows(p, kind) /\ kind = "dispose" /\ Active(p) -> CallDispose(p)
    [] OTHER ->
         /\ operation' = [operation EXCEPT ![p][kind] = "hook"]
         /\ status' = [status EXCEPT ![p] = During(p, kind)]

\* Where the code that awaits an operation goes on when the operation has ended.
Answered(step, kind, well) ==
  CASE step = "initializing" /\ kind = "initialize"          -> IF well THEN "activate" ELSE "undo"
    [] step = "activating" /\ kind = "activate"              -> IF well THEN "register" ELSE "undo"
    [] step = "undoing: deactivating" /\ kind = "deactivate" -> "undo: dispose"
    [] step = "undoing: disposing" /\ kind = "dispose"       -> "undo: erase"
    [] step = "deactivating" /\ kind = "deactivate"          -> IF well THEN "deactivated" ELSE "over"
    [] step = "disposing" /\ kind = "dispose"                -> IF well THEN "erase" ELSE "over"
    [] step = "reactivating" /\ kind = "activate"            -> "over"
    [] OTHER                                                 -> step

\* The sandbox and the capabilities of a plugin follow the operations that end well:
\* a sandbox that is not there or was never active cannot be suspended.
Suspended(s) == IF s = "ACTIVE" THEN "SUSPENDED" ELSE s

Listeners(p, kind) ==
  /\ sandbox' = [sandbox EXCEPT ![p] = CASE kind = "activate"   -> "ACTIVE"
                                         [] kind = "deactivate" -> Suspended(@)
                                         [] kind = "dispose"    -> "none"
                                         [] OTHER               -> @]
  /\ provided' = IF kind \in {"deactivate", "dispose"} THEN provided \ {p} ELSE provided

Settle(p, kind, well) ==
  /\ status' = [status EXCEPT ![p] = IF well THEN Resulting[kind] ELSE "FAILED"]
  /\ operation' = [operation EXCEPT ![p] =
       [k \in Kinds |-> CASE k = kind -> "idle"
                          [] k = "dispose" /\ kind = "deactivate" /\ @[k] = "waiting" ->
                               IF well THEN "deactivated" ELSE "refused"
                          [] OTHER -> @[k]]]
  /\ integrating' = [integrating EXCEPT ![p] = Answered(@, kind, well)]
  /\ client' = [c \in Clients |-> IF client[c].on = p
                                  THEN [client[c] EXCEPT !.step = Answered(@, kind, well)]
                                  ELSE client[c]]
  /\ UNCHANGED <<module, inFlight, report, stale, turn, alone>>

HookReturns(p, kind) ==
  /\ turn = Nobody
  /\ operation[p][kind] = "hook"
  /\ Settle(p, kind, TRUE)
  /\ Listeners(p, kind)

\* The hook throws, or the operation was not allowed: the plugin is FAILED.
OperationFails(p, kind) ==
  /\ turn = Nobody
  /\ operation[p][kind] \in {"hook", "refused"}
  /\ Settle(p, kind, FALSE)
  /\ UNCHANGED <<sandbox, provided>>

DisposeDeactivated(p) ==
  /\ turn = Nobody
  /\ operation[p]["dispose"] = "deactivated"
  /\ operation' = [operation EXCEPT ![p]["dispose"] = "hook"]
  /\ status' = [status EXCEPT ![p] = "DISPOSING"]
  /\ UNCHANGED <<module, sandbox, provided, integration, client, turn, alone>>

(***************************************************************************)
(* Integration.                                                            *)
(***************************************************************************)
IsAt(p, step) == turn \in {Nobody, p} /\ integrating[p] = step

\* The code goes on with a step, or awaits something; the promise is put in the map
\* when it awaits for the first time.
GoOn(p, step) ==
  /\ integrating' = [integrating EXCEPT ![p] = step]
  /\ turn' = p
  /\ UNCHANGED inFlight

Await(p, step) ==
  /\ integrating' = [integrating EXCEPT ![p] = step]
  /\ turn' = Nobody
  /\ inFlight' = [inFlight EXCEPT ![p] = "running"]

\* The promise leaves the map when the code ends; code that never awaited anything ends
\* before its promise is put there, and the promise stays.
End(p, result) ==
  /\ integrating' = [integrating EXCEPT ![p] = "idle"]
  /\ turn' = Nobody
  /\ inFlight' = [inFlight EXCEPT ![p] = IF @ = "running" THEN "none" ELSE result]
  /\ report' = [report EXCEPT ![p] = result]
  /\ stale' = stale \ {p}

MayHandle(p) ==
  /\ turn = Nobody
  /\ alone => integrating[p] = "idle" /\ \A c \in Clients : client[c].on # p

\* Discovery, validation, dependencies, security and configuration succeed or not.
Integrate(p) ==
  /\ MayHandle(p)
  /\ inFlight[p] = "none"
  /\ inFlight' = [inFlight EXCEPT ![p] = "entered"]
  /\ \E step \in {"load", "undo"} : integrating' = [integrating EXCEPT ![p] = step]
  /\ turn' = p
  /\ report' = [report EXCEPT ![p] = "none"]
  /\ UNCHANGED <<runtime, operation, stale, client, alone>>

\* A promise that was left in the map answers for every later integration.
IntegrateAnswered(p) ==
  /\ MayHandle(p)
  /\ inFlight[p] \in {"READY", "FAILED"}
  /\ report' = [report EXCEPT ![p] = inFlight[p]]
  /\ stale' = stale \cup {p}
  /\ UNCHANGED <<runtime, operation, integrating, inFlight, client, turn, alone>>

Load(p) ==
  /\ IsAt(p, "load")
  /\ IF module[p] = "LOADED"
     THEN GoOn(p, "sandbox") /\ UNCHANGED module
     ELSE IF \A d \in Requires[p] : module[d] = "LOADED"
          THEN Await(p, "loading") /\ module' = [module EXCEPT ![p] = "LOADING"]
          ELSE Await(p, "undo") /\ module' = [module EXCEPT ![p] = "FAILED"]
  /\ UNCHANGED <<status, sandbox, provided, operation, report, stale, client, alone>>

Loaded(p) ==
  /\ turn = Nobody
  /\ integrating[p] = "loading"
  /\ \/ module' = [module EXCEPT ![p] = "LOADED"] /\ integrating' = [integrating EXCEPT ![p] = "sandbox"]
     \/ module' = [module EXCEPT ![p] = "FAILED"] /\ integrating' = [integrating EXCEPT ![p] = "undo"]
  /\ UNCHANGED <<status, sandbox, provided, operation, inFlight, report, stale, client, turn, alone>>

Initialize(p) ==
  /\ IsAt(p, "sandbox")
  /\ sandbox' = [sandbox EXCEPT ![p] = IF @ = "none" THEN "CREATED" ELSE @]
  /\ IF State(p) = "LOADED"
     THEN Call(p, "initialize") /\ Await(p, "initializing")
     ELSE GoOn(p, "activate") /\ UNCHANGED <<operation, status>>
  /\ UNCHANGED <<module, provided, report, stale, client, alone>>

Activate(p) ==
  /\ IsAt(p, "activate")
  /\ IF State(p) \in {"DEACTIVATED", "INITIALIZING"}
     THEN Call(p, "activate") /\ Await(p, "activating")
     ELSE GoOn(p, "register") /\ UNCHANGED <<operation, status>>
  /\ UNCHANGED <<module, sandbox, provided, report, stale, client, alone>>

\* Wrong on purpose (ReadyIsWhole): any plugin may register its capability.
RegistersAnyway(p) == p \notin provided

\* A capability is registered once, and for an active plugin only.
Registers(p) == Active(p) /\ p \notin provided

Register(p) ==
  /\ IsAt(p, "register")
  /\ IF p \in Provides => Registers(p)
     THEN provided' = provided \cup ({p} \cap Provides) /\ End(p, "READY")
     ELSE GoOn(p, "undo") /\ UNCHANGED <<provided, report, stale>>
  /\ UNCHANGED <<status, module, sandbox, operation, client, alone>>

Undo(p) ==
  /\ IsAt(p, "undo")
  /\ provided' = provided \ {p}
  /\ IF Active(p)
     THEN Call(p, "deactivate") /\ Await(p, "undoing: deactivating")
     ELSE GoOn(p, "undo: dispose") /\ UNCHANGED <<operation, status>>
  /\ UNCHANGED <<module, sandbox, report, stale, client, alone>>

UndoDispose(p) ==
  /\ IsAt(p, "undo: dispose")
  /\ IF State(p) \notin {"UNLOADED", "DISPOSED"}
     THEN Call(p, "dispose") /\ Await(p, "undoing: disposing")
     ELSE GoOn(p, "undo: erase") /\ UNCHANGED <<operation, status>>
  /\ UNCHANGED <<module, sandbox, provided, report, stale, client, alone>>

\* Wrong on purpose (FailedLeavesNothing): the sandbox is left to the end of dispose.
EraseAllButSandbox(p) ==
  /\ module' = [module EXCEPT ![p] = IF @ = "LOADED" THEN "NOT_LOADED" ELSE @]
  /\ status' = [status EXCEPT ![p] = "none"]
  /\ UNCHANGED sandbox

\* The sandbox, the module and the state of the plugin go.
EraseAll(p) ==
  /\ sandbox' = [sandbox EXCEPT ![p] = "none"]
  /\ module' = [module EXCEPT ![p] = IF @ = "LOADED" THEN "NOT_LOADED" ELSE @]
  /\ status' = [status EXCEPT ![p] = "none"]

UndoErase(p) ==
  /\ IsAt(p, "undo: erase")
  /\ EraseAll(p)
  /\ End(p, "FAILED")
  /\ UNCHANGED <<provided, operation, client, alone>>

(***************************************************************************)
(* deactivate, unload, the two of them as shutdown and reload call them,   *)
(* and activate.                                                           *)
(***************************************************************************)
NoCall == [on |-> Nobody, step |-> "over", thenUnload |-> FALSE]

ClientAt(c, step) == turn \in {Nobody, c} /\ client[c].on # Nobody /\ client[c].step = step

Goes(c, step) == client' = [client EXCEPT ![c].step = step] /\ turn' = c

Waits(c, step) == client' = [client EXCEPT ![c].step = step] /\ turn' = Nobody

Begin(c, p, step, thenUnload) ==
  /\ client[c] = NoCall
  /\ MayHandle(p)
  /\ client' = [client EXCEPT ![c] = [on |-> p, step |-> step, thenUnload |-> thenUnload]]
  /\ turn' = c
  /\ report' = [report EXCEPT ![p] = "none"]
  /\ UNCHANGED <<runtime, operation, integrating, inFlight, stale, alone>>

Deactivate(c) ==
  LET p == client[c].on
  IN  /\ ClientAt(c, "deactivate")
      /\ provided' = provided \ {p}
      /\ IF Active(p)
         THEN Call(p, "deactivate") /\ Waits(c, "deactivating")
         ELSE Goes(c, "deactivated") /\ UNCHANGED <<operation, status>>
      /\ UNCHANGED <<module, sandbox, integration, alone>>

Deactivated(c) ==
  /\ ClientAt(c, "deactivated")
  /\ Goes(c, IF client[c].thenUnload THEN "unload" ELSE "over")
  /\ UNCHANGED <<runtime, operation, integration, alone>>

Unload(c) ==
  LET p == client[c].on
  IN  /\ ClientAt(c, "unload")
      /\ IF State(p) \notin {"UNLOADED", "DISPOSED"}
         THEN Call(p, "dispose") /\ Waits(c, "disposing")
         ELSE Goes(c, "erase") /\ UNCHANGED <<operation, status>>
      /\ UNCHANGED <<module, sandbox, provided, integration, alone>>

Erase(c) ==
  /\ ClientAt(c, "erase")
  /\ EraseAll(client[c].on)
  /\ Goes(c, "over")
  /\ UNCHANGED <<provided, operation, integration, alone>>

Reactivate(c) ==
  LET p == client[c].on
  IN  /\ ClientAt(c, "activate")
      /\ IF Active(p)
         THEN Goes(c, "over") /\ UNCHANGED <<operation, status>>
         ELSE Call(p, "activate") /\ Waits(c, "reactivating")
      /\ UNCHANGED <<module, sandbox, provided, integration, alone>>

Return(c) ==
  /\ ClientAt(c, "over")
  /\ client' = [client EXCEPT ![c] = NoCall]
  /\ turn' = Nobody
  /\ UNCHANGED <<runtime, operation, integration, alone>>

-----------------------------------------------------------------------------
PluginInit ==
  /\ status = [p \in Plugins |-> "none"]
  /\ module = [p \in Plugins |-> "NOT_LOADED"]
  /\ sandbox = [p \in Plugins |-> "none"]
  /\ provided = {}
  /\ operation = [p \in Plugins |-> [k \in Kinds |-> "idle"]]
  /\ integrating = [p \in Plugins |-> "idle"]
  /\ inFlight = [p \in Plugins |-> "none"]
  /\ report = [p \in Plugins |-> "none"]
  /\ stale = {}
  /\ client = [c \in Clients |-> NoCall]
  /\ turn = Nobody
  /\ alone \in Alone

IntegrationStep(p) ==
  \/ Load(p) \/ Loaded(p) \/ Initialize(p) \/ Activate(p) \/ Register(p)
  \/ Undo(p) \/ UndoDispose(p) \/ UndoErase(p)

OperationStep(p) ==
  \/ \E kind \in Kinds : HookReturns(p, kind) \/ OperationFails(p, kind)
  \/ DisposeDeactivated(p)

ClientCall(c, p) ==
  \/ \E thenUnload \in BOOLEAN : Begin(c, p, "deactivate", thenUnload)
  \/ Begin(c, p, "unload", FALSE)
  \/ Begin(c, p, "activate", FALSE)

ClientStep(c) ==
  Deactivate(c) \/ Deactivated(c) \/ Unload(c) \/ Erase(c) \/ Reactivate(c) \/ Return(c)

PluginNext ==
  \/ \E p \in Plugins :
       Integrate(p) \/ IntegrateAnswered(p) \/ IntegrationStep(p) \/ OperationStep(p)
  \/ \E c \in Clients : ClientStep(c) \/ \E p \in Plugins : ClientCall(c, p)

PluginSpec == PluginInit /\ [][PluginNext]_pluginVars

-----------------------------------------------------------------------------
(* Properties                                                                *)

\* The types of the variables.  The life cycle manager keeps only states that an
\* operation gives, so those before the first one come from the loader alone.
PluginTypeOK ==
  /\ status \in [Plugins -> (States \ {"UNLOADED", "LOADING", "LOADED"}) \cup {"none"}]
  /\ module \in [Plugins -> Modules]
  /\ sandbox \in [Plugins -> Sandboxes]
  /\ provided \subseteq Provides
  /\ operation \in [Plugins -> [Kinds -> Progress]]
  /\ integrating \in [Plugins -> IntegrationSteps]
  /\ inFlight \in [Plugins -> {"none", "entered", "running", "READY", "FAILED"}]
  /\ report \in [Plugins -> {"none", "READY", "FAILED"}]
  /\ stale \subseteq Plugins
  /\ client \in [Clients -> [on : Plugins \cup {Nobody}, step : ClientSteps, thenUnload : BOOLEAN]]
  /\ turn \in Plugins \cup Clients \cup {Nobody}
  /\ alone \in Alone

\* An integration that fails leaves nothing of the plugin behind, whichever step failed,
\* whichever hook of the rollback throws and whatever state earlier calls left it in.
FailedLeavesNothing ==
  \A p \in Plugins : alone /\ report[p] = "FAILED" /\ p \notin stale =>
    /\ module[p] # "LOADED"
    /\ status[p] = "none"
    /\ sandbox[p] = "none"
    /\ p \notin provided

\* An integration that succeeds leaves an active plugin with its module, its sandbox
\* and its capability, and it stays so until somebody handles the plugin again.
ReadyIsWhole ==
  \A p \in Provides : alone /\ report[p] = "READY" /\ p \notin stale =>
    /\ module[p] = "LOADED"
    /\ Active(p)
    /\ sandbox[p] = "ACTIVE"
    /\ p \in provided

\* An integration that is reported as successful leaves an active plugin, whether it
\* declares a capability or not and whether the promise is a new one or not.
ReadyIsActive == \A p \in Plugins : alone /\ report[p] = "READY" => Active(p)

\* The same with any number of callers of one plugin.
ReadyIsLoaded == \A p \in Provides : report[p] = "READY" /\ p \notin stale => module[p] = "LOADED"
=============================================================================
