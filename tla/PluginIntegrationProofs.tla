------------------------ MODULE PluginIntegrationProofs ------------------------
(***************************************************************************)
(* Proofs about the integration of plugins, for any set of plugins, any    *)
(* dependencies and any callers.  PluginInv is the inductive invariant: it *)
(* says for each plugin who handles it, which operation that one awaits,   *)
(* and what the plugin has at each place of the integration.               *)
(***************************************************************************)
EXTENDS PluginIntegration, TLAPS

-----------------------------------------------------------------------------
(* The inductive invariant                                                   *)

\* The steps in which integrate, its rollback and the other calls await an operation.
Awaiting(kind) ==
  CASE kind = "initialize" -> {"initializing"}
    [] kind = "activate"   -> {"activating", "reactivating"}
    [] kind = "deactivate" -> {"undoing: deactivating", "deactivating"}
    [] kind = "dispose"    -> {"undoing: disposing", "disposing"}

Awaits(p, kind) ==
  \/ integrating[p] \in Awaiting(kind)
  \/ \E c \in Clients : client[c].on = p /\ client[c].step \in Awaiting(kind)

Handled(p) == integrating[p] # "idle" \/ \E c \in Clients : client[c].on = p

\* A plugin is handled by its integration or by one other caller.
OneHandler(p) ==
  \A c \in Clients : client[c].on = p =>
    /\ integrating[p] = "idle"
    /\ \A d \in Clients : client[d].on = p => c = d

\* An operation that is under way is the one the handler of the plugin awaits, or the
\* deactivation that dispose waits for.
OperationsAreAwaited(p) ==
  \A kind \in Kinds : ~Idle(p, kind) =>
    Awaits(p, IF kind = "deactivate" /\ operation[p]["dispose"] = "waiting" THEN "dispose" ELSE kind)

\* The places of an integration that has its module, and of one that is being undone.
Holding == {"sandbox", "initializing", "activate", "activating", "register"}

Undoing == {"undoing: deactivating", "undo: dispose", "undoing: disposing", "undo: erase"}

\* An integration that was loaded keeps the module until it is undone, and the
\* capability is withdrawn before anything else is undone.
HoldsModule(p) ==
  integrating[p] \in Holding => module[p] = "LOADED"

HasWithdrawn(p) ==
  integrating[p] \in Undoing => p \notin provided

\* The report is the last word on a plugin until somebody handles it again.
ReportIsLast(p) == report[p] # "none" => ~Handled(p)

FailedIsGone(p) ==
  report[p] = "FAILED" /\ p \notin stale =>
    /\ module[p] # "LOADED"
    /\ status[p] = "none"
    /\ sandbox[p] = "none"
    /\ p \notin provided

ReadyStays(p) ==
  p \in Provides /\ report[p] = "READY" /\ p \notin stale =>
    /\ module[p] = "LOADED"
    /\ status[p] = "ACTIVE"
    /\ sandbox[p] = "ACTIVE"
    /\ p \in provided

Orderly(p) ==
  /\ OneHandler(p)
  /\ OperationsAreAwaited(p)
  /\ HoldsModule(p)
  /\ HasWithdrawn(p)
  /\ ReportIsLast(p)
  /\ FailedIsGone(p)
  /\ ReadyStays(p)

\* An active plugin has an active sandbox, whoever handles it.
ActiveHasSandbox(p) == status[p] = "ACTIVE" => sandbox[p] = "ACTIVE"

PluginInv ==
  /\ PluginTypeOK
  /\ \A p \in Plugins : ActiveHasSandbox(p) /\ (alone => Orderly(p))

-----------------------------------------------------------------------------
(* The steps that leave a plugin alone                                       *)

LeavesAlone(q) ==
  /\ status'[q] = status[q]
  /\ module'[q] = module[q]
  /\ sandbox'[q] = sandbox[q]
  /\ operation'[q] = operation[q]
  /\ integrating'[q] = integrating[q]
  /\ report'[q] = report[q]
  /\ q \in provided' <=> q \in provided
  /\ q \in stale' <=> q \in stale
  /\ \A c \in Clients : client'[c] = client[c] \/ (client[c].on # q /\ client'[c].on # q)

\* What holds of a plugin still holds after a step that leaves it alone.
LEMMA LeftAloneStaysOrderly ==
  ASSUME NEW q \in Plugins, LeavesAlone(q), Orderly(q)
  PROVE  Orderly(q)'
<1>1. \A c \in Clients : client'[c].on = q <=> client[c].on = q
  BY DEF LeavesAlone
<1>2. \A c \in Clients : client[c].on = q => client'[c] = client[c]
  BY DEF LeavesAlone
<1>3. OneHandler(q)'
  BY <1>1 DEF LeavesAlone, Orderly, OneHandler
<1>4. \A kind : Awaits(q, kind) => Awaits(q, kind)'
  BY <1>1, <1>2 DEF LeavesAlone, Awaits
<1>5. OperationsAreAwaited(q)'
  BY <1>4 DEF LeavesAlone, Orderly, OperationsAreAwaited, Idle
<1>6. HoldsModule(q)' /\ HasWithdrawn(q)'
  BY DEF LeavesAlone, Orderly, HoldsModule, HasWithdrawn
<1>7. ReportIsLast(q)'
  BY <1>1 DEF LeavesAlone, Orderly, ReportIsLast, Handled
<1>8. FailedIsGone(q)' /\ ReadyStays(q)'
  BY DEF LeavesAlone, Orderly, FailedIsGone, ReadyStays
<1> QED
  BY <1>3, <1>5, <1>6, <1>7, <1>8 DEF Orderly

\* A step that touches one plugin keeps the invariant if it keeps it of that one.
LEMMA OnlyOneIsTouched ==
  ASSUME PluginInv, NEW p \in Plugins, PluginTypeOK', alone' = alone,
         \A q \in Plugins \ {p} : LeavesAlone(q),
         ActiveHasSandbox(p)', alone => Orderly(p)'
  PROVE  PluginInv'
<1>1. ASSUME NEW q \in Plugins, q # p PROVE ActiveHasSandbox(q)' /\ (alone => Orderly(q)')
  BY <1>1, LeftAloneStaysOrderly DEF PluginInv, LeavesAlone, ActiveHasSandbox
<1> QED
  BY <1>1 DEF PluginInv

-----------------------------------------------------------------------------
(* Who handles a plugin, and what is under way                               *)

\* A plugin nobody handles has no operation under way.
LEMMA UnhandledIsIdle ==
  ASSUME NEW p \in Plugins, Orderly(p), ~Handled(p), NEW kind \in Kinds
  PROVE  Idle(p, kind)
<1>1. ASSUME NEW k \in Kinds PROVE ~Awaits(p, k)
  BY DEF Awaits, Handled, Awaiting, Kinds
<1> QED
  BY <1>1 DEF Orderly, OperationsAreAwaited, Kinds

\* While an integration is at a step that awaits nothing, nobody else handles the
\* plugin and no operation of it is under way.
LEMMA IntegrationAlone ==
  ASSUME NEW p \in Plugins, Orderly(p), integrating[p] # "idle"
  PROVE  /\ \A c \in Clients : client[c].on # p
         /\ report[p] = "none"
         /\ \A kind \in Kinds : Awaits(p, kind) <=> integrating[p] \in Awaiting(kind)
BY DEF Orderly, OneHandler, ReportIsLast, Handled, Awaits

LEMMA IntegrationIdle ==
  ASSUME NEW p \in Plugins, Orderly(p),
         integrating[p] \in {"load", "loading", "sandbox", "activate", "register", "undo",
                             "undo: dispose", "undo: erase"},
         NEW kind \in Kinds
  PROVE  Idle(p, kind)
<1>1. \A k \in Kinds : ~Awaits(p, k)
  BY IntegrationAlone DEF Awaiting, Kinds
<1> QED
  BY <1>1 DEF Orderly, OperationsAreAwaited, Kinds

\* The same of another caller.
LEMMA ClientAlone ==
  ASSUME NEW p \in Plugins, Orderly(p), NEW c \in Clients, client[c].on = p
  PROVE  /\ integrating[p] = "idle"
         /\ \A d \in Clients : client[d].on = p => d = c
         /\ report[p] = "none"
         /\ \A kind \in Kinds : Awaits(p, kind) <=> client[c].step \in Awaiting(kind)
<1>1. integrating[p] = "idle" /\ \A d \in Clients : client[d].on = p => d = c
  BY DEF Orderly, OneHandler
<1>2. \A kind \in Kinds : "idle" \notin Awaiting(kind)
  BY DEF Kinds, Awaiting
<1> QED
  BY <1>1, <1>2 DEF Orderly, ReportIsLast, Handled, Awaits

LEMMA ClientIdle ==
  ASSUME NEW p \in Plugins, Orderly(p), NEW c \in Clients, client[c].on = p,
         client[c].step \in {"deactivate", "deactivated", "unload", "erase", "activate", "over"},
         NEW kind \in Kinds
  PROVE  Idle(p, kind)
<1>1. \A k \in Kinds : client[c].step \notin Awaiting(k)
  BY DEF Awaiting, Kinds
<1>2. \A k \in Kinds : ~Awaits(p, k)
  BY <1>1, ClientAlone
<1> QED
  BY <1>2 DEF Orderly, OperationsAreAwaited, Kinds

-----------------------------------------------------------------------------
(* Calls of the life cycle operations                                        *)

LEMMA FromLoaderStates ==
  ASSUME NEW m \in Modules
  PROVE  FromLoader[m] \in {"UNLOADED", "LOADING", "LOADED", "FAILED"}
BY DEF Modules, FromLoader

\* The loader makes no plugin active.
LEMMA ActiveIsKept ==
  ASSUME PluginTypeOK, NEW p \in Plugins
  PROVE  Active(p) <=> status[p] = "ACTIVE"
<1>1. module[p] \in Modules
  BY DEF PluginTypeOK
<1> QED
  BY <1>1, FromLoaderStates DEF Active, State

LEMMA DuringStates ==
  ASSUME PluginTypeOK, NEW p \in Plugins, NEW kind \in Kinds
  PROVE  /\ During(p, kind) \in (States \ {"UNLOADED", "LOADING", "LOADED"}) \cup {"none"}
         /\ During(p, kind) = "ACTIVE" => status[p] = "ACTIVE"
BY DEF PluginTypeOK, During, Kinds, States

\* The operations and states of one plugin change.
OperationsChange(p) ==
  /\ operation' \in [Plugins -> [Kinds -> Progress]]
  /\ status' \in [Plugins -> (States \ {"UNLOADED", "LOADING", "LOADED"}) \cup {"none"}]
  /\ \A q \in Plugins : q # p => operation'[q] = operation[q] /\ status'[q] = status[q]

\* A call touches one plugin, and no state becomes active by it.
LEMMA CallTypes ==
  ASSUME PluginTypeOK, NEW p \in Plugins, NEW kind \in Kinds, Call(p, kind)
  PROVE  /\ OperationsChange(p)
         /\ status'[p] = "ACTIVE" => status[p] = "ACTIVE"
<1> USE DEF OperationsChange
<1>1. CASE UNCHANGED <<operation, status>>
  BY <1>1 DEF PluginTypeOK
<1>2. CASE operation' = [operation EXCEPT ![p][kind] = "refused"] /\ UNCHANGED status
  BY <1>2 DEF PluginTypeOK, Progress
<1>3. CASE CallDispose(p)
  BY <1>3 DEF PluginTypeOK, Progress, States, CallDispose, Kinds
<1>4. CASE /\ operation' = [operation EXCEPT ![p][kind] = "hook"]
           /\ status' = [status EXCEPT ![p] = During(p, kind)]
  <2>1. operation' \in [Plugins -> [Kinds -> Progress]]
    BY <1>4 DEF PluginTypeOK, Progress
  <2> QED
    BY <1>4, <2>1, DuringStates DEF PluginTypeOK
<1> QED
  BY <1>1, <1>2, <1>3, <1>4 DEF Call

\* When nothing is under way, a call starts what it names and what that waits for.
LEMMA CallStarts ==
  ASSUME PluginTypeOK, NEW p \in Plugins, NEW kind \in Kinds, Call(p, kind),
         \A k \in Kinds : Idle(p, k), NEW k \in Kinds, operation'[p][k] # "idle"
  PROVE  k = kind \/ (kind = "dispose" /\ k = "deactivate" /\ operation'[p]["dispose"] = "waiting")
<1>1. CASE UNCHANGED <<operation, status>>
  BY <1>1 DEF Idle
<1>2. CASE operation' = [operation EXCEPT ![p][kind] = "refused"] /\ UNCHANGED status
  BY <1>2 DEF PluginTypeOK, Idle
<1>3. CASE CallDispose(p) /\ kind = "dispose"
  BY <1>3 DEF PluginTypeOK, CallDispose, Kinds, Idle
<1>4. CASE /\ operation' = [operation EXCEPT ![p][kind] = "hook"]
           /\ status' = [status EXCEPT ![p] = During(p, kind)]
  BY <1>4 DEF PluginTypeOK, Idle
<1> QED
  BY <1>1, <1>2, <1>3, <1>4 DEF Call

-----------------------------------------------------------------------------
(* Types, and what a step touches                                            *)

\* What a step that is about one plugin gives.
Touches(p) == PluginTypeOK' /\ alone' = alone /\ \A q \in Plugins \ {p} : LeavesAlone(q)

LEMMA IntegrationStepTouches ==
  ASSUME PluginTypeOK, NEW p \in Plugins, IntegrationStep(p)
  PROVE  Touches(p)
<1> USE DEF Touches, PluginTypeOK, LeavesAlone, GoOn, Await, End, IntegrationSteps
<1>1. CASE Load(p)
  <2>1. module' \in [Plugins -> Modules] /\ \A q \in Plugins : q # p => module'[q] = module[q]
    BY <1>1 DEF Load, Modules
  <2>2. CASE GoOn(p, "sandbox")
    BY <1>1, <2>1, <2>2 DEF Load
  <2>3. CASE Await(p, "loading") \/ Await(p, "undo")
    BY <1>1, <2>1, <2>3 DEF Load
  <2> QED
    BY <1>1, <2>2, <2>3 DEF Load
<1>2. CASE Loaded(p)
  BY <1>2 DEF Loaded, Modules
<1>3. CASE Initialize(p)
  <2>1. Call(p, "initialize") \/ UNCHANGED <<operation, status>>
    BY <1>3 DEF Initialize
  <2>2. OperationsChange(p)
    BY <2>1, CallTypes DEF Kinds, OperationsChange
  <2>3. sandbox' \in [Plugins -> Sandboxes] /\ \A q \in Plugins : q # p => sandbox'[q] = sandbox[q]
    BY <1>3 DEF Initialize, Sandboxes
  <2>4. CASE Await(p, "initializing")
    BY <1>3, <2>2, <2>3, <2>4 DEF Initialize, OperationsChange
  <2>5. CASE GoOn(p, "activate")
    BY <1>3, <2>2, <2>3, <2>5 DEF Initialize, OperationsChange
  <2> QED
    BY <1>3, <2>4, <2>5 DEF Initialize
<1>4. CASE Activate(p)
  <2>1. Call(p, "activate") \/ UNCHANGED <<operation, status>>
    BY <1>4 DEF Activate
  <2>2. OperationsChange(p)
    BY <2>1, CallTypes DEF Kinds, OperationsChange
  <2> QED
    BY <1>4, <2>2 DEF Activate, OperationsChange
<1>5. CASE Register(p)
  BY <1>5 DEF Register
<1>6. CASE Undo(p)
  <2>1. Call(p, "deactivate") \/ UNCHANGED <<operation, status>>
    BY <1>6 DEF Undo
  <2>2. OperationsChange(p)
    BY <2>1, CallTypes DEF Kinds, OperationsChange
  <2> QED
    BY <1>6, <2>2 DEF Undo, OperationsChange
<1>7. CASE UndoDispose(p)
  <2>1. Call(p, "dispose") \/ UNCHANGED <<operation, status>>
    BY <1>7 DEF UndoDispose
  <2>2. OperationsChange(p)
    BY <2>1, CallTypes DEF Kinds, OperationsChange
  <2> QED
    BY <1>7, <2>2 DEF UndoDispose, OperationsChange
<1>8. CASE UndoErase(p)
  BY <1>8 DEF UndoErase, EraseAll, Modules, Sandboxes
<1> QED
  BY <1>1, <1>2, <1>3, <1>4, <1>5, <1>6, <1>7, <1>8 DEF IntegrationStep

LEMMA AnsweredSteps ==
  ASSUME NEW kind \in Kinds, NEW well \in BOOLEAN
  PROVE  /\ \A step \in IntegrationSteps : Answered(step, kind, well) \in IntegrationSteps
         /\ \A step \in ClientSteps : Answered(step, kind, well) \in ClientSteps
BY DEF Kinds, IntegrationSteps, ClientSteps, Answered

LEMMA ResultingStates ==
  ASSUME NEW kind \in Kinds
  PROVE  /\ Resulting[kind] \in States \ {"UNLOADED", "LOADING", "LOADED"}
         /\ Resulting[kind] = "ACTIVE" => kind = "activate"
BY DEF Kinds, States, Resulting

LEMMA SettleTouches ==
  ASSUME PluginTypeOK, NEW p \in Plugins, NEW kind \in Kinds, NEW well \in BOOLEAN,
         Settle(p, kind, well), sandbox' \in [Plugins -> Sandboxes], provided' \subseteq provided,
         \A q \in Plugins \ {p} : sandbox'[q] = sandbox[q] /\ (q \in provided' <=> q \in provided)
  PROVE  Touches(p)
<1>1. status' \in [Plugins -> (States \ {"UNLOADED", "LOADING", "LOADED"}) \cup {"none"}]
  BY ResultingStates DEF PluginTypeOK, Settle, States
<1>2. operation' \in [Plugins -> [Kinds -> Progress]]
  BY DEF PluginTypeOK, Settle, Progress
<1>3. integrating' \in [Plugins -> IntegrationSteps]
  BY AnsweredSteps DEF PluginTypeOK, Settle
<1>4. client' \in [Clients -> [on : Plugins \cup {Nobody}, step : ClientSteps, thenUnload : BOOLEAN]]
  <2>1. ASSUME NEW c \in Clients
        PROVE  client'[c] \in [on : Plugins \cup {Nobody}, step : ClientSteps, thenUnload : BOOLEAN]
    <3>1. client'[c] = IF client[c].on = p
                       THEN [client[c] EXCEPT !.step = Answered(client[c].step, kind, well)]
                       ELSE client[c]
      BY DEF Settle
    <3>2. client[c] \in [on : Plugins \cup {Nobody}, step : ClientSteps, thenUnload : BOOLEAN]
      BY DEF PluginTypeOK
    <3>3. Answered(client[c].step, kind, well) \in ClientSteps
      BY <3>2, AnsweredSteps
    <3> QED
      BY <3>1, <3>2, <3>3
  <2>2. client' = [c \in Clients |-> client'[c]]
    BY DEF Settle
  <2> QED
    BY <2>1, <2>2
<1>5. PluginTypeOK' /\ alone' = alone
  BY <1>1, <1>2, <1>3, <1>4 DEF PluginTypeOK, Settle
<1>6. ASSUME NEW q \in Plugins, q # p PROVE LeavesAlone(q)
  <2>1. \A c \in Clients : client'[c] = client[c] \/ (client[c].on # q /\ client'[c].on # q)
    BY <1>6 DEF Settle, PluginTypeOK
  <2> QED
    BY <1>6, <2>1 DEF Settle, LeavesAlone, PluginTypeOK
<1> QED
  BY <1>5, <1>6 DEF Touches

LEMMA OperationStepTouches ==
  ASSUME PluginTypeOK, NEW p \in Plugins, OperationStep(p)
  PROVE  Touches(p)
<1>1. ASSUME NEW kind \in Kinds, HookReturns(p, kind) PROVE Touches(p)
  <2>1. /\ sandbox' \in [Plugins -> Sandboxes]
        /\ \A q \in Plugins \ {p} : sandbox'[q] = sandbox[q]
    BY <1>1 DEF HookReturns, Listeners, Suspended, PluginTypeOK, Sandboxes
  <2>2. /\ provided' \subseteq provided
        /\ \A q \in Plugins \ {p} : q \in provided' <=> q \in provided
    BY <1>1 DEF HookReturns, Listeners
  <2> QED
    BY <1>1, <2>1, <2>2, SettleTouches DEF HookReturns
<1>2. ASSUME NEW kind \in Kinds, OperationFails(p, kind) PROVE Touches(p)
  BY <1>2, SettleTouches DEF OperationFails, PluginTypeOK
<1>3. CASE DisposeDeactivated(p)
  BY <1>3 DEF DisposeDeactivated, Touches, PluginTypeOK, LeavesAlone, Progress, States, Kinds, runtime, integration
<1> QED
  BY <1>1, <1>2, <1>3 DEF OperationStep

LEMMA HandlingTouches ==
  ASSUME PluginTypeOK, NEW p \in Plugins, Integrate(p) \/ IntegrateAnswered(p)
  PROVE  Touches(p)
<1>1. UNCHANGED <<status, module, sandbox, provided, operation, client, alone>>
  BY DEF Integrate, IntegrateAnswered, runtime
<1>2. /\ integrating' \in [Plugins -> IntegrationSteps]
      /\ \A q \in Plugins \ {p} : integrating'[q] = integrating[q]
  <2>1. PICK step \in {"load", "undo", integrating[p]} : integrating' = [integrating EXCEPT ![p] = step]
    BY DEF PluginTypeOK, Integrate, IntegrateAnswered
  <2>2. step \in IntegrationSteps
    BY DEF PluginTypeOK, IntegrationSteps
  <2> QED
    BY <2>1, <2>2 DEF PluginTypeOK
<1>3. /\ report' \in [Plugins -> {"none", "READY", "FAILED"}]
      /\ \A q \in Plugins \ {p} : report'[q] = report[q]
  BY DEF PluginTypeOK, Integrate, IntegrateAnswered
<1>4. inFlight' \in [Plugins -> {"none", "entered", "running", "READY", "FAILED"}]
  BY DEF PluginTypeOK, Integrate, IntegrateAnswered
<1>5. /\ stale' \subseteq Plugins /\ turn' \in Plugins \cup Clients \cup {Nobody}
      /\ \A q \in Plugins \ {p} : q \in stale' <=> q \in stale
  BY DEF PluginTypeOK, Integrate, IntegrateAnswered
<1>6. PluginTypeOK'
  BY <1>1, <1>2, <1>3, <1>4, <1>5 DEF PluginTypeOK
<1>7. \A q \in Plugins \ {p} : LeavesAlone(q)
  BY <1>1, <1>2, <1>3, <1>5 DEF LeavesAlone
<1> QED
  BY <1>1, <1>6, <1>7 DEF Touches

\* The record of one caller changes, and it is about the same plugin before and after.
LEMMA ClientTypes ==
  ASSUME PluginTypeOK, NEW c \in Clients, NEW step \in ClientSteps, Goes(c, step) \/ Waits(c, step)
  PROVE  /\ client' \in [Clients -> [on : Plugins \cup {Nobody}, step : ClientSteps, thenUnload : BOOLEAN]]
         /\ turn' \in Plugins \cup Clients \cup {Nobody}
         /\ client'[c].on = client[c].on
         /\ client'[c].step = step
         /\ \A d \in Clients : d # c => client'[d] = client[d]
<1>1. client[c] \in [on : Plugins \cup {Nobody}, step : ClientSteps, thenUnload : BOOLEAN]
  BY DEF PluginTypeOK
<1>2. client' = [client EXCEPT ![c] = [client[c] EXCEPT !.step = step]]
  BY DEF Goes, Waits, PluginTypeOK
<1>3. [client[c] EXCEPT !.step = step] \in [on : Plugins \cup {Nobody}, step : ClientSteps, thenUnload : BOOLEAN]
  BY <1>1
<1> QED
  BY <1>1, <1>2, <1>3 DEF PluginTypeOK, Goes, Waits

LEMMA BeginTouches ==
  ASSUME PluginTypeOK, NEW p \in Plugins, NEW c \in Clients,
         NEW step \in ClientSteps, NEW thenUnload \in BOOLEAN, Begin(c, p, step, thenUnload)
  PROVE  /\ Touches(p)
         /\ client[c].on = Nobody
         /\ client'[c] = [on |-> p, step |-> step, thenUnload |-> thenUnload]
         /\ \A d \in Clients : d # c => client'[d] = client[d]
<1>1. /\ client' = [client EXCEPT ![c] = [on |-> p, step |-> step, thenUnload |-> thenUnload]]
      /\ report' = [report EXCEPT ![p] = "none"]
      /\ client[c].on = Nobody
      /\ turn' = c
      /\ UNCHANGED <<status, module, sandbox, provided, operation, integrating, inFlight, stale, alone>>
  BY DEF Begin, NoCall, runtime
<1>2. PluginTypeOK'
  BY <1>1 DEF PluginTypeOK
<1>3. ASSUME NEW q \in Plugins, q # p PROVE LeavesAlone(q)
  BY <1>1, <1>3, PluginsAssumption DEF PluginTypeOK, LeavesAlone
<1> QED
  BY <1>1, <1>2, <1>3 DEF Touches, PluginTypeOK

\* The loader's and the sandbox manager's knowledge of one plugin changes, and so does
\* the record of one caller.
ModulesChange(p) ==
  /\ module' \in [Plugins -> Modules]
  /\ sandbox' \in [Plugins -> Sandboxes]
  /\ \A q \in Plugins : q # p => module'[q] = module[q] /\ sandbox'[q] = sandbox[q]

CallerChanges(c) ==
  /\ client' \in [Clients -> [on : Plugins \cup {Nobody}, step : ClientSteps, thenUnload : BOOLEAN]]
  /\ turn' \in Plugins \cup Clients \cup {Nobody}
  /\ client'[c].on \in {client[c].on, Nobody}
  /\ \A d \in Clients : d # c => client'[d] = client[d]

LEMMA ClientStepTouches ==
  ASSUME PluginTypeOK, NEW c \in Clients, ClientStep(c)
  PROVE  client[c].on \in Plugins /\ Touches(client[c].on)
<1> DEFINE p == client[c].on
<1>1. p \in Plugins
  BY DEF PluginTypeOK, ClientStep, Deactivate, Deactivated, Unload, Erase, Reactivate, Return, ClientAt
<1> SUFFICES Touches(p)
  BY <1>1
<1>2. ASSUME CallerChanges(c), OperationsChange(p), ModulesChange(p),
             provided' = provided \/ provided' = provided \ {p},
             UNCHANGED <<integrating, inFlight, report, stale, alone>>
      PROVE  Touches(p)
  <2>1. PluginTypeOK'
    BY <1>2 DEF PluginTypeOK, CallerChanges, OperationsChange, ModulesChange
  <2>2. ASSUME NEW q \in Plugins, q # p PROVE LeavesAlone(q)
    BY <1>1, <1>2, <2>2, PluginsAssumption DEF LeavesAlone, CallerChanges, OperationsChange, ModulesChange
  <2> QED
    BY <1>2, <2>1, <2>2 DEF Touches
<1>3. ASSUME NEW step \in ClientSteps, Goes(c, step) \/ Waits(c, step) PROVE CallerChanges(c)
  BY <1>3, ClientTypes DEF CallerChanges
<1>4. /\ UNCHANGED <<operation, status>> => OperationsChange(p)
      /\ UNCHANGED <<module, sandbox>> => ModulesChange(p)
  BY DEF PluginTypeOK, OperationsChange, ModulesChange
<1> HIDE DEF p
<1>5. ASSUME NEW kind \in Kinds, Call(p, kind) PROVE OperationsChange(p)
  BY <1>1, <1>5, CallTypes
<1>6. CASE Deactivate(c)
  <2>1. /\ provided' = provided \ {p}
        /\ \/ Call(p, "deactivate") /\ Waits(c, "deactivating")
           \/ Goes(c, "deactivated") /\ UNCHANGED <<operation, status>>
        /\ UNCHANGED <<module, sandbox, integrating, inFlight, report, stale, alone>>
    BY <1>6 DEF Deactivate, integration, p
  <2> QED
    BY <1>2, <1>3, <1>4, <1>5, <2>1 DEF Kinds, ClientSteps
<1>7. CASE Deactivated(c)
  <2>1. /\ Goes(c, "unload") \/ Goes(c, "over")
        /\ UNCHANGED <<status, module, sandbox, provided, operation, integrating, inFlight, report, stale, alone>>
    BY <1>7 DEF Deactivated, integration, runtime
  <2> QED
    BY <1>2, <1>3, <1>4, <2>1 DEF ClientSteps
<1>8. CASE Unload(c)
  <2>1. /\ \/ Call(p, "dispose") /\ Waits(c, "disposing")
           \/ Goes(c, "erase") /\ UNCHANGED <<operation, status>>
        /\ UNCHANGED <<module, sandbox, provided, integrating, inFlight, report, stale, alone>>
    BY <1>8 DEF Unload, integration, p
  <2> QED
    BY <1>2, <1>3, <1>4, <1>5, <2>1 DEF Kinds, ClientSteps
<1>9. CASE Erase(c)
  <2>1. /\ EraseAll(p) /\ Goes(c, "over")
        /\ UNCHANGED <<provided, operation, integrating, inFlight, report, stale, alone>>
    BY <1>9 DEF Erase, integration, p
  <2>2. ModulesChange(p)
    BY <1>1, <2>1 DEF EraseAll, PluginTypeOK, Modules, Sandboxes, ModulesChange
  <2>3. OperationsChange(p)
    BY <1>1, <2>1 DEF EraseAll, PluginTypeOK, OperationsChange
  <2> QED
    BY <1>2, <1>3, <2>1, <2>2, <2>3 DEF ClientSteps
<1>10. CASE Reactivate(c)
  <2>1. /\ \/ Call(p, "activate") /\ Waits(c, "reactivating")
           \/ Goes(c, "over") /\ UNCHANGED <<operation, status>>
        /\ UNCHANGED <<module, sandbox, provided, integrating, inFlight, report, stale, alone>>
    BY <1>10 DEF Reactivate, integration, p
  <2> QED
    BY <1>2, <1>3, <1>4, <1>5, <2>1 DEF Kinds, ClientSteps
<1>11. CASE Return(c)
  <2>1. /\ client' = [client EXCEPT ![c] = NoCall] /\ turn' = Nobody
        /\ UNCHANGED <<status, module, sandbox, provided, operation, integrating, inFlight, report, stale, alone>>
    BY <1>11 DEF Return, integration, runtime
  <2>2. CallerChanges(c)
    BY <2>1 DEF PluginTypeOK, NoCall, ClientSteps, CallerChanges
  <2> QED
    BY <1>2, <1>4, <2>1, <2>2
<1> QED
  BY <1>6, <1>7, <1>8, <1>9, <1>10, <1>11 DEF ClientStep

-----------------------------------------------------------------------------
(* An active plugin has an active sandbox                                    *)

LEMMA IntegrationStepSandbox ==
  ASSUME PluginTypeOK, NEW p \in Plugins, ActiveHasSandbox(p), IntegrationStep(p)
  PROVE  ActiveHasSandbox(p)'
<1> USE DEF ActiveHasSandbox
<1>1. CASE Load(p) \/ Loaded(p) \/ Register(p)
  BY <1>1 DEF Load, Loaded, Register
<1>2. CASE Initialize(p)
  <2>1. status'[p] = "ACTIVE" => status[p] = "ACTIVE"
    BY <1>2, CallTypes DEF Initialize, Kinds
  <2>2. sandbox'[p] = IF sandbox[p] = "none" THEN "CREATED" ELSE sandbox[p]
    BY <1>2 DEF Initialize, PluginTypeOK
  <2> QED
    BY <2>1, <2>2
<1>3. CASE Activate(p)
  BY <1>3, CallTypes DEF Activate, Kinds
<1>4. CASE Undo(p)
  BY <1>4, CallTypes DEF Undo, Kinds
<1>5. CASE UndoDispose(p)
  BY <1>5, CallTypes DEF UndoDispose, Kinds
<1>6. CASE UndoErase(p)
  BY <1>6 DEF UndoErase, EraseAll, PluginTypeOK
<1> QED
  BY <1>1, <1>2, <1>3, <1>4, <1>5, <1>6 DEF IntegrationStep

LEMMA OperationStepSandbox ==
  ASSUME PluginTypeOK, NEW p \in Plugins, ActiveHasSandbox(p), OperationStep(p)
  PROVE  ActiveHasSandbox(p)'
<1> USE DEF ActiveHasSandbox
<1>1. ASSUME NEW kind \in Kinds, HookReturns(p, kind) PROVE ActiveHasSandbox(p)'
  <2>1. status'[p] = Resulting[kind]
    BY <1>1 DEF HookReturns, Settle, PluginTypeOK
  <2>2. kind = "activate" => sandbox'[p] = "ACTIVE"
    BY <1>1 DEF HookReturns, Listeners, PluginTypeOK
  <2> QED
    BY <1>1, <2>1, <2>2, ResultingStates
<1>2. ASSUME NEW kind \in Kinds, OperationFails(p, kind) PROVE ActiveHasSandbox(p)'
  BY <1>2 DEF OperationFails, Settle, PluginTypeOK
<1>3. CASE DisposeDeactivated(p)
  BY <1>3 DEF DisposeDeactivated, PluginTypeOK
<1> QED
  BY <1>1, <1>2, <1>3 DEF OperationStep

LEMMA ClientStepSandbox ==
  ASSUME PluginTypeOK, NEW c \in Clients, ClientStep(c), NEW p \in Plugins, p = client[c].on,
         ActiveHasSandbox(p)
  PROVE  ActiveHasSandbox(p)'
<1> USE DEF ActiveHasSandbox
<1>1. CASE Deactivate(c)
  BY <1>1, CallTypes DEF Deactivate, Kinds
<1>2. CASE Deactivated(c) \/ Return(c)
  BY <1>2 DEF Deactivated, Return, runtime
<1>3. CASE Unload(c)
  BY <1>3, CallTypes DEF Unload, Kinds
<1>4. CASE Erase(c)
  BY <1>4 DEF Erase, EraseAll, PluginTypeOK
<1>5. CASE Reactivate(c)
  BY <1>5, CallTypes DEF Reactivate, Kinds
<1> QED
  BY <1>1, <1>2, <1>3, <1>4, <1>5 DEF ClientStep

-----------------------------------------------------------------------------
(* The steps of an integration                                               *)

\* A call the handler makes when nothing is under way is what it awaits then.
LEMMA CallIsAwaited ==
  ASSUME PluginTypeOK, NEW p \in Plugins, NEW kind \in Kinds, \A k \in Kinds : Idle(p, k),
         Call(p, kind), Awaits(p, kind)'
  PROVE  OperationsAreAwaited(p)'
<1>1. ASSUME NEW k \in Kinds, operation'[p][k] # "idle"
      PROVE  kind = IF k = "deactivate" /\ operation'[p]["dispose"] = "waiting" THEN "dispose" ELSE k
  <2>1. k = kind \/ (kind = "dispose" /\ k = "deactivate" /\ operation'[p]["dispose"] = "waiting")
    BY <1>1, CallStarts
  <2>2. ASSUME operation'[p]["dispose"] = "waiting" PROVE kind = "dispose"
    BY <2>2, CallStarts DEF Kinds
  <2> QED
    BY <2>1, <2>2
<1> QED
  BY <1>1 DEF OperationsAreAwaited, Idle

\* An integration that goes on is still the one handler, and has nothing reported.
LEMMA IntegrationGoesOn ==
  ASSUME NEW p \in Plugins, Orderly(p), integrating[p] # "idle", integrating'[p] # "idle",
         UNCHANGED <<client, report>>,
         OperationsAreAwaited(p)', HoldsModule(p)', HasWithdrawn(p)'
  PROVE  Orderly(p)'
BY IntegrationAlone DEF Orderly, OneHandler, ReportIsLast, FailedIsGone, ReadyStays

LEMMA IntegrationStepKeepsOrder ==
  ASSUME PluginTypeOK, NEW p \in Plugins, ActiveHasSandbox(p), Orderly(p), IntegrationStep(p)
  PROVE  Orderly(p)'
<1> USE DEF GoOn, Await, IsAt, HoldsModule, HasWithdrawn, Holding, Undoing
<1>1. ASSUME operation' = operation, \A k \in Kinds : Idle(p, k)
      PROVE  OperationsAreAwaited(p)'
  BY <1>1 DEF OperationsAreAwaited, Idle
<1>2. HoldsModule(p) /\ HasWithdrawn(p)
  BY DEF Orderly
<1>3. CASE Load(p)
  <2>1. integrating[p] = "load" /\ UNCHANGED <<client, report, operation, provided>>
    BY <1>3 DEF Load
  <2>2. integrating'[p] \in {"sandbox", "loading", "undo"}
    BY <1>3 DEF Load, PluginTypeOK
  <2>3. integrating'[p] = "sandbox" => module'[p] = "LOADED"
    BY <1>3 DEF Load, PluginTypeOK
  <2> QED
    BY <1>1, <2>1, <2>2, <2>3, IntegrationIdle, IntegrationGoesOn
<1>4. CASE Loaded(p)
  <2>1. integrating[p] = "loading" /\ UNCHANGED <<client, report, operation, provided>>
    BY <1>4 DEF Loaded
  <2>2. integrating'[p] = "undo" \/ (integrating'[p] = "sandbox" /\ module'[p] = "LOADED")
    BY <1>4 DEF Loaded, PluginTypeOK
  <2> QED
    BY <1>1, <2>1, <2>2, IntegrationIdle, IntegrationGoesOn
<1>5. CASE Initialize(p)
  <2>1. integrating[p] = "sandbox" /\ UNCHANGED <<client, report, module, provided>>
    BY <1>5 DEF Initialize
  <2>2. \/ integrating'[p] = "initializing" /\ Call(p, "initialize")
        \/ integrating'[p] = "activate" /\ UNCHANGED operation
    BY <1>5 DEF Initialize, PluginTypeOK
  <2>3. OperationsAreAwaited(p)'
    BY <1>1, <2>1, <2>2, IntegrationIdle, CallIsAwaited DEF Awaits, Awaiting, Kinds
  <2> QED
    BY <1>2, <2>1, <2>2, <2>3, IntegrationGoesOn
<1>6. CASE Activate(p)
  <2>1. integrating[p] = "activate" /\ UNCHANGED <<client, report, module, provided>>
    BY <1>6 DEF Activate
  <2>2. \/ integrating'[p] = "activating" /\ Call(p, "activate")
        \/ integrating'[p] = "register" /\ UNCHANGED operation
    BY <1>6 DEF Activate, PluginTypeOK
  <2>3. OperationsAreAwaited(p)'
    BY <1>1, <2>1, <2>2, IntegrationIdle, CallIsAwaited DEF Awaits, Awaiting, Kinds
  <2> QED
    BY <1>2, <2>1, <2>2, <2>3, IntegrationGoesOn
<1>7. CASE Register(p) /\ GoOn(p, "undo")
  <2>1. integrating[p] = "register" /\ integrating'[p] = "undo" /\ UNCHANGED <<client, operation>>
    BY <1>7 DEF Register, PluginTypeOK
  <2>2. UNCHANGED report
    BY <1>7, <2>1 DEF Register, End, PluginTypeOK
  <2> QED
    BY <1>1, <2>1, <2>2, IntegrationIdle, IntegrationGoesOn
<1>8. CASE Register(p) /\ End(p, "READY")
  <2>1. /\ integrating[p] = "register" /\ integrating'[p] = "idle" /\ report'[p] = "READY"
        /\ UNCHANGED <<client, operation, status, module, sandbox>>
    BY <1>8 DEF Register, End, PluginTypeOK
  <2>2. p \in Provides => Active(p) /\ p \in provided'
    BY <1>8, <2>1 DEF Register, Registers, PluginTypeOK
  <2>3. \A c \in Clients : client[c].on # p
    BY <2>1, IntegrationAlone
  <2>4. ReadyStays(p)'
    BY <1>2, <2>1, <2>2, ActiveIsKept DEF ReadyStays, ActiveHasSandbox
  <2>5. OperationsAreAwaited(p)'
    BY <1>1, <2>1, IntegrationIdle
  <2> QED
    BY <2>1, <2>3, <2>4, <2>5 DEF Orderly, OneHandler, ReportIsLast, Handled, FailedIsGone
<1>9. CASE Undo(p)
  <2>1. integrating[p] = "undo" /\ p \notin provided' /\ UNCHANGED <<client, report, module>>
    BY <1>9 DEF Undo
  <2>2. \/ integrating'[p] = "undoing: deactivating" /\ Call(p, "deactivate")
        \/ integrating'[p] = "undo: dispose" /\ UNCHANGED operation
    BY <1>9 DEF Undo, PluginTypeOK
  <2>3. OperationsAreAwaited(p)'
    BY <1>1, <2>1, <2>2, IntegrationIdle, CallIsAwaited DEF Awaits, Awaiting, Kinds
  <2> QED
    BY <2>1, <2>2, <2>3, IntegrationGoesOn
<1>10. CASE UndoDispose(p)
  <2>1. integrating[p] = "undo: dispose" /\ UNCHANGED <<client, report, module, provided>>
    BY <1>10 DEF UndoDispose
  <2>2. \/ integrating'[p] = "undoing: disposing" /\ Call(p, "dispose")
        \/ integrating'[p] = "undo: erase" /\ UNCHANGED operation
    BY <1>10 DEF UndoDispose, PluginTypeOK
  <2>3. OperationsAreAwaited(p)'
    BY <1>1, <2>1, <2>2, IntegrationIdle, CallIsAwaited DEF Awaits, Awaiting, Kinds
  <2> QED
    BY <1>2, <2>1, <2>2, <2>3, IntegrationGoesOn
<1>11. CASE UndoErase(p)
  <2>1. /\ integrating[p] = "undo: erase" /\ integrating'[p] = "idle" /\ report'[p] = "FAILED"
        /\ UNCHANGED <<client, operation, provided>>
    BY <1>11 DEF UndoErase, End, PluginTypeOK
  <2>2. \A c \in Clients : client[c].on # p
    BY <2>1, IntegrationAlone
  <2>3. status'[p] = "none" /\ sandbox'[p] = "none" /\ module'[p] # "LOADED"
    BY <1>11 DEF UndoErase, EraseAll, PluginTypeOK
  <2>4. FailedIsGone(p)'
    BY <1>2, <2>1, <2>3 DEF FailedIsGone
  <2>5. OperationsAreAwaited(p)'
    BY <1>1, <2>1, IntegrationIdle
  <2> QED
    BY <2>1, <2>2, <2>4, <2>5 DEF Orderly, OneHandler, ReportIsLast, Handled, ReadyStays
<1>12. CASE Register(p)
  BY <1>7, <1>8, <1>12 DEF Register
<1> QED
  BY <1>3, <1>4, <1>5, <1>6, <1>9, <1>10, <1>11, <1>12 DEF IntegrationStep

-----------------------------------------------------------------------------
(* The end of an operation                                                   *)

\* Where an integration goes on, and that it stays where it is while it awaits
\* something else.
LEMMA AnsweredPlaces ==
  ASSUME NEW kind \in Kinds, NEW well \in BOOLEAN, NEW step \in IntegrationSteps,
         NEW next, next = Answered(step, kind, well)
  PROVE  /\ next = "idle" <=> step = "idle"
         /\ next \in Holding => step \in Holding
         /\ next \in Undoing => step \in Undoing
         /\ step \notin Awaiting(kind) => next = step
BY DEF Kinds, IntegrationSteps, Answered, Awaiting, Holding, Undoing

LEMMA AnsweredCallers ==
  ASSUME NEW kind \in Kinds, NEW well \in BOOLEAN, NEW step \in ClientSteps, step \notin Awaiting(kind)
  PROVE  Answered(step, kind, well) = step
BY DEF Kinds, ClientSteps, Answered, Awaiting

\* A handler awaits one operation at a time.
LEMMA AwaitsOne ==
  ASSUME PluginTypeOK, NEW p \in Plugins, Orderly(p), NEW k \in Kinds, NEW l \in Kinds,
         Awaits(p, k), Awaits(p, l)
  PROVE  k = l
<1>1. ASSUME NEW step, step \in Awaiting(k), step \in Awaiting(l) PROVE k = l
  BY <1>1 DEF Kinds, Awaiting
<1>2. CASE integrating[p] # "idle"
  BY <1>1, <1>2, IntegrationAlone
<1>3. CASE integrating[p] = "idle"
  <2>1. \A x \in Kinds : "idle" \notin Awaiting(x)
    BY DEF Kinds, Awaiting
  <2>2. PICK c \in Clients : client[c].on = p
    BY <1>3, <2>1 DEF Awaits
  <2> QED
    BY <1>1, <2>2, ClientAlone
<1> QED
  BY <1>2, <1>3

\* An operation under way means that somebody handles the plugin.
LEMMA UnderWayIsHandled ==
  ASSUME PluginTypeOK, NEW p \in Plugins, Orderly(p), NEW kind \in Kinds, ~Idle(p, kind)
  PROVE  Handled(p) /\ report[p] = "none"
BY UnhandledIsIdle DEF Orderly, ReportIsLast

\* The end of an operation that is awaited, and of no other one, leaves nothing under
\* way; the end of a deactivation that dispose waits for leaves dispose.
LEMMA SettleLeaves ==
  ASSUME PluginTypeOK, NEW p \in Plugins, Orderly(p), NEW kind \in Kinds, NEW well \in BOOLEAN,
         operation[p][kind] \in {"hook", "refused"}, Settle(p, kind, well)
  PROVE  OperationsAreAwaited(p)'
<1>1. operation'[p] = [k \in Kinds |-> CASE k = kind -> "idle"
                          [] k = "dispose" /\ kind = "deactivate" /\ operation[p][k] = "waiting" ->
                               IF well THEN "deactivated" ELSE "refused"
                          [] OTHER -> operation[p][k]]
  BY DEF Settle, PluginTypeOK
<1>2. ~Idle(p, kind)
  BY DEF Idle
<1>3. CASE kind = "deactivate" /\ operation[p]["dispose"] = "waiting"
  <2>1. Awaits(p, "dispose")
    BY <1>2, <1>3 DEF Orderly, OperationsAreAwaited
  <2>2. ASSUME NEW k \in Kinds, k # "dispose" PROVE operation'[p][k] = "idle"
    <3>1. CASE k = "deactivate"
      BY <1>1, <1>3, <3>1
    <3>2. CASE k # "deactivate"
      <4>1. ~Awaits(p, k)
        BY <2>1, <2>2, AwaitsOne DEF Kinds
      <4>2. Idle(p, k)
        BY <3>2, <4>1 DEF Orderly, OperationsAreAwaited
      <4> QED
        BY <1>1, <1>3, <2>2, <3>2, <4>2 DEF Idle
    <3> QED
      BY <3>1, <3>2
  <2>3. Awaits(p, "dispose")'
    <3>1. integrating'[p] = Answered(integrating[p], kind, well)
      BY DEF Settle, PluginTypeOK
    <3>2. integrating[p] \in Awaiting("dispose") => integrating'[p] = integrating[p]
      <4>1. integrating[p] \in Awaiting("dispose") => integrating[p] \notin Awaiting(kind)
        BY <1>3 DEF Awaiting
      <4> QED
        BY <3>1, <4>1, AnsweredPlaces DEF PluginTypeOK
    <3>3. ASSUME NEW c \in Clients, client[c].on = p, client[c].step \in Awaiting("dispose")
          PROVE  client'[c].on = p /\ client'[c].step = client[c].step
      <4>1. client[c] \in [on : Plugins \cup {Nobody}, step : ClientSteps, thenUnload : BOOLEAN]
        BY DEF PluginTypeOK
      <4>2. client'[c] = [client[c] EXCEPT !.step = Answered(client[c].step, kind, well)]
        BY <3>3 DEF Settle
      <4>3. Answered(client[c].step, kind, well) = client[c].step
        <5>1. client[c].step \notin Awaiting(kind)
          BY <1>3, <3>3 DEF Awaiting
        <5> QED
          BY <4>1, <5>1, AnsweredCallers
      <4> QED
        BY <3>3, <4>1, <4>2, <4>3
    <3> QED
      BY <2>1, <3>2, <3>3 DEF Awaits
  <2> QED
    BY <2>2, <2>3 DEF OperationsAreAwaited, Idle
<1>4. CASE ~(kind = "deactivate" /\ operation[p]["dispose"] = "waiting")
  <2>1. Awaits(p, kind)
    BY <1>2, <1>4 DEF Orderly, OperationsAreAwaited
  <2>2. ASSUME NEW k \in Kinds, k # kind PROVE operation[p][k] = "idle"
    <3>1. ~Awaits(p, k)
      BY <2>1, <2>2, AwaitsOne
    <3>2. ~Idle(p, k) => k = "deactivate" /\ operation[p]["dispose"] = "waiting" /\ Awaits(p, "dispose")
      BY <3>1 DEF Orderly, OperationsAreAwaited
    <3>3. ~Idle(p, k) => kind = "dispose" /\ operation[p]["dispose"] = "waiting"
      BY <2>1, <3>2, AwaitsOne DEF Kinds
    <3> QED
      BY <3>3 DEF Idle
  <2>3. \A k \in Kinds : operation'[p][k] = "idle"
    BY <1>1, <1>4, <2>2
  <2> QED
    BY <2>3 DEF OperationsAreAwaited, Idle
<1> QED
  BY <1>3, <1>4

LEMMA SettleKeepsOrder ==
  ASSUME PluginTypeOK, NEW p \in Plugins, Orderly(p), NEW kind \in Kinds, NEW well \in BOOLEAN,
         operation[p][kind] \in {"hook", "refused"}, Settle(p, kind, well), provided' \subseteq provided
  PROVE  Orderly(p)'
<1>1. report[p] = "none" /\ UNCHANGED <<report, module>>
  BY UnderWayIsHandled DEF Idle, Settle
<1>2. integrating'[p] = Answered(integrating[p], kind, well) /\ integrating[p] \in IntegrationSteps
  BY DEF Settle, PluginTypeOK
<1>3. \A c \in Clients : client'[c].on = client[c].on
  BY DEF Settle, PluginTypeOK
<1>4. OneHandler(p)'
  <2>1. integrating'[p] = "idle" <=> integrating[p] = "idle"
    BY <1>2, AnsweredPlaces
  <2> QED
    BY <1>3, <2>1 DEF Orderly, OneHandler
<1>5. HoldsModule(p)' /\ HasWithdrawn(p)'
  <2>1. HoldsModule(p) /\ HasWithdrawn(p)
    BY DEF Orderly
  <2> QED
    <3>1. /\ integrating'[p] \in Holding => integrating[p] \in Holding
          /\ integrating'[p] \in Undoing => integrating[p] \in Undoing
      BY <1>2, AnsweredPlaces
    <3> QED
      BY <1>1, <2>1, <3>1 DEF HoldsModule, HasWithdrawn
<1>6. ReportIsLast(p)' /\ FailedIsGone(p)' /\ ReadyStays(p)'
  BY <1>1 DEF ReportIsLast, FailedIsGone, ReadyStays
<1> QED
  BY <1>4, <1>5, <1>6, SettleLeaves DEF Orderly

LEMMA OperationStepKeepsOrder ==
  ASSUME PluginTypeOK, NEW p \in Plugins, Orderly(p), OperationStep(p)
  PROVE  Orderly(p)'
<1>1. ASSUME NEW kind \in Kinds, HookReturns(p, kind) PROVE Orderly(p)'
  <2>1. provided' \subseteq provided
    BY <1>1 DEF HookReturns, Listeners
  <2> QED
    BY <1>1, <2>1, SettleKeepsOrder DEF HookReturns
<1>2. ASSUME NEW kind \in Kinds, OperationFails(p, kind) PROVE Orderly(p)'
  BY <1>2, SettleKeepsOrder DEF OperationFails
<1>3. CASE DisposeDeactivated(p)
  <2>1. /\ operation[p]["dispose"] = "deactivated"
        /\ operation'[p] = [operation[p] EXCEPT !["dispose"] = "hook"]
        /\ UNCHANGED <<module, provided, integrating, report, client>>
    BY <1>3 DEF DisposeDeactivated, PluginTypeOK, integration
  <2>2. report[p] = "none"
    BY <2>1, UnderWayIsHandled DEF Idle, Kinds
  <2>3. OperationsAreAwaited(p)'
    BY <2>1 DEF Orderly, OperationsAreAwaited, Idle, Awaits, Kinds, PluginTypeOK
  <2>4. OneHandler(p)' /\ HoldsModule(p)' /\ HasWithdrawn(p)'
    BY <2>1 DEF Orderly, OneHandler, HoldsModule, HasWithdrawn
  <2> QED
    BY <2>1, <2>2, <2>3, <2>4 DEF Orderly, ReportIsLast, FailedIsGone, ReadyStays
<1> QED
  BY <1>1, <1>2, <1>3 DEF OperationStep

-----------------------------------------------------------------------------
(* The steps of the callers                                                  *)

\* Whoever takes up a plugin nobody handles finds nothing under way.
LEMMA HandlingKeepsOrder ==
  ASSUME PluginTypeOK, NEW p \in Plugins, Orderly(p), alone, Integrate(p) \/ IntegrateAnswered(p)
  PROVE  Orderly(p)'
<1>1. ~Handled(p)
  BY DEF Integrate, IntegrateAnswered, MayHandle, Handled
<1>2. \A kind \in Kinds : Idle(p, kind)
  BY <1>1, UnhandledIsIdle
<1>3. UNCHANGED <<status, module, sandbox, provided, operation, client>>
  BY DEF Integrate, IntegrateAnswered, runtime
<1>4. OperationsAreAwaited(p)'
  BY <1>2, <1>3 DEF OperationsAreAwaited, Idle
<1>5. OneHandler(p)'
  BY <1>1, <1>3 DEF OneHandler, Handled
<1>6. CASE Integrate(p)
  <2>1. integrating'[p] \in {"load", "undo"} /\ report'[p] = "none"
    BY <1>6 DEF Integrate, PluginTypeOK
  <2> QED
    BY <1>4, <1>5, <2>1
    DEF Orderly, HoldsModule, HasWithdrawn, Holding, Undoing, ReportIsLast, FailedIsGone, ReadyStays
<1>7. CASE IntegrateAnswered(p)
  <2>1. integrating' = integrating /\ p \in stale'
    BY <1>7 DEF IntegrateAnswered
  <2> QED
    BY <1>1, <1>3, <1>4, <1>5, <2>1
    DEF Orderly, HoldsModule, HasWithdrawn, ReportIsLast, Handled, FailedIsGone, ReadyStays
<1> QED
  BY <1>6, <1>7

LEMMA BeginKeepsOrder ==
  ASSUME PluginTypeOK, NEW p \in Plugins, Orderly(p), alone, NEW c \in Clients,
         NEW step \in ClientSteps, NEW thenUnload \in BOOLEAN, Begin(c, p, step, thenUnload)
  PROVE  Orderly(p)'
<1>1. ~Handled(p)
  BY DEF Begin, MayHandle, Handled
<1>2. \A kind \in Kinds : Idle(p, kind)
  BY <1>1, UnhandledIsIdle
<1>3. report'[p] = "none" /\ UNCHANGED <<operation, integrating>>
  BY DEF Begin, PluginTypeOK
<1>4. OneHandler(p)'
  BY <1>1, <1>3, BeginTouches DEF OneHandler, Handled
<1>5. OperationsAreAwaited(p)'
  BY <1>2, <1>3 DEF OperationsAreAwaited, Idle
<1>6. HoldsModule(p)' /\ HasWithdrawn(p)'
  BY <1>1, <1>3 DEF Handled, HoldsModule, HasWithdrawn, Holding, Undoing
<1> QED
  BY <1>3, <1>4, <1>5, <1>6 DEF Orderly, ReportIsLast, FailedIsGone, ReadyStays

\* A caller that goes on is still the one handler.
LEMMA CallerGoesOn ==
  ASSUME PluginTypeOK, NEW p \in Plugins, Orderly(p), NEW c \in Clients, client[c].on = p,
         client'[c].on \in {p, Nobody}, \A d \in Clients : d # c => client'[d] = client[d],
         UNCHANGED <<integrating, report>>, OperationsAreAwaited(p)'
  PROVE  Orderly(p)'
<1>1. integrating'[p] = "idle" /\ report'[p] = "none"
  BY ClientAlone
<1>2. \A d \in Clients : client'[d].on = p => d = c
  BY ClientAlone
<1>3. OneHandler(p)'
  BY <1>1, <1>2 DEF OneHandler
<1> QED
  BY <1>1, <1>3 DEF Orderly, HoldsModule, HasWithdrawn, Holding, Undoing, ReportIsLast, FailedIsGone, ReadyStays

LEMMA ClientStepKeepsOrder ==
  ASSUME PluginTypeOK, NEW c \in Clients, ClientStep(c), NEW p \in Plugins, p = client[c].on, Orderly(p)
  PROVE  Orderly(p)'
<1>1. UNCHANGED <<integrating, report>>
  BY DEF ClientStep, Deactivate, Deactivated, Unload, Erase, Reactivate, Return, integration
<1>2. ASSUME NEW step \in ClientSteps, Goes(c, step) \/ Waits(c, step), OperationsAreAwaited(p)'
      PROVE  Orderly(p)'
  BY <1>1, <1>2, ClientTypes, CallerGoesOn
<1>3. ASSUME client[c].step \in {"deactivate", "deactivated", "unload", "erase", "activate", "over"},
             operation' = operation
      PROVE  OperationsAreAwaited(p)'
  BY <1>3, ClientIdle DEF OperationsAreAwaited, Idle
<1>4. ASSUME client[c].step \in {"deactivate", "deactivated", "unload", "erase", "activate", "over"},
             NEW kind \in Kinds, NEW step \in ClientSteps, step \in Awaiting(kind),
             Call(p, kind), Waits(c, step)
      PROVE  OperationsAreAwaited(p)'
  <2>1. \A k \in Kinds : Idle(p, k)
    BY <1>4, ClientIdle
  <2>2. client'[c].on = p /\ client'[c].step = step
    BY <1>4, ClientTypes
  <2>3. Awaits(p, kind)'
    BY <1>4, <2>2 DEF Awaits
  <2> QED
    BY <1>4, <2>1, <2>3, CallIsAwaited
<1>5. /\ "deactivating" \in Awaiting("deactivate") /\ "disposing" \in Awaiting("dispose")
      /\ "reactivating" \in Awaiting("activate")
  BY DEF Awaiting
<1>6. CASE Deactivate(c)
  <2>1. /\ client[c].step = "deactivate"
        /\ \/ Call(p, "deactivate") /\ Waits(c, "deactivating")
           \/ Goes(c, "deactivated") /\ UNCHANGED operation
    BY <1>6 DEF Deactivate, ClientAt
  <2> QED
    BY <1>2, <1>3, <1>4, <1>5, <2>1 DEF Kinds, ClientSteps
<1>7. CASE Deactivated(c)
  <2>1. /\ client[c].step = "deactivated"
        /\ Goes(c, "unload") \/ Goes(c, "over")
        /\ UNCHANGED operation
    BY <1>7 DEF Deactivated, ClientAt
  <2> QED
    BY <1>2, <1>3, <2>1 DEF ClientSteps
<1>8. CASE Unload(c)
  <2>1. /\ client[c].step = "unload"
        /\ \/ Call(p, "dispose") /\ Waits(c, "disposing")
           \/ Goes(c, "erase") /\ UNCHANGED operation
    BY <1>8 DEF Unload, ClientAt
  <2> QED
    BY <1>2, <1>3, <1>4, <1>5, <2>1 DEF Kinds, ClientSteps
<1>9. CASE Erase(c)
  <2>1. client[c].step = "erase" /\ Goes(c, "over") /\ UNCHANGED operation
    BY <1>9 DEF Erase, ClientAt
  <2> QED
    BY <1>2, <1>3, <2>1 DEF ClientSteps
<1>10. CASE Reactivate(c)
  <2>1. /\ client[c].step = "activate"
        /\ \/ Call(p, "activate") /\ Waits(c, "reactivating")
           \/ Goes(c, "over") /\ UNCHANGED operation
    BY <1>10 DEF Reactivate, ClientAt
  <2> QED
    BY <1>2, <1>3, <1>4, <1>5, <2>1 DEF Kinds, ClientSteps
<1>11. CASE Return(c)
  <2>1. client[c].step = "over" /\ client' = [client EXCEPT ![c] = NoCall] /\ UNCHANGED operation
    BY <1>11 DEF Return, ClientAt
  <2>2. client'[c].on = Nobody /\ \A d \in Clients : d # c => client'[d] = client[d]
    BY <2>1 DEF PluginTypeOK, NoCall
  <2> QED
    BY <1>1, <1>3, <2>1, <2>2, CallerGoesOn
<1> QED
  BY <1>6, <1>7, <1>8, <1>9, <1>10, <1>11 DEF ClientStep

-----------------------------------------------------------------------------
(* Theorems                                                                  *)

LEMMA PluginInitInv == PluginInit => PluginInv
<1> SUFFICES ASSUME PluginInit PROVE PluginInv
  OBVIOUS
<1>1. PluginTypeOK
  BY PluginsAssumption
  DEF PluginInit, PluginTypeOK, Modules, Sandboxes, Progress, IntegrationSteps, ClientSteps, NoCall
<1>2. ASSUME NEW p \in Plugins PROVE ActiveHasSandbox(p) /\ Orderly(p)
  <2>1. ~Handled(p) /\ \A k \in Kinds : Idle(p, k)
    BY PluginsAssumption DEF PluginInit, Handled, NoCall, Idle
  <2> QED
    BY <2>1 DEF PluginInit, ActiveHasSandbox, Orderly, OneHandler, Handled, OperationsAreAwaited, HoldsModule,
                HasWithdrawn, Holding, Undoing, ReportIsLast, FailedIsGone, ReadyStays
<1> QED
  BY <1>1, <1>2 DEF PluginInv

LEMMA PluginStepInv == PluginInv /\ [PluginNext]_pluginVars => PluginInv'
<1> SUFFICES ASSUME PluginInv, [PluginNext]_pluginVars PROVE PluginInv'
  OBVIOUS
<1> PluginTypeOK
  BY DEF PluginInv
<1>1. ASSUME NEW p \in Plugins, Touches(p), ActiveHasSandbox(p)', alone => Orderly(p)'
      PROVE  PluginInv'
  BY <1>1, OnlyOneIsTouched DEF Touches
<1>2. ASSUME NEW p \in Plugins, Integrate(p) \/ IntegrateAnswered(p) PROVE PluginInv'
  <2>1. ActiveHasSandbox(p)'
    BY <1>2 DEF PluginInv, ActiveHasSandbox, Integrate, IntegrateAnswered, runtime
  <2> QED
    BY <1>1, <1>2, <2>1, HandlingTouches, HandlingKeepsOrder DEF PluginInv
<1>3. ASSUME NEW p \in Plugins, IntegrationStep(p) PROVE PluginInv'
  BY <1>1, <1>3, IntegrationStepTouches, IntegrationStepSandbox, IntegrationStepKeepsOrder DEF PluginInv
<1>4. ASSUME NEW p \in Plugins, OperationStep(p) PROVE PluginInv'
  BY <1>1, <1>4, OperationStepTouches, OperationStepSandbox, OperationStepKeepsOrder DEF PluginInv
<1>5. ASSUME NEW c \in Clients, ClientStep(c) PROVE PluginInv'
  BY <1>1, <1>5, ClientStepTouches, ClientStepSandbox, ClientStepKeepsOrder DEF PluginInv
<1>6. ASSUME NEW c \in Clients, NEW p \in Plugins, NEW step \in ClientSteps, NEW thenUnload \in BOOLEAN,
             Begin(c, p, step, thenUnload)
      PROVE  PluginInv'
  <2>1. ActiveHasSandbox(p)'
    BY <1>6 DEF PluginInv, ActiveHasSandbox, Begin, runtime
  <2> QED
    BY <1>1, <1>6, <2>1, BeginTouches, BeginKeepsOrder DEF PluginInv
<1>7. ASSUME NEW c \in Clients, NEW p \in Plugins, ClientCall(c, p) PROVE PluginInv'
  BY <1>6, <1>7 DEF ClientCall, ClientSteps
<1>8. CASE UNCHANGED pluginVars
  <2>1. PluginTypeOK' /\ alone' = alone
    BY <1>8 DEF pluginVars, PluginTypeOK
  <2>2. ASSUME NEW p \in Plugins PROVE LeavesAlone(p)
    BY <1>8 DEF pluginVars, LeavesAlone
  <2> QED
    BY <2>1, <2>2, LeftAloneStaysOrderly DEF PluginInv, LeavesAlone, ActiveHasSandbox
<1> QED
  BY <1>2, <1>3, <1>4, <1>5, <1>7, <1>8 DEF PluginNext

LEMMA PluginInvariant == PluginSpec => []PluginInv
BY PluginInitInv, PluginStepInv, PTL DEF PluginSpec

\* Every reachable state of the plugin runtime has the declared types: the life cycle
\* manager keeps no state but those its operations give, whoever calls them.
THEOREM PluginTypeCorrect == PluginSpec => []PluginTypeOK
<1>1. PluginInv => PluginTypeOK
  BY DEF PluginInv
<1> QED
  BY <1>1, PluginInvariant, PTL

\* An integration that fails leaves nothing of the plugin behind, at whatever step it
\* failed, if no other caller handles the plugin meanwhile.
THEOREM FailedLeavesNothingCorrect == PluginSpec => []FailedLeavesNothing
<1>1. PluginInv => FailedLeavesNothing
  BY DEF PluginInv, Orderly, FailedIsGone, FailedLeavesNothing
<1> QED
  BY <1>1, PluginInvariant, PTL

\* An integration of a plugin with a capability that succeeds leaves it active, with its
\* module, its sandbox and its capability, until somebody handles it again.
THEOREM ReadyIsWholeCorrect == PluginSpec => []ReadyIsWhole
<1>1. ASSUME PluginInv PROVE ReadyIsWhole
  <2>1. \A p \in Plugins : status[p] = "ACTIVE" => Active(p)
    BY <1>1, ActiveIsKept DEF PluginInv
  <2> QED
    BY <1>1, <2>1, PluginsAssumption DEF PluginInv, Orderly, ReadyStays, ReadyIsWhole
<1> QED
  BY <1>1, PluginInvariant, PTL
================================================================================
