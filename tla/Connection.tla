------------------------------ MODULE Connection ------------------------------
(***************************************************************************)
(* The WebSocket client of the frontend and the service that starts and    *)
(* stops it.  Every method and handler runs to its end before the next one *)
(* does.  The sockets are the browser's: what they report arrives later,   *)
(* also from a socket the client has closed or replaced, for its handlers  *)
(* are never detached.  Messages are left out.                             *)
(***************************************************************************)
EXTENDS Naturals, FiniteSets

CONSTANTS
  Sockets,          \* bound on the sockets alive at one time
  None,             \* no socket
  MaximumAttempts   \* maxReconnectAttempts

ASSUME ConnectionAssumption ==
  /\ MaximumAttempts \in Nat
  /\ IsFiniteSet(Sockets)
  /\ None \notin Sockets

States == {"DISCONNECTED", "CONNECTING", "CONNECTED", "RECONNECTING", "ERROR"}
SyncStates == {"IDLE", "SYNCING", "SYNCED", "STALE", "ERROR"}

\* A socket has failed when its error is reported and its close is not yet.
SocketStates == {"free", "connecting", "open", "failed", "closing"}

Client == [ws : Sockets \cup {None}, state : States, attempts : 0 .. MaximumAttempts,
           timer : BOOLEAN, explicitlyClosed : BOOLEAN,
           sockets : [Sockets -> SocketStates]]

VARIABLES
  client,      \* the fields of the client; timer tells whether one is pending
  subscribed,  \* the service is started
  syncState,
  hurried      \* history: start has followed stop before the old socket closed

connectionVars == <<client, subscribed, syncState, hurried>>

ConnectionTypeOK ==
  /\ client \in Client
  /\ subscribed \in BOOLEAN
  /\ syncState \in SyncStates
  /\ hurried \in BOOLEAN

-----------------------------------------------------------------------------
(* The methods of the client: what becomes of the client c                   *)

Alive(c) == {s \in Sockets : c.sockets[s] # "free"}

\* Wrong on purpose (ConnectionTypeOK): the limit is looked at too late.
HandleReconnectUnlimited(c) ==
  IF c.explicitlyClosed THEN c
  ELSE [c EXCEPT !.state = "RECONNECTING", !.attempts = @ + 1, !.timer = TRUE]

\* A pending timer is replaced.
HandleReconnect(c) ==
  IF c.explicitlyClosed \/ c.attempts >= MaximumAttempts THEN c
  ELSE [c EXCEPT !.state = "RECONNECTING", !.attempts = @ + 1, !.timer = TRUE]

IsConnected(c) == c.ws # None /\ c.state \in {"CONNECTED", "CONNECTING"}

\* s is the new socket, or None when its constructor throws.
Connect(c, s) ==
  IF IsConnected(c) THEN c
  ELSE IF s = None
  THEN HandleReconnect([c EXCEPT !.explicitlyClosed = FALSE, !.state = "ERROR"])
  ELSE [c EXCEPT !.explicitlyClosed = FALSE, !.state = "CONNECTING", !.ws = s,
                 !.sockets[s] = "connecting"]

\* Wrong on purpose (StoppedStaysClosed): the timer is forgotten.
DisconnectTicking(c) ==
  [c EXCEPT !.explicitlyClosed = TRUE, !.state = "DISCONNECTED", !.ws = None,
            !.sockets = [s \in Sockets |-> IF s = c.ws /\ @[s] # "free" THEN "closing" ELSE @[s]]]

Disconnect(c) ==
  [c EXCEPT !.explicitlyClosed = TRUE, !.timer = FALSE, !.state = "DISCONNECTED", !.ws = None,
            !.sockets = [s \in Sockets |-> IF s = c.ws /\ @[s] # "free" THEN "closing" ELSE @[s]]]

\* Wrong on purpose (KeepsTrying): a connection that is lost is not made again.
OnCloseForGood(c) == [c EXCEPT !.state = "DISCONNECTED"]

OnClose(c) == HandleReconnect([c EXCEPT !.state = "DISCONNECTED"])

-----------------------------------------------------------------------------
\* setState tells the service, and the service maps the state.
SyncOf(state) ==
  CASE state = "CONNECTED"                      -> "SYNCED"
    [] state \in {"RECONNECTING", "CONNECTING"} -> "SYNCING"
    [] state = "ERROR"                          -> "ERROR"
    [] OTHER                                    -> "STALE"

Becomes(c) ==
  /\ client' = c
  /\ syncState' = IF subscribed THEN SyncOf(c.state) ELSE syncState
  /\ UNCHANGED <<subscribed, hurried>>

NewSockets == (Sockets \ Alive(client)) \cup {None}

\* start of the service, which the application calls once before each stop.
Start ==
  /\ ~subscribed
  /\ \E s \in NewSockets : client' = Connect(client, s)
  /\ subscribed' = TRUE
  /\ syncState' = SyncOf(client'.state)
  /\ hurried' = (hurried \/ Alive(client) # {})

Stop ==
  /\ subscribed
  /\ client' = Disconnect(client)
  /\ subscribed' = FALSE
  /\ syncState' = "IDLE"
  /\ UNCHANGED hurried

\* The timer of handleReconnect fires.
Timer ==
  /\ client.timer
  /\ \E s \in NewSockets : Becomes(Connect([client EXCEPT !.timer = FALSE], s))

Opens(s) ==
  /\ client.sockets[s] = "connecting"
  /\ Becomes([client EXCEPT !.sockets[s] = "open", !.attempts = 0, !.state = "CONNECTED"])

Fails(s) ==
  /\ client.sockets[s] \in {"connecting", "open", "closing"}
  /\ Becomes([client EXCEPT !.sockets[s] = "failed", !.state = "ERROR"])

Closes(s) ==
  /\ client.sockets[s] \in {"open", "failed", "closing"}
  /\ Becomes(OnClose([client EXCEPT !.sockets[s] = "free"]))

ConnectionInit ==
  /\ client = [ws |-> None, state |-> "DISCONNECTED", attempts |-> 0, timer |-> FALSE,
               explicitlyClosed |-> FALSE, sockets |-> [s \in Sockets |-> "free"]]
  /\ subscribed = FALSE
  /\ syncState = "IDLE"
  /\ hurried = FALSE

SocketEvent(s) == Opens(s) \/ Fails(s) \/ Closes(s)

ConnectionNext == Start \/ Stop \/ Timer \/ \E s \in Sockets : SocketEvent(s)

ConnectionSpec == ConnectionInit /\ [][ConnectionNext]_connectionVars

\* The browser fires timers, and reports what becomes of a socket that is not open.
Settles(s) == client.sockets[s] # "open" /\ SocketEvent(s)

FairConnectionSpec ==
  /\ ConnectionSpec
  /\ WF_connectionVars(Timer)
  /\ \A s \in Sockets : WF_connectionVars(Settles(s))

-----------------------------------------------------------------------------
(* Properties                                                                *)

\* Never are there two sockets that the client has not closed: the guard of connect
\* is to prevent a duplicate connection, which would deliver every message twice.
OneSocket == Cardinality({s \in Sockets : client.sockets[s] \in {"connecting", "open"}}) <= 1

\* After stop no timer is left that would connect again, whatever the sockets still
\* report; and no socket stays open, unless a restart has left one behind.
StoppedStaysClosed ==
  ~subscribed => /\ ~client.timer
                 /\ hurried \/ \A s \in Sockets : client.sockets[s] \notin {"connecting", "open"}

\* A client that is started gets its connection, or uses up its attempts, or is
\* stopped: no order of errors, closes and timers leaves it waiting for nothing.
KeepsTrying ==
  subscribed ~> (client.state = "CONNECTED" \/ client.attempts = MaximumAttempts \/ ~subscribed)
=============================================================================
