--------------------------- MODULE ConnectionProofs ---------------------------
(***************************************************************************)
(* Theorems about the WebSocket client, for any number of sockets and of   *)
(* attempts: its types, and that a client that was stopped stays closed.   *)
(***************************************************************************)
EXTENDS Connection, TLAPS

-----------------------------------------------------------------------------
(* What the methods make of a client                                         *)

\* A socket's state changes to another state of a socket.
LEMMA SocketsLemma ==
  ASSUME NEW c \in Client, NEW s, NEW x \in SocketStates
  PROVE  [c.sockets EXCEPT ![s] = x] \in [Sockets -> SocketStates]
BY DEF Client

LEMMA NoAttempts == 0 \in 0 .. MaximumAttempts
BY ConnectionAssumption

\* handleReconnect leaves the sockets alone, and starts no timer for a client that was
\* closed on purpose.
LEMMA HandleReconnectLemma ==
  ASSUME NEW c \in Client
  PROVE  /\ HandleReconnect(c) \in Client
         /\ HandleReconnect(c).sockets = c.sockets
         /\ HandleReconnect(c).ws = c.ws
         /\ HandleReconnect(c).explicitlyClosed = c.explicitlyClosed
         /\ c.explicitlyClosed => HandleReconnect(c).timer = c.timer
<1>1. MaximumAttempts \in Nat
  BY ConnectionAssumption
<1>2. CASE c.explicitlyClosed \/ c.attempts >= MaximumAttempts
  BY <1>2 DEF HandleReconnect
<1>3. CASE ~(c.explicitlyClosed \/ c.attempts >= MaximumAttempts)
  <2>1. c.attempts + 1 \in 0 .. MaximumAttempts /\ ~c.explicitlyClosed
    BY <1>1, <1>3 DEF Client
  <2>2. HandleReconnect(c) =
          [c EXCEPT !.state = "RECONNECTING", !.attempts = @ + 1, !.timer = TRUE]
    BY <1>3 DEF HandleReconnect
  <2> QED
    BY <2>1, <2>2 DEF Client, States
<1> QED
  BY <1>2, <1>3

\* connect opens at most the socket it is given, and leaves the others alone.
LEMMA ConnectLemma ==
  ASSUME NEW c \in Client, NEW s \in Sockets \cup {None}
  PROVE  /\ Connect(c, s) \in Client
         /\ \/ Connect(c, s) = c
            \/ /\ s = None
               /\ Connect(c, s).sockets = c.sockets
            \/ /\ s \in Sockets
               /\ Connect(c, s).ws = s
               /\ Connect(c, s).timer = c.timer
               /\ Connect(c, s).sockets = [c.sockets EXCEPT ![s] = "connecting"]
<1>1. CASE IsConnected(c)
  BY <1>1 DEF Connect
<1>2. CASE ~IsConnected(c) /\ s = None
  <2> DEFINE d == [c EXCEPT !.explicitlyClosed = FALSE, !.state = "ERROR"]
  <2>1. d \in Client /\ d.sockets = c.sockets
    BY DEF Client, States
  <2>2. Connect(c, s) = HandleReconnect(d)
    BY <1>2 DEF Connect
  <2> HIDE DEF d
  <2> QED
    BY <1>2, <2>1, <2>2, HandleReconnectLemma
<1>3. CASE ~IsConnected(c) /\ s # None
  <2> DEFINE used == [c.sockets EXCEPT ![s] = "connecting"]
  <2>1. Connect(c, s) = [c EXCEPT !.explicitlyClosed = FALSE, !.state = "CONNECTING", !.ws = s,
                                  !.sockets = used]
    BY <1>3 DEF Connect
  <2>2. s \in Sockets /\ used \in [Sockets -> SocketStates]
    BY <1>3, SocketsLemma DEF SocketStates
  <2> HIDE DEF used
  <2>3. /\ Connect(c, s).ws = s /\ Connect(c, s).timer = c.timer /\ Connect(c, s).sockets = used
        /\ Connect(c, s) \in Client
    BY <2>1, <2>2 DEF Client, States
  <2> QED
    BY <2>2, <2>3 DEF used
<1> QED
  BY <1>1, <1>2, <1>3

\* disconnect closes the socket in use and the timer.
LEMMA DisconnectLemma ==
  ASSUME NEW c \in Client
  PROVE  /\ Disconnect(c) \in Client
         /\ Disconnect(c).explicitlyClosed
         /\ ~Disconnect(c).timer
         /\ \A s \in Sockets : Disconnect(c).sockets[s] \in {"connecting", "open"} =>
                                 s # c.ws /\ Disconnect(c).sockets[s] = c.sockets[s]
<1> DEFINE closed == [s \in Sockets |-> IF s = c.ws /\ c.sockets[s] # "free" THEN "closing" ELSE c.sockets[s]]
<1>1. Disconnect(c) = [c EXCEPT !.explicitlyClosed = TRUE, !.timer = FALSE, !.state = "DISCONNECTED",
                                !.ws = None, !.sockets = closed]
  BY DEF Disconnect
<1>2. closed \in [Sockets -> SocketStates]
  BY DEF Client, SocketStates
<1>3. \A s \in Sockets : closed[s] \in {"connecting", "open"} => s # c.ws /\ closed[s] = c.sockets[s]
  OBVIOUS
<1> HIDE DEF closed
<1>4. Disconnect(c).sockets = closed /\ Disconnect(c).explicitlyClosed /\ ~Disconnect(c).timer
  BY <1>1 DEF Client
<1>5. Disconnect(c) \in Client
  BY <1>1, <1>2 DEF Client, States
<1> QED
  BY <1>3, <1>4, <1>5

\* What a socket reports changes that socket only, and starts no timer for a client
\* that was closed on purpose.
LEMMA OnCloseLemma ==
  ASSUME NEW c \in Client
  PROVE  /\ OnClose(c) \in Client
         /\ OnClose(c).sockets = c.sockets
         /\ OnClose(c).ws = c.ws
         /\ OnClose(c).explicitlyClosed = c.explicitlyClosed
         /\ c.explicitlyClosed => OnClose(c).timer = c.timer
<1> DEFINE d == [c EXCEPT !.state = "DISCONNECTED"]
<1>1. /\ d \in Client /\ d.sockets = c.sockets /\ d.ws = c.ws
      /\ d.explicitlyClosed = c.explicitlyClosed /\ d.timer = c.timer
  BY DEF Client, States
<1>2. OnClose(c) = HandleReconnect(d)
  BY DEF OnClose
<1> HIDE DEF d
<1> QED
  BY <1>1, <1>2, HandleReconnectLemma

-----------------------------------------------------------------------------
(* Types                                                                     *)

\* What setState does is right when the client it makes is.
LEMMA BecomesLemma ==
  ASSUME ConnectionTypeOK, NEW c \in Client, Becomes(c)
  PROVE  ConnectionTypeOK'
BY DEF ConnectionTypeOK, Becomes, SyncOf, SyncStates

LEMMA ConnectionTypeStep ==
  ASSUME ConnectionTypeOK, [ConnectionNext]_connectionVars
  PROVE  ConnectionTypeOK'
<1>1. client \in Client
  BY DEF ConnectionTypeOK
<1>2. NewSockets \subseteq Sockets \cup {None}
  BY DEF NewSockets
<1>3. CASE Start
  <2>1. PICK s \in NewSockets : client' = Connect(client, s)
    BY <1>3 DEF Start
  <2>2. client' \in Client
    BY <1>1, <1>2, <2>1, ConnectLemma
  <2> QED
    BY <1>3, <2>2 DEF Start, ConnectionTypeOK, SyncOf, SyncStates
<1>4. CASE Stop
  BY <1>1, <1>4, DisconnectLemma DEF Stop, ConnectionTypeOK, SyncStates
<1>5. CASE Timer
  <2>1. PICK s \in NewSockets : Becomes(Connect([client EXCEPT !.timer = FALSE], s))
    BY <1>5 DEF Timer
  <2>2. [client EXCEPT !.timer = FALSE] \in Client
    BY <1>1 DEF Client
  <2>3. Connect([client EXCEPT !.timer = FALSE], s) \in Client
    BY <1>2, <2>2, ConnectLemma
  <2> QED
    BY <2>1, <2>3, BecomesLemma
<1>6. ASSUME NEW s \in Sockets, SocketEvent(s)
      PROVE  ConnectionTypeOK'
  <2>1. CASE Opens(s)
    <3> DEFINE other == [client.sockets EXCEPT ![s] = "open"]
               c == [client EXCEPT !.sockets = other, !.attempts = 0, !.state = "CONNECTED"]
    <3>1. c \in Client
      <4>1. other \in [Sockets -> SocketStates]
        BY <1>1, SocketsLemma DEF SocketStates
      <4> HIDE DEF other
      <4> QED
        BY <1>1, <4>1, NoAttempts DEF Client, States
    <3>2. Becomes(c)
      BY <2>1 DEF Opens
    <3> HIDE DEF c
    <3> QED
      BY <3>1, <3>2, BecomesLemma
  <2>2. CASE Fails(s)
    <3> DEFINE other == [client.sockets EXCEPT ![s] = "failed"]
               c == [client EXCEPT !.sockets = other, !.state = "ERROR"]
    <3>1. c \in Client
      <4>1. other \in [Sockets -> SocketStates]
        BY <1>1, SocketsLemma DEF SocketStates
      <4> HIDE DEF other
      <4> QED
        BY <1>1, <4>1 DEF Client, States
    <3>2. Becomes(c)
      BY <2>2 DEF Fails
    <3> HIDE DEF c
    <3> QED
      BY <3>1, <3>2, BecomesLemma
  <2>3. CASE Closes(s)
    <3> DEFINE other == [client.sockets EXCEPT ![s] = "free"]
               c == [client EXCEPT !.sockets = other]
    <3>1. c \in Client
      <4>1. other \in [Sockets -> SocketStates]
        BY <1>1, SocketsLemma DEF SocketStates
      <4> HIDE DEF other
      <4> QED
        BY <1>1, <4>1 DEF Client
    <3>2. Becomes(OnClose(c))
      BY <2>3 DEF Closes
    <3> HIDE DEF c
    <3> QED
      BY <3>1, <3>2, OnCloseLemma, BecomesLemma
  <2> QED
    BY <1>6, <2>1, <2>2, <2>3 DEF SocketEvent
<1>7. CASE UNCHANGED connectionVars
  BY <1>7 DEF connectionVars, ConnectionTypeOK
<1> QED
  BY <1>3, <1>4, <1>5, <1>6, <1>7 DEF ConnectionNext

LEMMA ConnectionTypeInit == ConnectionInit => ConnectionTypeOK
<1> SUFFICES ASSUME ConnectionInit PROVE ConnectionTypeOK
  OBVIOUS
<1>1. [s \in Sockets |-> "free"] \in [Sockets -> SocketStates]
  BY DEF SocketStates
<1>2. client \in Client
  BY <1>1, NoAttempts DEF ConnectionInit, Client, States
<1> QED
  BY <1>2 DEF ConnectionInit, ConnectionTypeOK, SyncStates

\* The attempts stay within their maximum, whatever the sockets report.
THEOREM ConnectionTypeCorrect == ConnectionSpec => []ConnectionTypeOK
BY ConnectionTypeInit, ConnectionTypeStep, PTL DEF ConnectionSpec

-----------------------------------------------------------------------------
(* A client that was stopped stays closed                                    *)

\* Without a hurried restart the socket in use is the only one that is not free, and it
\* is free when a timer is pending: so stop closes all there is to close.  A stopped
\* client was closed on purpose, or never had a socket whose end could start a timer.
StopInv ==
  /\ ConnectionTypeOK
  /\ ~subscribed =>
       /\ ~client.timer
       /\ client.explicitlyClosed \/ \A s \in Sockets : client.sockets[s] = "free"
       /\ hurried \/ \A s \in Sockets : client.sockets[s] \notin {"connecting", "open"}
  /\ subscribed /\ ~hurried =>
       \A s \in Sockets : client.sockets[s] # "free" => s = client.ws /\ ~client.timer

LEMMA StopInvSocket ==
  ASSUME StopInv, NEW s \in Sockets, SocketEvent(s)
  PROVE  StopInv'
<1>1. client \in Client /\ ConnectionTypeOK'
  <2>1. [ConnectionNext]_connectionVars
    BY DEF ConnectionNext
  <2> QED
    BY <2>1, ConnectionTypeStep DEF StopInv, ConnectionTypeOK
<1>2. ~client.explicitlyClosed /\ client.sockets[s] # "free" => subscribed
  BY DEF StopInv
<1>3. CASE Opens(s)
  <2>1. /\ client' = [client EXCEPT !.sockets = [client.sockets EXCEPT ![s] = "open"], !.attempts = 0,
                                    !.state = "CONNECTED"]
        /\ client.sockets[s] = "connecting"
        /\ UNCHANGED <<subscribed, hurried>>
    BY <1>3 DEF Opens, Becomes
  <2>2. /\ client'.timer = client.timer /\ client'.ws = client.ws
        /\ client'.explicitlyClosed = client.explicitlyClosed
        /\ client'.sockets = [client.sockets EXCEPT ![s] = "open"]
    BY <1>1, <2>1 DEF Client
  <2>3. \A t \in Sockets : client'.sockets[t] = IF t = s THEN "open" ELSE client.sockets[t]
    BY <1>1, <2>2 DEF Client
  <2> QED
    BY <1>1, <2>1, <2>2, <2>3 DEF StopInv
<1>4. CASE Fails(s)
  <2>1. /\ client' = [client EXCEPT !.sockets = [client.sockets EXCEPT ![s] = "failed"], !.state = "ERROR"]
        /\ client.sockets[s] # "free"
        /\ UNCHANGED <<subscribed, hurried>>
    BY <1>4 DEF Fails, Becomes
  <2>2. /\ client'.timer = client.timer /\ client'.ws = client.ws
        /\ client'.explicitlyClosed = client.explicitlyClosed
        /\ client'.sockets = [client.sockets EXCEPT ![s] = "failed"]
    BY <1>1, <2>1 DEF Client
  <2>3. \A t \in Sockets : client'.sockets[t] = IF t = s THEN "failed" ELSE client.sockets[t]
    BY <1>1, <2>2 DEF Client
  <2> QED
    BY <1>1, <2>1, <2>2, <2>3 DEF StopInv
<1>5. CASE Closes(s)
  <2> DEFINE c == [client EXCEPT !.sockets = [client.sockets EXCEPT ![s] = "free"]]
  <2>1. /\ client' = OnClose(c)
        /\ client.sockets[s] # "free"
        /\ UNCHANGED <<subscribed, hurried>>
    BY <1>5 DEF Closes, Becomes
  <2>2. /\ c \in Client /\ c.timer = client.timer /\ c.ws = client.ws
        /\ c.explicitlyClosed = client.explicitlyClosed
        /\ c.sockets = [client.sockets EXCEPT ![s] = "free"]
    BY <1>1 DEF Client, SocketStates
  <2> HIDE DEF c
  <2>3. /\ client'.sockets = c.sockets /\ client'.ws = client.ws
        /\ client'.explicitlyClosed = client.explicitlyClosed
        /\ client.explicitlyClosed => client'.timer = client.timer
    BY <2>1, <2>2, OnCloseLemma
  <2>4. \A t \in Sockets : client'.sockets[t] = IF t = s THEN "free" ELSE client.sockets[t]
    BY <1>1, <2>2, <2>3 DEF Client
  <2>5. CASE subscribed
    <3>1. ~hurried => \A t \in Sockets : client'.sockets[t] = "free"
      BY <2>1, <2>4, <2>5 DEF StopInv
    <3> QED
      BY <1>1, <2>1, <2>5, <3>1 DEF StopInv
  <2>6. CASE ~subscribed
    <3>1. client.explicitlyClosed
      BY <1>2, <2>1, <2>6
    <3> QED
      BY <1>1, <2>1, <2>3, <2>4, <2>6, <3>1 DEF StopInv
  <2> QED
    BY <2>5, <2>6
<1> QED
  BY <1>3, <1>4, <1>5 DEF SocketEvent

\* A connect of a client none of whose sockets is in use.
LEMMA StopInvConnect ==
  ASSUME NEW c \in Client, NEW s \in Sockets \cup {None}, client' = Connect(c, s),
         \A t \in Sockets : c.sockets[t] = "free",
         ~c.timer,
         ConnectionTypeOK', subscribed'
  PROVE  StopInv'
<1>1. CASE client' = c
  BY <1>1 DEF StopInv
<1>2. CASE client'.sockets = c.sockets
  BY <1>2 DEF StopInv
<1>3. CASE /\ s \in Sockets /\ client'.ws = s /\ client'.timer = c.timer
           /\ client'.sockets = [c.sockets EXCEPT ![s] = "connecting"]
  <2>1. \A t \in Sockets : t # s => client'.sockets[t] = "free"
    BY <1>3 DEF Client
  <2> QED
    BY <1>3, <2>1 DEF StopInv
<1> QED
  BY <1>1, <1>2, <1>3, ConnectLemma

LEMMA StopInvStep ==
  ASSUME StopInv, [ConnectionNext]_connectionVars
  PROVE  StopInv'
<1>1. client \in Client /\ ConnectionTypeOK' /\ NewSockets \subseteq Sockets \cup {None}
  BY ConnectionTypeStep DEF StopInv, ConnectionTypeOK, NewSockets
<1>2. CASE Start
  <2>1. PICK s \in NewSockets : client' = Connect(client, s)
    BY <1>2 DEF Start
  <2>2. ~subscribed /\ subscribed' /\ hurried' = (hurried \/ Alive(client) # {})
    BY <1>2 DEF Start
  <2>3. CASE hurried'
    BY <1>1, <2>2, <2>3 DEF StopInv
  <2>4. CASE ~hurried'
    <3>1. \A t \in Sockets : client.sockets[t] = "free"
      BY <2>2, <2>4 DEF Alive
    <3>2. ~client.timer
      BY <2>2 DEF StopInv
    <3> QED
      BY <1>1, <2>1, <2>2, <3>1, <3>2, StopInvConnect
  <2> QED
    BY <2>3, <2>4
<1>3. CASE Stop
  <2>1. subscribed /\ ~subscribed' /\ client' = Disconnect(client) /\ hurried' = hurried
    BY <1>3 DEF Stop
  <2>2. client'.explicitlyClosed /\ ~client'.timer
    BY <1>1, <2>1, DisconnectLemma
  <2>3. \A s \in Sockets : client'.sockets[s] \in {"connecting", "open"} =>
                             s # client.ws /\ client.sockets[s] \in {"connecting", "open"}
    BY <1>1, <2>1, DisconnectLemma
  <2>4. hurried \/ \A s \in Sockets : client'.sockets[s] \notin {"connecting", "open"}
    BY <2>1, <2>3 DEF StopInv
  <2> QED
    BY <1>1, <2>1, <2>2, <2>4 DEF StopInv
<1>4. CASE Timer
  <2> DEFINE c == [client EXCEPT !.timer = FALSE]
  <2>1. PICK s \in NewSockets : Becomes(Connect(c, s))
    BY <1>4 DEF Timer
  <2>2. c \in Client /\ ~c.timer /\ c.sockets = client.sockets /\ client.timer
    BY <1>1, <1>4 DEF Client, Timer
  <2> HIDE DEF c
  <2>3. client' = Connect(c, s) /\ subscribed' = subscribed /\ hurried' = hurried /\ subscribed
    BY <2>1, <2>2 DEF Becomes, StopInv
  <2>4. CASE hurried
    BY <1>1, <2>3, <2>4 DEF StopInv
  <2>5. CASE ~hurried
    <3>1. \A t \in Sockets : c.sockets[t] = "free"
      BY <2>2, <2>3, <2>5 DEF StopInv
    <3> QED
      BY <1>1, <2>2, <2>3, <3>1, StopInvConnect
  <2> QED
    BY <2>4, <2>5
<1>5. ASSUME NEW s \in Sockets, SocketEvent(s)
      PROVE  StopInv'
  BY <1>5, StopInvSocket
<1>6. CASE UNCHANGED connectionVars
  BY <1>6 DEF connectionVars, StopInv, ConnectionTypeOK
<1> QED
  BY <1>2, <1>3, <1>4, <1>5, <1>6 DEF ConnectionNext

\* After stop no timer connects again, and no socket stays open unless a restart left
\* one behind, for any number of sockets whose events come in any order.
THEOREM StoppedStaysClosedCorrect == ConnectionSpec => []StoppedStaysClosed
<1>1. ConnectionInit => StopInv
  <2> SUFFICES ASSUME ConnectionInit PROVE StopInv
    OBVIOUS
  <2>1. ConnectionTypeOK
    BY ConnectionTypeInit
  <2>2. \A s \in Sockets : client.sockets[s] = "free"
    BY DEF ConnectionInit
  <2> QED
    BY <2>1, <2>2 DEF ConnectionInit, StopInv
<1>2. StopInv /\ [ConnectionNext]_connectionVars => StopInv'
  BY StopInvStep
<1>3. StopInv => StoppedStaysClosed
  BY DEF StopInv, StoppedStaysClosed
<1> QED
  BY <1>1, <1>2, <1>3, PTL DEF ConnectionSpec
=============================================================================
