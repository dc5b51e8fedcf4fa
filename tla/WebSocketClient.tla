---------------------------- MODULE WebSocketClient ----------------------------
(***************************************************************************)
(* The browser's WebSocket service (client/src/lib/websocket.ts): one      *)
(* state, one current socket, and three timers, under everything that may  *)
(* call into it: the application, the sockets it created, and the timers.  *)
(*                                                                         *)
(* connect waits for the user's token before it creates the socket, and a  *)
(* socket that was replaced keeps its event handlers, so the events of an  *)
(* old socket, of a connect that is still waiting and of the new socket    *)
(* interleave.  A timer whose handle is overwritten is an orphan: it still *)
(* fires, and nothing can cancel it.                                       *)
(*                                                                         *)
(* Delays only order the timers, so a timer may fire at any moment after   *)
(* it was set.  wanted is a history variable.                              *)
(***************************************************************************)
EXTENDS Naturals, FiniteSets

CONSTANTS
  Sockets,               \* the browser's sockets; one that closed is reused
  None,
  AutoReconnect,         \* config.autoReconnect
  MaxReconnectAttempts,  \* config.maxReconnectAttempts
  MaxWaiting,            \* bound on the connects that wait for their URL
  MaxOrphans             \* bound on the orphans of each timer

ASSUME ClientAssumption ==
  /\ None \notin Sockets
  /\ AutoReconnect \in BOOLEAN
  /\ MaxReconnectAttempts \in Nat
  /\ MaxWaiting \in Nat \ {0}
  /\ MaxOrphans \in Nat

VARIABLES
  state,      \* ConnectionState
  manual,     \* isManualDisconnect
  attempts,   \* metrics.reconnectAttempts
  acked,      \* heartbeatResponseReceived
  ws,         \* the current socket
  sock,       \* readyState of each socket, and the event it owes
  waiting,    \* connects that wait for their URL
  reconnectTimer, connectionTimer, heartbeatTimer,
  wanted      \* the application's last call was connect

timers == <<reconnectTimer, connectionTimer, heartbeatTimer>>
vars == <<state, manual, attempts, acked, ws, sock, waiting, timers, wanted>>

ConnectionStates == {"disconnected", "connecting", "connected", "reconnecting", "error"}

\* "failing" owes an error event, then, like "closing", a close event.
SocketStates == {"free", "connecting", "open", "failing", "closing"}

\* Is the handle's timer pending, and how many orphans are.
Timer == [set : BOOLEAN, orphans : 0..MaxOrphans]
NoTimer == [set |-> FALSE, orphans |-> 0]
Pending(timer) == timer.set \/ timer.orphans > 0

TypeOK ==
  /\ state \in ConnectionStates
  /\ manual \in BOOLEAN
  /\ attempts \in 0..MaxReconnectAttempts
  /\ acked \in BOOLEAN
  /\ ws \in Sockets \cup {None}
  /\ sock \in [Sockets -> SocketStates]
  /\ waiting \in 0..MaxWaiting
  /\ reconnectTimer \in Timer
  /\ connectionTimer \in Timer
  /\ heartbeatTimer \in Timer
  /\ wanted \in BOOLEAN

Init ==
  /\ state = "disconnected"
  /\ manual = FALSE
  /\ attempts = 0
  /\ acked = TRUE
  /\ ws = None
  /\ sock = [s \in Sockets |-> "free"]
  /\ waiting = 0
  /\ reconnectTimer = NoTimer
  /\ connectionTimer = NoTimer
  /\ heartbeatTimer = NoTimer
  /\ wanted = FALSE

-----------------------------------------------------------------------------

\* setTimeout and setInterval store the handle over the one that was there;
\* an orphan beyond the bound is forgotten.
Set(timer) ==
  IF timer.set /\ timer.orphans < MaxOrphans
    THEN [timer EXCEPT !.orphans = @ + 1]
    ELSE [timer EXCEPT !.set = TRUE]

Clear(timer) == [timer EXCEPT !.set = FALSE]

\* One of the pending timers has fired: this one is left.
Fired(timer) ==
  {t \in {Clear(timer)} : timer.set}
    \cup {t \in {[timer EXCEPT !.orphans = @ - 1]} : timer.orphans > 0}

\* ws.close()
CloseCurrent ==
  sock' = [s \in Sockets |->
    CASE s = ws /\ sock[s] = "connecting" -> "failing"
      [] s = ws /\ sock[s] = "open" -> "closing"
      [] OTHER -> sock[s]]

\* connect(), unless it is connecting or connected already.
StartConnecting ==
  IF state \in {"connecting", "connected"}
    THEN UNCHANGED <<state, manual, waiting>>
    ELSE /\ waiting < MaxWaiting
         /\ state' = "connecting"
         /\ manual' = FALSE
         /\ waiting' = waiting + 1

\* Bug: an attempt is not counted.
BugAttemptUncounted(otherwise, cleared) ==
  IF ~manual /\ AutoReconnect /\ attempts < MaxReconnectAttempts
    THEN /\ state' = "reconnecting"
         /\ reconnectTimer' = Set(cleared)
         /\ UNCHANGED attempts
    ELSE /\ state' = otherwise
         /\ reconnectTimer' = cleared
         /\ UNCHANGED attempts

\* Bug: a manual disconnect is retried as well.
BugRetryManual(otherwise, cleared) ==
  IF AutoReconnect /\ attempts < MaxReconnectAttempts
    THEN /\ state' = "reconnecting"
         /\ reconnectTimer' = Set(cleared)
         /\ attempts' = attempts + 1
    ELSE /\ state' = otherwise
         /\ reconnectTimer' = cleared
         /\ UNCHANGED attempts

\* The connection is gone: attemptReconnection, or stay in this state.
Retry(otherwise, cleared) ==
  IF ~manual /\ AutoReconnect /\ attempts < MaxReconnectAttempts
    THEN /\ state' = "reconnecting"
         /\ reconnectTimer' = Set(cleared)
         /\ attempts' = attempts + 1
    ELSE /\ state' = otherwise
         /\ reconnectTimer' = cleared
         /\ UNCHANGED attempts

-----------------------------------------------------------------------------
\* The application.

Connect ==
  /\ StartConnecting
  /\ wanted' = TRUE
  /\ UNCHANGED <<attempts, acked, ws, sock, timers>>

\* Bug: only the timers go, the state stays.
BugDisconnectKeepsState ==
  /\ manual' = TRUE
  /\ attempts' = 0
  /\ reconnectTimer' = Clear(reconnectTimer)
  /\ connectionTimer' = Clear(connectionTimer)
  /\ heartbeatTimer' = Clear(heartbeatTimer)
  /\ CloseCurrent
  /\ wanted' = FALSE
  /\ UNCHANGED <<state, acked, ws, waiting>>

Disconnect ==
  /\ manual' = TRUE
  /\ state' = "disconnected"
  /\ attempts' = 0
  /\ reconnectTimer' = Clear(reconnectTimer)
  /\ connectionTimer' = Clear(connectionTimer)
  /\ heartbeatTimer' = Clear(heartbeatTimer)
  /\ CloseCurrent
  /\ wanted' = FALSE
  /\ UNCHANGED <<acked, ws, waiting>>

-----------------------------------------------------------------------------
\* The continuation of connect.

\* The URL is built, and the socket created.
SocketCreated(s) ==
  /\ waiting > 0
  /\ sock[s] = "free"
  /\ waiting' = waiting - 1
  /\ sock' = [sock EXCEPT ![s] = "connecting"]
  /\ ws' = s
  /\ connectionTimer' = Set(connectionTimer)
  /\ UNCHANGED <<state, manual, attempts, acked, reconnectTimer, heartbeatTimer, wanted>>

\* The WebSocket constructor throws: handleConnectionError.
CreationFails ==
  /\ waiting > 0
  /\ waiting' = waiting - 1
  /\ connectionTimer' = Clear(connectionTimer)
  /\ Retry("error", reconnectTimer)
  /\ UNCHANGED <<manual, acked, ws, sock, heartbeatTimer, wanted>>

-----------------------------------------------------------------------------
\* Events of the sockets, current or not.

\* Bug: the heartbeat is not started.
BugOpenedNoHeartbeat(s) ==
  /\ sock[s] = "connecting"
  /\ sock' = [sock EXCEPT ![s] = "open"]
  /\ state' = "connected"
  /\ attempts' = 0
  /\ connectionTimer' = Clear(connectionTimer)
  /\ UNCHANGED <<manual, acked, ws, waiting, reconnectTimer, heartbeatTimer, wanted>>

\* handleOpen
Opened(s) ==
  /\ sock[s] = "connecting"
  /\ sock' = [sock EXCEPT ![s] = "open"]
  /\ state' = "connected"
  /\ attempts' = 0
  /\ connectionTimer' = Clear(connectionTimer)
  /\ heartbeatTimer' = Set(heartbeatTimer)
  /\ UNCHANGED <<manual, acked, ws, waiting, reconnectTimer, wanted>>

\* handleMessage of "pong"; other messages change nothing here.
Pong(s) ==
  /\ sock[s] = "open"
  /\ acked' = TRUE
  /\ UNCHANGED <<state, manual, attempts, ws, sock, waiting, timers, wanted>>

\* handleError; the close event follows.
Errored(s) ==
  /\ sock[s] \in {"connecting", "open", "failing"}
  /\ sock' = [sock EXCEPT ![s] = "closing"]
  /\ state' = "error"
  /\ UNCHANGED <<manual, attempts, acked, ws, waiting, timers, wanted>>

\* handleClose
Closed(s) ==
  /\ sock[s] \in {"open", "closing"}
  /\ sock' = [sock EXCEPT ![s] = "free"]
  /\ connectionTimer' = Clear(connectionTimer)
  /\ heartbeatTimer' = Clear(heartbeatTimer)
  /\ Retry("disconnected", Clear(reconnectTimer))
  /\ UNCHANGED <<manual, acked, ws, waiting, wanted>>

-----------------------------------------------------------------------------
\* Timers.

ReconnectFires ==
  /\ reconnectTimer' \in Fired(reconnectTimer)
  /\ StartConnecting
  /\ UNCHANGED <<attempts, acked, ws, sock, connectionTimer, heartbeatTimer, wanted>>

\* The connection timer does something only while connecting; it does not
\* close the socket it gives up.
ConnectionTimesOut ==
  /\ \E left \in Fired(connectionTimer) :
       IF state = "connecting"
         THEN connectionTimer' = Clear(left) /\ Retry("error", reconnectTimer)
         ELSE connectionTimer' = left /\ UNCHANGED <<state, attempts, reconnectTimer>>
  /\ UNCHANGED <<manual, acked, ws, sock, waiting, heartbeatTimer, wanted>>

\* An interval of startHeartbeat: close a connection that did not answer the
\* last ping, else ping.
HeartbeatFires ==
  /\ Pending(heartbeatTimer)
  /\ state = "connected"
  /\ ws # None
  /\ IF acked THEN UNCHANGED sock ELSE CloseCurrent
  /\ acked' = FALSE
  /\ UNCHANGED <<state, manual, attempts, ws, waiting, timers, wanted>>

-----------------------------------------------------------------------------

Continue == (\E s \in Sockets : SocketCreated(s)) \/ CreationFails

Next ==
  \/ Connect \/ Disconnect
  \/ (\E s \in Sockets : SocketCreated(s)) \/ CreationFails
  \/ \E s \in Sockets : Opened(s) \/ Pong(s) \/ Errored(s) \/ Closed(s)
  \/ ReconnectFires \/ ConnectionTimesOut \/ HeartbeatFires

Spec == Init /\ [][Next]_vars

\* A promise settles and a timer fires.  The network owes nothing but the
\* events of a socket that is failing or closing.
Fairness ==
  /\ WF_vars(Continue)
  /\ WF_vars(ReconnectFires)
  /\ WF_vars(ConnectionTimesOut)
  /\ \A s \in Sockets :
       /\ WF_vars(sock[s] = "failing" /\ Errored(s))
       /\ WF_vars(sock[s] = "closing" /\ Closed(s))

FairSpec == Spec /\ Fairness

-----------------------------------------------------------------------------

\* A state that promises progress has something pending that will leave it:
\* an old socket's close event and a disconnect cancel timers, and must not
\* leave the service connecting or reconnecting for ever.
TransientStatesMove ==
  /\ state = "reconnecting" => Pending(reconnectTimer)
  /\ state = "connecting" => waiting > 0 \/ Pending(connectionTimer)

\* While connected a heartbeat that can be cancelled runs, whichever sockets
\* opened and closed before.
ConnectedBeats == state = "connected" => heartbeatTimer.set

\* After disconnect no retry that disconnect could have cancelled is pending.
ManualStopsRetries == manual => ~reconnectTimer.set

\* The service does not connect and reconnect for ever without a connection:
\* again and again it is connected, or has given up.
Settles == []<>(state \in {"connected", "disconnected", "error"})


-----------------------------------------------------------------------------
(***************************************************************************)
(* The provider of the service (client/src/contexts/WebSocketContext.tsx), *)
(* as App.tsx mounts it.  Its listeners copy the state of the service into *)
(* React's; an effect that depends on the user and on what was rendered    *)
(* connects or disconnects.  Nothing orders what the sockets do and what   *)
(* React renders: a socket that the connection timer gave up goes on with  *)
(* its handshake and may open at any moment.  The heartbeat is left out    *)
(* here: what it may do, to close the connection, the network does too.    *)
(***************************************************************************)
CONSTANTS
  ProviderAutoConnect,  \* autoConnect of the provider
  MaxUserActs           \* bound: what the user does

VARIABLES
  signedIn,   \* is there a user
  provided,   \* is the provider mounted
  viewed,     \* what was rendered last
  authDue,    \* does the effect of the authentication have to run
  lastError,  \* is there one
  userActs
context == <<signedIn, provided, viewed, authDue, lastError, userActs>>

Current == [user |-> signedIn, connected |-> state = "connected", error |-> lastError]

ContextInit ==
  /\ signedIn \in BOOLEAN
  /\ provided = TRUE
  /\ viewed = [user |-> signedIn, connected |-> FALSE, error |-> FALSE]
  /\ authDue = TRUE
  /\ lastError = FALSE
  /\ userActs = 0

UserActs == provided /\ userActs < MaxUserActs /\ userActs' = userActs + 1

SignsInOrOut ==
  /\ UserActs
  /\ signedIn' = ~signedIn
  /\ UNCHANGED <<vars, provided, viewed, authDue, lastError>>

\* The buttons of WebSocketDemo.tsx, which may be those of an earlier state.
Pressed ==
  /\ UserActs
  /\ IF viewed.connected THEN Disconnect ELSE Connect
  /\ UNCHANGED <<signedIn, provided, viewed, authDue, lastError>>

\* send: it throws when the socket that is current is not the one that opened.
SendFails ==
  /\ UserActs
  /\ state = "connected" /\ ws # None
  /\ sock[ws] = "connecting"
  /\ lastError' = TRUE
  /\ UNCHANGED <<vars, signedIn, provided, viewed, authDue>>

Displayed == provided => viewed = Current /\ ~authDue

\* Bug: the effect does not depend on isConnected.
BugContextRender ==
  /\ provided /\ ~authDue
  /\ viewed # Current /\ viewed' = Current
  /\ authDue' = (viewed.user # signedIn)
  /\ UNCHANGED <<vars, signedIn, provided, lastError, userActs>>

ContextRender ==
  /\ provided /\ ~authDue
  /\ viewed # Current /\ viewed' = Current
  /\ authDue' = (viewed.user # signedIn \/ viewed.connected # (state = "connected"))
  /\ UNCHANGED <<vars, signedIn, provided, lastError, userActs>>

AuthEffect ==
  /\ provided
  /\ authDue /\ authDue' = FALSE
  /\ CASE viewed.user /\ ProviderAutoConnect /\ ~viewed.connected -> Connect
       [] ~viewed.user /\ viewed.connected -> Disconnect
       [] OTHER -> UNCHANGED vars
  /\ UNCHANGED <<signedIn, provided, viewed, lastError, userActs>>

Leaves ==
  /\ UserActs /\ ~authDue
  /\ provided' = FALSE
  /\ Disconnect
  /\ UNCHANGED <<signedIn, viewed, authDue, lastError>>

\* What the listeners take from the service: an error event, a reconnection
\* that is given up, and a connection, which clears the error that was
\* rendered when the listener was made.  A message that does not parse is an
\* error event too, and changes nothing else.
GivesUp == ~manual /\ AutoReconnect /\ attempts >= MaxReconnectAttempts
ListenersHear ==
  \/ /\ \E s \in Sockets : Opened(s)
     /\ lastError' = (lastError /\ (state = "connected" \/ ~viewed.error))
  \/ /\ (\E s \in Sockets : Errored(s)) \/ CreationFails
     /\ lastError' = provided
  \/ /\ ConnectionTimesOut
     /\ lastError' = (provided /\ (lastError \/ state = "connecting"))
  \/ /\ \E s \in Sockets : Closed(s)
     /\ lastError' = (provided /\ (lastError \/ GivesUp))
  \/ /\ \E s \in Sockets : sock[s] = "open"
     /\ lastError' = provided
     /\ UNCHANGED vars
  \/ /\ (\E s \in Sockets : SocketCreated(s)) \/ ReconnectFires
     /\ UNCHANGED lastError

ContextNext ==
  \/ SignsInOrOut \/ Pressed \/ SendFails \/ Leaves
  \/ ContextRender \/ AuthEffect
  \/ ListenersHear /\ UNCHANGED <<signedIn, provided, viewed, authDue, userActs>>

ContextSpec == Init /\ ContextInit /\ [][ContextNext]_<<vars, context>>

=============================================================================
