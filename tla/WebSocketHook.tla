----------------------------- MODULE WebSocketHook -----------------------------
(***************************************************************************)
(* The React hook useWebSocket (client/src/hooks/useWebSocket.ts), the     *)
(* other client of the server's socket: SportContext and the score hooks   *)
(* mount it.  This is one mounted instance, in the production build, where *)
(* only a signed-in user connects.                                         *)
(*                                                                         *)
(* A render makes new functions connect, disconnect and handleClose when   *)
(* the user, the number of attempts or the event handlers changed, and     *)
(* then React runs the auto-connect effect again: the cleanup disconnects, *)
(* the effect connects.  The sockets and the retry timer keep the          *)
(* functions of the render that made them, so a version, the user and the  *)
(* attempts a render saw, travels with each.                               *)
(*                                                                         *)
(* State updates are rendered, and effects run, after the handler that     *)
(* made them, but before a retry's delay of a second or more is over.      *)
(* discarded is a history variable.                                        *)
(***************************************************************************)
EXTENDS Naturals

CONSTANTS
  Sockets,               \* the instance's sockets; one that closed is reused
  Users,                 \* user objects that the authentication context gives
  None,
  AutoConnect,           \* options.autoConnect
  AutoReconnect,         \* options.autoReconnect
  MaxReconnectAttempts,  \* options.maxReconnectAttempts
  FreshHandlers          \* may a render bring a new eventHandlers object

ASSUME HookAssumption ==
  /\ None \notin Sockets
  /\ None \notin Users
  /\ AutoConnect \in BOOLEAN
  /\ AutoReconnect \in BOOLEAN
  /\ MaxReconnectAttempts \in Nat
  /\ FreshHandlers \subseteq BOOLEAN

VARIABLES
  user,       \* useAuth().user
  mounted,
  state, attempts,  \* the hook's React state
  rendered,   \* what the last render saw
  effect,     \* does the auto-connect effect have to run
  manual,     \* isManualDisconnectRef
  ws,         \* wsRef
  ready,      \* readyState of each socket, and the event it owes
  by,         \* the version whose handlers each socket has
  retry,      \* reconnectTimeoutRef: the version whose connect it will call
  heartbeat,  \* heartbeatIntervalRef is running
  discarded   \* sockets that disconnect dropped, and that have not closed

sockets == <<ws, ready, by, discarded>>
vars == <<user, mounted, state, attempts, rendered, effect, manual, sockets, retry, heartbeat>>

Version == [user : Users \cup {None}, attempts : 0..MaxReconnectAttempts]
NoVersion == [user |-> None, attempts |-> 0]
view == [user |-> user, attempts |-> attempts]

\* "failing" owes an error event, then, like "closing", a close event.
ReadyStates == {"free", "connecting", "open", "failing", "closing"}
Live(s) == ready[s] \in {"connecting", "open"}

TypeOK ==
  /\ user \in Users \cup {None}
  /\ mounted \in BOOLEAN
  /\ state \in {"disconnected", "connecting", "connected", "error"}
  /\ attempts \in 0..MaxReconnectAttempts
  /\ rendered \in Version
  /\ effect \in {"none", "first", "again"}
  /\ manual \in BOOLEAN
  /\ ws \in Sockets \cup {None}
  /\ ready \in [Sockets -> ReadyStates]
  /\ by \in [Sockets -> Version]
  /\ retry \in Version \cup {None}
  /\ heartbeat \in BOOLEAN
  /\ discarded \subseteq Sockets

\* Mounted and rendered for the first time.
Init ==
  /\ user \in Users \cup {None}
  /\ mounted = TRUE
  /\ state = "disconnected"
  /\ attempts = 0
  /\ rendered = [user |-> user, attempts |-> 0]
  /\ effect = "first"
  /\ manual = FALSE
  /\ ws = None
  /\ ready = [s \in Sockets |-> "free"]
  /\ by = [s \in Sockets |-> NoVersion]
  /\ retry = None
  /\ heartbeat = FALSE
  /\ discarded = {}

-----------------------------------------------------------------------------

\* wsRef.current.close() and wsRef.current = null.
DropSocket ==
  [s \in Sockets |->
    CASE s = ws /\ ready[s] = "connecting" -> "failing"
      [] s = ws /\ ready[s] = "open" -> "closing"
      [] OTHER -> ready[s]]

\* Bug: the retry timer is forgotten.
BugClearHeartbeatOnly ==
  /\ heartbeat' = FALSE
  /\ UNCHANGED retry

\* clearTimers
ClearTimers ==
  /\ retry' = None
  /\ heartbeat' = FALSE

Discard == discarded' = discarded \cup {s \in Sockets : s = ws /\ ready[s] # "free"}

\* Bug: it connects whatever the current socket does.
BugConnectAlways(v, from, current, readies, wasManual) ==
  IF v.user = None
    THEN /\ state' = from
         /\ manual' = wasManual
         /\ ws' = current
         /\ ready' = readies
         /\ UNCHANGED by
    ELSE /\ manual' = FALSE
         /\ \/ \E s \in Sockets :
                 /\ readies[s] = "free"
                 /\ state' = "connecting"
                 /\ ws' = s
                 /\ ready' = [readies EXCEPT ![s] = "connecting"]
                 /\ by' = [by EXCEPT ![s] = v]
            \/ /\ state' = "error"
               /\ ws' = current
               /\ ready' = readies
               /\ UNCHANGED by

\* connect, as version v has it, when the state, the current socket, the
\* sockets and the manual flag are these.  The last disjunct is a constructor
\* that throws.
ConnectFrom(v, from, current, readies, wasManual) ==
  IF v.user = None \/ (current # None /\ readies[current] \in {"connecting", "open"})
    THEN /\ state' = from
         /\ manual' = wasManual
         /\ ws' = current
         /\ ready' = readies
         /\ UNCHANGED by
    ELSE /\ manual' = FALSE
         /\ \/ \E s \in Sockets :
                 /\ readies[s] = "free"
                 /\ state' = "connecting"
                 /\ ws' = s
                 /\ ready' = [readies EXCEPT ![s] = "connecting"]
                 /\ by' = [by EXCEPT ![s] = v]
            \/ /\ state' = "error"
               /\ ws' = current
               /\ ready' = readies
               /\ UNCHANGED by

-----------------------------------------------------------------------------
\* React.

UserChanges ==
  /\ user' \in (Users \cup {None}) \ {user}
  /\ UNCHANGED <<mounted, state, attempts, rendered, effect, manual, sockets, retry, heartbeat>>

\* A render runs the effect again if it made a new connect.
Render(fresh) ==
  /\ mounted
  /\ effect = "none"
  /\ rendered' = view
  /\ rendered' # rendered \/ fresh
  /\ effect' = "again"
  /\ UNCHANGED <<user, mounted, state, attempts, manual, sockets, retry, heartbeat>>

\* The cleanup of the previous effect, disconnect, and the effect: the first
\* time there is nothing to clean up, and the other variables say so.
RunEffect ==
  /\ mounted
  /\ effect # "none"
  /\ effect' = "none"
  /\ attempts' = 0
  /\ ClearTimers
  /\ Discard
  /\ IF AutoConnect
       THEN ConnectFrom(rendered, "disconnected", None, DropSocket, effect = "again")
       ELSE /\ state' = "disconnected"
            /\ manual' = (effect = "again")
            /\ ws' = None
            /\ ready' = DropSocket
            /\ UNCHANGED by
  /\ UNCHANGED <<user, mounted, rendered>>

\* The cleanups of both effects; state updates no longer count.
Unmount ==
  /\ mounted
  /\ effect = "none"
  /\ mounted' = FALSE
  /\ manual' = TRUE
  /\ ClearTimers
  /\ Discard
  /\ ready' = DropSocket
  /\ ws' = None
  /\ UNCHANGED <<user, state, attempts, rendered, effect, by>>

-----------------------------------------------------------------------------
\* The application, with the functions of the last render.

Connect ==
  /\ mounted
  /\ effect # "first"
  /\ ConnectFrom(rendered, state, ws, ready, manual)
  /\ UNCHANGED <<user, mounted, attempts, rendered, effect, retry, heartbeat, discarded>>

\* Bug: the state is left as it was.
BugDisconnectKeepsState ==
  /\ mounted
  /\ effect # "first"
  /\ manual' = TRUE
  /\ ClearTimers
  /\ Discard
  /\ ready' = DropSocket
  /\ ws' = None
  /\ attempts' = 0
  /\ UNCHANGED <<user, mounted, rendered, effect, by, state>>

Disconnect ==
  /\ mounted
  /\ effect # "first"
  /\ manual' = TRUE
  /\ ClearTimers
  /\ Discard
  /\ ready' = DropSocket
  /\ ws' = None
  /\ state' = "disconnected"
  /\ attempts' = 0
  /\ UNCHANGED <<user, mounted, rendered, effect, by>>

-----------------------------------------------------------------------------
\* The sockets.

\* handleOpen.  An interval whose handle is overwritten goes on pinging the
\* current socket, which changes nothing here.
Opened(s) ==
  /\ ready[s] = "connecting"
  /\ ready' = [ready EXCEPT ![s] = "open"]
  /\ state' = "connected"
  /\ attempts' = 0
  /\ heartbeat' = TRUE
  /\ UNCHANGED <<user, mounted, rendered, effect, manual, ws, by, retry, discarded>>

\* handleError; the close event follows.
Errored(s) ==
  /\ ready[s] \in {"connecting", "open", "failing"}
  /\ ready' = [ready EXCEPT ![s] = "closing"]
  /\ state' = "error"
  /\ UNCHANGED <<user, mounted, attempts, rendered, effect, manual, ws, by, retry, heartbeat, discarded>>

\* The server closes: readyState is CLOSING, and no handler is called yet.
PeerCloses(s) ==
  /\ ready[s] = "open"
  /\ ready' = [ready EXCEPT ![s] = "closing"]
  /\ UNCHANGED <<user, mounted, state, attempts, rendered, effect, manual, ws, by, retry, heartbeat, discarded>>

\* Bug: a closed connection is not retried.
BugClosedNoRetry(s) ==
  /\ ready[s] \in {"open", "closing"}
  /\ ready' = [ready EXCEPT ![s] = "free"]
  /\ state' = "disconnected"
  /\ heartbeat' = FALSE
  /\ retry' = None
  /\ discarded' = discarded \ {s}
  /\ UNCHANGED <<user, mounted, attempts, rendered, effect, manual, ws, by>>

\* handleClose of the version the socket was made by.
Closed(s) ==
  /\ ready[s] \in {"open", "closing"}
  /\ ready' = [ready EXCEPT ![s] = "free"]
  /\ state' = "disconnected"
  /\ heartbeat' = FALSE
  /\ retry' = IF /\ ~manual
                 /\ by[s].user # None
                 /\ AutoReconnect
                 /\ by[s].attempts < MaxReconnectAttempts
                THEN by[s]
                ELSE None
  /\ discarded' = discarded \ {s}
  /\ UNCHANGED <<user, mounted, attempts, rendered, effect, manual, ws, by>>

\* The retry timer: setReconnectAttempts and connect.
RetryFires ==
  /\ retry # None
  /\ effect = "none"
  /\ rendered = view
  /\ retry' = None
  /\ attempts' = attempts + 1
  /\ ConnectFrom(retry, state, ws, ready, manual)
  /\ UNCHANGED <<user, mounted, rendered, effect, heartbeat, discarded>>

-----------------------------------------------------------------------------

Next ==
  \/ UserChanges
  \/ \E fresh \in FreshHandlers : Render(fresh)
  \/ RunEffect \/ Unmount \/ Connect \/ Disconnect
  \/ \E s \in Sockets : Opened(s) \/ Errored(s) \/ PeerCloses(s) \/ Closed(s)
  \/ RetryFires

Spec == Init /\ [][Next]_vars

\* React renders what changed and runs the effects, timers fire, and a socket
\* that is failing or closing delivers its events.
Fairness ==
  /\ WF_vars(rendered # view /\ \E fresh \in FreshHandlers : Render(fresh))
  /\ WF_vars(RunEffect)
  /\ WF_vars(RetryFires)
  /\ \A s \in Sockets :
       /\ WF_vars(ready[s] = "failing" /\ Errored(s))
       /\ WF_vars(ready[s] = "closing" /\ Closed(s))

FairSpec == Spec /\ Fairness

-----------------------------------------------------------------------------

\* Only the current socket is connecting or open: whatever the order of
\* effects, retries, calls and events, no connection is left behind that the
\* hook can no longer close.
NoLeakedSocket == \A s \in Sockets : Live(s) => s = ws

\* The state the application shows is that of the current socket, although
\* the events of older sockets set it too: connecting means that a socket
\* will still answer, connected that there is one, even if its peer is
\* closing it.
StateBacked ==
  mounted =>
    /\ state = "connecting" => ws # None /\ ready[ws] = "connecting"
    /\ state = "connected" => ws # None /\ ready[ws] \in {"open", "closing"}

\* After disconnect, and for good after the unmount, nothing is left that
\* would connect or ping: the late close event of the dropped socket does not
\* start it again.
ManualIsQuiet ==
  manual \/ ~mounted => ws = None /\ retry = None /\ ~heartbeat

\* A signed-in user whose connection closed gets a new attempt, unless it was
\* disconnected by hand: the retry timer that an effect or a late close event
\* cancels is replaced.
LostIsRetried ==
  AutoConnect /\ mounted /\ user # None /\ state = "disconnected" /\ ~manual
    ~> state # "disconnected" \/ manual \/ user = None \/ ~mounted

=============================================================================
