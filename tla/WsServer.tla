------------------------------- MODULE WsServer -------------------------------
(***************************************************************************)
(* The WebSocket server (server/ws.ts): the handshake of a socket, its     *)
(* subscriptions, the broadcasts and the connection counters.              *)
(*                                                                         *)
(* The "connection" handler awaits the verification of the token, the      *)
(* profile and each favorite team before it attaches the socket's message, *)
(* close and error listeners, so a handshake is a sequence of actions, and *)
(* the socket may fail, close or be broadcast to between any two of them.  *)
(* A message that arrives before the listeners are attached is lost, which *)
(* changes nothing and is therefore no action.                             *)
(*                                                                         *)
(* Counters of messages, logging and metrics are left out; renounced,      *)
(* granted and passed are history variables that no action reads.          *)
(***************************************************************************)
EXTENDS Naturals, FiniteSets

CONSTANTS
  Sockets, Users, UserOf,  \* sockets, and the user each one authenticates as
  Teams, KnownTeams,       \* team ids, and those storage.getTeam finds
  Games, TeamsOf,          \* games, and the teams that play each
  Updates,      \* what broadcastUserTeamUpdate is called with
  Undefined,    \* the id of an update whose caller gave none
  None,         \* no value
  ThrottleMs, KeepMs,  \* the throttler's interval, and the age it forgets at
  MaxTime,      \* bound on the clock
  MaxEdits      \* bound on the edits of a profile

ASSUME WsAssumption ==
  /\ IsFiniteSet(Sockets)
  /\ UserOf \in [Sockets -> Users]
  /\ KnownTeams \subseteq Teams
  /\ TeamsOf \in [Games -> SUBSET Teams]
  /\ Updates \subseteq [game : Games, id : Games \cup {Undefined}, teams : SUBSET Teams]
  /\ ThrottleMs \in Nat /\ KeepMs \in Nat /\ ThrottleMs <= KeepMs
  /\ MaxTime \in Nat /\ MaxEdits \in Nat
  /\ None \notin Nat

VARIABLES
  favorites,    \* the favorite teams in each user's profile
  edits,
  ready,        \* readyState of each socket; "none" before it connects
  phase,        \* how far its connection handler is
  authed,       \* isAuthenticated and userId
  subs,
  userTeams,
  loading,      \* favorite teams whose details are still to be read
  loaded,       \* favorite teams whose details were read
  unsubscribing, \* "unsubscribe-user-teams" waits for the profile
  stats,        \* healthMetrics
  lastUpdate,   \* the throttler's map
  now,          \* Date.now()
  sent,         \* what the last step sent
  renounced, granted, passed

sockvars == <<ready, phase, authed, subs, userTeams, loading, loaded, unsubscribing>>
history == <<renounced, granted, passed>>
vars == <<favorites, edits, sockvars, stats, lastUpdate, now, sent, history>>

Keys == Games \cup {Undefined}
Maybe(S) == S \cup {None}
Phases == {"new", "auth", "profile", "teams", "ready", "rejected"}
Kinds == {"status", "teams-loaded", "confirmation", "users", "team", "any"}

TypeOK ==
  /\ favorites \in [Users -> SUBSET Teams]
  /\ edits \in 0..MaxEdits
  /\ ready \in [Sockets -> {"none", "open", "closing", "closed"}]
  /\ phase \in [Sockets -> Phases]
  /\ authed \in [Sockets -> BOOLEAN]
  /\ subs \in [Sockets -> SUBSET Teams]
  /\ userTeams \in [Sockets -> SUBSET Teams]
  /\ loading \in [Sockets -> SUBSET Teams]
  /\ loaded \in [Sockets -> SUBSET KnownTeams]
  /\ unsubscribing \in [Sockets -> BOOLEAN]
  /\ stats \in [connections : Nat, disconnections : Nat, authFailures : Nat, errors : Nat]
  /\ lastUpdate \in [Keys -> Maybe(Nat)]
  /\ now \in 0..MaxTime
  /\ sent \subseteq [to : Sockets, kind : Kinds]
  /\ renounced \in [Sockets -> SUBSET Teams]
  /\ granted \in [Sockets -> SUBSET Teams]
  /\ passed \in [Games -> Maybe(Nat)]

Init ==
  /\ favorites \in [Users -> SUBSET Teams]
  /\ edits = 0
  /\ ready = [s \in Sockets |-> "none"]
  /\ phase = [s \in Sockets |-> "new"]
  /\ authed = [s \in Sockets |-> FALSE]
  /\ subs = [s \in Sockets |-> {}]
  /\ userTeams = [s \in Sockets |-> {}]
  /\ loading = [s \in Sockets |-> {}]
  /\ loaded = [s \in Sockets |-> {}]
  /\ unsubscribing = [s \in Sockets |-> FALSE]
  /\ stats = [connections |-> 0, disconnections |-> 0, authFailures |-> 0, errors |-> 0]
  /\ lastUpdate = [k \in Keys |-> None]
  /\ now = 0
  /\ sent = {}
  /\ renounced = [s \in Sockets |-> {}]
  /\ granted = [s \in Sockets |-> {}]
  /\ passed = [g \in Games |-> None]

server == <<favorites, edits, lastUpdate, now, passed>>

\* sendMessage: to the given sockets that are open.
SendMessage(to, kind) ==
  sent' = [to : {s \in to : ready[s] = "open"}, kind : {kind}]

\* wss.clients, the sockets that are not closed.
Clients == {s \in Sockets : ready[s] \in {"open", "closing"}}

-----------------------------------------------------------------------------
\* The handshake.

Connect(s) ==
  /\ ready[s] = "none"
  /\ ready' = [ready EXCEPT ![s] = "open"]
  /\ phase' = [phase EXCEPT ![s] = "auth"]
  /\ stats' = [stats EXCEPT !.connections = @ + 1]
  /\ sent' = {}
  /\ UNCHANGED <<server, authed, subs, userTeams, loading, loaded,
                 unsubscribing, renounced, granted>>

\* The token, or in development the override, names the user.
Authenticated(s) ==
  /\ phase[s] = "auth"
  /\ phase' = [phase EXCEPT ![s] = "profile"]
  /\ authed' = [authed EXCEPT ![s] = TRUE]
  /\ subs' = [subs EXCEPT ![s] = {}]
  /\ userTeams' = [userTeams EXCEPT ![s] = {}]
  /\ SendMessage({s}, "status")
  /\ UNCHANGED <<server, ready, loading, loaded, unsubscribing, stats,
                 renounced, granted>>

\* Bug: the socket is left open.
BugNotClosed(s) ==
  /\ phase[s] = "auth"
  /\ phase' = [phase EXCEPT ![s] = "rejected"]
  /\ stats' = [stats EXCEPT !.authFailures = @ + 1]
  /\ sent' = {}
  /\ UNCHANGED <<server, ready, authed, subs, userTeams, loading, loaded,
                 unsubscribing, renounced, granted>>

\* No token, no Firebase, a token that does not verify, claims without a
\* subject or an exception; the last two are not counted.
NotAuthenticated(s) ==
  /\ phase[s] = "auth"
  /\ phase' = [phase EXCEPT ![s] = "rejected"]
  /\ ready' = [ready EXCEPT ![s] = IF @ = "open" THEN "closing" ELSE @]
  /\ \E n \in {0, 1} : stats' = [stats EXCEPT !.authFailures = @ + n]
  /\ sent' = {}
  /\ UNCHANGED <<server, authed, subs, userTeams, loading, loaded,
                 unsubscribing, renounced, granted>>

\* loadUserFavoriteTeams has the profile; without favorites it is done.
ProfileRead(s) ==
  /\ phase[s] = "profile"
  /\ loading' = [loading EXCEPT ![s] = favorites[UserOf[s]]]
  /\ IF favorites[UserOf[s]] = {}
       THEN phase' = [phase EXCEPT ![s] = "ready"] /\ SendMessage({s}, "teams-loaded")
       ELSE phase' = [phase EXCEPT ![s] = "teams"] /\ sent' = {}
  /\ UNCHANGED <<server, ready, authed, subs, userTeams, loaded,
                 unsubscribing, stats, renounced, granted>>

\* No such profile, or getUserProfile rejected.
ProfileMissing(s) ==
  /\ phase[s] = "profile"
  /\ phase' = [phase EXCEPT ![s] = "ready"]
  /\ SendMessage({s}, "teams-loaded")
  /\ UNCHANGED <<server, ready, authed, subs, userTeams, loading, loaded,
                 unsubscribing, stats, renounced, granted>>

SubscribeLoaded(s) ==
  /\ subs' = [subs EXCEPT ![s] = @ \cup loaded'[s]]
  /\ granted' = [granted EXCEPT ![s] = @ \cup loaded'[s]]

\* The details of one favorite team arrive, or there are none; after the last
\* one the socket is subscribed and the listeners are attached.
TeamRead(s) ==
  /\ phase[s] = "teams"
  /\ \E t \in loading[s], found \in BOOLEAN :
       /\ found => t \in KnownTeams
       /\ loading' = [loading EXCEPT ![s] = @ \ {t}]
       /\ loaded' = [loaded EXCEPT ![s] = IF found THEN @ \cup {t} ELSE @]
  /\ IF loading'[s] = {}
       THEN /\ phase' = [phase EXCEPT ![s] = "ready"]
            /\ SubscribeLoaded(s)
            /\ SendMessage({s}, "teams-loaded")
       ELSE UNCHANGED <<phase, subs, granted>> /\ sent' = {}
  /\ UNCHANGED <<server, ready, authed, userTeams, unsubscribing, stats, renounced>>

-----------------------------------------------------------------------------
\* Messages of a client.

\* Bug: the listener is attached before the favorites are loaded.
BugListeningEarly(s) == ready[s] = "open" /\ authed[s]

Listening(s) == ready[s] = "open" /\ phase[s] = "ready"

\* "subscribe" and "unsubscribe" with a team.
Subscribe(s) ==
  /\ Listening(s)
  /\ \E t \in Teams :
       /\ subs' = [subs EXCEPT ![s] = @ \cup {t}]
       /\ renounced' = [renounced EXCEPT ![s] = @ \ {t}]
       /\ granted' = [granted EXCEPT ![s] = @ \cup {t}]
  /\ SendMessage({s}, "confirmation")
  /\ UNCHANGED <<server, ready, phase, authed, userTeams, loading, loaded,
                 unsubscribing, stats>>

Unsubscribe(s) ==
  /\ Listening(s)
  /\ \E t \in Teams :
       /\ subs' = [subs EXCEPT ![s] = @ \ {t}]
       /\ renounced' = [renounced EXCEPT ![s] = @ \cup {t}]
  /\ SendMessage({s}, "confirmation")
  /\ UNCHANGED <<server, ready, phase, authed, userTeams, loading, loaded,
                 unsubscribing, stats, granted>>

\* "unsubscribe-user-teams" reads the profile first; one request at a time.
UnsubscribeUserTeams(s) ==
  /\ Listening(s)
  /\ ~unsubscribing[s]
  /\ unsubscribing' = [unsubscribing EXCEPT ![s] = TRUE]
  /\ sent' = {}
  /\ UNCHANGED <<server, ready, phase, authed, subs, userTeams, loading,
                 loaded, stats, renounced, granted>>

\* The profile came, and the favorites it has now are dropped; or it did not.
UserTeamsUnsubscribed(s) ==
  /\ unsubscribing[s]
  /\ unsubscribing' = [unsubscribing EXCEPT ![s] = FALSE]
  /\ \/ subs' = [subs EXCEPT ![s] = @ \ favorites[UserOf[s]]]
     \/ UNCHANGED subs
  /\ SendMessage({s}, "confirmation")
  /\ UNCHANGED <<server, ready, phase, authed, userTeams, loading, loaded,
                 stats, renounced, granted>>

\* "subscribe-user-teams" is only confirmed; a message without type, data and
\* timestamp, of an unknown type or without a team is only answered.
Answered(s) ==
  /\ Listening(s)
  /\ SendMessage({s}, "confirmation")
  /\ UNCHANGED <<server, sockvars, stats, renounced, granted>>

-----------------------------------------------------------------------------
\* The end of a socket.

\* Bug: both close listeners count.
BugClosedTwice(s) ==
  /\ ready[s] \in {"open", "closing"}
  /\ ready' = [ready EXCEPT ![s] = "closed"]
  /\ stats' = [stats EXCEPT !.disconnections = @ + IF phase[s] = "ready" THEN 2 ELSE 1]
  /\ sent' = {}
  /\ UNCHANGED <<server, phase, authed, subs, userTeams, loading, loaded,
                 unsubscribing, renounced, granted>>

\* Only the listener attached after the handshake counts.
Closed(s) ==
  /\ ready[s] \in {"open", "closing"}
  /\ ready' = [ready EXCEPT ![s] = "closed"]
  /\ stats' = [stats EXCEPT !.disconnections = @ + IF phase[s] = "ready" THEN 1 ELSE 0]
  /\ sent' = {}
  /\ UNCHANGED <<server, phase, authed, subs, userTeams, loading, loaded,
                 unsubscribing, renounced, granted>>

\* One error listener is attached at once, a second one after the handshake.
SocketFails(s) ==
  /\ ready[s] = "open"
  /\ ready' = [ready EXCEPT ![s] = "closing"]
  /\ stats' = [stats EXCEPT !.errors = @ + IF phase[s] = "ready" THEN 2 ELSE 1]
  /\ sent' = {}
  /\ UNCHANGED <<server, phase, authed, subs, userTeams, loading, loaded,
                 unsubscribing, renounced, granted>>

-----------------------------------------------------------------------------
\* Broadcasts.

Audience == {s \in Clients : authed[s]}

\* broadcastToUsers; no target means everyone.
BroadcastToUsers ==
  /\ \E users \in SUBSET Users :
       SendMessage({s \in Audience : users = {} \/ UserOf[s] \in users}, "users")
  /\ UNCHANGED <<server, sockvars, stats, renounced, granted>>

\* broadcastToTeamSubscribers
BroadcastToTeamSubscribers ==
  /\ \E teams \in (SUBSET Teams) \ {{}} :
       SendMessage({s \in Audience : subs[s] \cap teams # {}}, "team")
  /\ UNCHANGED <<server, sockvars, stats, renounced, granted>>

\* Bug: everyone connected hears a broadcast without teams.
BugBroadcastAll ==
  /\ \E teams \in SUBSET Teams :
       SendMessage({s \in Clients : teams = {} \/ subs[s] \cap teams # {}}, "any")
  /\ UNCHANGED <<server, sockvars, stats, renounced, granted>>

\* broadcast: a payload without teamIds goes to everyone.
Broadcast ==
  /\ \E teams \in SUBSET Teams :
       SendMessage({s \in Audience : teams = {} \/ subs[s] \cap teams # {}}, "any")
  /\ UNCHANGED <<server, sockvars, stats, renounced, granted>>

\* shouldSendUpdate
ShouldSend(id) == lastUpdate[id] # None => now - lastUpdate[id] >= ThrottleMs

\* broadcastUserTeamUpdate, not throttled.
BroadcastUserTeamUpdate ==
  /\ \E u \in Updates :
       /\ ShouldSend(u.id)
       /\ lastUpdate' = [lastUpdate EXCEPT ![u.id] = now]
       /\ passed' = [passed EXCEPT ![u.game] = now]
       /\ SendMessage({s \in Audience : userTeams[s] \cap u.teams # {}}, "team")
  /\ UNCHANGED <<favorites, edits, sockvars, stats, now, renounced, granted>>

\* broadcastUserTeamStatusChange
BroadcastUserTeamStatusChange ==
  /\ \E t \in Teams : SendMessage({s \in Audience : t \in userTeams[s]}, "team")
  /\ UNCHANGED <<server, sockvars, stats, renounced, granted>>

\* getUsersWithFavoriteTeam goes by the connections, getUserConnections by the user.
UsersWithFavoriteTeam(t) == {UserOf[s] : s \in {c \in Audience : t \in userTeams[c]}}
UserConnections(user) == {s \in Audience : UserOf[s] = user /\ ready[s] = "open"}

\* broadcastUserTeamUpdateWithRetry, not throttled: a user with several
\* connections is met once for each, and they are many copies of one message.
\* What it sends to is open, and what it retries for, a server that is not
\* initialized, does not happen between connections.
BroadcastUserTeamUpdateWithRetry ==
  /\ \E t \in Teams :
       SendMessage(UNION {UserConnections(user) : user \in UsersWithFavoriteTeam(t)}, "team")
  /\ UNCHANGED <<server, sockvars, stats, renounced, granted>>

\* Bug: the throttler forgets everything.
BugCleanup ==
  /\ lastUpdate' = [k \in Keys |-> None]
  /\ sent' = {}
  /\ UNCHANGED <<favorites, edits, sockvars, stats, now, history>>

\* The throttler forgets what is older than an hour.
Cleanup ==
  /\ lastUpdate' = [k \in Keys |->
       IF lastUpdate[k] # None /\ now - lastUpdate[k] > KeepMs
         THEN None ELSE lastUpdate[k]]
  /\ sent' = {}
  /\ UNCHANGED <<favorites, edits, sockvars, stats, now, history>>

-----------------------------------------------------------------------------

\* PUT /api/user/profile changes a user's favorite teams.
EditProfile ==
  /\ edits < MaxEdits
  /\ edits' = edits + 1
  /\ \E u \in Users, T \in SUBSET Teams : favorites' = [favorites EXCEPT ![u] = T]
  /\ sent' = {}
  /\ UNCHANGED <<sockvars, stats, lastUpdate, now, history>>

Tick ==
  /\ now < MaxTime
  /\ now' = now + 1
  /\ sent' = {}
  /\ UNCHANGED <<favorites, edits, sockvars, stats, lastUpdate, history>>

Handshake(s) ==
  \/ Authenticated(s) \/ NotAuthenticated(s)
  \/ ProfileRead(s) \/ ProfileMissing(s) \/ TeamRead(s)

Message(s) ==
  \/ Subscribe(s) \/ Unsubscribe(s) \/ UnsubscribeUserTeams(s)
  \/ UserTeamsUnsubscribed(s) \/ Answered(s)

Next ==
  \/ \E s \in Sockets : Connect(s) \/ Handshake(s) \/ Message(s) \/ Closed(s) \/ SocketFails(s)
  \/ BroadcastToUsers \/ BroadcastToTeamSubscribers \/ Broadcast
  \/ BroadcastUserTeamUpdate \/ BroadcastUserTeamStatusChange
  \/ BroadcastUserTeamUpdateWithRetry
  \/ Cleanup \/ EditProfile \/ Tick

Spec == Init /\ [][Next]_vars

\* Every await of the handshake settles, and a socket that is closing closes.
Fairness ==
  \A s \in Sockets :
    /\ WF_vars(Handshake(s))
    /\ WF_vars(ready[s] = "closing" /\ Closed(s))

FairSpec == Spec /\ Fairness

-----------------------------------------------------------------------------

\* Nothing is sent to a socket that has not authenticated or is not open,
\* although the handshake goes on while the socket fails or closes.
ReachesOnlyLive ==
  [][\A m \in sent' : authed'[m.to] /\ ready[m.to] = "open"]_vars

\* A socket is subscribed only to teams it asked for, or that were favorites
\* of its user with details when it connected.
SubsGranted == \A s \in Sockets : subs[s] \subseteq granted[s]

\* A team that a client unsubscribed from stays out until it is asked for
\* again: the favorites being loaded cannot bring it back.
UnsubscribedStaysOut == \A s \in Sockets : subs[s] \cap renounced[s] = {}

\* Connections minus disconnections never falls below the sockets there are,
\* whatever order a socket's handshake, error and close come in.
ConnectionsCovered ==
  stats.connections - stats.disconnections >= Cardinality(Clients)

\* Two score updates of a game go out at least the throttle interval apart,
\* although the throttler forgets old entries.  It holds of callers that give
\* a game the same id each time.
ThrottleSpacing ==
  [][\A g \in Games :
       (passed[g] # None /\ passed'[g] # passed[g])
         => passed'[g] - passed[g] >= ThrottleMs]_vars

\* A connection is accepted with its listeners attached, or closed.
HandshakeSettles ==
  \A s \in Sockets :
    (phase[s] = "auth") ~> (phase[s] = "ready" \/ ready[s] = "closed")

=============================================================================
