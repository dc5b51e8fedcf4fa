----------------------------- MODULE WsServerProofs -----------------------------
(***************************************************************************)
(* The safety properties of WsServer, for any number of sockets, users,    *)
(* teams and games.  They rest on what the phase of a handshake says about *)
(* the other fields of its socket.                                         *)
(***************************************************************************)
EXTENDS WsServer, FiniteSetTheorems, TLAPS

\* A socket is loading favorites or has listeners only once it authenticated,
\* and nobody unsubscribed from anything before it has listeners.
HandshakeOrder ==
  \A s \in Sockets :
    /\ phase[s] \in {"profile", "teams", "ready"} => authed[s]
    /\ unsubscribing[s] => phase[s] = "ready"
    /\ phase[s] # "ready" => renounced[s] = {}

\* A handshake starts with the connection.
NewUntilConnected == \A s \in Sockets : ready[s] = "none" => phase[s] = "new"

IInv ==
  /\ TypeOK
  /\ HandshakeOrder
  /\ NewUntilConnected
  /\ SubsGranted
  /\ UnsubscribedStaysOut

-----------------------------------------------------------------------------
\* Messages.

\* What is sent to sockets has the type of sent.
LEMMA SendMessageType ==
  ASSUME NEW to \in SUBSET Sockets, NEW kind \in Kinds, SendMessage(to, kind)
  PROVE  sent' \subseteq [to : Sockets, kind : Kinds]
BY DEF SendMessage

\* Only open sockets of those addressed are sent to.
LEMMA SendMessageTo ==
  ASSUME NEW to \in SUBSET Sockets, NEW kind, SendMessage(to, kind), NEW m \in sent'
  PROVE  m.to \in to /\ ready[m.to] = "open"
BY DEF SendMessage

-----------------------------------------------------------------------------
\* Types.

\* The variables that are not the sockets'.
ServerOK ==
  /\ favorites \in [Users -> SUBSET Teams]
  /\ edits \in 0..MaxEdits
  /\ lastUpdate \in [Keys -> Maybe(Nat)]
  /\ now \in 0..MaxTime
  /\ passed \in [Games -> Maybe(Nat)]

\* The sockets' variables; two of them are Booleans.
SocketsOK ==
  /\ ready \in [Sockets -> {"none", "open", "closing", "closed"}]
  /\ phase \in [Sockets -> Phases]
  /\ subs \in [Sockets -> SUBSET Teams]
  /\ userTeams \in [Sockets -> SUBSET Teams]
  /\ loading \in [Sockets -> SUBSET Teams]
  /\ loaded \in [Sockets -> SUBSET KnownTeams]
  /\ renounced \in [Sockets -> SUBSET Teams]
  /\ granted \in [Sockets -> SUBSET Teams]

FlagsOK ==
  /\ authed \in [Sockets -> BOOLEAN]
  /\ unsubscribing \in [Sockets -> BOOLEAN]

StatsOK == stats \in [connections : Nat, disconnections : Nat, authFailures : Nat, errors : Nat]

SentOK == sent \subseteq [to : Sockets, kind : Kinds]

\* The type invariant gives the parts,
LEMMA TypeOKParts ==
  ASSUME TypeOK
  PROVE  ServerOK /\ SocketsOK /\ FlagsOK /\ StatsOK
BY DEF TypeOK, ServerOK, SocketsOK, FlagsOK, StatsOK

\* and after a step the parts give it back.
LEMMA TypeOKPrime ==
  ASSUME ServerOK', SocketsOK', FlagsOK', StatsOK', SentOK'
  PROVE  TypeOK'
BY DEF TypeOK, ServerOK, SocketsOK, FlagsOK, StatsOK, SentOK

\* A step of one socket leaves the server's part alone.
LEMMA ServerUnchanged == ASSUME ServerOK, UNCHANGED server PROVE ServerOK'
BY DEF ServerOK, server

\* Setting a flag of one socket keeps the flags Boolean.
LEMMA FlagUpdate ==
  ASSUME NEW f \in [Sockets -> BOOLEAN], NEW s \in Sockets, NEW b \in BOOLEAN
  PROVE  [f EXCEPT ![s] = b] \in [Sockets -> BOOLEAN]
OBVIOUS

\* A new server has the types.
LEMMA InitType == Init => TypeOK
<1> SUFFICES ASSUME Init PROVE TypeOK
  OBVIOUS
<1>1. ServerOK
  BY WsAssumption DEF Init, ServerOK, Maybe, Keys
<1>2. SocketsOK
  BY DEF Init, SocketsOK, Phases
<1>3. FlagsOK
  BY DEF Init, FlagsOK
<1>4. StatsOK
  BY DEF Init, StatsOK
<1>5. QED
  BY <1>1, <1>2, <1>3, <1>4 DEF Init, TypeOK, ServerOK, SocketsOK, FlagsOK, StatsOK

\* The handshake keeps them.
LEMMA HandshakeType ==
  ASSUME TypeOK, NEW s \in Sockets, Connect(s) \/ Handshake(s)
  PROVE  TypeOK'
<1>0. ServerOK /\ SocketsOK /\ FlagsOK /\ StatsOK
  BY TypeOKParts
<1>1. CASE Connect(s)
  <2>1. ServerOK' /\ SentOK'
    BY <1>0, <1>1, ServerUnchanged DEF Connect, SentOK
  <2>2. SocketsOK' /\ StatsOK'
    BY <1>0, <1>1 DEF Connect, SocketsOK, StatsOK, Phases
  <2>3. FlagsOK'
    BY <1>0, <1>1 DEF Connect, FlagsOK
  <2>4. QED BY <2>1, <2>2, <2>3, TypeOKPrime
<1>2. CASE Authenticated(s)
  <2>1. ServerOK' /\ SentOK'
    BY <1>0, <1>2, ServerUnchanged, SendMessageType DEF Authenticated, SentOK, Kinds
  <2>2. SocketsOK' /\ StatsOK'
    BY <1>0, <1>2 DEF Authenticated, SocketsOK, StatsOK, Phases
  <2>3. FlagsOK'
    BY <1>0, <1>2, FlagUpdate DEF Authenticated, FlagsOK
  <2>4. QED BY <2>1, <2>2, <2>3, TypeOKPrime
<1>3. CASE NotAuthenticated(s)
  <2>1. ServerOK' /\ SentOK'
    BY <1>0, <1>3, ServerUnchanged DEF NotAuthenticated, SentOK
  <2>2. SocketsOK' /\ StatsOK'
    BY <1>0, <1>3 DEF NotAuthenticated, SocketsOK, StatsOK, Phases
  <2>3. FlagsOK'
    BY <1>0, <1>3 DEF NotAuthenticated, FlagsOK
  <2>4. QED BY <2>1, <2>2, <2>3, TypeOKPrime
<1>4. CASE ProfileRead(s)
  <2>1. ServerOK' /\ SentOK'
    BY <1>0, <1>4, ServerUnchanged, SendMessageType DEF ProfileRead, SentOK, Kinds
  <2>2. favorites[UserOf[s]] \in SUBSET Teams
    BY <1>0, WsAssumption DEF ServerOK
  <2>3. SocketsOK' /\ StatsOK'
    BY <1>0, <1>4, <2>2 DEF ProfileRead, SocketsOK, StatsOK, Phases
  <2>4. FlagsOK'
    BY <1>0, <1>4 DEF ProfileRead, FlagsOK
  <2>5. QED BY <2>1, <2>3, <2>4, TypeOKPrime
<1>5. CASE ProfileMissing(s)
  <2>1. ServerOK' /\ SentOK'
    BY <1>0, <1>5, ServerUnchanged, SendMessageType DEF ProfileMissing, SentOK, Kinds
  <2>2. SocketsOK' /\ StatsOK'
    BY <1>0, <1>5 DEF ProfileMissing, SocketsOK, StatsOK, Phases
  <2>3. FlagsOK'
    BY <1>0, <1>5 DEF ProfileMissing, FlagsOK
  <2>4. QED BY <2>1, <2>2, <2>3, TypeOKPrime
<1>6. CASE TeamRead(s)
  <2>1. ServerOK' /\ SentOK'
    BY <1>0, <1>6, ServerUnchanged, SendMessageType DEF TeamRead, SentOK, Kinds
  <2>2. PICK t \in loading[s], found \in BOOLEAN :
          /\ found => t \in KnownTeams
          /\ loading' = [loading EXCEPT ![s] = @ \ {t}]
          /\ loaded' = [loaded EXCEPT ![s] = IF found THEN @ \cup {t} ELSE @]
    BY <1>6 DEF TeamRead
  <2>3. /\ loading' \in [Sockets -> SUBSET Teams]
        /\ loaded' \in [Sockets -> SUBSET KnownTeams]
    <3>1. loading' \in [Sockets -> SUBSET Teams]
      BY <1>0, <2>2 DEF SocketsOK
    <3>2. CASE found
      BY <1>0, <2>2, <3>1, <3>2 DEF SocketsOK
    <3>3. CASE ~found
      BY <1>0, <2>2, <3>1, <3>3 DEF SocketsOK
    <3>4. QED BY <3>2, <3>3
  <2>4. loaded'[s] \in SUBSET Teams
    BY <2>3, WsAssumption
  <2>5. /\ phase' \in [Sockets -> Phases]
        /\ subs' \in [Sockets -> SUBSET Teams]
        /\ granted' \in [Sockets -> SUBSET Teams]
    BY <1>0, <1>6, <2>4 DEF TeamRead, SubscribeLoaded, SocketsOK, Phases
  <2>6. SocketsOK' /\ StatsOK'
    BY <1>0, <1>6, <2>3, <2>5 DEF TeamRead, SocketsOK, StatsOK
  <2>7. FlagsOK'
    BY <1>0, <1>6 DEF TeamRead, FlagsOK
  <2>8. QED BY <2>1, <2>6, <2>7, TypeOKPrime
<1>7. QED BY <1>1, <1>2, <1>3, <1>4, <1>5, <1>6 DEF Handshake

\* The client's messages keep them.
LEMMA MessageType ==
  ASSUME TypeOK, NEW s \in Sockets, Message(s)
  PROVE  TypeOK'
<1>0. ServerOK /\ SocketsOK /\ FlagsOK /\ StatsOK
  BY TypeOKParts
<1>1. CASE Subscribe(s)
  <2>1. ServerOK' /\ SentOK'
    BY <1>0, <1>1, ServerUnchanged, SendMessageType DEF Subscribe, SentOK, Kinds
  <2>2. SocketsOK' /\ StatsOK'
    BY <1>0, <1>1 DEF Subscribe, SocketsOK, StatsOK
  <2>3. FlagsOK'
    BY <1>0, <1>1 DEF Subscribe, FlagsOK
  <2>4. QED BY <2>1, <2>2, <2>3, TypeOKPrime
<1>2. CASE Unsubscribe(s)
  <2>1. ServerOK' /\ SentOK'
    BY <1>0, <1>2, ServerUnchanged, SendMessageType DEF Unsubscribe, SentOK, Kinds
  <2>2. SocketsOK' /\ StatsOK'
    BY <1>0, <1>2 DEF Unsubscribe, SocketsOK, StatsOK
  <2>3. FlagsOK'
    BY <1>0, <1>2 DEF Unsubscribe, FlagsOK
  <2>4. QED BY <2>1, <2>2, <2>3, TypeOKPrime
<1>3. CASE UnsubscribeUserTeams(s)
  <2>1. ServerOK' /\ SentOK'
    BY <1>0, <1>3, ServerUnchanged DEF UnsubscribeUserTeams, SentOK
  <2>2. SocketsOK' /\ StatsOK'
    BY <1>0, <1>3 DEF UnsubscribeUserTeams, SocketsOK, StatsOK
  <2>3. FlagsOK'
    BY <1>0, <1>3, FlagUpdate DEF UnsubscribeUserTeams, FlagsOK
  <2>4. QED BY <2>1, <2>2, <2>3, TypeOKPrime
<1>4. CASE UserTeamsUnsubscribed(s)
  <2>1. ServerOK' /\ SentOK'
    BY <1>0, <1>4, ServerUnchanged, SendMessageType DEF UserTeamsUnsubscribed, SentOK, Kinds
  <2>2. SocketsOK' /\ StatsOK'
    BY <1>0, <1>4 DEF UserTeamsUnsubscribed, SocketsOK, StatsOK
  <2>3. FlagsOK'
    BY <1>0, <1>4, FlagUpdate DEF UserTeamsUnsubscribed, FlagsOK
  <2>4. QED BY <2>1, <2>2, <2>3, TypeOKPrime
<1>5. CASE Answered(s)
  <2>1. ServerOK' /\ SentOK'
    BY <1>0, <1>5, ServerUnchanged, SendMessageType DEF Answered, SentOK, Kinds
  <2>2. SocketsOK' /\ StatsOK'
    BY <1>0, <1>5 DEF Answered, SocketsOK, StatsOK, sockvars
  <2>3. FlagsOK'
    BY <1>0, <1>5 DEF Answered, FlagsOK, sockvars
  <2>4. QED BY <2>1, <2>2, <2>3, TypeOKPrime
<1>6. QED BY <1>1, <1>2, <1>3, <1>4, <1>5 DEF Message

\* The end of a socket keeps them.
LEMMA EndType ==
  ASSUME TypeOK, NEW s \in Sockets, Closed(s) \/ SocketFails(s)
  PROVE  TypeOK'
<1>0. ServerOK /\ SocketsOK /\ FlagsOK /\ StatsOK
  BY TypeOKParts
<1>1. ServerOK' /\ SentOK'
  BY <1>0, ServerUnchanged DEF Closed, SocketFails, SentOK
<1>2. SocketsOK'
  BY <1>0 DEF Closed, SocketFails, SocketsOK
<1>3. StatsOK'
  BY <1>0 DEF Closed, SocketFails, StatsOK
<1>4. FlagsOK'
  BY <1>0 DEF Closed, SocketFails, FlagsOK
<1>5. QED BY <1>1, <1>2, <1>3, <1>4, TypeOKPrime

\* The sockets' fields and their history are left alone.
SocketsRest == UNCHANGED <<sockvars, stats, renounced, granted>>

\* The steps the server takes by itself, for no socket in particular.
ServerStep ==
  \/ BroadcastToUsers \/ BroadcastToTeamSubscribers \/ Broadcast
  \/ BroadcastUserTeamUpdate \/ BroadcastUserTeamStatusChange
  \/ BroadcastUserTeamUpdateWithRetry
  \/ Cleanup \/ EditProfile \/ Tick

\* Broadcasts, the throttler's cleanup, profile edits and the clock leave the
\* sockets as they are.
LEMMA ServerStepRest == ASSUME ServerStep PROVE SocketsRest
BY DEF ServerStep, SocketsRest, history, BroadcastToUsers, BroadcastToTeamSubscribers,
       Broadcast, BroadcastUserTeamUpdate, BroadcastUserTeamStatusChange,
       BroadcastUserTeamUpdateWithRetry, Cleanup, EditProfile, Tick

\* Every broadcast is addressed to authenticated clients.
LEMMA BroadcastTo ==
  ASSUME ServerStep, sent' # {}
  PROVE  \E to \in SUBSET Audience, kind \in Kinds : SendMessage(to, kind)
<1>1. CASE BroadcastToUsers
  BY <1>1 DEF BroadcastToUsers, Kinds
<1>2. CASE BroadcastToTeamSubscribers
  BY <1>2 DEF BroadcastToTeamSubscribers, Kinds
<1>3. CASE Broadcast
  BY <1>3 DEF Broadcast, Kinds
<1>4. CASE BroadcastUserTeamUpdate
  BY <1>4 DEF BroadcastUserTeamUpdate, Kinds
<1>5. CASE BroadcastUserTeamStatusChange
  BY <1>5 DEF BroadcastUserTeamStatusChange, Kinds
<1>6. CASE Cleanup \/ EditProfile \/ Tick
  BY <1>6 DEF Cleanup, EditProfile, Tick
<1>7. CASE BroadcastUserTeamUpdateWithRetry
  <2>1. PICK t \in Teams :
          SendMessage(UNION {UserConnections(user) : user \in UsersWithFavoriteTeam(t)}, "team")
    BY <1>7 DEF BroadcastUserTeamUpdateWithRetry
  <2>2. UNION {UserConnections(user) : user \in UsersWithFavoriteTeam(t)} \subseteq Audience
    BY DEF UserConnections
  <2>3. QED BY <2>1, <2>2 DEF Kinds
<1>8. QED BY <1>1, <1>2, <1>3, <1>4, <1>5, <1>6, <1>7 DEF ServerStep

\* These steps keep the types.
LEMMA ServerStepType == ASSUME TypeOK, ServerStep PROVE TypeOK'
<1>0. ServerOK /\ SocketsOK /\ FlagsOK /\ StatsOK
  BY TypeOKParts
<1>1. SocketsOK' /\ StatsOK'
  BY <1>0, ServerStepRest DEF SocketsRest, sockvars, SocketsOK, StatsOK
<1>2. FlagsOK'
  BY <1>0, ServerStepRest DEF SocketsRest, sockvars, FlagsOK
<1>3. SentOK'
  <2>1. Audience \subseteq Sockets
    BY DEF Audience, Clients
  <2>2. QED BY <2>1, BroadcastTo, SendMessageType DEF SentOK
<1>4. ServerOK'
  <2>1. CASE UNCHANGED server
    BY <1>0, <2>1, ServerUnchanged
  <2>2. CASE BroadcastUserTeamUpdate
    <3>1. PICK u \in Updates :
            /\ lastUpdate' = [lastUpdate EXCEPT ![u.id] = now]
            /\ passed' = [passed EXCEPT ![u.game] = now]
      BY <2>2 DEF BroadcastUserTeamUpdate
    <3>2. now \in Nat
      BY <1>0, WsAssumption DEF ServerOK
    <3>3. QED BY <1>0, <2>2, <3>1, <3>2 DEF BroadcastUserTeamUpdate, ServerOK, Maybe
  <2>3. CASE Cleanup
    BY <1>0, <2>3 DEF Cleanup, ServerOK, Maybe, history
  <2>4. CASE EditProfile
    BY <1>0, <2>4, WsAssumption DEF EditProfile, ServerOK, history
  <2>5. CASE Tick
    BY <1>0, <2>5, WsAssumption DEF Tick, ServerOK, history
  <2>6. QED
    BY <2>1, <2>2, <2>3, <2>4, <2>5
       DEF ServerStep, BroadcastToUsers, BroadcastToTeamSubscribers, Broadcast,
           BroadcastUserTeamStatusChange, BroadcastUserTeamUpdateWithRetry
<1>5. QED BY <1>1, <1>2, <1>3, <1>4, TypeOKPrime

-----------------------------------------------------------------------------
\* Subscriptions.

\* A new server satisfies the invariant.
LEMMA InitIInv == Init => IInv
<1> SUFFICES ASSUME Init PROVE IInv
  OBVIOUS
<1>1. HandshakeOrder /\ NewUntilConnected /\ SubsGranted /\ UnsubscribedStaysOut
  BY DEF Init, HandshakeOrder, NewUntilConnected, SubsGranted, UnsubscribedStaysOut
<1>2. QED BY <1>1, InitType DEF IInv

\* The order of a handshake is kept when one socket's fields change in
\* accordance with it.
LEMMA OrderKept ==
  ASSUME SocketsOK, FlagsOK, HandshakeOrder, NEW s \in Sockets,
         \A r \in Sockets \ {s} :
           /\ phase'[r] = phase[r]
           /\ authed'[r] = authed[r]
           /\ unsubscribing'[r] = unsubscribing[r]
           /\ renounced'[r] = renounced[r],
         phase'[s] \in {"profile", "teams", "ready"} => authed'[s],
         unsubscribing'[s] => phase'[s] = "ready",
         phase'[s] # "ready" => renounced'[s] = {}
  PROVE  HandshakeOrder'
<1> SUFFICES ASSUME NEW r \in Sockets
             PROVE  /\ phase'[r] \in {"profile", "teams", "ready"} => authed'[r]
                    /\ unsubscribing'[r] => phase'[r] = "ready"
                    /\ phase'[r] # "ready" => renounced'[r] = {}
  BY DEF HandshakeOrder
<1>1. CASE r = s
  BY <1>1
<1>2. CASE r # s
  BY <1>2 DEF HandshakeOrder
<1>3. QED BY <1>1, <1>2

\* A handshake keeps to its order, and grants what it subscribes to.
LEMMA HandshakeKeeps ==
  ASSUME IInv, NEW s \in Sockets, Connect(s) \/ Handshake(s)
  PROVE  HandshakeOrder' /\ SubsGranted' /\ UnsubscribedStaysOut'
<1>0. SocketsOK /\ FlagsOK /\ HandshakeOrder /\ SubsGranted /\ UnsubscribedStaysOut
  BY TypeOKParts DEF IInv
<1>1. CASE Connect(s)
  <2>1. phase[s] = "new"
    BY <1>1 DEF Connect, IInv, NewUntilConnected
  <2>2. HandshakeOrder'
    BY <1>0, <1>1, <2>1 DEF Connect, HandshakeOrder, SocketsOK
  <2>3. QED BY <1>0, <1>1, <2>2 DEF Connect, SubsGranted, UnsubscribedStaysOut
<1>2. CASE Authenticated(s)
  <2>1. authed'[s] /\ phase'[s] = "profile" /\ ~unsubscribing'[s] /\ renounced'[s] = {}
    BY <1>0, <1>2 DEF Authenticated, SocketsOK, FlagsOK, HandshakeOrder
  <2>2. \A r \in Sockets \ {s} :
          /\ phase'[r] = phase[r]
          /\ authed'[r] = authed[r]
          /\ unsubscribing'[r] = unsubscribing[r]
          /\ renounced'[r] = renounced[r]
    BY <1>0, <1>2 DEF Authenticated, SocketsOK, FlagsOK
  <2>3. HandshakeOrder'
    BY <1>0, <2>1, <2>2, OrderKept
  <2>4. QED BY <1>0, <1>2, <2>3 DEF Authenticated, SocketsOK, SubsGranted, UnsubscribedStaysOut
<1>3. CASE NotAuthenticated(s)
  <2>1. HandshakeOrder'
    BY <1>0, <1>3 DEF NotAuthenticated, HandshakeOrder, SocketsOK
  <2>2. QED BY <1>0, <1>3, <2>1 DEF NotAuthenticated, SubsGranted, UnsubscribedStaysOut
<1>4. CASE ProfileRead(s)
  <2>1. HandshakeOrder'
    BY <1>0, <1>4 DEF ProfileRead, HandshakeOrder, SocketsOK
  <2>2. QED BY <1>0, <1>4, <2>1 DEF ProfileRead, SubsGranted, UnsubscribedStaysOut
<1>5. CASE ProfileMissing(s)
  <2>1. HandshakeOrder'
    BY <1>0, <1>5 DEF ProfileMissing, HandshakeOrder, SocketsOK
  <2>2. QED BY <1>0, <1>5, <2>1 DEF ProfileMissing, SubsGranted, UnsubscribedStaysOut
<1>6. CASE TeamRead(s)
  <2>1. CASE loading'[s] = {}
    <3>1. /\ phase' = [phase EXCEPT ![s] = "ready"]
          /\ subs' = [subs EXCEPT ![s] = @ \cup loaded'[s]]
          /\ granted' = [granted EXCEPT ![s] = @ \cup loaded'[s]]
          /\ authed' = authed /\ unsubscribing' = unsubscribing /\ renounced' = renounced
      BY <1>6, <2>1 DEF TeamRead, SubscribeLoaded
    <3>2. renounced[s] = {}
      BY <1>0, <1>6 DEF TeamRead, HandshakeOrder
    <3>3. HandshakeOrder'
      BY <1>0, <1>6, <3>1 DEF TeamRead, HandshakeOrder, SocketsOK
    <3>4. QED BY <1>0, <3>1, <3>2, <3>3 DEF SocketsOK, SubsGranted, UnsubscribedStaysOut
  <2>2. CASE loading'[s] # {}
    <3>1. UNCHANGED <<phase, subs, granted, authed, unsubscribing, renounced>>
      BY <1>6, <2>2 DEF TeamRead
    <3>2. QED BY <1>0, <3>1 DEF HandshakeOrder, SubsGranted, UnsubscribedStaysOut
  <2>3. QED BY <2>1, <2>2
<1>7. QED BY <1>1, <1>2, <1>3, <1>4, <1>5, <1>6 DEF Handshake

\* A message changes subscriptions together with what was asked for.
LEMMA MessageKeeps ==
  ASSUME IInv, NEW s \in Sockets, Message(s)
  PROVE  HandshakeOrder' /\ SubsGranted' /\ UnsubscribedStaysOut'
<1>0. SocketsOK /\ FlagsOK /\ HandshakeOrder /\ SubsGranted /\ UnsubscribedStaysOut
  BY TypeOKParts DEF IInv
<1>1. CASE Subscribe(s)
  <2>1. HandshakeOrder'
    BY <1>0, <1>1 DEF Subscribe, Listening, HandshakeOrder, SocketsOK
  <2>2. QED BY <1>0, <1>1, <2>1 DEF Subscribe, SocketsOK, SubsGranted, UnsubscribedStaysOut
<1>2. CASE Unsubscribe(s)
  <2>1. HandshakeOrder'
    BY <1>0, <1>2 DEF Unsubscribe, Listening, HandshakeOrder, SocketsOK
  <2>2. QED BY <1>0, <1>2, <2>1 DEF Unsubscribe, SocketsOK, SubsGranted, UnsubscribedStaysOut
<1>3. CASE UnsubscribeUserTeams(s)
  <2>1. phase[s] = "ready" /\ phase' = phase /\ authed' = authed /\ renounced' = renounced
    BY <1>3 DEF UnsubscribeUserTeams, Listening
  <2>2. authed'[s]
    BY <1>0, <2>1 DEF HandshakeOrder
  <2>3. \A r \in Sockets \ {s} : unsubscribing'[r] = unsubscribing[r]
    BY <1>0, <1>3 DEF UnsubscribeUserTeams, FlagsOK
  <2>4. HandshakeOrder'
    BY <1>0, <2>1, <2>2, <2>3, OrderKept
  <2>5. QED BY <1>0, <1>3, <2>4 DEF UnsubscribeUserTeams, SubsGranted, UnsubscribedStaysOut
<1>4. CASE UserTeamsUnsubscribed(s)
  <2>1. phase[s] = "ready" /\ phase' = phase /\ authed' = authed /\ renounced' = renounced
    BY <1>0, <1>4 DEF UserTeamsUnsubscribed, HandshakeOrder
  <2>2. authed'[s]
    BY <1>0, <2>1 DEF HandshakeOrder
  <2>3. \A r \in Sockets \ {s} : unsubscribing'[r] = unsubscribing[r]
    BY <1>0, <1>4 DEF UserTeamsUnsubscribed, FlagsOK
  <2>4. HandshakeOrder'
    BY <1>0, <2>1, <2>2, <2>3, OrderKept
  <2>5. \A r \in Sockets : subs'[r] \subseteq subs[r]
    BY <1>0, <1>4 DEF UserTeamsUnsubscribed, SocketsOK
  <2>6. granted' = granted
    BY <1>4 DEF UserTeamsUnsubscribed
  <2>7. QED BY <1>0, <2>1, <2>4, <2>5, <2>6 DEF SubsGranted, UnsubscribedStaysOut
<1>5. CASE Answered(s)
  BY <1>0, <1>5 DEF Answered, sockvars, HandshakeOrder, SubsGranted, UnsubscribedStaysOut
<1>6. QED BY <1>1, <1>2, <1>3, <1>4, <1>5 DEF Message

\* Only a connection starts a handshake.
LEMMA NewKept ==
  ASSUME SocketsOK, NewUntilConnected, [Next]_vars
  PROVE  NewUntilConnected'
<1>1. CASE \E s \in Sockets : Connect(s) \/ Handshake(s)
  <2>1. PICK s \in Sockets : Connect(s) \/ Handshake(s)
    BY <1>1
  <2>2. /\ ready'[s] # "none"
        /\ \A r \in Sockets \ {s} : ready'[r] = ready[r] /\ phase'[r] = phase[r]
    <3>1. CASE Connect(s)
      BY <3>1 DEF Connect, SocketsOK
    <3>2. CASE Authenticated(s) \/ NotAuthenticated(s)
      BY <3>2 DEF Authenticated, NotAuthenticated, SocketsOK, NewUntilConnected
    <3>3. CASE ProfileRead(s) \/ ProfileMissing(s)
      BY <3>3 DEF ProfileRead, ProfileMissing, SocketsOK, NewUntilConnected
    <3>4. CASE TeamRead(s)
      BY <3>4 DEF TeamRead, SocketsOK, NewUntilConnected
    <3>5. QED BY <2>1, <3>1, <3>2, <3>3, <3>4 DEF Handshake
  <2>3. QED BY <2>2 DEF NewUntilConnected
<1>2. CASE \E s \in Sockets : Closed(s) \/ SocketFails(s)
  BY <1>2 DEF Closed, SocketFails, SocketsOK, NewUntilConnected
<1>3. CASE \E s \in Sockets : Message(s)
  <2>1. UNCHANGED <<ready, phase>>
    BY <1>3 DEF Message, Subscribe, Unsubscribe, UnsubscribeUserTeams,
                UserTeamsUnsubscribed, Answered, sockvars
  <2>2. QED BY <2>1 DEF NewUntilConnected
<1>4. CASE ServerStep \/ UNCHANGED vars
  <2>1. UNCHANGED <<ready, phase>>
    BY <1>4, ServerStepRest DEF SocketsRest, sockvars, vars
  <2>2. QED BY <2>1 DEF NewUntilConnected
<1>5. QED BY <1>1, <1>2, <1>3, <1>4 DEF Next, ServerStep

\* Every step preserves the invariant.
LEMMA NextIInv == IInv /\ [Next]_vars => IInv'
<1> SUFFICES ASSUME IInv, [Next]_vars PROVE IInv'
  OBVIOUS
<1>0. NewUntilConnected'
  BY NewKept, TypeOKParts DEF IInv
<1>1. CASE \E s \in Sockets : Connect(s) \/ Handshake(s)
  BY <1>0, <1>1, HandshakeType, HandshakeKeeps DEF IInv
<1>2. CASE \E s \in Sockets : Message(s)
  BY <1>0, <1>2, MessageType, MessageKeeps DEF IInv
<1>3. CASE \E s \in Sockets : Closed(s) \/ SocketFails(s)
  <2>1. UNCHANGED <<phase, subs, authed, unsubscribing, renounced, granted>>
    BY <1>3 DEF Closed, SocketFails
  <2>2. HandshakeOrder' /\ SubsGranted' /\ UnsubscribedStaysOut'
    BY <2>1 DEF IInv, HandshakeOrder, SubsGranted, UnsubscribedStaysOut
  <2>3. QED BY <1>0, <1>3, <2>2, EndType DEF IInv
<1>4. CASE ServerStep
  <2>1. UNCHANGED <<phase, subs, authed, unsubscribing, renounced, granted>>
    BY <1>4, ServerStepRest DEF SocketsRest, sockvars
  <2>2. HandshakeOrder' /\ SubsGranted' /\ UnsubscribedStaysOut'
    BY <2>1 DEF IInv, HandshakeOrder, SubsGranted, UnsubscribedStaysOut
  <2>3. QED BY <1>0, <1>4, <2>2, ServerStepType DEF IInv
<1>5. CASE UNCHANGED vars
  <2>1. HandshakeOrder' /\ SubsGranted' /\ UnsubscribedStaysOut'
    BY <1>5 DEF vars, sockvars, history, IInv, HandshakeOrder, SubsGranted, UnsubscribedStaysOut
  <2>2. TypeOK'
    <3>1. ServerOK' /\ SocketsOK' /\ StatsOK' /\ SentOK'
      BY <1>5, TypeOKParts DEF vars, sockvars, history, IInv, TypeOK, ServerOK, SocketsOK, StatsOK, SentOK
    <3>2. FlagsOK'
      BY <1>5, TypeOKParts DEF vars, sockvars, IInv, FlagsOK
    <3>3. QED BY <3>1, <3>2, TypeOKPrime
  <2>3. QED BY <1>0, <2>1, <2>2 DEF IInv
<1>6. QED BY <1>1, <1>2, <1>3, <1>4, <1>5 DEF Next, ServerStep

\* The inductive invariant always holds.
THEOREM IInvHolds == Spec => []IInv
<1>1. Init => IInv
  BY InitIInv
<1>2. IInv /\ [Next]_vars => IInv'
  BY NextIInv
<1>3. QED BY <1>1, <1>2, PTL DEF Spec

\* Every variable has its type.
THEOREM TypeCorrect == Spec => []TypeOK
<1>1. IInv => TypeOK
  BY DEF IInv
<1>2. QED BY <1>1, IInvHolds, PTL

\* A socket is subscribed only to what it asked for or was granted as a
\* favorite when it connected.
THEOREM OnlyGranted == Spec => []SubsGranted
<1>1. IInv => SubsGranted
  BY DEF IInv
<1>2. QED BY <1>1, IInvHolds, PTL

\* What a client unsubscribed from stays out: favorites are subscribed to
\* before the client can be heard.
THEOREM RenouncedStaysOut == Spec => []UnsubscribedStaysOut
<1>1. IInv => UnsubscribedStaysOut
  BY DEF IInv
<1>2. QED BY <1>1, IInvHolds, PTL

-----------------------------------------------------------------------------
\* Recipients.

\* Nothing reaches a socket that is not authenticated or not open: a handshake
\* speaks to its socket from the authentication on, messages are only heard
\* after it, and broadcasts filter.
THEOREM OnlyLiveReached == Spec => ReachesOnlyLive
<1> DEFINE Reached == \A m \in sent' : authed'[m.to] /\ ready[m.to] = "open"
<1>1. ASSUME IInv, [Next]_vars PROVE [Reached]_vars
  <2>0. HandshakeOrder /\ FlagsOK
    BY <1>1, TypeOKParts DEF IInv
  <2>1. ASSUME NEW s \in Sockets, Connect(s) \/ Closed(s) \/ SocketFails(s) PROVE Reached
    BY <2>1 DEF Connect, Closed, SocketFails
  <2>2. ASSUME NEW s \in Sockets, Handshake(s) PROVE Reached
    <3>1. CASE Authenticated(s)
      <4>1. authed'[s]
        BY <2>0, <3>1 DEF Authenticated, FlagsOK
      <4>2. SendMessage({s}, "status")
        BY <3>1 DEF Authenticated
      <4>3. QED BY <4>1, <4>2, SendMessageTo
    <3>2. CASE NotAuthenticated(s)
      BY <3>2 DEF NotAuthenticated
    <3>3. CASE ProfileRead(s) \/ ProfileMissing(s) \/ TeamRead(s)
      <4>1. authed'[s]
        BY <2>0, <3>3 DEF ProfileRead, ProfileMissing, TeamRead, HandshakeOrder
      <4>2. SendMessage({s}, "teams-loaded") \/ sent' = {}
        BY <3>3 DEF ProfileRead, ProfileMissing, TeamRead
      <4>3. QED BY <4>1, <4>2, SendMessageTo
    <3>4. QED BY <2>2, <3>1, <3>2, <3>3 DEF Handshake
  <2>3. ASSUME NEW s \in Sockets, Message(s) PROVE Reached
    <3>1. authed'[s]
      BY <2>0, <2>3 DEF Message, Subscribe, Unsubscribe, UnsubscribeUserTeams,
         UserTeamsUnsubscribed, Answered, Listening, sockvars, HandshakeOrder
    <3>2. SendMessage({s}, "confirmation") \/ sent' = {}
      BY <2>3 DEF Message, Subscribe, Unsubscribe, UnsubscribeUserTeams,
         UserTeamsUnsubscribed, Answered
    <3>3. QED BY <3>1, <3>2, SendMessageTo
  <2>4. ASSUME ServerStep PROVE Reached
    <3>1. CASE sent' = {}
      BY <3>1
    <3>2. CASE sent' # {}
      <4>1. PICK to \in SUBSET Audience, kind \in Kinds : SendMessage(to, kind)
        BY <2>4, <3>2, BroadcastTo
      <4>2. to \subseteq Sockets /\ \A s \in to : authed[s]
        BY DEF Audience, Clients
      <4>3. authed' = authed
        BY <2>4, ServerStepRest DEF SocketsRest, sockvars
      <4>4. QED BY <4>1, <4>2, <4>3, SendMessageTo
    <3>3. QED BY <3>1, <3>2
  <2>5. QED BY <1>1, <2>1, <2>2, <2>3, <2>4 DEF Next, ServerStep
<1>2. QED BY <1>1, IInvHolds, PTL DEF Spec, ReachesOnlyLive

-----------------------------------------------------------------------------
\* Counting.

\* Clients are finitely many.
LEMMA ClientsFinite == IsFiniteSet(Clients) /\ Cardinality(Clients) \in Nat
<1>1. Clients \in SUBSET Sockets
  BY DEF Clients
<1>2. QED BY <1>1, WsAssumption, FS_Subset, FS_CardinalityType

\* The counters of connections never fall below the sockets there are: a
\* connection counts one and adds one, a close counts at most one and
\* removes one.
THEOREM CountersCover == Spec => []ConnectionsCovered
<1>1. Init => ConnectionsCovered
  <2> SUFFICES ASSUME Init PROVE ConnectionsCovered
    OBVIOUS
  <2>1. Clients = {}
    BY DEF Init, Clients
  <2>2. QED BY <2>1, FS_EmptySet DEF Init, ConnectionsCovered
<1>2. IInv /\ ConnectionsCovered /\ [Next]_vars => ConnectionsCovered'
  <2> SUFFICES ASSUME IInv, ConnectionsCovered, [Next]_vars PROVE ConnectionsCovered'
    OBVIOUS
  <2>0. SocketsOK /\ StatsOK
    BY TypeOKParts DEF IInv
  <2>a. stats.connections \in Nat /\ stats.disconnections \in Nat
    BY <2>0 DEF StatsOK
  <2>b. IsFiniteSet(Clients) /\ Cardinality(Clients) \in Nat
    BY ClientsFinite
  <2>c. ASSUME UNCHANGED <<ready, stats>> PROVE ConnectionsCovered'
    BY <2>c DEF ConnectionsCovered, Clients
  <2>1. ASSUME NEW s \in Sockets, Connect(s) PROVE ConnectionsCovered'
    <3>1. Clients' = Clients \cup {s} /\ s \notin Clients
      BY <2>0, <2>1 DEF Connect, Clients, SocketsOK
    <3>2. Cardinality(Clients') = Cardinality(Clients) + 1
      BY <2>b, <3>1, FS_AddElement
    <3>3. /\ stats'.connections = stats.connections + 1
          /\ stats'.disconnections = stats.disconnections
      BY <2>0, <2>1 DEF Connect, StatsOK
    <3>4. QED BY <2>a, <2>b, <3>2, <3>3 DEF ConnectionsCovered
  <2>2. ASSUME NEW s \in Sockets, Closed(s) PROVE ConnectionsCovered'
    <3>1. Clients' = Clients \ {s} /\ s \in Clients
      BY <2>0, <2>2 DEF Closed, Clients, SocketsOK
    <3>2. Cardinality(Clients') = Cardinality(Clients) - 1
      BY <2>b, <3>1, FS_RemoveElement
    <3>3. /\ stats'.connections = stats.connections
          /\ stats'.disconnections \in {stats.disconnections, stats.disconnections + 1}
      BY <2>0, <2>2 DEF Closed, StatsOK
    <3>4. QED BY <2>a, <2>b, <3>2, <3>3 DEF ConnectionsCovered
  <2>3. ASSUME NEW s \in Sockets, SocketFails(s) PROVE ConnectionsCovered'
    <3>1. Clients' = Clients
      BY <2>0, <2>3 DEF SocketFails, Clients, SocketsOK
    <3>2. /\ stats'.connections = stats.connections
          /\ stats'.disconnections = stats.disconnections
      BY <2>0, <2>3 DEF SocketFails, StatsOK
    <3>3. QED BY <3>1, <3>2 DEF ConnectionsCovered
  <2>4. ASSUME NEW s \in Sockets, NotAuthenticated(s) PROVE ConnectionsCovered'
    <3>1. Clients' = Clients
      BY <2>0, <2>4 DEF NotAuthenticated, Clients, SocketsOK
    <3>2. /\ stats'.connections = stats.connections
          /\ stats'.disconnections = stats.disconnections
      BY <2>0, <2>4 DEF NotAuthenticated, StatsOK
    <3>3. QED BY <3>1, <3>2 DEF ConnectionsCovered
  <2>5. ASSUME NEW s \in Sockets,
               Authenticated(s) \/ ProfileRead(s) \/ ProfileMissing(s) \/ TeamRead(s)
        PROVE  ConnectionsCovered'
    BY <2>5, <2>c DEF Authenticated, ProfileRead, ProfileMissing, TeamRead
  <2>6. ASSUME NEW s \in Sockets, Message(s) PROVE ConnectionsCovered'
    BY <2>6, <2>c DEF Message, Subscribe, Unsubscribe, UnsubscribeUserTeams,
       UserTeamsUnsubscribed, Answered, sockvars
  <2>7. CASE ServerStep \/ UNCHANGED vars
    BY <2>7, <2>c, ServerStepRest DEF SocketsRest, sockvars, vars
  <2>8. QED
    BY <2>1, <2>2, <2>3, <2>4, <2>5, <2>6, <2>7 DEF Next, ServerStep, Handshake
<1>3. QED BY <1>1, <1>2, IInvHolds, PTL DEF Spec

-----------------------------------------------------------------------------
\* Throttling.

\* Callers give a game the same id each time.
SameId == \A u, v \in Updates : u.game = v.game => u.id = v.id

\* What the throttler still knows of a game's id is not older than the last
\* update of the game that went out, and what it forgot is long past.
Remembered ==
  /\ \A k \in Keys : lastUpdate[k] # None => lastUpdate[k] <= now
  /\ \A g \in Games : passed[g] # None => passed[g] <= now
  /\ \A u \in Updates :
       passed[u.game] # None =>
         /\ lastUpdate[u.id] = None => now - passed[u.game] > KeepMs
         /\ lastUpdate[u.id] # None => passed[u.game] <= lastUpdate[u.id]

\* The times are numbers, and updates name games and ids.
LEMMA TimesAreNumbers ==
  ASSUME ServerOK
  PROVE  /\ now \in Nat
         /\ \A k \in Keys : lastUpdate[k] # None => lastUpdate[k] \in Nat
         /\ \A g \in Games : passed[g] # None => passed[g] \in Nat
         /\ \A u \in Updates : u.game \in Games /\ u.id \in Keys
BY WsAssumption DEF ServerOK, Maybe, Keys

\* Every step keeps what the throttler remembers.
LEMMA RememberedKept ==
  ASSUME SameId, ServerOK, Remembered, [Next]_vars
  PROVE  Remembered'
<1>0. /\ now \in Nat
      /\ \A k \in Keys : lastUpdate[k] # None => lastUpdate[k] \in Nat
      /\ \A g \in Games : passed[g] # None => passed[g] \in Nat
      /\ \A u \in Updates : u.game \in Games /\ u.id \in Keys
  BY TimesAreNumbers
<1>1. CASE UNCHANGED <<lastUpdate, passed, now>>
  BY <1>1 DEF Remembered
<1>2. CASE BroadcastUserTeamUpdate
  <2>1. PICK u \in Updates :
          /\ lastUpdate' = [lastUpdate EXCEPT ![u.id] = now]
          /\ passed' = [passed EXCEPT ![u.game] = now]
          /\ now' = now
    BY <1>2 DEF BroadcastUserTeamUpdate
  <2>2. \A k \in Keys : lastUpdate'[k] = IF k = u.id THEN now ELSE lastUpdate[k]
    BY <2>1 DEF ServerOK
  <2>3. \A g \in Games : passed'[g] = IF g = u.game THEN now ELSE passed[g]
    BY <2>1 DEF ServerOK
  <2>4. \A k \in Keys : lastUpdate'[k] # None => lastUpdate'[k] <= now'
    BY <1>0, <2>1, <2>2 DEF Remembered
  <2>5. \A g \in Games : passed'[g] # None => passed'[g] <= now'
    BY <1>0, <2>1, <2>3 DEF Remembered
  <2>6. ASSUME NEW v \in Updates, passed'[v.game] # None
        PROVE  /\ lastUpdate'[v.id] = None => now' - passed'[v.game] > KeepMs
               /\ lastUpdate'[v.id] # None => passed'[v.game] <= lastUpdate'[v.id]
    <3>1. now # None
      BY <1>0, WsAssumption
    <3>2. CASE v.id = u.id
      BY <1>0, <2>1, <2>2, <2>5, <2>6, <3>1, <3>2
    <3>3. CASE v.id # u.id
      <4>1. v.game # u.game
        BY <3>3 DEF SameId
      <4>2. lastUpdate'[v.id] = lastUpdate[v.id] /\ passed'[v.game] = passed[v.game]
        BY <1>0, <2>2, <2>3, <3>3, <4>1
      <4>3. QED BY <2>1, <2>6, <4>2 DEF Remembered
    <3>4. QED BY <3>2, <3>3
  <2>7. QED BY <2>4, <2>5, <2>6 DEF Remembered
<1>3. CASE Cleanup
  <2>1. passed' = passed /\ now' = now
    BY <1>3 DEF Cleanup, history
  <2>2. \A k \in Keys : lastUpdate'[k] = IF lastUpdate[k] # None /\ now - lastUpdate[k] > KeepMs
                                           THEN None ELSE lastUpdate[k]
    BY <1>3 DEF Cleanup
  <2>3. ASSUME NEW v \in Updates, passed[v.game] # None
        PROVE  /\ lastUpdate'[v.id] = None => now - passed[v.game] > KeepMs
               /\ lastUpdate'[v.id] # None => passed[v.game] <= lastUpdate'[v.id]
    BY <1>0, <2>2, <2>3, WsAssumption DEF Remembered
  <2>4. QED BY <2>1, <2>2, <2>3 DEF Remembered
<1>4. CASE Tick
  <2>1. UNCHANGED <<lastUpdate, passed>> /\ now' = now + 1
    BY <1>4 DEF Tick, history
  <2>2. QED BY <1>0, <2>1, WsAssumption DEF Remembered
<1>5. QED
  BY <1>1, <1>2, <1>3, <1>4
     DEF Next, Handshake, Message, Connect, Authenticated, NotAuthenticated,
         ProfileRead, ProfileMissing, TeamRead, Subscribe, Unsubscribe,
         UnsubscribeUserTeams, UserTeamsUnsubscribed, Answered, Closed, SocketFails,
         BroadcastToUsers, BroadcastToTeamSubscribers, Broadcast,
         BroadcastUserTeamStatusChange, BroadcastUserTeamUpdateWithRetry, EditProfile, server, history, vars

\* Two updates of a game that go out are at least the interval apart, for
\* callers that give a game the same id each time, although entries that are
\* old enough are forgotten.
THEOREM UpdatesSpaced == ASSUME SameId PROVE Spec => ThrottleSpacing
<1> DEFINE Spaced == \A g \in Games :
      (passed[g] # None /\ passed'[g] # passed[g]) => passed'[g] - passed[g] >= ThrottleMs
<1>1. Init => Remembered
  BY WsAssumption DEF Init, Remembered, Keys
<1>2. IInv /\ Remembered /\ [Next]_vars => Remembered'
  BY RememberedKept, TypeOKParts DEF IInv
<1>3. ASSUME IInv, Remembered, [Next]_vars PROVE [Spaced]_vars
  <2>0. ServerOK
    BY <1>3, TypeOKParts DEF IInv
  <2>1. CASE UNCHANGED passed
    BY <2>1
  <2>2. CASE BroadcastUserTeamUpdate
    <3>1. PICK u \in Updates :
            /\ ShouldSend(u.id)
            /\ passed' = [passed EXCEPT ![u.game] = now]
      BY <2>2 DEF BroadcastUserTeamUpdate
    <3>2. SUFFICES ASSUME NEW g \in Games, passed[g] # None, passed'[g] # passed[g]
                   PROVE  passed'[g] - passed[g] >= ThrottleMs
      OBVIOUS
    <3>3. g = u.game /\ passed'[g] = now
      BY <2>0, <3>1, <3>2 DEF ServerOK
    <3>4. now - passed[g] >= ThrottleMs
      BY <1>3, <2>0, <3>1, <3>2, <3>3, TimesAreNumbers, WsAssumption
         DEF Remembered, ShouldSend
    <3>5. QED BY <3>3, <3>4
  <2>3. QED
    BY <1>3, <2>1, <2>2
     DEF Next, Handshake, Message, Connect, Authenticated, NotAuthenticated,
         ProfileRead, ProfileMissing, TeamRead, Subscribe, Unsubscribe,
         UnsubscribeUserTeams, UserTeamsUnsubscribed, Answered, Closed, SocketFails,
         BroadcastToUsers, BroadcastToTeamSubscribers, Broadcast,
         BroadcastUserTeamStatusChange, BroadcastUserTeamUpdateWithRetry, Cleanup, EditProfile,
         Tick, server, history, vars
<1>4. QED BY <1>1, <1>2, <1>3, IInvHolds, PTL DEF Spec, ThrottleSpacing
=============================================================================
