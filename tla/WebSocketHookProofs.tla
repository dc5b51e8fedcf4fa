-------------------------- MODULE WebSocketHookProofs --------------------------
(***************************************************************************)
(* The safety invariants of WebSocketHook, for any number of sockets and   *)
(* users and any limit of attempts.  They need each other: a late event    *)
(* finds the state as it was left because only the current socket is live, *)
(* and the counter stays in its type because the effect that a counted     *)
(* attempt causes sets it back.                                            *)
(*                                                                         *)
(* Under ScoreFeed the hook takes no step of its own making (FeedUsesHook),*)
(* so the same invariants hold there, and on them rests that the sports of *)
(* the filters are asked for.                                              *)
(***************************************************************************)
EXTENDS ScoreFeed, TLAPS

\* The limit of attempts is out of reach: an attempt is counted only from
\* zero, and the next effect resets the counter.
AttemptsReset ==
  /\ attempts \in {0, 1}
  /\ attempts = 1 => effect # "none" \/ rendered.attempts = 0
  /\ retry # None => MaxReconnectAttempts > 0

UnmountedIsManual == ~mounted => manual

IInv ==
  /\ TypeOK
  /\ NoLeakedSocket
  /\ StateBacked
  /\ ManualIsQuiet
  /\ AttemptsReset
  /\ UnmountedIsManual

States == {"disconnected", "connecting", "connected", "error"}

\* What the application sees, c, agrees with the current socket.
Backed(c, current, readies) ==
  /\ c = "connecting" => current # None /\ readies[current] = "connecting"
  /\ c = "connected" => current # None /\ readies[current] \in {"open", "closing"}

OnlyLive(current, readies) ==
  \A s \in Sockets : readies[s] \in {"connecting", "open"} => s = current

-----------------------------------------------------------------------------
\* The two helpers.

\* Dropping the current socket leaves no live one.
LEMMA DropSocketFacts ==
  ASSUME ready \in [Sockets -> ReadyStates], NoLeakedSocket
  PROVE  /\ DropSocket \in [Sockets -> ReadyStates]
         /\ \A s \in Sockets : DropSocket[s] \notin {"connecting", "open"}
<1> DEFINE After(s) ==
      CASE s = ws /\ ready[s] = "connecting" -> "failing"
        [] s = ws /\ ready[s] = "open" -> "closing"
        [] OTHER -> ready[s]
<1>1. ASSUME NEW s \in Sockets
      PROVE  After(s) \in ReadyStates /\ After(s) \notin {"connecting", "open"}
  <2>1. CASE s = ws /\ ready[s] = "connecting"
    BY <2>1 DEF ReadyStates
  <2>2. CASE s = ws /\ ready[s] = "open"
    BY <2>2 DEF ReadyStates
  <2>3. CASE ~(s = ws /\ ready[s] = "connecting") /\ ~(s = ws /\ ready[s] = "open")
    <3>1. After(s) = ready[s]
      BY <2>3
    <3>2. QED BY <2>3, <3>1 DEF NoLeakedSocket, Live
  <2>4. QED BY <2>1, <2>2, <2>3
<1>2. DropSocket = [s \in Sockets |-> After(s)]
  BY DEF DropSocket
<1> HIDE DEF After
<1>3. QED BY <1>1, <1>2

\* connect keeps the types, never makes a second live socket, keeps the state
\* in agreement with the current socket, and leaves the manual flag set only
\* if it did nothing.
LEMMA ConnectFromFacts ==
  ASSUME NEW v \in Version, NEW c \in States, NEW w \in Sockets \cup {None},
         NEW r \in [Sockets -> ReadyStates], NEW m \in BOOLEAN,
         by \in [Sockets -> Version],
         OnlyLive(w, r), Backed(c, w, r),
         ConnectFrom(v, c, w, r, m)
  PROVE  /\ state' \in States
         /\ manual' \in BOOLEAN
         /\ ws' \in Sockets \cup {None}
         /\ ready' \in [Sockets -> ReadyStates]
         /\ by' \in [Sockets -> Version]
         /\ OnlyLive(ws', ready')
         /\ Backed(state', ws', ready')
         /\ manual' => m /\ ws' = w
<1> DEFINE Skips == v.user = None \/ (w # None /\ r[w] \in {"connecting", "open"})
<1>1. CASE Skips
  <2>1. state' = c /\ (manual' <=> m) /\ ws' = w /\ ready' = r /\ by' = by
    BY <1>1 DEF ConnectFrom
  <2>2. manual' \in BOOLEAN
    BY <1>1 DEF ConnectFrom
  <2>3. QED BY <2>1, <2>2
<1>2. CASE ~Skips
  <2>1. ~manual' /\ manual' \in BOOLEAN
    BY <1>2 DEF ConnectFrom
  <2>2. \A s \in Sockets : r[s] \notin {"connecting", "open"}
    BY <1>2, HookAssumption DEF OnlyLive, Version, ConnectFrom
  <2>3. CASE \E s \in Sockets :
               /\ r[s] = "free"
               /\ state' = "connecting"
               /\ ws' = s
               /\ ready' = [r EXCEPT ![s] = "connecting"]
               /\ by' = [by EXCEPT ![s] = v]
    <3>1. PICK s \in Sockets :
               /\ r[s] = "free"
               /\ state' = "connecting"
               /\ ws' = s
               /\ ready' = [r EXCEPT ![s] = "connecting"]
               /\ by' = [by EXCEPT ![s] = v]
      BY <2>3
    <3>2. ready' \in [Sockets -> ReadyStates] /\ ready'[s] = "connecting"
      BY <3>1 DEF ReadyStates
    <3>3. by' \in [Sockets -> Version]
      BY <3>1
    <3>4. OnlyLive(ws', ready')
      BY <2>2, <3>1 DEF OnlyLive
    <3>5. Backed(state', ws', ready')
      BY <3>1, <3>2, HookAssumption DEF Backed
    <3>6. QED BY <2>1, <3>1, <3>2, <3>3, <3>4, <3>5 DEF States
  <2>4. CASE state' = "error" /\ ws' = w /\ ready' = r /\ by' = by
    BY <2>1, <2>4 DEF States, Backed
  <2>5. QED BY <1>2, <2>3, <2>4 DEF ConnectFrom
<1>3. QED BY <1>1, <1>2

-----------------------------------------------------------------------------
\* The induction.

\* A hook that was just mounted satisfies the invariant.
LEMMA InitIInv == Init => IInv
<1> SUFFICES ASSUME Init PROVE IInv
  OBVIOUS
<1>1. mounted \in BOOLEAN /\ manual \in BOOLEAN /\ heartbeat \in BOOLEAN
  BY DEF Init
<1>2. rendered \in Version /\ attempts \in 0..MaxReconnectAttempts
  BY HookAssumption DEF Init, Version
<1>3. by \in [Sockets -> Version]
  BY HookAssumption DEF Init, Version, NoVersion
<1>4. ready \in [Sockets -> ReadyStates]
  BY DEF Init, ReadyStates
<1>5. TypeOK
  BY <1>1, <1>2, <1>3, <1>4 DEF Init, TypeOK
<1>6. NoLeakedSocket /\ StateBacked /\ AttemptsReset
  BY DEF Init, NoLeakedSocket, Live, StateBacked, AttemptsReset
<1>7. ManualIsQuiet /\ UnmountedIsManual
  BY DEF Init, ManualIsQuiet, UnmountedIsManual
<1>8. QED BY <1>5, <1>6, <1>7 DEF IInv

\* The invariant in the next state, from its parts.
LEMMA IInvPrime ==
  ASSUME user' \in Users \cup {None}, mounted' \in BOOLEAN, state' \in States,
         attempts' \in 0..MaxReconnectAttempts, rendered' \in Version,
         effect' \in {"none", "first", "again"}, manual' \in BOOLEAN,
         ws' \in Sockets \cup {None}, ready' \in [Sockets -> ReadyStates],
         by' \in [Sockets -> Version], retry' \in Version \cup {None},
         heartbeat' \in BOOLEAN, discarded' \subseteq Sockets,
         OnlyLive(ws', ready'), mounted' => Backed(state', ws', ready'),
         ManualIsQuiet', AttemptsReset', UnmountedIsManual'
  PROVE  IInv'
<1>1. TypeOK'
  BY DEF TypeOK, States
<1>2. NoLeakedSocket'
  BY DEF NoLeakedSocket, OnlyLive, Live
<1>3. StateBacked'
  BY DEF StateBacked, Backed
<1>4. QED BY <1>1, <1>2, <1>3 DEF IInv

\* disconnect, with or without the state updates.
LEMMA DropFacts ==
  ASSUME IInv, ClearTimers, Discard
  PROVE  /\ retry' = None
         /\ ~heartbeat'
         /\ heartbeat' \in BOOLEAN
         /\ discarded' \subseteq Sockets
         /\ DropSocket \in [Sockets -> ReadyStates]
         /\ \A s \in Sockets : DropSocket[s] \notin {"connecting", "open"}
<1>1. DropSocket \in [Sockets -> ReadyStates]
  BY DropSocketFacts DEF IInv, TypeOK
<1>2. \A s \in Sockets : DropSocket[s] \notin {"connecting", "open"}
  BY DropSocketFacts DEF IInv, TypeOK
<1>3. discarded' \subseteq Sockets
  BY DEF IInv, TypeOK, Discard
<1>4. retry' = None /\ ~heartbeat' /\ heartbeat' \in BOOLEAN
  BY DEF ClearTimers
<1>5. QED BY <1>1, <1>2, <1>3, <1>4

\* A step of React.
LEMMA RenderInv == ASSUME IInv, NEW fresh, Render(fresh) PROVE IInv'
<1>1. rendered' \in Version
  BY HookAssumption DEF IInv, TypeOK, Render, view, Version
<1>2. AttemptsReset'
  BY DEF IInv, AttemptsReset, Render
<1>3. ManualIsQuiet' /\ UnmountedIsManual'
  BY DEF IInv, ManualIsQuiet, UnmountedIsManual, Render, sockets
<1>4. OnlyLive(ws', ready') /\ (mounted' => Backed(state', ws', ready'))
  BY DEF IInv, NoLeakedSocket, StateBacked, OnlyLive, Live, Backed, Render, sockets
<1>5. mounted' \in BOOLEAN /\ manual' \in BOOLEAN /\ heartbeat' \in BOOLEAN
  BY DEF IInv, TypeOK, Render
<1>6. QED
  BY <1>1, <1>2, <1>3, <1>4, <1>5, IInvPrime DEF IInv, TypeOK, Render, States, sockets

\* The effect runs the cleanup and connects.
LEMMA RunEffectInv == IInv /\ RunEffect => IInv'
<1> SUFFICES ASSUME IInv, RunEffect PROVE IInv'
  OBVIOUS
<1>1. ClearTimers /\ Discard
  BY DEF RunEffect
<1>2. /\ retry' = None
      /\ ~heartbeat'
      /\ heartbeat' \in BOOLEAN
      /\ discarded' \subseteq Sockets
      /\ DropSocket \in [Sockets -> ReadyStates]
      /\ \A s \in Sockets : DropSocket[s] \notin {"connecting", "open"}
  BY <1>1, DropFacts
<1>3. OnlyLive(None, DropSocket) /\ Backed("disconnected", None, DropSocket)
  BY <1>2 DEF OnlyLive, Backed
<1>4. /\ state' \in States
      /\ manual' \in BOOLEAN
      /\ ws' \in Sockets \cup {None}
      /\ ready' \in [Sockets -> ReadyStates]
      /\ by' \in [Sockets -> Version]
      /\ OnlyLive(ws', ready')
      /\ Backed(state', ws', ready')
      /\ manual' => ws' = None
  <2>1. CASE AutoConnect
    <3>1. ConnectFrom(rendered, "disconnected", None, DropSocket, effect = "again")
      BY <2>1 DEF RunEffect
    <3>2. rendered \in Version /\ by \in [Sockets -> Version]
      BY DEF IInv, TypeOK
    <3>3. "disconnected" \in States /\ None \in Sockets \cup {None} /\ (effect = "again") \in BOOLEAN
      BY DEF States
    <3>4. QED BY <1>2, <1>3, <3>1, <3>2, <3>3, ConnectFromFacts
  <2>2. CASE ~AutoConnect
    <3>1. /\ state' = "disconnected"
          /\ ws' = None
          /\ ready' = DropSocket
          /\ by' = by
      BY <2>2 DEF RunEffect
    <3>2. manual' \in BOOLEAN
      BY <2>2 DEF RunEffect
    <3>3. QED BY <1>2, <1>3, <3>1, <3>2 DEF IInv, TypeOK, States
  <2>3. QED BY <2>1, <2>2
<1>5. mounted' /\ mounted' \in BOOLEAN
  BY DEF RunEffect, IInv, TypeOK
<1>6. ManualIsQuiet' /\ UnmountedIsManual'
  BY <1>2, <1>4, <1>5 DEF ManualIsQuiet, UnmountedIsManual
<1>7. AttemptsReset' /\ attempts' \in 0..MaxReconnectAttempts
  BY <1>2, HookAssumption DEF RunEffect, AttemptsReset
<1>8. user' \in Users \cup {None} /\ rendered' \in Version /\ effect' \in {"none", "first", "again"}
  BY DEF RunEffect, IInv, TypeOK
<1>9. QED BY <1>2, <1>4, <1>5, <1>6, <1>7, <1>8, IInvPrime

\* disconnect and the unmount.
LEMMA DisconnectInv == IInv /\ (Disconnect \/ Unmount) => IInv'
<1> SUFFICES ASSUME IInv, Disconnect \/ Unmount PROVE IInv'
  OBVIOUS
<1>1. ClearTimers /\ Discard /\ ready' = DropSocket /\ ws' = None /\ by' = by
  BY DEF Disconnect, Unmount
<1>2. /\ retry' = None
      /\ ~heartbeat'
      /\ heartbeat' \in BOOLEAN
      /\ discarded' \subseteq Sockets
      /\ DropSocket \in [Sockets -> ReadyStates]
      /\ \A s \in Sockets : DropSocket[s] \notin {"connecting", "open"}
  BY <1>1, DropFacts
<1>3. manual' /\ manual' \in BOOLEAN
  BY DEF Disconnect, Unmount
<1>4. mounted' \in BOOLEAN
  BY DEF Disconnect, Unmount, IInv, TypeOK
<1>5. mounted' => state' = "disconnected"
  BY DEF Disconnect, Unmount
<1>6. OnlyLive(ws', ready') /\ (mounted' => Backed(state', ws', ready'))
  BY <1>1, <1>2, <1>5 DEF OnlyLive, Backed
<1>7. ManualIsQuiet' /\ UnmountedIsManual'
  BY <1>1, <1>2, <1>3 DEF ManualIsQuiet, UnmountedIsManual
<1>8. AttemptsReset' /\ attempts' \in 0..MaxReconnectAttempts
  BY <1>2, HookAssumption DEF Disconnect, Unmount, AttemptsReset, IInv, TypeOK
<1>9. /\ user' \in Users \cup {None}
      /\ rendered' \in Version
      /\ effect' \in {"none", "first", "again"}
      /\ state' \in States
  BY DEF Disconnect, Unmount, IInv, TypeOK, States
<1>10. by' \in [Sockets -> Version]
  BY <1>1 DEF IInv, TypeOK
<1>11. QED BY <1>1, <1>2, <1>3, <1>4, <1>6, <1>7, <1>8, <1>9, <1>10, IInvPrime

\* What connect does to the current state, the types given.
LEMMA ConnectNow ==
  ASSUME IInv, mounted, NEW v \in Version, ConnectFrom(v, state, ws, ready, manual)
  PROVE  /\ state' \in States
         /\ manual' \in BOOLEAN
         /\ ws' \in Sockets \cup {None}
         /\ ready' \in [Sockets -> ReadyStates]
         /\ by' \in [Sockets -> Version]
         /\ OnlyLive(ws', ready')
         /\ Backed(state', ws', ready')
         /\ manual' => manual /\ ws' = ws
<1>1. state \in States /\ manual \in BOOLEAN
  BY DEF IInv, TypeOK, States
<1>2. ws \in Sockets \cup {None} /\ ready \in [Sockets -> ReadyStates] /\ by \in [Sockets -> Version]
  BY DEF IInv, TypeOK
<1>3. OnlyLive(ws, ready) /\ Backed(state, ws, ready)
  BY DEF IInv, NoLeakedSocket, StateBacked, OnlyLive, Live, Backed
<1>4. QED BY <1>1, <1>2, <1>3, ConnectFromFacts

\* connect by the application.
LEMMA ConnectInv == IInv /\ Connect => IInv'
<1> SUFFICES ASSUME IInv, Connect PROVE IInv'
  OBVIOUS
<1>1. mounted /\ rendered \in Version /\ ConnectFrom(rendered, state, ws, ready, manual)
  BY DEF Connect, IInv, TypeOK
<1>2. /\ state' \in States
      /\ manual' \in BOOLEAN
      /\ ws' \in Sockets \cup {None}
      /\ ready' \in [Sockets -> ReadyStates]
      /\ by' \in [Sockets -> Version]
      /\ OnlyLive(ws', ready')
      /\ Backed(state', ws', ready')
      /\ manual' => manual /\ ws' = ws
  BY <1>1, ConnectNow
<1>3. mounted' /\ mounted' \in BOOLEAN /\ heartbeat' \in BOOLEAN /\ (heartbeat' <=> heartbeat)
  BY DEF Connect, IInv, TypeOK
<1>4. ManualIsQuiet' /\ UnmountedIsManual'
  BY <1>2, <1>3 DEF ManualIsQuiet, UnmountedIsManual, IInv, Connect
<1>5. AttemptsReset'
  BY DEF IInv, AttemptsReset, Connect
<1>6. QED BY <1>2, <1>3, <1>4, <1>5, IInvPrime DEF IInv, TypeOK, Connect

\* The retry timer.
LEMMA RetryFiresInv == IInv /\ RetryFires => IInv'
<1> SUFFICES ASSUME IInv, RetryFires PROVE IInv'
  OBVIOUS
<1>1. mounted /\ ~manual
  BY DEF RetryFires, IInv, ManualIsQuiet, UnmountedIsManual
<1>2. retry \in Version /\ ConnectFrom(retry, state, ws, ready, manual)
  BY DEF RetryFires, IInv, TypeOK
<1>3. /\ state' \in States
      /\ manual' \in BOOLEAN
      /\ ws' \in Sockets \cup {None}
      /\ ready' \in [Sockets -> ReadyStates]
      /\ by' \in [Sockets -> Version]
      /\ OnlyLive(ws', ready')
      /\ Backed(state', ws', ready')
      /\ ~manual'
  BY <1>1, <1>2, ConnectNow
<1>4. mounted' /\ mounted' \in BOOLEAN /\ heartbeat' \in BOOLEAN
  BY <1>1 DEF RetryFires, IInv, TypeOK
<1>5. ManualIsQuiet' /\ UnmountedIsManual'
  BY <1>3, <1>4 DEF ManualIsQuiet, UnmountedIsManual
<1>6. attempts = 0 /\ rendered.attempts = 0 /\ MaxReconnectAttempts > 0
  BY DEF RetryFires, view, IInv, AttemptsReset
<1>7. AttemptsReset' /\ attempts' \in 0..MaxReconnectAttempts
  <2>1. attempts' = 1 /\ rendered' = rendered /\ retry' = None
    BY <1>6 DEF RetryFires
  <2>2. QED BY <1>6, <2>1, HookAssumption DEF AttemptsReset
<1>8. /\ user' \in Users \cup {None}
      /\ rendered' \in Version
      /\ effect' \in {"none", "first", "again"}
      /\ retry' \in Version \cup {None}
      /\ discarded' \subseteq Sockets
  BY DEF RetryFires, IInv, TypeOK
<1>9. QED BY <1>3, <1>4, <1>5, <1>7, <1>8, IInvPrime

\* A socket opens: it is the current one.
LEMMA OpenedInv == ASSUME IInv, NEW s \in Sockets, Opened(s) PROVE IInv'
<1>1. s = ws /\ ws # None
  BY HookAssumption DEF IInv, NoLeakedSocket, Live, Opened
<1>2. ready' \in [Sockets -> ReadyStates] /\ ready'[s] = "open"
  BY DEF IInv, TypeOK, Opened, ReadyStates
<1>3. OnlyLive(ws', ready')
  BY <1>1 DEF IInv, TypeOK, NoLeakedSocket, Live, OnlyLive, Opened
<1>4. Backed(state', ws', ready')
  BY <1>1, <1>2 DEF Backed, Opened
<1>5. ~manual /\ mounted
  BY <1>1 DEF IInv, ManualIsQuiet
<1>6. mounted' \in BOOLEAN /\ manual' \in BOOLEAN /\ heartbeat' \in BOOLEAN /\ ~manual' /\ mounted'
  BY <1>5 DEF Opened, IInv, TypeOK
<1>7. ManualIsQuiet' /\ UnmountedIsManual'
  BY <1>6 DEF ManualIsQuiet, UnmountedIsManual
<1>8. AttemptsReset' /\ attempts' \in 0..MaxReconnectAttempts
  BY HookAssumption DEF Opened, AttemptsReset, IInv
<1>9. QED
  BY <1>2, <1>3, <1>4, <1>6, <1>7, <1>8, IInvPrime DEF IInv, TypeOK, Opened, States

\* A socket fails, or its peer closes it.
LEMMA ClosingInv ==
  ASSUME IInv, NEW s \in Sockets, Errored(s) \/ PeerCloses(s)
  PROVE  IInv'
<1>1. ready' = [ready EXCEPT ![s] = "closing"]
  BY DEF Errored, PeerCloses
<1>2. ready' \in [Sockets -> ReadyStates]
  BY <1>1 DEF IInv, TypeOK, ReadyStates
<1>3. OnlyLive(ws', ready')
  BY <1>1 DEF IInv, TypeOK, NoLeakedSocket, Live, OnlyLive, Errored, PeerCloses
<1>4. mounted' => Backed(state', ws', ready')
  <2>1. CASE Errored(s)
    BY <2>1 DEF Errored, Backed
  <2>2. CASE PeerCloses(s)
    BY <2>2 DEF PeerCloses, Backed, IInv, TypeOK, StateBacked
  <2>3. QED BY <2>1, <2>2
<1>5. ManualIsQuiet' /\ UnmountedIsManual'
  BY DEF IInv, ManualIsQuiet, UnmountedIsManual, Errored, PeerCloses
<1>6. AttemptsReset'
  BY DEF IInv, AttemptsReset, Errored, PeerCloses
<1>7. mounted' \in BOOLEAN /\ manual' \in BOOLEAN /\ heartbeat' \in BOOLEAN
  BY DEF IInv, TypeOK, Errored, PeerCloses
<1>8. state' \in States
  BY DEF IInv, TypeOK, Errored, PeerCloses, States
<1>9. QED
  BY <1>2, <1>3, <1>4, <1>5, <1>6, <1>7, <1>8, IInvPrime DEF IInv, TypeOK, Errored, PeerCloses

\* A close event, of the current socket or of an older one.
LEMMA ClosedInv == ASSUME IInv, NEW s \in Sockets, Closed(s) PROVE IInv'
<1>1. ready' \in [Sockets -> ReadyStates] /\ OnlyLive(ws', ready')
  BY DEF IInv, TypeOK, NoLeakedSocket, Live, OnlyLive, Closed, ReadyStates
<1>2. by[s] \in Version /\ by[s].attempts \in Nat
  BY HookAssumption DEF IInv, TypeOK, Version
<1>3. /\ retry' \in Version \cup {None}
      /\ retry' # None => ~manual /\ MaxReconnectAttempts > 0
  BY <1>2, HookAssumption DEF Closed
<1>4. Backed(state', ws', ready')
  BY DEF Backed, Closed
<1>5. ManualIsQuiet' /\ UnmountedIsManual'
  BY <1>3 DEF IInv, ManualIsQuiet, UnmountedIsManual, Closed
<1>6. AttemptsReset'
  BY <1>3 DEF IInv, AttemptsReset, Closed
<1>7. mounted' \in BOOLEAN /\ manual' \in BOOLEAN /\ heartbeat' \in BOOLEAN
  BY DEF IInv, TypeOK, Closed
<1>8. state' \in States /\ discarded' \subseteq Sockets
  BY DEF IInv, TypeOK, Closed, States
<1>9. QED
  BY <1>1, <1>3, <1>4, <1>5, <1>6, <1>7, <1>8, IInvPrime DEF IInv, TypeOK, Closed

\* Every step preserves the invariant.
LEMMA NextIInv == IInv /\ [Next]_vars => IInv'
<1> SUFFICES ASSUME IInv, [Next]_vars PROVE IInv'
  OBVIOUS
<1>1. CASE UserChanges
  <2>1. user' \in Users \cup {None}
    BY <1>1 DEF UserChanges
  <2>2. OnlyLive(ws', ready') /\ (mounted' => Backed(state', ws', ready'))
    BY <1>1 DEF IInv, NoLeakedSocket, StateBacked, OnlyLive, Live, Backed, UserChanges, sockets
  <2>3. ManualIsQuiet' /\ UnmountedIsManual' /\ AttemptsReset'
    BY <1>1 DEF IInv, ManualIsQuiet, UnmountedIsManual, AttemptsReset, UserChanges, sockets
  <2>4. mounted' \in BOOLEAN /\ manual' \in BOOLEAN /\ heartbeat' \in BOOLEAN
    BY <1>1 DEF IInv, TypeOK, UserChanges
  <2>5. QED
    BY <1>1, <2>1, <2>2, <2>3, <2>4, IInvPrime DEF IInv, TypeOK, UserChanges, States, sockets
<1>2. CASE \E fresh \in FreshHandlers : Render(fresh)
  BY <1>2, RenderInv
<1>3. CASE RunEffect
  BY <1>3, RunEffectInv
<1>4. CASE Disconnect \/ Unmount
  BY <1>4, DisconnectInv
<1>5. CASE Connect
  BY <1>5, ConnectInv
<1>6. CASE \E s \in Sockets : Opened(s)
  BY <1>6, OpenedInv
<1>7. CASE \E s \in Sockets : Errored(s) \/ PeerCloses(s)
  BY <1>7, ClosingInv
<1>8. CASE \E s \in Sockets : Closed(s)
  BY <1>8, ClosedInv
<1>9. CASE RetryFires
  BY <1>9, RetryFiresInv
<1>10. CASE UNCHANGED vars
  <2>1. OnlyLive(ws', ready') /\ (mounted' => Backed(state', ws', ready'))
    BY <1>10 DEF IInv, NoLeakedSocket, StateBacked, OnlyLive, Live, Backed, vars, sockets
  <2>2. ManualIsQuiet' /\ UnmountedIsManual' /\ AttemptsReset'
    BY <1>10 DEF IInv, ManualIsQuiet, UnmountedIsManual, AttemptsReset, vars, sockets
  <2>3. mounted' \in BOOLEAN /\ manual' \in BOOLEAN /\ heartbeat' \in BOOLEAN
    BY <1>10 DEF IInv, TypeOK, vars
  <2>4. QED
    BY <1>10, <2>1, <2>2, <2>3, IInvPrime DEF IInv, TypeOK, vars, States, sockets
<1>11. QED
  BY <1>1, <1>2, <1>3, <1>4, <1>5, <1>6, <1>7, <1>8, <1>9, <1>10 DEF Next

-----------------------------------------------------------------------------

\* The inductive invariant always holds.
THEOREM IInvHolds == Spec => []IInv
<1>1. Init => IInv
  BY InitIInv
<1>2. IInv /\ [Next]_vars => IInv'
  BY NextIInv
<1>3. QED BY <1>1, <1>2, PTL DEF Spec

\* Every variable has its type; above all, the attempts stay within the limit.
THEOREM TypeCorrect == Spec => []TypeOK
<1>1. IInv => TypeOK
  BY DEF IInv
<1>2. QED BY <1>1, IInvHolds, PTL

\* Only the current socket is connecting or open.
THEOREM OneConnection == Spec => []NoLeakedSocket
<1>1. IInv => NoLeakedSocket
  BY DEF IInv
<1>2. QED BY <1>1, IInvHolds, PTL

\* The state that is shown is that of the current socket.
THEOREM ShownStateBacked == Spec => []StateBacked
<1>1. IInv => StateBacked
  BY DEF IInv
<1>2. QED BY <1>1, IInvHolds, PTL

\* After disconnect, and after the unmount, nothing connects or pings.
THEOREM QuietAfterDisconnect == Spec => []ManualIsQuiet
<1>1. IInv => ManualIsQuiet
  BY DEF IInv
<1>2. QED BY <1>1, IInvHolds, PTL

\* The counter of attempts never passes one, so no limit above that is ever
\* reached: maxReconnectAttempts does not limit the attempts.
THEOREM LimitOutOfReach == Spec => []AttemptsReset
<1>1. IInv => AttemptsReset
  BY DEF IInv
<1>2. QED BY <1>1, IInvHolds, PTL

-----------------------------------------------------------------------------
(***************************************************************************)
(* ScoreFeed.                                                              *)
(***************************************************************************)

\* Every step of the feed is a step of the hook, or leaves the hook alone.
LEMMA FeedStep == [FeedNext]_<<vars, feed>> => [Next]_vars
<1> SUFFICES ASSUME [FeedNext]_<<vars, feed>> PROVE [Next]_vars
  OBVIOUS
<1>1. CASE FeedRender
  <2>1. UNCHANGED vars \/ Render(TRUE) \/ Render(FALSE)
    <3>1. CASE ~(edited \/ rendered # view)
      BY <1>1, <3>1 DEF FeedRender
    <3>2. CASE edited \/ rendered # view
      <4>1. Render(edited)
        BY <1>1, <3>2 DEF FeedRender
      <4>2. CASE edited
        BY <4>1, <4>2 DEF Render
      <4>3. CASE ~edited
        BY <4>1, <4>3 DEF Render
      <4>4. QED BY <4>2, <4>3
    <3>3. QED BY <3>1, <3>2
  <2>2. QED BY <2>1, FeedAssumption DEF Next
<1>2. CASE AutoSubscribe \/ UpdateFilters \/ Clear
  BY <1>2 DEF AutoSubscribe, UpdateFilters, Clear
<1>3. CASE HookActs
  BY <1>3 DEF HookActs, Next
<1>4. CASE FeedRetries
  BY <1>4 DEF FeedRetries, Next
<1>5. CASE \E s \in Sockets : FeedOpens(s) \/ FeedErrors(s) \/ FeedCloses(s)
  BY <1>5 DEF FeedOpens, FeedErrors, FeedCloses, Next
<1>6. CASE \E s \in Sockets : Received(s)
  BY <1>6 DEF Received
<1>7. CASE \E sport \in FeedSports : SubscribeToSport(sport) \/ UnsubscribeFromSport(sport)
  BY <1>7 DEF SubscribeToSport, UnsubscribeFromSport
<1>8. CASE UNCHANGED <<vars, feed>>
  BY <1>8
<1>9. QED BY <1>1, <1>2, <1>3, <1>4, <1>5, <1>6, <1>7, <1>8 DEF FeedNext

\* The feed implements the hook: mounted by useScoreUpdates, with filters for
\* handlers, useWebSocket does what it does alone, so that what is proved of it
\* holds there too.
THEOREM FeedUsesHook == FeedSpec => Spec
<1>1. Init /\ FeedInit => Init
  OBVIOUS
<1>2. [FeedNext]_<<vars, feed>> => [Next]_vars
  BY FeedStep
<1>3. QED BY <1>1, <1>2, PTL DEF FeedSpec, Spec

SportsTyped ==
  /\ asked \in [Sockets -> SUBSET FeedSports]
  /\ renounced \in [Sockets -> SUBSET FeedSports]
  /\ filters \in Filters /\ shown \in Filters
  /\ owes \in BOOLEAN

\* A commit that makes the hook connect again has the auto-subscribe effect
\* still to run: until it did, the page has no settled view.
EffectOwes == mounted /\ effect # "none" => owes

\* What SportsAsked says does not wait for the page to render its edits or its
\* user: it is enough that it has rendered the connection.
AskedOnceSeen ==
  mounted /\ Settled /\ seen = state /\ state = "connected" /\ Sends
    => shown.sports \subseteq asked[ws] \cup renounced[ws]

FeedInv == SportsTyped /\ EffectOwes /\ AskedOnceSeen

LEMMA InitFeedInv == Init /\ FeedInit => FeedInv
  BY FeedAssumption
  DEF Init, FeedInit, FeedInv, SportsTyped, EffectOwes, AskedOnceSeen

\* Types: a sport that is asked for is one of the filters or of the page's.
LEMMA SportsStayTyped == SportsTyped /\ [FeedNext]_<<vars, feed>> => SportsTyped'
<1> SUFFICES ASSUME SportsTyped, [FeedNext]_<<vars, feed>> PROVE SportsTyped'
  OBVIOUS
<1> USE DEF SportsTyped
<1>1. CASE FeedRender
  BY <1>1 DEF FeedRender, subscribed
<1>2. CASE AutoSubscribe
  <2>1. shown.sports \subseteq FeedSports /\ UNCHANGED <<filters, shown>> /\ owes' \in BOOLEAN
    BY <1>2 DEF AutoSubscribe, Filters
  <2>2. CASE seen = "connected" /\ Sends
    <3>1. /\ asked' = [asked EXCEPT ![ws] = @ \cup shown.sports]
          /\ renounced' = [renounced EXCEPT ![ws] = @ \ shown.sports]
      BY <1>2, <2>2 DEF AutoSubscribe
    <3>2. QED BY <2>1, <3>1
  <2>3. CASE ~(seen = "connected" /\ Sends)
    BY <1>2, <2>1, <2>3 DEF AutoSubscribe, subscribed
  <2>4. QED BY <2>2, <2>3
<1>3. CASE HookActs \/ FeedRetries
  BY <1>3 DEF HookActs, FeedRetries, Made, page
<1>4. CASE \E s \in Sockets : FeedOpens(s) \/ FeedErrors(s) \/ Received(s)
  BY <1>4 DEF FeedOpens, FeedErrors, Received, feed, page, subscribed
<1>5. CASE \E s \in Sockets : FeedCloses(s)
  BY <1>5 DEF FeedCloses, page
<1>6. CASE UpdateFilters \/ Clear
  BY <1>6, FeedAssumption DEF UpdateFilters, Clear, subscribed
<1>7. CASE \E sport \in FeedSports : SubscribeToSport(sport) \/ UnsubscribeFromSport(sport)
  BY <1>7 DEF SubscribeToSport, UnsubscribeFromSport
<1>8. CASE UNCHANGED <<vars, feed>>
  BY <1>8 DEF feed, page, subscribed
<1>9. QED BY <1>1, <1>2, <1>3, <1>4, <1>5, <1>6, <1>7, <1>8 DEF FeedNext

\* connect makes a socket or leaves the connection as it is.
LEMMA ConnectsOrNot ==
  ASSUME NEW v, NEW w, NEW r, NEW c, NEW m, ConnectFrom(v, c, w, r, m)
  PROVE  \/ state' \in {"connecting", "error"}
         \/ state' = c /\ ws' = w /\ ready' = r
  BY DEF ConnectFrom

\* The steps of the hook that can change the connection.
LEMMA ConnectionInv ==
  ASSUME IInv, FeedInv, HookActs \/ FeedRetries
  PROVE  EffectOwes' /\ AskedOnceSeen'
<1> USE DEF FeedInv, EffectOwes, AskedOnceSeen, Settled, Sends
<1>1. CASE HookActs /\ RunEffect
  BY <1>1 DEF HookActs, RunEffect
<1>2. CASE HookActs /\ (Unmount \/ (~mounted /\ UserChanges))
  BY <1>2 DEF HookActs, Unmount, UserChanges
<1>3. CASE HookActs /\ Disconnect
  BY <1>3 DEF HookActs, Disconnect
<1>4. CASE HookActs /\ UserChanges
  <2>1. UNCHANGED <<mounted, effect, state, ws, ready>>
    BY <1>4 DEF UserChanges, sockets
  <2>2. UNCHANGED <<owes, seen, shown>>
    BY <1>4 DEF HookActs
  <2>3. ws # None => asked'[ws] = asked[ws] /\ renounced'[ws] = renounced[ws]
    BY <1>4, <2>1 DEF HookActs, Made, IInv, TypeOK
  <2>4. QED BY <2>1, <2>2, <2>3
<1>5. CASE (HookActs /\ Connect) \/ FeedRetries
  <2>1. UNCHANGED <<mounted, effect, owes, seen, shown>>
    BY <1>5 DEF HookActs, Connect, FeedRetries, RetryFires, page
  <2>2. \/ state' \in {"connecting", "error"}
        \/ UNCHANGED <<state, ws, ready>>
    BY <1>5, ConnectsOrNot DEF Connect, FeedRetries, RetryFires
  <2>3. Made(shown) \/ Made(retries)
    BY <1>5 DEF HookActs, FeedRetries
  <2>4. ws # None /\ ready' = ready => asked'[ws] = asked[ws] /\ renounced'[ws] = renounced[ws]
    BY <2>3 DEF Made, IInv, TypeOK
  <2>5. QED BY <2>1, <2>2, <2>4
<1>6. HookActs => RunEffect \/ Unmount \/ UserChanges \/ Connect \/ Disconnect
  BY DEF HookActs
<1>7. QED
  BY <1>1, <1>2, <1>3, <1>4, <1>5, <1>6

\* The events of the sockets.
LEMMA EventInv ==
  ASSUME IInv, FeedInv,
         \E s \in Sockets : FeedOpens(s) \/ FeedErrors(s) \/ FeedCloses(s) \/ Received(s)
  PROVE  EffectOwes' /\ AskedOnceSeen'
<1> USE DEF FeedInv, EffectOwes, AskedOnceSeen, Settled, Sends
<1>1. ASSUME NEW s \in Sockets, FeedOpens(s) PROVE EffectOwes' /\ AskedOnceSeen'
  <2>1. mounted => s = ws /\ state = seen
    BY <1>1 DEF FeedOpens, Stale, Opened, IInv, NoLeakedSocket, Live
  <2>2. mounted => seen' # "connected"
    BY <1>1, <2>1 DEF FeedOpens, Opened, IInv, StateBacked, feed, page
  <2>3. QED
    BY <1>1, <2>2 DEF FeedOpens, Opened, feed, page
<1>2. ASSUME NEW s \in Sockets, FeedErrors(s) PROVE EffectOwes' /\ AskedOnceSeen'
  BY <1>2 DEF FeedErrors, Errored, page
<1>3. ASSUME NEW s \in Sockets, FeedCloses(s), PeerCloses(s) PROVE EffectOwes' /\ AskedOnceSeen'
  <2>1. s = ws
    BY <1>3 DEF PeerCloses, IInv, NoLeakedSocket, Live
  <2>2. ready'[ws'] # "open"
    BY <1>3, <2>1 DEF PeerCloses, IInv, TypeOK
  <2>3. QED
    BY <1>3, <2>2 DEF FeedCloses, PeerCloses, page
<1>4. ASSUME NEW s \in Sockets, FeedCloses(s), Closed(s) PROVE EffectOwes' /\ AskedOnceSeen'
  BY <1>4 DEF FeedCloses, Closed, page
<1>5. ASSUME NEW s \in Sockets, Received(s) PROVE EffectOwes' /\ AskedOnceSeen'
  BY <1>5 DEF Received, vars, sockets, page, subscribed
<1>6. QED
  BY <1>1, <1>2, <1>3, <1>4, <1>5 DEF FeedCloses

\* The page: an unsubscription is remembered, and the effect that asks asks for
\* what was rendered.
LEMMA PageInv ==
  ASSUME IInv, FeedInv,
         \/ FeedRender \/ AutoSubscribe \/ UpdateFilters \/ Clear
         \/ \E sport \in FeedSports : SubscribeToSport(sport) \/ UnsubscribeFromSport(sport)
  PROVE  EffectOwes' /\ AskedOnceSeen'
<1> USE DEF FeedInv, EffectOwes, AskedOnceSeen, Settled, Sends
<1>1. CASE FeedRender
  BY <1>1 DEF FeedRender, Render, vars
<1>2. CASE AutoSubscribe
  <2>1. UNCHANGED <<mounted, effect, state, ws, ready, shown, seen>> /\ effect = "none"
    BY <1>2 DEF AutoSubscribe, vars, sockets
  <2>2. seen = "connected" /\ Sends
          => shown.sports \subseteq asked'[ws] \cup renounced'[ws]
    BY <1>2 DEF AutoSubscribe, SportsTyped, IInv, TypeOK
  <2>3. QED BY <2>1, <2>2
<1>3. CASE UpdateFilters \/ Clear
  BY <1>3 DEF UpdateFilters, Clear, vars, sockets, subscribed
<1>4. ASSUME NEW sport \in FeedSports, SubscribeToSport(sport) \/ UnsubscribeFromSport(sport)
      PROVE  EffectOwes' /\ AskedOnceSeen'
  <2>1. UNCHANGED <<mounted, effect, state, ws, ready, shown, seen, owes>>
    BY <1>4 DEF SubscribeToSport, UnsubscribeFromSport, vars, sockets
  <2>2. ws # None => asked[ws] \cup renounced[ws] \subseteq asked'[ws] \cup renounced'[ws]
    BY <1>4 DEF SubscribeToSport, UnsubscribeFromSport, SportsTyped, IInv, TypeOK
  <2>3. QED BY <2>1, <2>2
<1>5. QED BY <1>1, <1>2, <1>3, <1>4

LEMMA NextFeedInv == IInv /\ FeedInv /\ [FeedNext]_<<vars, feed>> => FeedInv'
<1> SUFFICES ASSUME IInv, FeedInv, [FeedNext]_<<vars, feed>> PROVE FeedInv'
  OBVIOUS
<1>1. SportsTyped'
  BY SportsStayTyped DEF FeedInv
<1>2. CASE UNCHANGED <<vars, feed>>
  BY <1>1, <1>2
  DEF FeedInv, EffectOwes, AskedOnceSeen, Settled, Sends, vars, sockets, feed, page, subscribed
<1>3. CASE FeedNext
  <2>1. EffectOwes' /\ AskedOnceSeen'
    BY <1>3, ConnectionInv, EventInv, PageInv DEF FeedNext
  <2>2. QED BY <1>1, <2>1 DEF FeedInv
<1>4. QED BY <1>2, <1>3

\* Whatever is rendered as connected was asked for every sport of the filters,
\* except those the page renounced, through retries, new filters and effects
\* that met a socket not yet open.
THEOREM EverySportIsAsked == FeedSpec => []SportsAsked
<1>1. FeedSpec => []IInv
  BY FeedUsesHook, IInvHolds, PTL
<1>2. Init /\ FeedInit => FeedInv
  BY InitFeedInv
<1>3. IInv /\ FeedInv /\ [FeedNext]_<<vars, feed>> => FeedInv'
  BY NextFeedInv
<1>4. FeedInv => SportsAsked
  BY DEF FeedInv, AskedOnceSeen, SportsAsked, Stale
<1>5. QED BY <1>1, <1>2, <1>3, <1>4, PTL DEF FeedSpec

=============================================================================
