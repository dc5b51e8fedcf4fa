---------------------------- MODULE SportSession ----------------------------
(***************************************************************************)
(* The sport a fan looks at: SportProvider                                 *)
(* (client/src/contexts/SportContext.tsx) with its debounced setter        *)
(* (client/src/hooks/useDebounce.ts) and its subscriptions over the socket *)
(* of useWebSocket.                                                        *)
(*                                                                         *)
(* React is explicit: handlers set the state next; Render makes it the     *)
(* view, whose values the closures of handlers and effects hold, and runs  *)
(* the clean-ups and effects of what changed.  Timers, answers and events  *)
(* of a socket may come between a change of the state and its render.  A   *)
(* change of sport awaits its invalidations, so several may be in flight.  *)
(* The score table, the loading state and the scroll position are left     *)
(* out; a change of these renders, too.                                    *)
(*                                                                         *)
(* The provider gives useWebSocket new eventHandlers whenever it renders,  *)
(* so the hook's connect changes, and its effect closes the socket and     *)
(* makes the next one in every render.                                     *)
(***************************************************************************)
EXTENDS Naturals, Sequences

CONSTANTS
  Sports,
  FavoriteLists,  \* the lists of favorite sports a profile may have
  MaxClicks, MaxEdits, MaxOpens, MaxFailures,  \* bounds on the environment
  None

ASSUME SessionAssumption ==
  /\ None \notin Sports \cup [sport : Sports, from : Sports \cup {None}]
  /\ FavoriteLists \subseteq Seq(Sports)
  /\ {MaxClicks, MaxEdits, MaxOpens, MaxFailures} \subseteq Nat

Maybe(S) == S \cup {None}

\* What a render depends on.
State == [sport : Maybe(Sports), transitioning : BOOLEAN, connected : BOOLEAN,
          favorites : FavoriteLists \cup {<<>>}]

VARIABLES
  view,      \* the state that was rendered last
  next,      \* the state to be rendered
  timer,     \* the debounced choice, with the sport its closure holds
  inFlight,  \* how many changes <<from, to>> await their invalidations
  open,      \* the socket is open
  dropped,   \* the close event of a socket that was replaced is still to come
  asked,     \* sports the messages of this connection ask for
  clicks, edits, opens, failures,  \* counters of the environment
  choice,    \* history: the last choice on an up-to-date page, since the
             \* profile changed
  overtaken  \* history: a debounced choice came before the render of another sport

socket == <<open, dropped, asked>>
env == <<clicks, edits, opens, failures>>
history == <<choice, overtaken>>
vars == <<view, next, timer, inFlight, socket, env, history>>

TypeOK ==
  /\ {view, next} \subseteq State
  /\ timer \in Maybe([sport : Sports, from : Maybe(Sports)])
  /\ inFlight \in [Maybe(Sports) \X Maybe(Sports) -> Nat]
  /\ {open, dropped, overtaken} \subseteq BOOLEAN
  /\ asked \subseteq Sports
  /\ clicks \in 0..MaxClicks
  /\ edits \in 0..MaxEdits
  /\ opens \in 0..MaxOpens
  /\ failures \in 0..MaxFailures
  /\ choice \in Maybe(Sports)

\* No profile is loaded and no socket is open.
Init ==
  /\ view = [sport |-> None, transitioning |-> FALSE, connected |-> FALSE,
             favorites |-> <<>>]
  /\ next = view
  /\ timer = None
  /\ inFlight = [change \in Maybe(Sports) \X Maybe(Sports) |-> 0]
  /\ open = FALSE
  /\ asked = {}
  /\ dropped = FALSE
  /\ overtaken = FALSE
  /\ clicks = 0
  /\ edits = 0
  /\ opens = 0
  /\ failures = 0
  /\ choice = None

-----------------------------------------------------------------------------
\* Messages.  They only leave through an open socket.

Favorites(list) == {list[i] : i \in DOMAIN list}
SportsIn(s) == {s} \ {None}

\* Messages that unsubscribe from the sports in drop and then subscribe to
\* those in add.
Tell(drop, add) ==
  /\ asked' = IF open THEN (asked \ drop) \cup add ELSE asked
  /\ UNCHANGED <<open, dropped>>

-----------------------------------------------------------------------------
\* Changing the sport.  state is the state the change starts from.

Begin(state, from, sport) ==
  IF sport = from
    THEN next' = state /\ UNCHANGED inFlight
    ELSE /\ next' = [state EXCEPT !.sport = sport, !.transitioning = TRUE]
         /\ inFlight' = [inFlight EXCEPT ![<<from, sport>>] = @ + 1]

Ends(change) == inFlight[change] > 0 /\ inFlight' = [inFlight EXCEPT ![change] = @ - 1]

\* The invalidations are done.
TransitionEnds(change) ==
  /\ Ends(change)
  /\ next' = [next EXCEPT !.transitioning = FALSE]
  /\ UNCHANGED <<view, timer, socket, env, history>>

\* One of them threw: back to the sport the closure came from.
TransitionFails(change) ==
  /\ failures < MaxFailures
  /\ failures' = failures + 1
  /\ Ends(change)
  /\ next' = [next EXCEPT !.sport = change[1], !.transitioning = FALSE]
  /\ Tell({}, SportsIn(change[1]))
  /\ UNCHANGED <<view, timer, clicks, edits, opens, history>>

\* Bug: a second choice does not replace the pending one.
BugClickFirst(sport) ==
  /\ clicks < MaxClicks
  /\ view.sport # None /\ ~view.transitioning
  /\ sport \in Favorites(view.favorites)
  /\ timer' = IF timer = None THEN [sport |-> sport, from |-> view.sport] ELSE timer
  /\ clicks' = clicks + 1
  /\ choice' = IF view = next THEN sport ELSE None
  /\ UNCHANGED <<view, next, inFlight, socket, edits, opens, failures, overtaken>>

\* The fan picks a favorite sport: setSelectedSport, debounced.  The menu is
\* shown with a sport, and disabled while a change is shown in progress.
Click(sport) ==
  /\ clicks < MaxClicks
  /\ view.sport # None /\ ~view.transitioning
  /\ sport \in Favorites(view.favorites)
  /\ timer' = [sport |-> sport, from |-> view.sport]
  /\ clicks' = clicks + 1
  /\ choice' = IF view = next THEN sport ELSE None
  /\ UNCHANGED <<view, next, inFlight, socket, edits, opens, failures, overtaken>>

\* The debounce is over.  The setter is that of the view in which the fan chose.
TimerFires ==
  /\ timer # None
  /\ timer' = None
  /\ Begin(next, timer.from, timer.sport)
  /\ IF timer.sport = timer.from
       THEN UNCHANGED <<socket, overtaken>>
       ELSE /\ Tell(SportsIn(timer.from), {timer.sport})
            /\ overtaken' = (overtaken \/ view.sport # next.sport)
  /\ UNCHANGED <<view, env, choice>>

-----------------------------------------------------------------------------
\* Rendering.

\* The sport for a state: another one when none or one that is no favorite is
\* selected.
Preferred(state) ==
  IF state.favorites = <<>> THEN None
  ELSE IF state.sport \in Favorites(state.favorites) THEN state.sport
  ELSE Head(state.favorites)

\* Bug: the effect depends on the favorites only.
BugSelects(from, to) == IF from.favorites # to.favorites THEN Preferred(to) ELSE to.sport

\* The sport that the effect of a render selects.  A missing profile gives a new
\* empty list, and so a run of the effect, in every render.
Selects(from, to) ==
  IF \/ from.sport # to.sport
     \/ from.favorites # to.favorites
     \/ to.favorites = <<>>
    THEN Preferred(to)
    ELSE to.sport

\* Clean-ups of the old view, then the effects of the new one.  The hook's come
\* first: the next socket is connecting when the selection and the subscriptions
\* send theirs, so that their messages are lost.
Render ==
  /\ view' = next
  /\ Begin([next EXCEPT !.connected = FALSE], next.sport, Selects(view, next))
  /\ open' = FALSE
  /\ dropped' = TRUE
  /\ asked' = {}
  /\ UNCHANGED <<timer, env, history>>

\* The profile is loaded, edited or gone.
ProfileChanges ==
  /\ edits < MaxEdits
  /\ edits' = edits + 1
  /\ \E list \in FavoriteLists \cup {<<>>} :
       /\ list # next.favorites
       /\ next' = [next EXCEPT !.favorites = list]
  /\ choice' = None
  /\ UNCHANGED <<view, timer, inFlight, socket, clicks, opens, failures, overtaken>>

\* A new connection.
SocketOpens ==
  /\ ~open
  /\ opens < MaxOpens
  /\ opens' = opens + 1
  /\ open' = TRUE
  /\ asked' = {}
  /\ next' = [next EXCEPT !.connected = TRUE]
  /\ UNCHANGED <<view, timer, inFlight, dropped, clicks, edits, failures, history>>

SocketCloses ==
  /\ open
  /\ open' = FALSE
  /\ next' = [next EXCEPT !.connected = FALSE]
  /\ UNCHANGED <<view, timer, inFlight, dropped, asked, env, history>>

\* The close event of a socket that was replaced.  The handlers do not ask
\* which socket it is of.
LateClose ==
  /\ dropped
  /\ dropped' \in BOOLEAN
  /\ next' = [next EXCEPT !.connected = FALSE]
  /\ UNCHANGED <<view, timer, inFlight, open, asked, env, history>>

-----------------------------------------------------------------------------

Changes == Maybe(Sports) \X Maybe(Sports)

Next ==
  \/ \E change \in Changes : TransitionEnds(change) \/ TransitionFails(change)
  \/ \E sport \in Sports : Click(sport)
  \/ TimerFires
  \/ Render
  \/ ProfileChanges
  \/ SocketOpens \/ SocketCloses \/ LateClose

Spec == Init /\ [][Next]_vars

-----------------------------------------------------------------------------

\* Nothing is left to render.
Rendered == view = next

\* A render of a connected page with a sport asks the server for its scores:
\* what the subscribing effect is said to do.
AutoSubscribes ==
  [][Render /\ next.connected /\ next.sport # None => next.sport \in asked']_vars

\* The last choice wins: it is shown once its debounce is over, if nothing failed
\* and the profile stayed as it is.
LastChoiceKept ==
  (Rendered /\ timer = None /\ failures = 0 /\ choice # None) => view.sport = choice

\* A settled page shows a favorite sport when there is one, if nothing failed and
\* no debounced choice came between the effect's selection and its render: it
\* may have put back the sport shown, and then no effect runs again.
FavoriteShown == (Rendered /\ failures = 0 /\ ~overtaken) => view.sport = Preferred(view)

=============================================================================
