-------------------------- MODULE SportSessionProofs --------------------------
(***************************************************************************)
(* Proofs about SportSession, for any sports, profiles and bounds: types,  *)
(* and the two safety invariants.  Each strengthening says what the next   *)
(* render, whose effects are not run yet, will repair.  Then               *)
(* of the modules beside it: that the error handler's retries are real,    *)
(* that a forced sport change stands, that no two requests of a key wait,  *)
(* that no toast or notice vanishes by itself, and that the selected       *)
(* sport's scores are not evicted.                                         *)
(***************************************************************************)
EXTENDS SportSession, PageFeedback, SportDetection, SmartUpdates,
        FiniteSetTheorems, WellFoundedInduction, TLAPS

-----------------------------------------------------------------------------
\* Types.

LEMMA FavoritesAreSeq ==
  ASSUME NEW state \in State PROVE state.favorites \in Seq(Sports)
<1>1. <<>> \in Seq(Sports)
  OBVIOUS
<1>2. state.favorites \in FavoriteLists \cup {<<>>}
  BY DEF State
<1> QED
  BY <1>1, <1>2, SessionAssumption

LEMMA PreferredType ==
  ASSUME NEW state \in State PROVE Preferred(state) \in Maybe(Sports)
<1>1. state.favorites \in Seq(Sports)
  BY FavoritesAreSeq
<1>2. CASE state.favorites = <<>>
  BY <1>2 DEF Preferred, Maybe
<1>3. CASE state.favorites # <<>>
  <2>1. Head(state.favorites) \in Sports
    BY <1>1, <1>3
  <2>2. state.sport \in Maybe(Sports)
    BY DEF State
  <2> QED
    BY <1>3, <2>1, <2>2 DEF Preferred, Maybe
<1> QED
  BY <1>2, <1>3

LEMMA FavoritesType ==
  ASSUME NEW state \in State PROVE Favorites(state.favorites) \subseteq Sports
<1>1. state.favorites \in Seq(Sports)
  BY FavoritesAreSeq
<1>2. \A i \in DOMAIN state.favorites : state.favorites[i] \in Sports
  BY <1>1
<1> QED
  BY <1>2 DEF Favorites

LEMMA SelectsType ==
  ASSUME NEW from \in State, NEW to \in State PROVE Selects(from, to) \in Maybe(Sports)
<1>1. to.sport \in Maybe(Sports)
  BY DEF State
<1> QED
  BY <1>1, PreferredType DEF Selects

LEMMA BeginType ==
  ASSUME NEW state \in State, NEW from \in Maybe(Sports), NEW sport \in Maybe(Sports),
         inFlight \in [Changes -> Nat], Begin(state, from, sport)
  PROVE  next' \in State /\ inFlight' \in [Changes -> Nat]
<1>1. CASE sport = from
  BY <1>1 DEF Begin
<1>2. CASE sport # from
  <2>1. next' = [state EXCEPT !.sport = sport, !.transitioning = TRUE]
    BY <1>2 DEF Begin
  <2>2. next' \in State
    BY <2>1 DEF State
  <2>3. inFlight' = [inFlight EXCEPT ![<<from, sport>>] = @ + 1] /\ <<from, sport>> \in Changes
    BY <1>2 DEF Begin, Changes
  <2> QED
    BY <2>2, <2>3
<1> QED
  BY <1>1, <1>2

LEMMA EndsType ==
  ASSUME NEW change \in Changes, inFlight \in [Changes -> Nat], Ends(change)
  PROVE  inFlight' \in [Changes -> Nat]
BY DEF Ends

LEMMA TellType ==
  ASSUME NEW drop \in SUBSET Sports, NEW add \in SUBSET Sports,
         asked \subseteq Sports, Tell(drop, add)
  PROVE  asked' \subseteq Sports /\ UNCHANGED <<open, dropped>>
BY DEF Tell

LEMMA GivenType == \A s \in Maybe(Sports) : SportsIn(s) \subseteq Sports
BY DEF SportsIn, Maybe

LEMMA TypeInit == Init => TypeOK
<1> SUFFICES ASSUME Init PROVE TypeOK
  OBVIOUS
<1>1. view \in State /\ next = view
  BY DEF Init, State, Maybe
<1>2. inFlight \in [Maybe(Sports) \X Maybe(Sports) -> Nat]
  BY DEF Init
<1>3. MaxClicks \in Nat /\ MaxEdits \in Nat /\ MaxOpens \in Nat /\ MaxFailures \in Nat
  BY SessionAssumption
<1>4. /\ timer \in Maybe([sport : Sports, from : Maybe(Sports)])
      /\ {open, dropped, overtaken} \subseteq BOOLEAN /\ asked \subseteq Sports
      /\ choice \in Maybe(Sports)
  BY DEF Init, Maybe
<1>5. clicks \in 0..MaxClicks /\ edits \in 0..MaxEdits /\ opens \in 0..MaxOpens
      /\ failures \in 0..MaxFailures
  BY <1>3 DEF Init
<1> QED
  BY <1>1, <1>2, <1>4, <1>5 DEF TypeOK

LEMMA TypeStep == TypeOK /\ [Next]_vars => TypeOK'
<1> SUFFICES ASSUME TypeOK, [Next]_vars PROVE TypeOK'
  OBVIOUS
<1> USE SessionAssumption
<1>t. /\ view \in State /\ next \in State
      /\ timer \in Maybe([sport : Sports, from : Maybe(Sports)])
      /\ inFlight \in [Changes -> Nat]
      /\ open \in BOOLEAN /\ dropped \in BOOLEAN /\ overtaken \in BOOLEAN
      /\ asked \subseteq Sports
      /\ clicks \in 0..MaxClicks /\ edits \in 0..MaxEdits
      /\ opens \in 0..MaxOpens /\ failures \in 0..MaxFailures
      /\ choice \in Maybe(Sports)
  BY DEF TypeOK, Changes
<1>p. \A s \in Sports : s \in Maybe(Sports) /\ {s} \subseteq Sports
  BY DEF Maybe
<1>1. CASE UNCHANGED vars
  BY <1>1, <1>t DEF vars, socket, env, history, TypeOK, Changes
<1>2. CASE LateClose
  <2>1. next' \in State
    BY <1>2, <1>t DEF LateClose, State
  <2> QED
    BY <1>2, <1>t, <2>1 DEF LateClose, env, history, TypeOK, Changes
<1>3. ASSUME NEW change \in Changes, TransitionEnds(change) PROVE TypeOK'
  <2>1. inFlight' \in [Changes -> Nat]
    BY <1>3, <1>t, EndsType DEF TransitionEnds
  <2>2. next' \in State
    BY <1>3, <1>t DEF TransitionEnds, State
  <2> QED
    BY <1>3, <1>t, <2>1, <2>2 DEF TransitionEnds, socket, env, history, TypeOK, Changes
<1>4. ASSUME NEW change \in Changes, TransitionFails(change) PROVE TypeOK'
  <2>1. inFlight' \in [Changes -> Nat]
    BY <1>4, <1>t, EndsType DEF TransitionFails
  <2>2. change[1] \in Maybe(Sports)
    BY DEF Changes
  <2>3. next' \in State
    BY <1>4, <1>t, <2>2 DEF TransitionFails, State
  <2>4. asked' \subseteq Sports /\ UNCHANGED <<open, dropped>>
    BY <1>4, <1>t, <2>2, GivenType, TellType DEF TransitionFails
  <2>5. failures' \in 0..MaxFailures
    BY <1>4, <1>t DEF TransitionFails
  <2> QED
    BY <1>4, <1>t, <2>1, <2>3, <2>4, <2>5 DEF TransitionFails, history, TypeOK, Changes
<1>5. ASSUME NEW sport \in Sports, Click(sport) PROVE TypeOK'
  <2>1. timer' \in Maybe([sport : Sports, from : Maybe(Sports)])
    BY <1>5, <1>t DEF Click, Maybe, State
  <2>2. clicks' \in 0..MaxClicks /\ choice' \in Maybe(Sports)
    BY <1>5, <1>t, <1>p DEF Click, Maybe
  <2> QED
    BY <1>5, <1>t, <2>1, <2>2 DEF Click, socket, TypeOK, Changes
<1>6. CASE TimerFires
  <2>1. timer.sport \in Sports /\ timer.from \in Maybe(Sports)
    BY <1>6, <1>t DEF TimerFires, Maybe
  <2>2. next' \in State /\ inFlight' \in [Changes -> Nat]
    BY <1>6, <1>t, <1>p, <2>1, BeginType DEF TimerFires
  <2>3. /\ asked' \subseteq Sports /\ UNCHANGED <<open, dropped>>
        /\ overtaken' \in BOOLEAN
    <3>1. CASE timer.sport = timer.from
      BY <1>6, <1>t, <3>1 DEF TimerFires, socket
    <3>2. CASE timer.sport # timer.from
      <4>1. Tell(SportsIn(timer.from), {timer.sport}) /\ overtaken' \in BOOLEAN
        BY <1>6, <1>t, <3>2 DEF TimerFires
      <4> QED
        BY <1>t, <1>p, <2>1, <4>1, GivenType, TellType
    <3> QED
      BY <3>1, <3>2
  <2>4. timer' = None /\ UNCHANGED <<view, env, choice>>
    BY <1>6 DEF TimerFires
  <2> QED
    BY <1>t, <2>2, <2>3, <2>4 DEF TypeOK, Changes, env, Maybe
<1>7. CASE Render
  <2> DEFINE silent == [next EXCEPT !.connected = FALSE]
  <2>1. Selects(view, next) \in Maybe(Sports) /\ next.sport \in Maybe(Sports)
    BY <1>t, SelectsType DEF State
  <2>2. silent \in State /\ Begin(silent, next.sport, Selects(view, next))
    BY <1>7, <1>t DEF Render, State
  <2>3. next' \in State /\ inFlight' \in [Changes -> Nat]
    BY <1>t, <2>1, <2>2, BeginType
  <2> QED
    BY <1>7, <1>t, <2>3 DEF Render, TypeOK, Changes, env, history
<1>8. CASE ProfileChanges
  <2>1. next' \in State
    BY <1>8, <1>t DEF ProfileChanges, State
  <2>2. edits' \in 0..MaxEdits /\ choice' \in Maybe(Sports)
    BY <1>8, <1>t DEF ProfileChanges, Maybe
  <2> QED
    BY <1>8, <1>t, <2>1, <2>2 DEF ProfileChanges, socket, TypeOK, Changes
<1>9. CASE SocketOpens
  <2>1. next' \in State
    BY <1>9, <1>t DEF SocketOpens, State
  <2>2. opens' \in 0..MaxOpens
    BY <1>9, <1>t DEF SocketOpens
  <2> QED
    BY <1>9, <1>t, <2>1, <2>2 DEF SocketOpens, history, TypeOK, Changes
<1>10. CASE SocketCloses
  <2>1. next' \in State
    BY <1>10, <1>t DEF SocketCloses, State
  <2> QED
    BY <1>10, <1>t, <2>1 DEF SocketCloses, env, history, TypeOK, Changes
<1> QED
  BY <1>1, <1>2, <1>3, <1>4, <1>5, <1>6, <1>7, <1>8, <1>9, <1>10 DEF Next, Changes

\* The type invariant.
THEOREM TypeCorrect == Spec => []TypeOK
BY TypeInit, TypeStep, PTL DEF Spec

-----------------------------------------------------------------------------
\* The last choice.

\* A choice is pending in the closure of an up-to-date page, or already taken.
ChoiceInv ==
  (choice # None /\ failures = 0) =>
    /\ view.favorites = next.favorites
    /\ choice \in Favorites(next.favorites)
    /\ timer # None => timer.sport = choice /\ timer.from = next.sport /\ view.sport = next.sport
    /\ timer = None => next.sport = choice

\* An effect that selects keeps a favorite sport.
LEMMA SelectsFavorite ==
  ASSUME NEW from \in State, NEW to \in State, to.sport \in Favorites(to.favorites)
  PROVE  Selects(from, to) = to.sport
<1>1. to.favorites # <<>>
  BY DEF Favorites
<1> QED
  BY <1>1 DEF Selects, Preferred

LEMMA BeginFrames ==
  ASSUME NEW state \in State, NEW from \in Maybe(Sports), NEW sport \in Maybe(Sports),
         Begin(state, from, sport)
  PROVE  /\ next'.favorites = state.favorites
         /\ sport # from => next'.sport = sport
         /\ sport = from => next' = state
BY DEF Begin, State

LEMMA EndsFrames ==
  ASSUME TypeOK, NEW change \in Changes, TransitionEnds(change)
  PROVE  /\ next'.sport = next.sport
         /\ next'.favorites = next.favorites
         /\ UNCHANGED <<view, timer, failures, choice, overtaken>>
BY DEF TransitionEnds, TypeOK, State, env, history

LEMMA FailsFrames ==
  ASSUME TypeOK, NEW change \in Changes, TransitionFails(change)
  PROVE  failures' # 0
BY SessionAssumption DEF TransitionFails, TypeOK

LEMMA TimerFrames ==
  ASSUME TypeOK, TimerFires
  PROVE  /\ timer \in [sport : Sports, from : Maybe(Sports)]
         /\ timer' = None
         /\ next'.favorites = next.favorites
         /\ timer.sport # timer.from =>
              next'.sport = timer.sport /\ overtaken' = (overtaken \/ view.sport # next.sport)
         /\ timer.sport = timer.from => next' = next /\ overtaken' = overtaken
         /\ UNCHANGED <<view, failures, choice>>
<1>1. timer \in [sport : Sports, from : Maybe(Sports)] /\ next \in State
  BY DEF TimerFires, TypeOK, Maybe
<1>2. timer.sport \in Maybe(Sports) /\ timer.from \in Maybe(Sports)
  BY <1>1 DEF Maybe
<1>3. Begin(next, timer.from, timer.sport)
  BY DEF TimerFires
<1> QED
  BY <1>1, <1>2, <1>3, BeginFrames DEF TimerFires, env

LEMMA RenderFrames ==
  ASSUME TypeOK, Render
  PROVE  /\ view' = next
         /\ next'.favorites = next.favorites
         /\ next'.sport = Selects(view, next)
         /\ UNCHANGED <<timer, failures, choice, overtaken>>
<1> DEFINE silent == [next EXCEPT !.connected = FALSE]
<1>1. view \in State /\ next \in State
  BY DEF TypeOK
<1>2. /\ silent \in State
      /\ silent.sport = next.sport /\ silent.favorites = next.favorites
  BY <1>1 DEF State
<1>3. Selects(view, next) \in Maybe(Sports) /\ next.sport \in Maybe(Sports)
  BY <1>1, SelectsType DEF State
<1>4. Begin(silent, next.sport, Selects(view, next))
  BY DEF Render
<1> HIDE DEF silent
<1>5. next'.favorites = next.favorites /\ next'.sport = Selects(view, next)
  BY <1>2, <1>3, <1>4, BeginFrames
<1> QED
  BY <1>5 DEF Render, env, history

LEMMA ProfileFrames ==
  ASSUME TypeOK, ProfileChanges
  PROVE  /\ next'.sport = next.sport
         /\ choice' = None
         /\ UNCHANGED <<view, failures, overtaken>>
BY DEF ProfileChanges, TypeOK, State

LEMMA SocketFrames ==
  ASSUME TypeOK, SocketOpens \/ SocketCloses \/ LateClose
  PROVE  /\ next'.sport = next.sport /\ next'.favorites = next.favorites
         /\ UNCHANGED <<view, timer, failures, choice, overtaken>>
BY DEF SocketOpens, SocketCloses, LateClose, TypeOK, State, env, history

LEMMA ChoiceStep == TypeOK /\ ChoiceInv /\ [Next]_vars => ChoiceInv'
<1> SUFFICES ASSUME TypeOK, ChoiceInv, [Next]_vars, choice' # None, failures' = 0
             PROVE  /\ view'.favorites = next'.favorites
                    /\ choice' \in Favorites(next'.favorites)
                    /\ timer' # None => timer'.sport = choice' /\ timer'.from = next'.sport
                                        /\ view'.sport = next'.sport
                    /\ timer' = None => next'.sport = choice'
  BY DEF ChoiceInv
<1>1. CASE UNCHANGED vars
  BY <1>1 DEF vars, env, history, ChoiceInv
<1>3. ASSUME NEW change \in Changes, TransitionEnds(change) PROVE ChoiceInv'
  BY <1>3, EndsFrames DEF ChoiceInv
<1>4. ASSUME NEW change \in Changes, TransitionFails(change) PROVE FALSE
  BY <1>4, FailsFrames
<1>5. ASSUME NEW sport \in Sports, Click(sport) PROVE ChoiceInv'
  <2>1. view = next /\ choice' = sport /\ sport \in Favorites(view.favorites)
    BY <1>5 DEF Click
  <2>2. timer' = [sport |-> sport, from |-> view.sport] /\ UNCHANGED <<view, next>>
    BY <1>5 DEF Click
  <2>3. timer' # None
    <3>1. timer' \in [sport : Sports, from : Sports \cup {None}]
      BY <2>2 DEF TypeOK, State, Maybe
    <3> QED
      BY <3>1, SessionAssumption
  <2> QED
    BY <2>1, <2>2, <2>3 DEF ChoiceInv
<1>6. CASE TimerFires
  BY <1>6, TimerFrames DEF ChoiceInv, TimerFires
<1>7. CASE Render
  <2>1. view \in State /\ next \in State
    BY DEF TypeOK
  <2>2. view.favorites = next.favorites /\ choice \in Favorites(next.favorites)
    BY <1>7, RenderFrames DEF ChoiceInv
  <2>3. Selects(view, next) = next.sport
    <3>1. CASE timer = None
      <4>1. next.sport = choice
        BY <1>7, <3>1, RenderFrames DEF ChoiceInv
      <4> QED
        BY <2>1, <2>2, <4>1, SelectsFavorite
    <3>2. CASE timer # None
      <4>1. view.sport = next.sport
        BY <1>7, <3>2, RenderFrames DEF ChoiceInv
      <4>2. next.favorites # <<>>
        BY <2>2 DEF Favorites
      <4> QED
        BY <2>2, <4>1, <4>2 DEF Selects
    <3> QED
      BY <3>1, <3>2
  <2>4. /\ view' = next /\ next'.favorites = next.favorites /\ next'.sport = next.sport
        /\ UNCHANGED <<timer, choice, failures>>
    BY <1>7, <2>3, RenderFrames
  <2> QED
    BY <2>2, <2>4 DEF ChoiceInv
<1>8. CASE ProfileChanges
  BY <1>8, ProfileFrames
<1>9. CASE SocketOpens \/ SocketCloses \/ LateClose
  BY <1>9, SocketFrames DEF ChoiceInv
<1> QED
  BY <1>1, <1>3, <1>4, <1>5, <1>6, <1>7, <1>8, <1>9 DEF Next, ChoiceInv, Changes

\* The last choice on an up-to-date page is shown once its debounce is over.
THEOREM LastChoice == Spec => []LastChoiceKept
<1>1. Init => ChoiceInv
  BY DEF Init, ChoiceInv
<1>2. ChoiceInv => LastChoiceKept
  BY DEF ChoiceInv, LastChoiceKept, Rendered
<1> QED
  BY <1>1, <1>2, TypeInit, TypeStep, ChoiceStep, PTL DEF Spec

-----------------------------------------------------------------------------
\* The sport shown is a favorite.

\* The rendered sport suits the rendered profile, unless it is on its way out.
FavoriteInv ==
  (failures = 0 /\ ~overtaken /\ view.sport = next.sport) => view.sport = Preferred(view)

LEMMA FavoriteStep == TypeOK /\ FavoriteInv /\ [Next]_vars => FavoriteInv'
<1> SUFFICES ASSUME TypeOK, FavoriteInv, [Next]_vars PROVE FavoriteInv'
  OBVIOUS
<1>1. CASE UNCHANGED vars
  BY <1>1 DEF vars, env, history, FavoriteInv
<1>3. ASSUME NEW change \in Changes, TransitionEnds(change) PROVE FavoriteInv'
  BY <1>3, EndsFrames DEF FavoriteInv
<1>4. ASSUME NEW change \in Changes, TransitionFails(change) PROVE FavoriteInv'
  BY <1>4, FailsFrames DEF FavoriteInv
<1>5. ASSUME NEW sport \in Sports, Click(sport) PROVE FavoriteInv'
  BY <1>5 DEF Click, FavoriteInv
<1>6. CASE TimerFires
  BY <1>6, TimerFrames DEF FavoriteInv
<1>7. CASE Render
  <2> SUFFICES ASSUME failures' = 0, ~overtaken', view'.sport = next'.sport
               PROVE  view'.sport = Preferred(view')
    BY DEF FavoriteInv
  <2>1. view' = next /\ failures = 0 /\ ~overtaken /\ next.sport = Selects(view, next)
    BY <1>7, RenderFrames
  <2>2. next.sport = Preferred(next)
    <3>1. CASE view.sport = next.sport /\ view.favorites = next.favorites
      <4>1. view.sport = Preferred(view)
        BY <2>1, <3>1 DEF FavoriteInv
      <4> QED
        BY <3>1, <4>1 DEF Preferred
    <3>2. CASE ~(view.sport = next.sport /\ view.favorites = next.favorites)
      BY <2>1, <3>2 DEF Selects
    <3> QED
      BY <3>1, <3>2
  <2> QED
    BY <2>1, <2>2
<1>8. CASE ProfileChanges
  BY <1>8, ProfileFrames DEF FavoriteInv
<1>9. CASE SocketOpens \/ SocketCloses \/ LateClose
  BY <1>9, SocketFrames DEF FavoriteInv
<1> QED
  BY <1>1, <1>3, <1>4, <1>5, <1>6, <1>7, <1>8, <1>9 DEF Next, Changes

\* A settled page shows a favorite sport if there is one, unless something failed
\* or a debounced choice overtook the render of another selection.
THEOREM ShowsFavorite == Spec => []FavoriteShown
<1>1. Init => FavoriteInv
  BY DEF Init, FavoriteInv, Preferred
<1>2. FavoriteInv => FavoriteShown
  BY DEF FavoriteInv, FavoriteShown, Rendered
<1> QED
  BY <1>1, <1>2, TypeInit, TypeStep, FavoriteStep, PTL DEF Spec

-----------------------------------------------------------------------------
(***************************************************************************)
(* PageFeedback: the error handler.                                        *)
(***************************************************************************)

HandlerState == [error : Kinds \cup {Nothing}, retrying : BOOLEAN, count : 0..MaxRetries,
                 recovered : BOOLEAN]

\* What is shown lags behind the state, but for the count of retries, which only
\* a click changes: so the limit that is checked on what is shown bounds it.
ErrorsTyped ==
  /\ handler \in HandlerState /\ shown \in HandlerState
  /\ shown.count = handler.count
  /\ calls \in [Slots -> Call \cup {Nothing}]
  /\ boundary \in Kinds \cup {Nothing}

ErrorsInv == ErrorsTyped /\ RetryingIsReal

LEMMA InitErrorsInv == FeedbackInit => ErrorsInv
  BY FeedbackAssumption
  DEF FeedbackInit, ErrorsInit, Clean, ErrorsInv, ErrorsTyped, HandlerState, RetryingIsReal

LEMMA CallTyped ==
  ASSUME calls \in [Slots -> Call \cup {Nothing}], NEW i \in Slots, NEW kind \in Kinds,
         NEW of \in {"handle", "log", "retry", "own"}, Calls(i, of, kind)
  PROVE  /\ calls' \in [Slots -> Call \cup {Nothing}]
         /\ calls'[i] # Nothing /\ calls'[i].of = of
         /\ \A j \in Slots \ {i} : calls'[j] = calls[j]
<1>1. Waits[kind] \in Nat
  BY DEF Kinds, Waits
<1>2. [of |-> of, error |-> kind, waits |-> Waits[kind]] \in Call
  BY <1>1 DEF Call
<1>3. QED
  BY <1>2, FeedbackAssumption DEF Calls

\* Calls that begin do not touch the handler, except for a retry.
LEMMA CallsBegin ==
  ASSUME ErrorsInv, NEW i \in Slots,
         \/ \E kind \in Kinds : HandleError(i, kind) \/ Catches(i, kind)
         \/ Retry(i)
  PROVE  ErrorsInv'
<1> USE DEF ErrorsInv, ErrorsTyped
<1>1. ASSUME NEW kind \in Kinds, HandleError(i, kind) \/ Catches(i, kind) PROVE ErrorsInv'
  <2>1. PICK of \in {"handle", "log"} : Calls(i, of, kind)
    BY <1>1 DEF HandleError, Catches
  <2>2. /\ calls' \in [Slots -> Call \cup {Nothing}]
        /\ \A j \in Slots \ {i} : calls'[j] = calls[j]
    BY <2>1, CallTyped
  <2>3. calls[i] = Nothing /\ UNCHANGED <<handler, shown>> /\ boundary' \in Kinds \cup {Nothing}
    BY <1>1 DEF HandleError, Catches, Free
  <2>4. RetryingIsReal'
    BY <2>2, <2>3 DEF RetryingIsReal
  <2>5. QED BY <2>2, <2>3, <2>4
<1>2. CASE Retry(i)
  <2>1. shown.error \in Kinds
    BY <1>2 DEF Retry, HandlerState
  <2>2. PICK of \in {"retry", "own"} : Calls(i, of, shown.error)
    BY <1>2 DEF Retry
  <2>3. /\ calls' \in [Slots -> Call \cup {Nothing}]
        /\ calls'[i] # Nothing /\ calls'[i].of = of
    BY <2>1, <2>2, CallTyped
  <2>4. /\ handler' = [handler EXCEPT !.retrying = TRUE, !.count = handler.count + 1]
        /\ shown' = handler'
        /\ handler.count < MaxRetries
        /\ boundary' = boundary
    BY <1>2 DEF Retry
  <2>5. handler' \in HandlerState
    <3>1. handler.count + 1 \in 0..MaxRetries
      BY <2>4, FeedbackAssumption DEF HandlerState
    <3>2. QED BY <2>4, <3>1 DEF HandlerState
  <2>6. RetryingIsReal'
    BY <2>3 DEF RetryingIsReal
  <2>7. QED BY <2>3, <2>4, <2>5, <2>6
<1>3. QED BY <1>1, <1>2

\* A page that begins anew retries nothing.
LEMMA ReloadInv == ErrorsInv /\ Reload => ErrorsInv'
  BY FeedbackAssumption
  DEF ErrorsInv, ErrorsTyped, HandlerState, Reload, Clean, RetryingIsReal

\* A call that ends takes back what it said: the end of a retry, and of any error
\* that was handled meanwhile, leaves the handler not retrying.
LEMMA CallsEnd ==
  ASSUME ErrorsInv, NEW i \in Slots,
         \/ Recovers(i) \/ OwnSucceeds(i) \/ StrategyWaits(i)
         \/ \E kind \in Kinds : OwnFails(i, kind)
  PROVE  ErrorsInv'
<1> USE DEF ErrorsInv, ErrorsTyped
<1>1. CASE Recovers(i)
  <2>1. CASE Reload
    BY <2>1, ReloadInv
  <2>2. CASE ~Reload
    <3>1. /\ calls[i] \in Call /\ calls[i].of # "own"
          /\ handler' = Handled(calls[i])
          /\ calls' = [calls EXCEPT ![i] = Nothing]
          /\ UNCHANGED <<shown, boundary>>
      BY <1>1, <2>2 DEF Recovers
    <3>2. CASE calls[i].of = "log"
      <4>1. handler' = handler
        BY <3>1, <3>2 DEF Handled
      <4>2. RetryingIsReal'
        BY <3>1, <3>2, <4>1 DEF RetryingIsReal
      <4>3. QED BY <3>1, <4>1, <4>2
    <3>3. CASE calls[i].of \in {"handle", "retry"}
      <4>1. handler' \in HandlerState /\ ~handler'.retrying /\ handler'.count = handler.count
        BY <3>1, <3>3 DEF Handled, HandlerState, Call
      <4>2. QED BY <3>1, <4>1 DEF RetryingIsReal
    <3>4. QED BY <3>1, <3>2, <3>3 DEF Call
  <2>3. QED BY <2>1, <2>2
<1>2. CASE OwnSucceeds(i)
  BY <1>2 DEF OwnSucceeds, HandlerState, RetryingIsReal
<1>3. CASE StrategyWaits(i)
  <2>1. /\ calls[i] \in Call /\ calls[i].waits > 0
        /\ calls' = [calls EXCEPT ![i] = [calls[i] EXCEPT !.waits = calls[i].waits - 1]]
        /\ UNCHANGED <<handler, shown, boundary>>
    BY <1>3 DEF StrategyWaits
  <2>2. calls'[i] \in Call /\ calls'[i].of = calls[i].of
    BY <2>1 DEF Call
  <2>3. calls' \in [Slots -> Call \cup {Nothing}]
    BY <2>1, <2>2
  <2>4. RetryingIsReal'
    BY <2>1, <2>2, FeedbackAssumption DEF RetryingIsReal
  <2>5. QED BY <2>1, <2>3, <2>4
<1>4. ASSUME NEW kind \in Kinds, OwnFails(i, kind) PROVE ErrorsInv'
  <2>1. calls' \in [Slots -> Call \cup {Nothing}]
    BY <1>4, CallTyped DEF OwnFails
  <2>2. /\ handler' = [handler EXCEPT !.retrying = FALSE]
        /\ UNCHANGED <<shown, boundary>>
    BY <1>4 DEF OwnFails
  <2>3. QED BY <2>1, <2>2 DEF HandlerState, RetryingIsReal
<1>5. QED BY <1>1, <1>2, <1>3, <1>4

LEMMA NextErrorsInv == ErrorsInv /\ [FeedbackNext]_feedback => ErrorsInv'
<1> SUFFICES ASSUME ErrorsInv, [FeedbackNext]_feedback PROVE ErrorsInv'
  OBVIOUS
<1>1. CASE UNCHANGED errorVars
  BY <1>1 DEF errorVars, ErrorsInv, ErrorsTyped, RetryingIsReal
<1>2. ASSUME NEW i \in Slots, NEW kind \in Kinds,
             HandleError(i, kind) \/ Catches(i, kind) \/ OwnFails(i, kind)
      PROVE  ErrorsInv'
  BY <1>2, CallsBegin, CallsEnd
<1>3. ASSUME NEW i \in Slots, StrategyWaits(i) \/ Recovers(i) \/ Retry(i) \/ OwnSucceeds(i)
      PROVE  ErrorsInv'
  BY <1>3, CallsBegin, CallsEnd
<1>4. CASE HandleReload
  BY <1>4, ReloadInv DEF HandleReload
<1>5. CASE ResetErrorBoundary
  BY <1>5 DEF ResetErrorBoundary, ErrorsInv, ErrorsTyped, RetryingIsReal
<1>6. CASE ClearError
  BY <1>6, FeedbackAssumption
  DEF ClearError, ErrorsInv, ErrorsTyped, HandlerState, Clean, RetryingIsReal
<1>7. CASE RenderHandler
  BY <1>7 DEF RenderHandler, ErrorsInv, ErrorsTyped, RetryingIsReal
<1>8. [ErrorsNext]_errorVars
  BY DEF FeedbackNext, feedback
<1>9. QED
  BY <1>1, <1>2, <1>3, <1>4, <1>5, <1>6, <1>7, <1>8 DEF ErrorsNext

\* The button of the error handler comes back, and is pressed no more than
\* MaxRetries times before the error is cleared: a handler that says it retries has
\* a retry under way, whatever else was handled, logged or cleared meanwhile.
THEOREM RetriesAreReal == FeedbackSpec => [](RetryingIsReal /\ handler.count \in 0..MaxRetries)
<1>1. FeedbackInit => ErrorsInv
  BY InitErrorsInv
<1>2. ErrorsInv /\ [FeedbackNext]_feedback => ErrorsInv'
  BY NextErrorsInv
<1>3. ErrorsInv => RetryingIsReal /\ handler.count \in 0..MaxRetries
  BY DEF ErrorsInv, ErrorsTyped, HandlerState
<1>4. QED BY <1>1, <1>2, <1>3, PTL DEF FeedbackSpec

-----------------------------------------------------------------------------
(***************************************************************************)
(* SportDetection: the service.                                            *)
(***************************************************************************)

\* The changes of h follow one another, and the last one led to c.
Linked(h, c) ==
  /\ \A i \in 1..(Len(h) - 1) : h[i].to = h[i + 1].from
  /\ h # <<>> => h[Len(h)].to = c

\* A history stays linked when a change from where it led is added and the oldest
\* ones are dropped.
LEMMA KeptIsLinked ==
  ASSUME NEW S, NEW h \in Seq(S), NEW e \in S, Linked(h, e.from)
  PROVE  Kept(Append(h, e)) \in Seq(S) /\ Linked(Kept(Append(h, e)), e.to)
<1> DEFINE g == Append(h, e)
<1>1. /\ g \in Seq(S) /\ Len(g) = Len(h) + 1 /\ g[Len(g)] = e
      /\ \A i \in 1..Len(h) : g[i] = h[i]
  OBVIOUS
<1>2. \A i \in 1..(Len(g) - 1) : g[i].to = g[i + 1].from
  <2> SUFFICES ASSUME NEW i \in 1..(Len(g) - 1) PROVE g[i].to = g[i + 1].from
    OBVIOUS
  <2>1. CASE i = Len(h)
    BY <1>1, <2>1 DEF Linked
  <2>2. CASE i # Len(h)
    <3>1. i \in 1..(Len(h) - 1)
      BY <1>1, <2>2
    <3>2. QED BY <1>1, <3>1 DEF Linked
  <2>3. QED BY <2>1, <2>2
<1> HIDE DEF g
<1>3. CASE Len(g) <= MaxHistory
  <2>1. Kept(g) = g
    BY <1>1, <1>3, DetectionAssumption DEF Kept
  <2>2. QED BY <1>1, <1>2, <2>1 DEF Linked, g
<1>4. CASE Len(g) > MaxHistory
  <2> DEFINE k == Len(g) - MaxHistory
             f == SubSeq(g, k + 1, Len(g))
  <2>1. Kept(g) = f
    BY <1>4 DEF Kept
  <2>2. k \in Nat /\ k <= Len(g) /\ k + 1 >= 1
    BY <1>1, <1>4, DetectionAssumption
  <2> HIDE DEF k
  <2>3. f \in Seq(S) /\ Len(f) = Len(g) - k /\ \A i \in 1..Len(f) : f[i] = g[k + i]
    BY <1>1, <2>2
  <2> HIDE DEF f
  <2>4. \A i \in 1..(Len(f) - 1) : f[i].to = f[i + 1].from
    <3> SUFFICES ASSUME NEW i \in 1..(Len(f) - 1) PROVE f[i].to = f[i + 1].from
      OBVIOUS
    <3>1. i \in 1..Len(f) /\ i + 1 \in 1..Len(f) /\ k + i \in 1..(Len(g) - 1)
      BY <1>1, <2>2, <2>3
    <3>2. f[i] = g[k + i] /\ f[i + 1] = g[k + i + 1]
      BY <2>2, <2>3, <3>1
    <3>3. QED BY <1>2, <3>1, <3>2
  <2>5. f # <<>> => f[Len(f)] = e
    <3> SUFFICES ASSUME f # <<>> PROVE f[Len(f)] = e
      OBVIOUS
    <3>1. Len(f) \in 1..Len(f)
      BY <2>3
    <3>2. k + Len(f) = Len(g)
      BY <1>1, <2>2, <2>3
    <3>3. QED BY <1>1, <2>3, <3>1, <3>2
  <2>6. QED BY <2>1, <2>3, <2>4, <2>5 DEF Linked, g
<1>5. QED BY <1>1, <1>3, <1>4, DetectionAssumption

\* A change that is forced cancels the one that was pending, and a request that
\* leaves one pending comes after it; so nothing is pending while it stands.
DetectionInv ==
  /\ service = [made |-> service.made, current |-> service.current, previous |-> service.previous,
                timer |-> service.timer, history |-> service.history, tasks |-> service.tasks]
  /\ requested = [how |-> requested.how, sport |-> requested.sport, count |-> requested.count]
  /\ requested.how = "force" => service.current = requested.sport /\ service.timer = Absent
  /\ service.history \in Seq(Range(service.history))
  /\ Linked(service.history, service.current)

\* What does not change the sport or its requests keeps the invariant.
LEMMA DetectionFrame ==
  ASSUME DetectionInv, requested' = requested,
         service' = [made |-> service'.made, current |-> service.current,
                     previous |-> service.previous, timer |-> service.timer,
                     history |-> service.history, tasks |-> service'.tasks]
  PROVE  DetectionInv'
<1>1. /\ service'.current = service.current /\ service'.history = service.history
      /\ service'.timer = service.timer /\ service'.previous = service.previous
  OBVIOUS
<1>2. QED BY <1>1 DEF DetectionInv, Linked, Range

\* A sport that is detected is pending at most.
LEMMA DetectedInv ==
  ASSUME DetectionInv, NEW sport, NEW there, AsksFor("detect", sport),
         service' = Detected([service EXCEPT !.made = there], sport)
  PROVE  DetectionInv'
<1>1. /\ service' = [made |-> service'.made, current |-> service.current,
                     previous |-> service.previous, timer |-> service'.timer,
                     history |-> service.history, tasks |-> service.tasks]
  BY DEF DetectionInv, Detected
<1>2. /\ requested' = [how |-> "detect", sport |-> sport, count |-> requested.count + 1]
  BY DEF AsksFor
<1>3. service'.current = service.current /\ service'.history = service.history
  BY <1>1
<1>4. QED BY <1>1, <1>2, <1>3 DEF DetectionInv, Linked, Range

\* A change that is made is the last of the history.
LEMMA ChangedInv ==
  ASSUME DetectionInv, NEW sport,
         service' = [Changed(service, sport) EXCEPT !.timer = Absent],
         \/ requested' = requested /\ requested.how # "force"
         \/ requested' = [how |-> "force", sport |-> sport, count |-> requested.count + 1]
  PROVE  DetectionInv'
<1> DEFINE e == [from |-> service.current, to |-> sport,
                 cleaned |-> IF service.current = Absent THEN <<>>
                             ELSE service.tasks[service.current]]
           h == service.history
           S == Range(h) \cup {e}
<1>1. service' = [made |-> service.made, current |-> sport, previous |-> service.current,
                  timer |-> Absent, history |-> Kept(Append(h, e)), tasks |-> service.tasks]
  BY DEF DetectionInv, Changed
<1>2. h \in Seq(S)
  BY DEF DetectionInv
<1>3. e.from = service.current /\ e.to = sport
  OBVIOUS
<1> HIDE DEF e
<1>4. /\ Kept(Append(h, e)) \in Seq(S)
      /\ Linked(Kept(Append(h, e)), sport)
  BY <1>2, <1>3, KeptIsLinked DEF DetectionInv
<1> HIDE DEF S
<1>5. Kept(Append(h, e)) \in Seq(Range(Kept(Append(h, e))))
  BY <1>4 DEF Range
<1>6. /\ service'.history = Kept(Append(h, e)) /\ service'.current = sport
      /\ service'.timer = Absent
  BY <1>1
<1>7. Linked(service.history, service.current)' = Linked(Kept(Append(h, e)), sport)
  BY <1>6 DEF Linked
<1>8. /\ requested' = [how |-> requested'.how, sport |-> requested'.sport,
                       count |-> requested'.count]
      /\ requested'.how = "force" => requested'.sport = sport
  BY DEF DetectionInv
<1>9. QED BY <1>1, <1>4, <1>5, <1>6, <1>7, <1>8 DEF DetectionInv

LEMMA NextDetectionInv == DetectionInv /\ [DetectionNext]_detectionVars => DetectionInv'
<1> SUFFICES ASSUME DetectionInv, [DetectionNext]_detectionVars PROVE DetectionInv'
  OBVIOUS
<1>1. CASE TimerEnds
  <2>1. requested.how # "force"
    BY <1>1 DEF TimerEnds, DetectionInv
  <2>2. QED BY <1>1, <2>1, ChangedInv DEF TimerEnds
<1>2. ASSUME NEW p, NEW there, service' = RouteDetected([service EXCEPT !.made = there], p),
             IF SportOfPath(p) = Absent THEN UNCHANGED requested ELSE AsksFor("detect", SportOfPath(p))
      PROVE  DetectionInv'
  <2>1. CASE SportOfPath(p) = Absent
    BY <1>2, <2>1, DetectionFrame DEF RouteDetected, DetectionInv
  <2>2. CASE SportOfPath(p) # Absent
    BY <1>2, <2>2, DetectedInv DEF RouteDetected
  <2>3. QED BY <2>1, <2>2
<1>3. CASE MountHook
  BY <1>2, <1>3 DEF MountHook
<1>4. [service EXCEPT !.made = service.made] = service
  BY DEF DetectionInv
<1>5. ASSUME NEW p \in Paths, Navigate(p) PROVE DetectionInv'
  BY <1>2, <1>4, <1>5 DEF Navigate
<1>6. ASSUME NEW s \in DetectedSports, ChangeSport(s) PROVE DetectionInv'
  BY <1>4, <1>6, DetectedInv DEF ChangeSport
<1>7. ASSUME NEW s \in DetectedSports, ForceChangeSport(s) PROVE DetectionInv'
  BY <1>7, ChangedInv DEF ForceChangeSport, AsksFor
<1>8. ASSUME NEW id \in CleanupIds, NEW s \in DetectedSports,
             RegisterCleanup(id, s) \/ UnregisterCleanup(id, s)
      PROVE  DetectionInv'
  BY <1>8, DetectionFrame DEF RegisterCleanup, UnregisterCleanup, DetectionInv
<1>9. CASE UnmountHook \/ PollHistory \/ PollSport \/ UNCHANGED detectionVars
  BY <1>9, DetectionFrame
  DEF UnmountHook, PollHistory, PollSport, detectionVars, DetectionInv
<1>10. QED
  BY <1>1, <1>3, <1>5, <1>6, <1>7, <1>8, <1>9 DEF DetectionNext

\* A change that was forced stands until another is asked for, and what the service
\* remembers leads, change by change, to the sport it has.
THEOREM ForceIsFinal == DetectionSpec => []ForcedStands
<1>1. DetectionInit => DetectionInv
  BY DEF DetectionInit, NoRequest, DetectionInv, Linked, Range
<1>2. DetectionInv /\ [DetectionNext]_detectionVars => DetectionInv'
  BY NextDetectionInv
<1>3. DetectionInv => ForcedStands
  BY DEF DetectionInv, ForcedStands, Linked
<1>4. QED BY <1>1, <1>2, <1>3, PTL DEF DetectionSpec

-----------------------------------------------------------------------------
\* Picking places of a sequence.
\* How many places of S are not after j.
RankIn(S, j) == Cardinality({k \in S : k <= j})

LEMMA RankGrows ==
  ASSUME NEW S \in SUBSET Nat, IsFiniteSet(S), NEW i \in S, NEW j \in S
  PROVE  /\ RankIn(S, j) \in 1..Cardinality(S)
         /\ i < j => RankIn(S, i) < RankIn(S, j)
<1> DEFINE upTo(x) == {k \in S : k <= x}
<1>1. \A x : IsFiniteSet(upTo(x)) /\ Cardinality(upTo(x)) <= Cardinality(S)
  BY FS_Subset
<1>2. Cardinality(S) \in Nat /\ \A x : Cardinality(upTo(x)) \in Nat
  BY <1>1, FS_CardinalityType
<1>3. Cardinality(upTo(j)) # 0
  <2>1. j \in upTo(j)
    OBVIOUS
  <2> QED BY <1>1, <2>1, FS_EmptySet
<1>4. ASSUME i < j PROVE Cardinality(upTo(i)) < Cardinality(upTo(j))
  <2>1. upTo(i) \in SUBSET upTo(j) /\ j \in upTo(j) /\ j \notin upTo(i)
    <3>1. i \in Nat /\ j \in Nat /\ i < j /\ \A k \in S : k \in Nat
      BY <1>4
    <3>2. \A k \in S : k <= i => k <= j
      BY <3>1
    <3>3. upTo(i) \subseteq upTo(j)
      BY <3>2
    <3>4. j \in upTo(j) /\ ~(j <= i)
      BY <3>1
    <3> QED BY <3>3, <3>4
  <2>2. /\ Cardinality(upTo(i)) <= Cardinality(upTo(j))
        /\ Cardinality(upTo(j)) = Cardinality(upTo(i)) => upTo(j) = upTo(i)
    <3> HIDE DEF upTo
    <3> QED BY <1>1, <2>1, FS_Subset, Zenon
  <2>3. upTo(j) # upTo(i)
    BY <2>1
  <2> HIDE DEF upTo
  <2> QED BY <1>2, <2>2, <2>3
<1> QED BY <1>1, <1>2, <1>3, <1>4 DEF RankIn

\* Every place is the i-th of S for one i: the ranks are as many as the places.
LEMMA PlacesExist ==
  ASSUME NEW S \in SUBSET Nat, IsFiniteSet(S)
  PROVE  /\ Cardinality(S) \in Nat
         /\ \A i \in 1..Cardinality(S) : PlaceOf(i, S) \in S /\ RankIn(S, PlaceOf(i, S)) = i
         /\ \A j \in S : RankIn(S, j) \in 1..Cardinality(S) /\ PlaceOf(RankIn(S, j), S) = j
<1> DEFINE n == Cardinality(S)
           rank == [j \in S |-> RankIn(S, j)]
<1>1. n \in Nat /\ IsFiniteSet(1..n) /\ Cardinality(1..n) = n
  BY FS_CardinalityType, FS_Interval
<1>2. rank \in [S -> 1..n] /\ \A i, j \in S : i < j => rank[i] < rank[j]
  BY RankGrows
<1>3. \A i, j \in S : rank[i] = rank[j] => i = j
  <2> TAKE i \in S, j \in S
  <2>1. i \in Nat /\ j \in Nat /\ rank[i] \in Nat /\ rank[j] \in Nat
    BY <1>1, <1>2
  <2> QED BY <1>2, <2>1
<1>4. rank \in Injection(S, 1..n)
  BY <1>2, <1>3 DEF Injection, IsInjective
<1>5. rank \in Surjection(S, 1..n)
  BY <1>1, <1>4, FS_Injection, Zenon
<1>6. \A i \in 1..n : \E j \in S : RankIn(S, j) = i
  BY <1>5 DEF Surjection
<1>7. \A i \in 1..n : PlaceOf(i, S) \in S /\ RankIn(S, PlaceOf(i, S)) = i
  BY <1>6 DEF PlaceOf, RankIn
<1>8. \A j \in S : RankIn(S, j) \in 1..n
  BY RankGrows
<1>9. \A j \in S : PlaceOf(RankIn(S, j), S) = j
  BY <1>3, <1>7, <1>8
<1> QED BY <1>1, <1>7, <1>8, <1>9

\* What picking places of a sequence gives: the elements of these places, in order.
LEMMA PickedElements ==
  ASSUME NEW A, NEW q \in Seq(A), NEW S \in SUBSET DOMAIN q
  PROVE  /\ Picked(q, S) \in Seq(A)
         /\ \A i \in DOMAIN Picked(q, S) :
              PlaceOf(i, S) \in S /\ Picked(q, S)[i] = q[PlaceOf(i, S)]
         /\ \A i, j \in DOMAIN Picked(q, S) : i < j => PlaceOf(i, S) < PlaceOf(j, S)
         /\ \A k \in S : \E i \in DOMAIN Picked(q, S) : Picked(q, S)[i] = q[k]
<1>1. DOMAIN q = 1..Len(q) /\ Len(q) \in Nat /\ IsFiniteSet(1..Len(q))
  BY FS_Interval
<1>2. S \in SUBSET Nat /\ IsFiniteSet(S)
  BY <1>1, FS_Subset
<1> DEFINE n == Cardinality(S)
<1>3. /\ n \in Nat
      /\ \A i \in 1..n : PlaceOf(i, S) \in S /\ RankIn(S, PlaceOf(i, S)) = i
      /\ \A j \in S : RankIn(S, j) \in 1..n /\ PlaceOf(RankIn(S, j), S) = j
  BY <1>2, PlacesExist, Zenon
<1>4. DOMAIN Picked(q, S) = 1..n /\ \A i \in 1..n : Picked(q, S)[i] = q[PlaceOf(i, S)]
  BY DEF Picked
<1>5. \A i \in 1..n : q[PlaceOf(i, S)] \in A
  BY <1>1, <1>3
<1>6. Picked(q, S) \in Seq(A)
  BY <1>3, <1>5 DEF Picked
<1>7. \A i, j \in 1..n : i < j => PlaceOf(i, S) < PlaceOf(j, S)
  <2> SUFFICES ASSUME NEW i \in 1..n, NEW j \in 1..n, i < j, ~(PlaceOf(i, S) < PlaceOf(j, S))
               PROVE FALSE
    OBVIOUS
  <2>1. PlaceOf(i, S) \in S /\ PlaceOf(j, S) \in S /\ RankIn(S, PlaceOf(i, S)) = i
        /\ RankIn(S, PlaceOf(j, S)) = j
    BY <1>3
  <2>2. PlaceOf(i, S) \in Nat /\ PlaceOf(j, S) \in Nat
    BY <1>2, <2>1
  <2>3. PlaceOf(j, S) < PlaceOf(i, S) \/ PlaceOf(j, S) = PlaceOf(i, S)
    BY <2>2
  <2>4. PlaceOf(j, S) < PlaceOf(i, S) => RankIn(S, PlaceOf(j, S)) < RankIn(S, PlaceOf(i, S))
    BY <1>2, <2>1, RankGrows
  <2> QED BY <2>1, <2>3, <2>4
<1>8. \A k \in S : \E i \in 1..n : Picked(q, S)[i] = q[k]
  BY <1>3, <1>4
<1> QED BY <1>3, <1>4, <1>6, <1>7, <1>8

-----------------------------------------------------------------------------
\* Smart updates: which requests there are, and what the map has for them.

Types == {w.type : w \in Wanted}
Subjects == {w.of : w \in Wanted}
Needs == {w.deps : w \in Wanted}
Pending == [type : Types, of : Subjects, prio : Low..Critical, cond : Conditions,
            deps : Needs, id : 1..MaxUpdates]

\* What a request is called, and about what it is.
NameOf(r) == <<r.id, Key(r)>>

\* OnePerKey, of any queue and map.
Agree(q, m) ==
  \A i \in DOMAIN q :
    /\ \A j \in DOMAIN q : Key(q[i]) = Key(q[j]) => i = j
    /\ Key(q[i]) \in DOMAIN m
    /\ m[Key(q[i])].id = q[i].id

\* The requests there are: an id is of one key, and none is from the future.
Known == ToSet(queue) \cup {coalescing[k] : k \in DOMAIN coalescing}
         \cup {throttles[k] : k \in DOMAIN throttles}
OneKeyPerId ==
  /\ \A r \in Known : r.id <= requestsMade
  /\ \A r, s \in Known : r.id = s.id => Key(r) = Key(s)

SmartInv ==
  /\ requestsMade \in 0..MaxUpdates
  /\ queue \in Seq(Pending)
  /\ \A k \in DOMAIN coalescing : coalescing[k] \in Pending /\ Key(coalescing[k]) = k
  /\ \A k \in DOMAIN throttles : throttles[k] \in Pending
  /\ OneKeyPerId
  /\ Agree(queue, coalescing)

\* Some are left out.
LEMMA ButElements ==
  ASSUME NEW q \in Seq(Pending), NEW rs
  PROVE  /\ QueuedBut(q, rs) \in Seq(Pending)
         /\ ToSet(QueuedBut(q, rs)) = {r \in ToSet(q) : \A x \in rs : x.id # r.id}
         /\ \A m : Agree(q, m) => Agree(QueuedBut(q, rs), m)
<1> DEFINE S == {i \in DOMAIN q : \A r \in rs : r.id # q[i].id}
           p == QueuedBut(q, rs)
<1>1. S \in SUBSET DOMAIN q /\ p = Picked(q, S)
  BY DEF QueuedBut
<1>2. /\ p \in Seq(Pending)
      /\ \A i \in DOMAIN p : PlaceOf(i, S) \in S /\ p[i] = q[PlaceOf(i, S)]
      /\ \A i, j \in DOMAIN p : i < j => PlaceOf(i, S) < PlaceOf(j, S)
      /\ \A k \in S : \E i \in DOMAIN p : p[i] = q[k]
  <2> HIDE DEF p, S
  <2>1. /\ Picked(q, S) \in Seq(Pending)
        /\ \A i \in DOMAIN Picked(q, S) :
             PlaceOf(i, S) \in S /\ Picked(q, S)[i] = q[PlaceOf(i, S)]
        /\ \A i, j \in DOMAIN Picked(q, S) : i < j => PlaceOf(i, S) < PlaceOf(j, S)
        /\ \A k \in S : \E i \in DOMAIN Picked(q, S) : Picked(q, S)[i] = q[k]
    BY <1>1, PickedElements, Zenon
  <2> QED BY <1>1, <2>1, Zenon
<1>3. \A i, j \in DOMAIN p : PlaceOf(i, S) = PlaceOf(j, S) => i = j
  <2> HIDE DEF p, S
  <2> TAKE i \in DOMAIN p, j \in DOMAIN p
  <2>1. i \in Nat /\ j \in Nat
    BY <1>2
  <2>2. PlaceOf(i, S) \in DOMAIN q /\ PlaceOf(j, S) \in DOMAIN q
    BY <1>1, <1>2
  <2>3. PlaceOf(i, S) \in Nat /\ PlaceOf(j, S) \in Nat
    BY <2>2
  <2> QED BY <1>2, <2>1, <2>3
<1>4. ToSet(p) = {r \in ToSet(q) : \A x \in rs : x.id # r.id}
  <2>1. \A i \in DOMAIN q : i \in S <=> \A x \in rs : x.id # q[i].id
    OBVIOUS
  <2> HIDE DEF p, S
  <2> QED BY <1>1, <1>2, <2>1 DEF ToSet
<1>5. ASSUME NEW m, Agree(q, m) PROVE Agree(p, m)
  <2> HIDE DEF p, S
  <2> QED BY <1>1, <1>2, <1>3, <1>5 DEF Agree
<1> QED BY <1>2, <1>4, <1>5

\* A request is put in its place, or at the end.
LEMMA WithElements ==
  ASSUME NEW q \in Seq(Pending), NEW m, NEW r \in Pending, Agree(q, m),
         Key(r) \in DOMAIN m, m[Key(r)].id = r.id,
         \A i \in DOMAIN q : q[i].id = r.id => Key(q[i]) = Key(r)
  PROVE  /\ QueuedWith(q, r) \in Seq(Pending)
         /\ ToSet(QueuedWith(q, r)) \subseteq ToSet(q) \cup {r}
         /\ Agree(QueuedWith(q, r), m)
<1> DEFINE p == QueuedWith(q, r)
<1>1. DOMAIN q = 1..Len(q) /\ Len(q) \in Nat /\ \A i \in DOMAIN q : q[i] \in Pending
  OBVIOUS
<1>2. ASSUME \E i \in DOMAIN q : q[i].id = r.id
      PROVE  p \in Seq(Pending) /\ ToSet(p) \subseteq ToSet(q) \cup {r} /\ Agree(p, m)
  <2>1. p = [i \in DOMAIN q |-> IF q[i].id = r.id THEN r ELSE q[i]]
    BY <1>2 DEF QueuedWith
  <2>2. /\ DOMAIN p = DOMAIN q
        /\ \A i \in DOMAIN q : Key(p[i]) = Key(q[i]) /\ p[i].id = q[i].id /\ p[i] \in {q[i], r}
    <3>1. DOMAIN p = DOMAIN q /\ \A i \in DOMAIN q : p[i] = IF q[i].id = r.id THEN r ELSE q[i]
      BY <2>1
    <3> HIDE DEF p
    <3> QED BY <3>1
  <2>3. p \in Seq(Pending)
    BY <1>1, <2>1
  <2> HIDE DEF p
  <2> QED BY <2>2, <2>3 DEF Agree, ToSet
<1>3. ASSUME ~\E i \in DOMAIN q : q[i].id = r.id
      PROVE  p \in Seq(Pending) /\ ToSet(p) \subseteq ToSet(q) \cup {r} /\ Agree(p, m)
  <2>1. p = Append(q, r)
    BY <1>3 DEF QueuedWith
  <2>2. \A i \in DOMAIN q : Key(q[i]) # Key(r)
    BY <1>3 DEF Agree
  <2>3. /\ p \in Seq(Pending) /\ DOMAIN p = 1..(Len(q) + 1) /\ p[Len(q) + 1] = r
        /\ \A i \in DOMAIN q : p[i] = q[i]
        /\ \A i \in DOMAIN p : i \in DOMAIN q \/ i = Len(q) + 1
    <3> HIDE DEF p
    <3> QED BY <1>1, <2>1
  <2>4. \A i \in DOMAIN q : i # Len(q) + 1
    BY <1>1
  <2> HIDE DEF p
  <2>5. ToSet(p) \subseteq ToSet(q) \cup {r}
    BY <2>3 DEF ToSet
  <2>6. Agree(p, m)
    BY <2>2, <2>3, <2>4 DEF Agree
  <2> QED BY <2>3, <2>5, <2>6
<1> QED BY <1>2, <1>3

\* Requests go out: what the map has for their keys goes with them.
LEMMA OutAgrees ==
  ASSUME NEW q \in Seq(Pending), NEW m, NEW rs, Agree(q, m),
         \A r \in rs : Key(r) \in DOMAIN m /\ m[Key(r)].id = r.id
  PROVE  Agree(QueuedBut(q, rs), Unkeyed(m, rs))
<1> DEFINE p == QueuedBut(q, rs)
           u == Unkeyed(m, rs)
<1>1. /\ p \in Seq(Pending) /\ Agree(p, m)
      /\ ToSet(p) = {r \in ToSet(q) : \A x \in rs : x.id # r.id}
  BY ButElements
<1>2. /\ DOMAIN u = DOMAIN m \ {Key(r) : r \in rs}
      /\ \A k \in DOMAIN u : u[k] = m[k]
  BY DEF Unkeyed
<1> SUFFICES Agree(p, u)
  OBVIOUS
<1> HIDE DEF p, u
<1>3. \A i \in DOMAIN p : \A x \in rs : x.id # p[i].id
  BY <1>1 DEF ToSet
<1>4. \A i \in DOMAIN p : Key(p[i]) \notin {Key(r) : r \in rs}
  BY <1>1, <1>3 DEF Agree
<1> QED BY <1>1, <1>2, <1>4 DEF Agree

LEMMA DeferredType ==
  ASSUME NEW r \in Pending
  PROVE  Deferred(r) \in Pending /\ Deferred(r).id = r.id /\ Key(Deferred(r)) = Key(r)
<1>1. Low \in Low..Critical /\ "batched" \in Conditions
  BY DEF Low, Critical, Conditions
<1> QED BY <1>1 DEF Deferred, Pending, Key

\* The request of the map with its key is processed.
LEMMA ProcessAgrees ==
  ASSUME NEW q \in Seq(Pending), NEW m, NEW r \in Pending, Agree(q, m),
         Key(r) \in DOMAIN m, m[Key(r)].id = r.id,
         \A i \in DOMAIN q : q[i].id = r.id => Key(q[i]) = Key(r),
         Process(q, m, r)
  PROVE  /\ queue' \in Seq(Pending)
         /\ ToSet(queue') \subseteq ToSet(q) \cup {Deferred(r)}
         /\ \A k \in DOMAIN coalescing' : k \in DOMAIN m /\ coalescing'[k] = m[k]
         /\ Agree(queue', coalescing')
<1>1. CASE Satisfied(q, r)
  <2>1. queue' = QueuedBut(q, {r}) /\ coalescing' = Unkeyed(m, {r})
    BY <1>1 DEF Process
  <2>2. Agree(QueuedBut(q, {r}), Unkeyed(m, {r}))
    BY OutAgrees
  <2>3. QueuedBut(q, {r}) \in Seq(Pending) /\ ToSet(QueuedBut(q, {r})) \subseteq ToSet(q)
    BY ButElements
  <2>4. \A k \in DOMAIN Unkeyed(m, {r}) : k \in DOMAIN m /\ Unkeyed(m, {r})[k] = m[k]
    BY DEF Unkeyed
  <2> QED BY <2>1, <2>2, <2>3, <2>4
<1>2. CASE ~Satisfied(q, r)
  <2>1. queue' = QueuedWith(q, Deferred(r)) /\ coalescing' = m
    BY <1>2 DEF Process
  <2>2. /\ QueuedWith(q, Deferred(r)) \in Seq(Pending)
        /\ ToSet(QueuedWith(q, Deferred(r))) \subseteq ToSet(q) \cup {Deferred(r)}
        /\ Agree(QueuedWith(q, Deferred(r)), m)
    BY DeferredType, WithElements
  <2> QED BY <2>1, <2>2
<1> QED BY <1>1, <1>2

\* Requests keep their names, and a new one has an id of its own.
LEMMA NamesStay ==
  ASSUME OneKeyPerId, requestsMade \in Nat, NEW new,
         \A r \in Known : r.id \in Nat,
         requestsMade' = requestsMade \/ requestsMade' = requestsMade + 1,
         \A r \in Known' : \/ \E x \in Known : r.id = x.id /\ Key(r) = Key(x)
                           \/ /\ requestsMade' = requestsMade + 1
                              /\ r.id = requestsMade + 1 /\ Key(r) = new
  PROVE  OneKeyPerId'
<1> DEFINE Old(r) == \E x \in Known : r.id = x.id /\ Key(r) = Key(x)
           Fresh1(r) == /\ requestsMade' = requestsMade + 1
                        /\ r.id = requestsMade + 1 /\ Key(r) = new
<1>1. \A r \in Known' : Old(r) \/ Fresh1(r)
  OBVIOUS
<1>2. ASSUME NEW r, Old(r) PROVE r.id \in Nat /\ r.id <= requestsMade
  BY <1>2 DEF OneKeyPerId
<1>3. ASSUME NEW r, NEW s, Old(r), Old(s), r.id = s.id PROVE Key(r) = Key(s)
  BY <1>3 DEF OneKeyPerId
<1>4. ASSUME NEW r, NEW s, Fresh1(r), Fresh1(s) PROVE Key(r) = Key(s)
  BY <1>4
<1>5. ASSUME NEW r, NEW s, Old(r), Fresh1(s) PROVE r.id # s.id
  BY <1>2, <1>5
<1>6. \A r \in Known' : r.id <= requestsMade'
  <2> TAKE r \in Known'
  <2>1. Old(r) => r.id \in Nat /\ r.id <= requestsMade
    BY <1>2
  <2> QED BY <1>1, <2>1
<1>7. \A r, s \in Known' : r.id = s.id => Key(r) = Key(s)
  <2> HIDE DEF Old, Fresh1
  <2> QED BY <1>1, <1>3, <1>4, <1>5
<1> QED BY <1>6, <1>7 DEF OneKeyPerId

LEMMA MergedType ==
  ASSUME NEW r \in Pending, NEW p \in Low..Critical
  PROVE  /\ [r EXCEPT !.prio = p] \in Pending
         /\ [r EXCEPT !.prio = p].id = r.id /\ Key([r EXCEPT !.prio = p]) = Key(r)
BY DEF Pending, Key

LEMMA NewType ==
  ASSUME SmartInv, NEW w \in Wanted, requestsMade < MaxUpdates
  PROVE  /\ New(w) \in Pending /\ New(w).id = requestsMade + 1
         /\ requestsMade + 1 \in 1..MaxUpdates
<1>1. w.type \in Types /\ w.of \in Subjects /\ w.deps \in Needs
  BY DEF Types, Subjects, Needs
<1>2. w.prio \in Low..Critical /\ w.cond \in Conditions /\ MaxUpdates \in Nat
  BY SmartAssumption
<1>3. Boosted(w.prio) \in Low..Critical
  BY <1>2 DEF Boosted, Later, Low, Critical
<1>4. requestsMade + 1 \in 1..MaxUpdates
  BY <1>2 DEF SmartInv
<1> QED BY <1>1, <1>2, <1>3, <1>4 DEF New, Pending

\* What is known of each of the requests there are.
LEMMA KnownFacts ==
  ASSUME SmartInv
  PROVE  /\ \A r \in Known : r \in Pending /\ r.id \in Nat /\ r.id <= requestsMade
         /\ \A r, x \in Known : r.id = x.id => Key(r) = Key(x)
         /\ \A i \in DOMAIN queue : queue[i] \in Known /\ queue[i] \in Pending
         /\ \A k \in DOMAIN coalescing : coalescing[k] \in Known
         /\ \A k \in DOMAIN throttles : throttles[k] \in Known
         /\ requestsMade \in Nat
<1>1. \A i \in DOMAIN queue : queue[i] \in Pending
  BY DEF SmartInv
<1>2. \A r \in Known : r \in Pending
  BY <1>1 DEF Known, SmartInv, ToSet
<1>3. \A r \in Pending : r.id \in Nat
  BY SmartAssumption DEF Pending
<1>4. MaxUpdates \in Nat
  BY SmartAssumption
<1> QED BY <1>1, <1>2, <1>3, <1>4 DEF SmartInv, Known, OneKeyPerId, ToSet

\* A request that bears the name of an earlier one, or is the next one, of the key new.
Named(r, new, n) ==
  \/ \E x \in Known : r.id = x.id /\ Key(r) = Key(x)
  \/ n = requestsMade + 1 /\ r.id = requestsMade + 1 /\ Key(r) = new

QueueNamed(q, new, n) == \A r \in ToSet(q) : Named(r, new, n)
MapNamed(m, new, n) ==
  \A k \in DOMAIN m : m[k] \in Pending /\ Key(m[k]) = k /\ Named(m[k], new, n)
ThrottlesNamed(ts, new, n) == \A k \in DOMAIN ts : ts[k] \in Pending /\ Named(ts[k], new, n)
Follows(n) == n \in {requestsMade, requestsMade + 1} /\ n \in 0..MaxUpdates

LEMMA RequestsNamed ==
  ASSUME SmartInv, NEW new, Follows(requestsMade'),
         queue' \in Seq(Pending),
         QueueNamed(queue', new, requestsMade'),
         MapNamed(coalescing', new, requestsMade'),
         ThrottlesNamed(throttles', new, requestsMade'),
         Agree(queue', coalescing')
  PROVE  SmartInv'
<1>1. \A r \in Known' : Named(r, new, requestsMade')
  BY DEF Known, QueueNamed, MapNamed, ThrottlesNamed
<1>2. OneKeyPerId /\ requestsMade \in Nat /\ \A r \in Known : r.id \in Nat
  BY KnownFacts DEF SmartInv
<1>3. OneKeyPerId'
  <2>1. requestsMade' = requestsMade \/ requestsMade' = requestsMade + 1
    BY DEF Follows
  <2>2. \A r \in Known' : \/ \E x \in Known : r.id = x.id /\ Key(r) = Key(x)
                         \/ /\ requestsMade' = requestsMade + 1
                            /\ r.id = requestsMade + 1 /\ Key(r) = new
    BY <1>1 DEF Named
  <2> QED BY <1>2, <2>1, <2>2, NamesStay
<1> QED BY <1>3 DEF SmartInv, Follows, MapNamed, ThrottlesNamed

\* A step that makes none.
LEMMA OldRequests ==
  ASSUME SmartInv, UNCHANGED requestsMade,
         queue' \in Seq(Pending),
         \A r \in ToSet(queue') : \E x \in Known : r.id = x.id /\ Key(r) = Key(x),
         \A k \in DOMAIN coalescing' : k \in DOMAIN coalescing /\ coalescing'[k] = coalescing[k],
         \A k \in DOMAIN throttles' : k \in DOMAIN throttles /\ throttles'[k] = throttles[k],
         Agree(queue', coalescing')
  PROVE  SmartInv'
<1>1. \A r : (\E x \in Known : r.id = x.id /\ Key(r) = Key(x)) => Named(r, <<>>, requestsMade')
  BY DEF Named
<1>2. Follows(requestsMade')
  BY DEF SmartInv, Follows
<1>3. MapNamed(coalescing', <<>>, requestsMade')
  BY <1>1, KnownFacts DEF SmartInv, MapNamed
<1>4. ThrottlesNamed(throttles', <<>>, requestsMade')
  BY <1>1, KnownFacts DEF ThrottlesNamed
<1>5. QueueNamed(queue', <<>>, requestsMade')
  BY <1>1 DEF QueueNamed
<1> QED BY <1>2, <1>3, <1>4, <1>5, RequestsNamed

\* A request that is queued or throttled is processed.
LEMMA ProcessInv ==
  ASSUME SmartInv, NEW r \in Known, \E i \in DOMAIN queue : queue[i].id = r.id,
         Process(queue, coalescing, r), UNCHANGED requestsMade,
         \A k \in DOMAIN throttles' : k \in DOMAIN throttles /\ throttles'[k] = throttles[k]
  PROVE  SmartInv'
<1>1. r \in Pending /\ \A i \in DOMAIN queue : queue[i].id = r.id => Key(queue[i]) = Key(r)
  BY KnownFacts
<1>2. PICK i \in DOMAIN queue : queue[i].id = r.id
  OBVIOUS
<1>3. Key(r) \in DOMAIN coalescing /\ coalescing[Key(r)].id = r.id
  BY <1>1, <1>2 DEF SmartInv, Agree
<1>4. queue \in Seq(Pending) /\ Agree(queue, coalescing)
  BY DEF SmartInv
<1>5. /\ queue' \in Seq(Pending)
      /\ ToSet(queue') \subseteq ToSet(queue) \cup {Deferred(r)}
      /\ \A k \in DOMAIN coalescing' : k \in DOMAIN coalescing /\ coalescing'[k] = coalescing[k]
      /\ Agree(queue', coalescing')
  BY <1>1, <1>3, <1>4, ProcessAgrees
<1>6. Deferred(r).id = r.id /\ Key(Deferred(r)) = Key(r)
  BY <1>1, DeferredType
<1>7. \A x \in ToSet(queue') : \E y \in Known : x.id = y.id /\ Key(x) = Key(y)
  BY <1>5, <1>6 DEF Known
<1> QED BY <1>5, <1>7, OldRequests

\* A request is merged into the one of its key.
LEMMA CoalesceInv ==
  ASSUME SmartInv, NEW w \in Wanted, requestsMade < MaxUpdates, requestsMade' = requestsMade + 1,
         Key(New(w)) \in DOMAIN coalescing, Coalesce(New(w)), UNCHANGED throttles
  PROVE  SmartInv'
<1> DEFINE r == New(w)
           k == Key(r)
           p == Higher(coalescing[k].prio, r.prio)
           merged == [coalescing[k] EXCEPT !.prio = p]
<1>1. r \in Pending /\ Follows(requestsMade') /\ k \in DOMAIN coalescing
  BY NewType, KnownFacts DEF SmartInv, Follows
<1>2. coalescing[k] \in Pending /\ Key(coalescing[k]) = k /\ coalescing[k] \in Known
  BY KnownFacts DEF SmartInv
<1>3. p \in Low..Critical
  BY <1>1, <1>2 DEF Higher, Pending
<1>4. merged \in Pending /\ merged.id = coalescing[k].id /\ Key(merged) = k
  BY <1>2, <1>3, MergedType
<1>5. coalescing' = [coalescing EXCEPT ![k] = merged] /\ queue' = QueuedWith(queue, merged)
  BY DEF Coalesce
<1> HIDE DEF merged, r, p
<1>6. /\ DOMAIN coalescing' = DOMAIN coalescing /\ coalescing'[k] = merged
      /\ \A j \in DOMAIN coalescing : j # k => coalescing'[j] = coalescing[j]
  BY <1>1, <1>5
<1>7. queue \in Seq(Pending) /\ Agree(queue, coalescing')
  BY <1>4, <1>6 DEF SmartInv, Agree
<1>8. \A i \in DOMAIN queue : queue[i].id = merged.id => Key(queue[i]) = Key(merged)
  BY <1>2, <1>4, KnownFacts
<1>9. /\ queue' \in Seq(Pending)
      /\ ToSet(queue') \subseteq ToSet(queue) \cup {merged}
      /\ Agree(queue', coalescing')
  <2> HIDE DEF k
  <2>1. Key(merged) \in DOMAIN coalescing' /\ coalescing'[Key(merged)].id = merged.id
    BY <1>1, <1>4, <1>6
  <2>2. /\ QueuedWith(queue, merged) \in Seq(Pending)
        /\ ToSet(QueuedWith(queue, merged)) \subseteq ToSet(queue) \cup {merged}
        /\ Agree(QueuedWith(queue, merged), coalescing')
    BY <1>4, <1>7, <1>8, <2>1, WithElements
  <2> QED BY <1>5, <2>2
<1>10. Named(merged, k, requestsMade') /\ \A x \in Known : Named(x, k, requestsMade')
  BY <1>2, <1>4 DEF Named
<1>11. QueueNamed(queue', k, requestsMade')
  BY <1>9, <1>10 DEF Known, QueueNamed
<1>12. MapNamed(coalescing', k, requestsMade')
  BY <1>4, <1>6, <1>10, KnownFacts DEF SmartInv, MapNamed
<1>13. ThrottlesNamed(throttles', k, requestsMade')
  BY <1>10, KnownFacts DEF ThrottlesNamed
<1> HIDE DEF k
<1> QED BY <1>1, <1>9, <1>11, <1>12, <1>13, RequestsNamed

\* A request of a key that no other has.
LEMMA RequestInv ==
  ASSUME SmartInv, NEW w \in Wanted, RequestUpdate(w), Key(New(w)) \notin DOMAIN coalescing
  PROVE  SmartInv'
<1> DEFINE r == New(w)
           k == Key(r)
           m == Mapped(coalescing, k, r)
           q0 == IF Len(queue) >= MaxQueue THEN QueuedBut(queue, Dropped(queue)) ELSE queue
           q == Enqueued(r)
<1>1. requestsMade < MaxUpdates /\ requestsMade' = requestsMade + 1
  BY DEF RequestUpdate
<1>2. /\ r \in Pending /\ r.id = requestsMade + 1 /\ Follows(requestsMade')
      /\ requestsMade \in Nat
  BY <1>1, NewType, KnownFacts DEF Follows
<1>3. queue \in Seq(Pending) /\ Agree(queue, coalescing)
  BY DEF SmartInv
<1>4. q0 \in Seq(Pending) /\ ToSet(q0) \subseteq ToSet(queue) /\ Agree(q0, coalescing)
  <2> DEFINE but == QueuedBut(queue, Dropped(queue))
  <2>1. but \in Seq(Pending) /\ ToSet(but) \subseteq ToSet(queue) /\ Agree(but, coalescing)
    BY <1>3, ButElements
  <2>2. q0 = but \/ q0 = queue
    OBVIOUS
  <2> HIDE DEF but, q0
  <2> QED BY <1>3, <2>1, <2>2
<1>5. k \notin DOMAIN coalescing /\ q = QueuedWith(q0, r)
  BY DEF Enqueued
<1>6. /\ DOMAIN m = DOMAIN coalescing \cup {k} /\ m[k] = r
      /\ \A j \in DOMAIN coalescing : j # k => m[j] = coalescing[j]
  BY DEF Mapped
<1>7. \A x \in ToSet(q0) : x \in Known /\ x.id \in Nat /\ x.id <= requestsMade
  BY <1>4, KnownFacts DEF Known
<1>8. \A i \in DOMAIN q0 : q0[i].id # r.id
  <2> HIDE DEF q0, r
  <2>1. \A i \in DOMAIN q0 : q0[i].id \in Nat /\ q0[i].id <= requestsMade
    BY <1>7 DEF ToSet
  <2> QED BY <1>2, <2>1
<1> HIDE DEF r, m, q, q0
<1>9. Agree(q0, m)
  BY <1>4, <1>5, <1>6 DEF Agree
<1>10. /\ QueuedWith(q0, r) \in Seq(Pending)
       /\ ToSet(QueuedWith(q0, r)) \subseteq ToSet(q0) \cup {r}
       /\ Agree(QueuedWith(q0, r), m)
  <2>1. Key(r) \in DOMAIN m /\ m[Key(r)].id = r.id
    BY <1>6
  <2> QED BY <1>2, <1>4, <1>8, <1>9, <2>1, WithElements
<1>11. q \in Seq(Pending) /\ Agree(q, m) /\ ToSet(q) \subseteq ToSet(q0) \cup {r}
  BY <1>5, <1>10
<1>12. \A i \in DOMAIN q : q[i].id = r.id => Key(q[i]) = Key(r)
  BY <1>8, <1>11 DEF ToSet
<1>13. k = Key(r) /\ Key(r) \in DOMAIN m /\ m[Key(r)].id = r.id
  BY <1>6
<1>14. \A x : (x.id = r.id /\ Key(x) = k) => Named(x, k, requestsMade')
  BY <1>1, <1>2 DEF Named
<1>15. \A x \in Known : Named(x, k, requestsMade')
  BY DEF Named
<1>16. Named(r, k, requestsMade') /\ Named(Deferred(r), k, requestsMade')
  BY <1>2, <1>13, <1>14, DeferredType
<1>17. MapNamed(m, k, requestsMade')
  <2> HIDE DEF k
  <2>1. \A j \in DOMAIN coalescing : coalescing[j] \in Pending /\ Key(coalescing[j]) = j
                                    /\ Named(coalescing[j], k, requestsMade')
    BY <1>15, KnownFacts DEF SmartInv
  <2> QED BY <1>2, <1>6, <1>13, <1>16, <2>1 DEF MapNamed
<1>18. ThrottlesNamed(throttles, k, requestsMade')
  BY <1>15, KnownFacts DEF ThrottlesNamed
<1>19. \A x \in ToSet(q) \cup {Deferred(r)} : Named(x, k, requestsMade')
  BY <1>7, <1>11, <1>15, <1>16
<1>20. /\ r.cond = "immediate" => Process(q, m, r) /\ UNCHANGED throttles
       /\ r.cond = "throttled" => queue' = q /\ coalescing' = m
                                /\ throttles' = Mapped(throttles, ThrottleKey(r), r)
       /\ r.cond = "batched" => queue' = q /\ coalescing' = m /\ UNCHANGED throttles
       /\ r.cond = "deferred" => queue' = QueuedWith(q, Deferred(r)) /\ coalescing' = m
                               /\ UNCHANGED throttles
  <2>1. Key(New(w)) \notin DOMAIN coalescing
    OBVIOUS
  <2> QED BY <2>1 DEF RequestUpdate, r, q, m, k
<1>26. \A p : ToSet(p) \subseteq ToSet(q) \cup {Deferred(r)} => QueueNamed(p, k, requestsMade')
  BY <1>19 DEF QueueNamed
<1>27. ASSUME NEW p, \A j \in DOMAIN p : j \in DOMAIN m /\ p[j] = m[j]
       PROVE  MapNamed(p, k, requestsMade')
  BY <1>17, <1>27 DEF MapNamed
<1>28. QueueNamed(q, k, requestsMade')
  BY <1>26
<1>21. CASE r.cond = "immediate"
  <2>1. Process(q, m, r) /\ throttles' = throttles
    BY <1>20, <1>21
  <2>2. /\ queue' \in Seq(Pending)
        /\ ToSet(queue') \subseteq ToSet(q) \cup {Deferred(r)}
        /\ \A j \in DOMAIN coalescing' : j \in DOMAIN m /\ coalescing'[j] = m[j]
        /\ Agree(queue', coalescing')
    BY <1>2, <1>11, <1>12, <1>13, <2>1, ProcessAgrees
  <2> HIDE DEF k
  <2>3. MapNamed(coalescing', k, requestsMade') /\ QueueNamed(queue', k, requestsMade')
    BY <1>26, <1>27, <2>2
  <2> QED BY <1>2, <1>18, <2>1, <2>2, <2>3, RequestsNamed
<1>22. CASE r.cond = "throttled"
  <2>1. queue' = q /\ coalescing' = m /\ throttles' = Mapped(throttles, ThrottleKey(r), r)
    BY <1>20, <1>22
  <2>2. ThrottlesNamed(throttles', k, requestsMade')
    BY <1>2, <1>16, <1>18, <2>1 DEF Mapped, ThrottlesNamed
  <2> HIDE DEF k
  <2> QED BY <1>2, <1>11, <1>17, <1>28, <2>1, <2>2, RequestsNamed
<1>23. CASE r.cond = "batched"
  <2>1. queue' = q /\ coalescing' = m /\ throttles' = throttles
    BY <1>20, <1>23
  <2> HIDE DEF k
  <2> QED BY <1>2, <1>11, <1>17, <1>18, <1>28, <2>1, RequestsNamed
<1>24. CASE r.cond = "deferred"
  <2>1. queue' = QueuedWith(q, Deferred(r)) /\ coalescing' = m /\ throttles' = throttles
    BY <1>20, <1>24
  <2>2. /\ QueuedWith(q, Deferred(r)) \in Seq(Pending)
        /\ ToSet(QueuedWith(q, Deferred(r))) \subseteq ToSet(q) \cup {Deferred(r)}
        /\ Agree(QueuedWith(q, Deferred(r)), m)
    BY <1>2, <1>11, <1>12, <1>13, DeferredType, WithElements
  <2>3. QueueNamed(queue', k, requestsMade')
    BY <1>26, <2>1, <2>2
  <2> HIDE DEF k
  <2> QED BY <1>2, <1>17, <1>18, <2>1, <2>2, <2>3, RequestsNamed
<1>25. r.cond \in Conditions
  BY <1>2 DEF Pending
<1> QED BY <1>21, <1>22, <1>23, <1>24, <1>25 DEF Conditions

\* The batch takes what it sends out of both.
LEMMA BatchInv ==
  ASSUME SmartInv, BatchFires
  PROVE  SmartInv'
<1> DEFINE sent == FirstOnes(queue, Batchable, MaxBatch,
                             [i \in Batchable |-> Critical - queue[i].prio])
<1>1. /\ queue' = QueuedBut(queue, sent) /\ coalescing' = Unkeyed(coalescing, sent)
      /\ throttles' = throttles /\ requestsMade' = requestsMade
  BY DEF BatchFires
<1>2. \A r \in sent : \E i \in DOMAIN queue : r = queue[i]
  BY DEF FirstOnes, Batchable
<1> HIDE DEF sent
<1>3. queue \in Seq(Pending) /\ Agree(queue, coalescing)
  BY DEF SmartInv
<1>4. \A r \in sent : Key(r) \in DOMAIN coalescing /\ coalescing[Key(r)].id = r.id
  BY <1>2, <1>3 DEF Agree
<1>5. Agree(queue', coalescing')
  BY <1>1, <1>3, <1>4, OutAgrees
<1>6. queue' \in Seq(Pending) /\ ToSet(queue') \subseteq ToSet(queue)
  BY <1>1, <1>3, ButElements
<1>7. \A x \in ToSet(queue') : \E y \in Known : x.id = y.id /\ Key(x) = Key(y)
  BY <1>6 DEF Known
<1>8. \A k \in DOMAIN coalescing' : k \in DOMAIN coalescing /\ coalescing'[k] = coalescing[k]
  BY <1>1 DEF Unkeyed
<1> QED BY <1>1, <1>5, <1>6, <1>7, <1>8, OldRequests

LEMMA CancelInv ==
  ASSUME SmartInv, NEW id, CancelUpdate(id)
  PROVE  SmartInv'
<1> DEFINE rs == {QueuedAs(id)}
<1>1. /\ queue' = QueuedBut(queue, rs) /\ coalescing' = coalescing
      /\ throttles' = throttles /\ requestsMade' = requestsMade
  BY DEF CancelUpdate
<1>2. queue \in Seq(Pending) /\ Agree(queue, coalescing)
  BY DEF SmartInv
<1> HIDE DEF rs
<1>3. queue' \in Seq(Pending) /\ ToSet(queue') \subseteq ToSet(queue) /\ Agree(queue', coalescing')
  BY <1>1, <1>2, ButElements
<1>4. \A x \in ToSet(queue') : \E y \in Known : x.id = y.id /\ Key(x) = Key(y)
  BY <1>3 DEF Known
<1> QED BY <1>1, <1>3, <1>4, OldRequests

LEMMA ThrottleInv ==
  ASSUME SmartInv, NEW k \in DOMAIN throttles, ThrottleEnds(k)
  PROVE  SmartInv'
<1>1. /\ throttles' = [j \in DOMAIN throttles \ {k} |-> throttles[j]]
      /\ requestsMade' = requestsMade
  BY DEF ThrottleEnds
<1>2. \A j \in DOMAIN throttles' : j \in DOMAIN throttles /\ throttles'[j] = throttles[j]
  BY <1>1
<1>3. CASE IsQueued(throttles[k].id)
  <2>1. throttles[k] \in Known /\ Process(queue, coalescing, throttles[k])
    BY <1>3, KnownFacts DEF ThrottleEnds
  <2>2. \E i \in DOMAIN queue : queue[i].id = throttles[k].id
    BY <1>3 DEF IsQueued
  <2> QED BY <1>1, <1>2, <2>1, <2>2, ProcessInv
<1>4. CASE ~IsQueued(throttles[k].id)
  <2>1. queue' = queue /\ coalescing' = coalescing
    BY <1>4 DEF ThrottleEnds
  <2>2. queue \in Seq(Pending) /\ Agree(queue, coalescing)
    BY DEF SmartInv
  <2>3. \A x \in ToSet(queue) : \E y \in Known : x.id = y.id /\ Key(x) = Key(y)
    BY DEF Known
  <2> QED BY <1>1, <1>2, <2>1, <2>2, <2>3, OldRequests
<1> QED BY <1>3, <1>4

LEMMA ForceInv ==
  ASSUME SmartInv, NEW r \in ToSet(queue), ForceUpdate(r.id)
  PROVE  SmartInv'
<1> DEFINE x == QueuedAs(r.id)
<1>1. x \in ToSet(queue) /\ x.id = r.id
  BY DEF QueuedAs
<1>2. /\ Process(queue, coalescing, x)
      /\ requestsMade' = requestsMade /\ throttles' = throttles
  BY DEF ForceUpdate
<1> HIDE DEF x
<1>3. x \in Known /\ \E i \in DOMAIN queue : queue[i].id = x.id
  BY <1>1 DEF Known, ToSet
<1> QED BY <1>2, <1>3, ProcessInv

\* Nothing of the requests changes.
LEMMA SmartStutter ==
  ASSUME SmartInv, UNCHANGED <<queue, coalescing, throttles, requestsMade>>
  PROVE  SmartInv'
BY DEF SmartInv, OneKeyPerId, Known, Agree, Key

LEMMA SmartInitial == ASSUME SmartInit PROVE SmartInv
<1>1. /\ DOMAIN queue = {} /\ DOMAIN coalescing = {} /\ DOMAIN throttles = {}
      /\ queue \in Seq(Pending)
  BY DEF SmartInit
<1>2. Known = {}
  BY <1>1 DEF Known, ToSet
<1>3. requestsMade \in 0..MaxUpdates
  BY SmartAssumption DEF SmartInit
<1> QED BY <1>1, <1>2, <1>3 DEF SmartInv, OneKeyPerId, Agree

LEMMA SmartStep == ASSUME SmartInv, [SmartNext]_smart PROVE SmartInv'
<1>1. ASSUME NEW w \in Wanted, RequestUpdate(w) PROVE SmartInv'
  <2>1. CASE Key(New(w)) \in DOMAIN coalescing
    <3>1. Coalesce(New(w)) /\ UNCHANGED throttles /\ requestsMade < MaxUpdates
          /\ requestsMade' = requestsMade + 1
      BY <1>1, <2>1 DEF RequestUpdate
    <3> QED BY <2>1, <3>1, CoalesceInv
  <2> QED BY <1>1, <2>1, RequestInv
<1>2. ASSUME Act(Levelled(user)) \/ UserInteracts \/ WindowFocused \/ WindowBlurred
             \/ ActivityInterval \/ UserQuiet \/ FetchInvalid
      PROVE  SmartInv'
  BY <1>2, SmartStutter
     DEF Act, UserInteracts, WindowFocused, WindowBlurred, ActivityInterval, UserQuiet,
         FetchInvalid
<1>3. ASSUME UNCHANGED smart PROVE SmartInv'
  BY <1>3, SmartStutter DEF smart
<1> QED BY <1>1, <1>2, <1>3, ThrottleInv, BatchInv, CancelInv, ForceInv DEF SmartNext

\* Two requests of one game are not both queued, and the request that the next one of
\* its key will be merged into is the queued one (requestUpdate, processUpdate,
\* handleQueueOverflow, cancelUpdate): whatever is requested, and however much of it.
THEOREM OneRequestPerKey == SmartSpec => []OnePerKey
<1>1. SmartInv => OnePerKey
  BY DEF SmartInv, Agree, OnePerKey
<1> QED BY <1>1, SmartInitial, SmartStep, PTL DEF SmartSpec

-----------------------------------------------------------------------------
\* A set that has 0 and is closed under successor has every number.
LEMMA Induction ==
  ASSUME NEW S, 0 \in S, \A n \in Nat : n \in S => n + 1 \in S
  PROVE  Nat \subseteq S
<1> DEFINE T == Nat \ S
           R == OpToRel(<, Nat)
<1>1. SUFFICES ASSUME T # {} PROVE FALSE
  OBVIOUS
<1>2. T \subseteq Nat
  OBVIOUS
<1>3. IsWellFoundedOn(R, Nat)
  BY NatLessThanWellFounded
<1> HIDE DEF R, T
<1>4. PICK x \in T : \A y \in T : ~(<<y, x>> \in R)
  BY <1>1, <1>2, <1>3, WFMin
<1>5. x \in Nat /\ x # 0
  BY <1>4 DEF T
<1>6. x - 1 \in Nat /\ x - 1 < x
  BY <1>5
<1>7. <<x - 1, x>> \in R
  BY <1>5, <1>6 DEF R, OpToRel
<1>8. x - 1 \in S
  BY <1>4, <1>6, <1>7 DEF T
<1>9. QED
  BY <1>4, <1>5, <1>6, <1>8 DEF T

-----------------------------------------------------------------------------
(* Toasts and notices: what a list loses.                                    *)

IdsOf(list) == {list[i].id : i \in 1..Len(list)}
Distinct(list) == \A i, j \in 1..Len(list) : list[i].id = list[j].id => i = j

\* The recursive function of WithoutId, up to n.
Leaves(list, id, f, n) ==
  f = [i \in 0..n |-> IF i = 0 THEN <<>> ELSE
                      IF list[i].id = id THEN f[i - 1] ELSE Append(f[i - 1], list[i])]

LEMMA LeavesExist ==
  ASSUME NEW list, NEW id, NEW n \in Nat
  PROVE  \E f : Leaves(list, id, f, n)
<1> DEFINE S == {k \in Nat : \E f : Leaves(list, id, f, k)}
           after(l, i) == IF list[i].id = id THEN l ELSE Append(l, list[i])
<1>1. 0 \in S
  <2> DEFINE f == [i \in 0..0 |-> <<>>]
  <2>1. Leaves(list, id, f, 0)
    BY DEF Leaves
  <2> QED BY <2>1
<1>2. ASSUME NEW k \in Nat, k \in S PROVE k + 1 \in S
  <2>1. PICK f : Leaves(list, id, f, k)
    BY <1>2
  <2>2. \A i \in 0..k : f[i] = IF i = 0 THEN <<>> ELSE after(f[i - 1], i)
    BY <2>1 DEF Leaves
  <2> DEFINE g == [i \in 0..(k + 1) |-> IF i = k + 1 THEN after(f[k], i) ELSE f[i]]
  <2> HIDE DEF after
  <2>3. ASSUME NEW i \in 0..(k + 1)
        PROVE  g[i] = IF i = 0 THEN <<>> ELSE after(g[i - 1], i)
    <3>1. CASE i = k + 1
      <4>1. i # 0 /\ i - 1 = k /\ k \in 0..(k + 1) /\ k # k + 1
        BY <3>1
      <4> QED BY <3>1, <4>1
    <3>2. CASE i # k + 1
      <4>1. i \in 0..k /\ g[i] = f[i]
        BY <3>2
      <4>2. i # 0 => i - 1 \in 0..(k + 1) /\ i - 1 # k + 1
        BY <4>1
      <4> QED BY <2>2, <4>1, <4>2
    <3> QED BY <3>1, <3>2
  <2>4. g = [i \in 0..(k + 1) |-> g[i]]
    OBVIOUS
  <2>5. g = [i \in 0..(k + 1) |-> IF i = 0 THEN <<>> ELSE after(g[i - 1], i)]
    <3> HIDE DEF g
    <3> QED BY <2>3, <2>4
  <2>6. Leaves(list, id, g, k + 1)
    <3> HIDE DEF g
    <3> QED BY <2>5 DEF Leaves, after
  <2> QED BY <2>6
<1> HIDE DEF S
<1>3. Nat \subseteq S
  BY <1>1, <1>2, Induction
<1> QED BY <1>3 DEF S

\* What is left of the first n of a list: all but those with the id, each once.
LeftOf(list, id, n, left) ==
  /\ \A j \in 1..Len(left) : left[j].id # id /\ \E i \in 1..n : left[j] = list[i]
  /\ \A i \in 1..n : list[i].id # id => \E j \in 1..Len(left) : left[j] = list[i]
  /\ Distinct(list) => Distinct(left)

LEMMA LeftOfNext ==
  ASSUME NEW T, NEW list \in Seq(T), NEW id, NEW n \in Nat, n + 1 <= Len(list),
         NEW left \in Seq(T), LeftOf(list, id, n, left), list[n + 1].id # id
  PROVE  /\ Append(left, list[n + 1]) \in Seq(T)
         /\ LeftOf(list, id, n + 1, Append(left, list[n + 1]))
<1> DEFINE new == list[n + 1]
           left2 == Append(left, new)
           m == Len(left)
<1>0. m \in Nat /\ Len(list) \in Nat /\ n + 1 \in 1..Len(list) /\ new \in T
  OBVIOUS
<1>1. left2 \in Seq(T) /\ Len(left2) = m + 1 /\ left2[m + 1] = new
      /\ \A j \in 1..m : left2[j] = left[j]
  BY <1>0
<1> HIDE DEF left2, new
<1>2. ASSUME NEW j \in 1..(m + 1)
      PROVE  left2[j].id # id /\ \E i \in 1..(n + 1) : left2[j] = list[i]
  <2>1. CASE j = m + 1
    BY <2>1, <1>0, <1>1 DEF new
  <2>2. CASE j # m + 1
    <3>1. j \in 1..m
      BY <2>2, <1>0
    <3>2. PICK i \in 1..n : left[j] = list[i]
      BY <3>1 DEF LeftOf
    <3>3. i \in 1..(n + 1)
      OBVIOUS
    <3> QED BY <3>1, <3>2, <3>3, <1>1 DEF LeftOf
  <2> QED BY <2>1, <2>2
<1>3. ASSUME NEW i \in 1..(n + 1), list[i].id # id
      PROVE  \E j \in 1..(m + 1) : left2[j] = list[i]
  <2>1. CASE i = n + 1
    <3>1. m + 1 \in 1..(m + 1)
      BY <1>0
    <3> QED BY <3>1, <2>1, <1>1 DEF new
  <2>2. CASE i # n + 1
    <3>1. i \in 1..n
      BY <2>2
    <3>2. PICK j \in 1..m : left[j] = list[i]
      BY <3>1, <1>3 DEF LeftOf
    <3>3. j \in 1..(m + 1)
      BY <1>0
    <3> QED BY <3>2, <3>3, <1>1
  <2> QED BY <2>1, <2>2
<1>4. ASSUME Distinct(list) PROVE Distinct(left2)
  <2>1. ASSUME NEW j \in 1..m PROVE left[j].id # new.id
    <3>1. PICK i \in 1..n : left[j] = list[i]
      BY DEF LeftOf
    <3>2. i \in 1..Len(list) /\ i # n + 1
      BY <1>0
    <3>3. list[i].id # list[n + 1].id
      BY <3>2, <1>0, <1>4 DEF Distinct
    <3> QED BY <3>1, <3>3 DEF new
  <2>2. ASSUME NEW i \in 1..(m + 1), NEW j \in 1..(m + 1), left2[i].id = left2[j].id
        PROVE  i = j
    <3>1. CASE i = m + 1 /\ j # m + 1
      <4>1. j \in 1..m
        BY <3>1, <1>0
      <4> QED BY <4>1, <3>1, <2>1, <2>2, <1>1
    <3>2. CASE i # m + 1 /\ j = m + 1
      <4>1. i \in 1..m
        BY <3>2, <1>0
      <4> QED BY <4>1, <3>2, <2>1, <2>2, <1>1
    <3>3. CASE i # m + 1 /\ j # m + 1
      <4>1. i \in 1..m /\ j \in 1..m
        BY <3>3, <1>0
      <4> QED BY <4>1, <2>2, <1>1, <1>4 DEF LeftOf, Distinct
    <3> QED BY <3>1, <3>2, <3>3
  <2> QED BY <2>2, <1>1 DEF Distinct
<1>5. LeftOf(list, id, n + 1, left2)
  BY <1>1, <1>2, <1>3, <1>4 DEF LeftOf
<1> QED BY <1>1, <1>5 DEF left2, new

\* Removing an id takes nothing else away, and keeps ids distinct.
LEMMA WithoutIdIs ==
  ASSUME NEW T, NEW list \in Seq(T), NEW id
  PROVE  WithoutId(list, id) \in Seq(T) /\ LeftOf(list, id, Len(list), WithoutId(list, id))
<1> DEFINE n == Len(list)
           f == CHOOSE g : Leaves(list, id, g, n)
<1>0. n \in Nat
  OBVIOUS
<1>1. Leaves(list, id, f, n)
  BY <1>0, LeavesExist
<1>2. WithoutId(list, id) = f[n]
  BY DEF WithoutId, Leaves
<1> HIDE DEF f
<1>3. \A i \in 0..n : f[i] = IF i = 0 THEN <<>> ELSE
                             IF list[i].id = id THEN f[i - 1] ELSE Append(f[i - 1], list[i])
  BY <1>1 DEF Leaves
<1> DEFINE S == {i \in Nat : i <= n => f[i] \in Seq(T) /\ LeftOf(list, id, i, f[i])}
<1>4. 0 \in S
  <2>1. f[0] = <<>>
    BY <1>0, <1>3
  <2>2. LeftOf(list, id, 0, <<>>)
    BY DEF LeftOf, Distinct
  <2>3. <<>> \in Seq(T)
    OBVIOUS
  <2>4. f[0] \in Seq(T) /\ LeftOf(list, id, 0, f[0])
    BY <2>1, <2>2, <2>3
  <2> QED BY <2>4
<1>5. ASSUME NEW i \in Nat, i \in S PROVE i + 1 \in S
  <2> SUFFICES ASSUME i + 1 <= n
               PROVE  f[i + 1] \in Seq(T) /\ LeftOf(list, id, i + 1, f[i + 1])
    OBVIOUS
  <2>1. f[i] \in Seq(T) /\ LeftOf(list, id, i, f[i])
    BY <1>0, <1>5
  <2>2. i + 1 \in 0..n /\ i + 1 # 0 /\ (i + 1) - 1 = i
    BY <1>0
  <2>3. CASE list[i + 1].id = id
    <3>1. f[i + 1] = f[i]
      BY <2>2, <2>3, <1>3
    <3>2. \A k \in 1..(i + 1) : k \in 1..i \/ k = i + 1
      OBVIOUS
    <3>3. \A k \in 1..i : k \in 1..(i + 1)
      OBVIOUS
    <3>4. LeftOf(list, id, i + 1, f[i])
      BY <2>1, <2>3, <3>2, <3>3 DEF LeftOf
    <3> QED BY <2>1, <3>1, <3>4
  <2>4. CASE list[i + 1].id # id
    <3>1. f[i + 1] = Append(f[i], list[i + 1])
      BY <2>2, <2>4, <1>3
    <3> QED BY <2>1, <2>4, <3>1, <1>0, LeftOfNext
  <2> QED BY <2>3, <2>4
<1> HIDE DEF S
<1>6. Nat \subseteq S
  BY <1>4, <1>5, Induction
<1> QED BY <1>0, <1>2, <1>6 DEF S

\* Cutting a list keeps its first elements.
LEMMA FirstOfIs ==
  ASSUME NEW T, NEW list \in Seq(T), NEW n \in Nat
  PROVE  /\ FirstOf(list, n) \in Seq(T)
         /\ Len(FirstOf(list, n)) = IF n < Len(list) THEN n ELSE Len(list)
         /\ \A i \in 1..Len(FirstOf(list, n)) : i \in 1..Len(list) /\ FirstOf(list, n)[i] = list[i]
<1> DEFINE m == IF n < Len(list) THEN n ELSE Len(list)
<1>1. m \in 0..Len(list)
  OBVIOUS
<1>2. FirstOf(list, n) = SubSeq(list, 1, m)
  BY DEF FirstOf
<1> HIDE DEF m
<1>3. /\ SubSeq(list, 1, m) \in Seq(T) /\ Len(SubSeq(list, 1, m)) = m
      /\ \A i \in 1..m : SubSeq(list, 1, m)[i] = list[i]
  BY <1>1
<1> QED BY <1>1, <1>2, <1>3 DEF m

\* Lists without a common id, one after the other.
LEMMA JoinedAre ==
  ASSUME NEW T, NEW a \in Seq(T), NEW b \in Seq(T)
  PROVE  /\ a \o b \in Seq(T)
         /\ IdsOf(a \o b) = IdsOf(a) \cup IdsOf(b)
         /\ Distinct(a) /\ Distinct(b) /\ IdsOf(a) \cap IdsOf(b) = {} => Distinct(a \o b)
         /\ \A i \in 1..Len(b) : (a \o b)[Len(a) + i] = b[i]
<1> DEFINE c == a \o b
           m == Len(a)
           n == Len(b)
<1>1. /\ c \in Seq(T) /\ Len(c) = m + n /\ m \in Nat /\ n \in Nat
      /\ \A i \in 1..m : c[i] = a[i]
      /\ \A i \in 1..n : c[m + i] = b[i]
  OBVIOUS
<1> HIDE DEF c
<1>2. \A k \in 1..(m + n) : k \in 1..m \/ (k - m \in 1..n /\ k = m + (k - m))
  BY <1>1
<1>3. \A k \in 1..m : k \in 1..(m + n)
  BY <1>1
<1>4. \A k \in 1..n : m + k \in 1..(m + n)
  BY <1>1
<1>5. IdsOf(c) \subseteq IdsOf(a) \cup IdsOf(b)
  <2> SUFFICES ASSUME NEW k \in 1..(m + n) PROVE c[k].id \in IdsOf(a) \cup IdsOf(b)
    BY <1>1 DEF IdsOf
  <2>1. CASE k \in 1..m
    BY <2>1, <1>1 DEF IdsOf
  <2>2. CASE k - m \in 1..n /\ k = m + (k - m)
    <3>1. c[k] = b[k - m]
      BY <2>2, <1>1
    <3> QED BY <3>1, <2>2 DEF IdsOf
  <2> QED BY <2>1, <2>2, <1>2
<1>6. IdsOf(a) \cup IdsOf(b) \subseteq IdsOf(c)
  <2>1. \A k \in 1..m : a[k].id \in IdsOf(c)
    BY <1>1, <1>3 DEF IdsOf
  <2>2. \A k \in 1..n : b[k].id \in IdsOf(c)
    BY <1>1, <1>4 DEF IdsOf
  <2> QED BY <2>1, <2>2 DEF IdsOf
<1>7. ASSUME Distinct(a), Distinct(b), IdsOf(a) \cap IdsOf(b) = {} PROVE Distinct(c)
  <2> SUFFICES ASSUME NEW i \in 1..(m + n), NEW j \in 1..(m + n), c[i].id = c[j].id
               PROVE  i = j
    BY <1>1 DEF Distinct
  <2>1. CASE i \in 1..m /\ j \in 1..m
    BY <2>1, <1>1, <1>7 DEF Distinct
  <2>2. CASE i \in 1..m /\ (j - m \in 1..n /\ j = m + (j - m))
    <3>1. c[i] = a[i] /\ c[j] = b[j - m]
      BY <2>2, <1>1
    <3> QED BY <3>1, <2>2, <1>7 DEF IdsOf
  <2>3. CASE j \in 1..m /\ (i - m \in 1..n /\ i = m + (i - m))
    <3>1. c[j] = a[j] /\ c[i] = b[i - m]
      BY <2>3, <1>1
    <3> QED BY <3>1, <2>3, <1>7 DEF IdsOf
  <2>4. CASE (i - m \in 1..n /\ i = m + (i - m)) /\ (j - m \in 1..n /\ j = m + (j - m))
    <3>1. c[i] = b[i - m] /\ c[j] = b[j - m]
      BY <2>4, <1>1
    <3>2. i - m = j - m
      BY <3>1, <2>4, <1>7 DEF Distinct
    <3> QED BY <3>2, <2>4, <1>1
  <2> QED BY <1>2, <2>1, <2>2, <2>3, <2>4
<1> QED BY <1>1, <1>5, <1>6, <1>7 DEF c

-----------------------------------------------------------------------------
(* Toasts.                                                                   *)

ToastRecord == [id : Nat, open : BOOLEAN]

\* A toast whose removal is under way was closed, and ids are used up in order.
ToastsInv ==
  /\ toasts \in Seq(ToastRecord) /\ made \in Nat
  /\ removals \subseteq 1..made
  /\ \A i \in 1..Len(toasts) :
       toasts[i].id \in 1..made /\ (toasts[i].id \in removals => ~toasts[i].open)

ToastsStay ==
  \A i \in DOMAIN toasts :
    (\A j \in DOMAIN toasts' : toasts'[j].id # toasts[i].id) =>
      ~toasts[i].open \/ made' > made \/ Reload

\* As nothing changes the list, or what is there keeps its place.
LEMMA SameToasts ==
  ASSUME ToastsInv, UNCHANGED toastVars PROVE ToastsInv' /\ ToastsStay
BY DEF ToastsInv, ToastsStay, toastVars

LEMMA ToastedInv ==
  ASSUME ToastsInv, NEW n \in Nat \ {0}, Toasted(n) PROVE ToastsInv' /\ ToastsStay
<1> DEFINE new == [i \in 1..n |-> [id |-> made + n + 1 - i, open |-> TRUE]]
           all == new \o toasts
<1>0. toasts \in Seq(ToastRecord) /\ made \in Nat /\ ToastLimit \in Nat
  BY FeedbackAssumption DEF ToastsInv
<1>1. \A i \in 1..n : new[i].id \in (made + 1)..(made + n) /\ new[i].open = TRUE
                      /\ new[i] \in ToastRecord
  BY <1>0 DEF ToastRecord
<1>2. new \in Seq(ToastRecord) /\ Len(new) = n
  BY <1>1
<1> HIDE DEF new
<1>3. /\ all \in Seq(ToastRecord) /\ Len(all) = n + Len(toasts)
      /\ \A i \in 1..n : all[i] = new[i]
      /\ \A i \in 1..Len(toasts) : all[n + i] = toasts[i]
  BY <1>0, <1>2
<1> HIDE DEF all
<1>4. ASSUME NEW k \in 1..Len(all)
      PROVE  all[k].id \in 1..(made + n) /\ (all[k].id \in removals => ~all[k].open)
  <2>1. CASE k \in 1..n
    <3>1. all[k].id \in (made + 1)..(made + n)
      BY <2>1, <1>1, <1>3
    <3>2. all[k].id \notin 1..made
      BY <3>1, <1>0
    <3> QED BY <3>1, <3>2, <1>0 DEF ToastsInv
  <2>2. CASE ~(k \in 1..n)
    <3>1. k - n \in 1..Len(toasts) /\ n + (k - n) = k
      BY <2>2, <1>0, <1>3
    <3>2. all[k] = toasts[k - n]
      BY <3>1, <1>3
    <3>3. toasts[k - n].id \in 1..made => toasts[k - n].id \in 1..(made + n)
      BY <1>0
    <3> QED BY <3>1, <3>2, <3>3 DEF ToastsInv
  <2> QED BY <2>1, <2>2
<1>5. toasts' = FirstOf(all, ToastLimit) /\ made' = made + n /\ removals' = removals
  BY DEF Toasted, WithToasts, all, new
<1>6. /\ toasts' \in Seq(ToastRecord)
      /\ \A i \in 1..Len(toasts') : i \in 1..Len(all) /\ toasts'[i] = all[i]
  BY <1>0, <1>3, <1>5, FirstOfIs
<1>7. made' \in Nat /\ made' > made /\ removals' \subseteq 1..made'
  BY <1>0, <1>5 DEF ToastsInv
<1> QED BY <1>4, <1>5, <1>6, <1>7 DEF ToastsInv, ToastsStay

LEMMA DismissInv ==
  ASSUME ToastsInv, NEW id \in 1..made, DismissToast(id) PROVE ToastsInv' /\ ToastsStay
<1>1. /\ toasts' = [i \in DOMAIN toasts |->
                      IF toasts[i].id = id THEN [toasts[i] EXCEPT !.open = FALSE] ELSE toasts[i]]
      /\ removals' = removals \cup {id} /\ made' = made
  BY DEF DismissToast
<1>2. DOMAIN toasts = 1..Len(toasts) /\ Len(toasts) \in Nat
      /\ \A i \in 1..Len(toasts) : toasts[i] \in ToastRecord
  BY DEF ToastsInv
<1>3. \A i \in 1..Len(toasts) :
        /\ toasts'[i] \in ToastRecord /\ toasts'[i].id = toasts[i].id
        /\ toasts'[i].open = (IF toasts[i].id = id THEN FALSE ELSE toasts[i].open)
  BY <1>1, <1>2 DEF ToastRecord
<1>4. toasts' \in Seq(ToastRecord) /\ Len(toasts') = Len(toasts)
  <2>1. toasts' \in [1..Len(toasts) -> ToastRecord]
    BY <1>1, <1>2, <1>3
  <2> QED BY <2>1, <1>2
<1>5. ToastsInv'
  BY <1>1, <1>2, <1>3, <1>4 DEF ToastsInv
<1>6. ToastsStay
  <2> SUFFICES ASSUME NEW i \in DOMAIN toasts PROVE \E j \in DOMAIN toasts' : toasts'[j].id = toasts[i].id
    BY DEF ToastsStay
  <2>1. i \in DOMAIN toasts' /\ toasts'[i].id = toasts[i].id
    BY <1>1, <1>2, <1>3
  <2> QED BY <2>1
<1> QED BY <1>5, <1>6

LEMMA RemoveInv ==
  ASSUME ToastsInv, NEW id \in 1..made, RemoveToast(id) PROVE ToastsInv' /\ ToastsStay
<1>1. id \in removals /\ removals' = removals \ {id} /\ made' = made
      /\ toasts' = WithoutId(toasts, id)
  BY DEF RemoveToast
<1>2. toasts \in Seq(ToastRecord)
  BY DEF ToastsInv
<1>3. toasts' \in Seq(ToastRecord) /\ LeftOf(toasts, id, Len(toasts), toasts')
  BY <1>1, <1>2, WithoutIdIs
<1>4. ToastsInv'
  BY <1>1, <1>3 DEF ToastsInv, LeftOf
<1>5. DOMAIN toasts = 1..Len(toasts) /\ DOMAIN toasts' = 1..Len(toasts')
  BY <1>2, <1>3
<1>6. ToastsStay
  BY <1>1, <1>3, <1>5 DEF ToastsStay, ToastsInv, LeftOf
<1> QED BY <1>4, <1>6

LEMMA ReloadToasts ==
  ASSUME ToastsInv, Reload PROVE ToastsInv' /\ ToastsStay
<1>1. toasts' = <<>> /\ removals' = {} /\ made' = made
  BY DEF Reload
<1>2. ToastsInv'
  BY <1>1 DEF ToastsInv
<1>3. ToastsStay
  BY DEF ToastsStay
<1> QED BY <1>2, <1>3

LEMMA NextToasts ==
  ASSUME ToastsInv, [FeedbackNext]_feedback PROVE ToastsInv' /\ ToastsStay
<1>1. CASE UNCHANGED toastVars
  BY <1>1, SameToasts
<1>2. CASE Reload
  BY <1>2, ReloadToasts
<1>3. ASSUME NEW n \in Nat \ {0}, Toasted(n) PROVE ToastsInv' /\ ToastsStay
  BY <1>3, ToastedInv
<1>4. CASE ToastsNext
  <2>1. CASE Toast
    BY <2>1, <1>3 DEF Toast
  <2>2. ASSUME NEW id \in 1..made, DismissToast(id) \/ RemoveToast(id)
        PROVE  ToastsInv' /\ ToastsStay
    BY <2>2, DismissInv, RemoveInv
  <2> QED BY <1>4, <2>1, <2>2 DEF ToastsNext
<1>5. ASSUME NEW i \in Slots, Recovers(i) PROVE ToastsInv' /\ ToastsStay
  <2>1. Reload \/ Toasted(2) \/ Toasted(1) \/ UNCHANGED toastVars
    BY <1>5 DEF Recovers
  <2> QED BY <2>1, <1>1, <1>2, <1>3
<1>6. \/ UNCHANGED toastVars \/ Reload \/ ToastsNext
      \/ \E i \in Slots : Recovers(i)
  <2>1. CASE UNCHANGED feedback
    BY <2>1 DEF feedback
  <2>2. CASE NoticesNext /\ UNCHANGED <<errorVars, toastVars>>
    BY <2>2
  <2>3. ASSUME NEW i \in Slots, NEW kind \in Kinds,
               HandleError(i, kind) \/ Catches(i, kind) \/ OwnFails(i, kind)
        PROVE  UNCHANGED toastVars
    BY <2>3 DEF HandleError, Catches, OwnFails
  <2>4. ASSUME NEW i \in Slots, StrategyWaits(i) \/ Retry(i) \/ OwnSucceeds(i)
        PROVE  UNCHANGED toastVars
    BY <2>4 DEF StrategyWaits, Retry, OwnSucceeds
  <2>5. ResetErrorBoundary \/ ClearError \/ RenderHandler => UNCHANGED toastVars
    BY DEF ResetErrorBoundary, ClearError, RenderHandler
  <2>6. HandleReload => Reload
    BY DEF HandleReload
  <2> QED BY <2>1, <2>2, <2>3, <2>4, <2>5, <2>6 DEF FeedbackNext, ErrorsNext
<1> QED BY <1>1, <1>2, <1>4, <1>5, <1>6

-----------------------------------------------------------------------------
(* Notices.                                                                  *)

NoticeRecord == [id : Nat, auto : BOOLEAN, exits : Nat]

\* The changes of the connection that the last effects have seen.
LinksNoted == IF link = noted.link THEN links ELSE links - 1
NoticeIds(h, l) == {2 * k : k \in 0..h} \cup {2 * k + 1 : k \in 0..l}

\* A notice has an id of its own, of what the effects have seen.
NoticesInv ==
  /\ notices \in Seq(NoticeRecord) /\ trouble \in BOOLEAN
  /\ heard \in Nat /\ links \in Nat /\ noted.heard \in 0..heard
  /\ noted = [heard |-> noted.heard, link |-> noted.link]
  /\ link # noted.link => links > 0
  /\ IdsOf(notices) \subseteq NoticeIds(noted.heard, LinksNoted)
  /\ Distinct(notices)

NoticesStay ==
  \A i \in DOMAIN notices :
    (\A j \in DOMAIN notices' : notices'[j].id # notices[i].id) =>
      notices[i].exits > 0 \/ Len(notices') = NoticeLimit \/ DismissAll

LEMMA MountedIs ==
  ASSUME NEW state, NEW error \in BOOLEAN PROVE Mounted(state, error) \in BOOLEAN
BY DEF Mounted

\* Mounting changes timers only.
LEMMA MountIs ==
  ASSUME NEW list \in Seq(NoticeRecord), NEW was, NEW is \in BOOLEAN
  PROVE  /\ Mount(list, was, is) \in Seq(NoticeRecord)
         /\ Len(Mount(list, was, is)) = Len(list)
         /\ \A i \in 1..Len(list) : Mount(list, was, is)[i].id = list[i].id
<1> DEFINE new == Mount(list, was, is)
<1>1. DOMAIN list = 1..Len(list) /\ Len(list) \in Nat
      /\ \A i \in 1..Len(list) : list[i] \in NoticeRecord
  OBVIOUS
<1>2. new = [i \in 1..Len(list) |-> IF was = is THEN list[i] ELSE [list[i] EXCEPT !.auto = is]]
  BY <1>1 DEF Mount
<1> HIDE DEF new
<1>3. \A i \in 1..Len(list) : new[i] \in NoticeRecord /\ new[i].id = list[i].id
  BY <1>1, <1>2 DEF NoticeRecord
<1>4. new \in [1..Len(list) -> NoticeRecord]
  BY <1>2, <1>3
<1>5. new \in Seq(NoticeRecord) /\ Len(new) = Len(list)
  BY <1>1, <1>4
<1> QED BY <1>3, <1>5 DEF new

\* A list whose notices keep their ids loses none.
LEMMA SameIds ==
  ASSUME NoticesInv, notices' \in Seq(NoticeRecord), Len(notices') = Len(notices),
         \A i \in 1..Len(notices) : notices'[i].id = notices[i].id
  PROVE  IdsOf(notices') = IdsOf(notices) /\ Distinct(notices') /\ NoticesStay
<1>1. DOMAIN notices = 1..Len(notices) /\ DOMAIN notices' = 1..Len(notices)
  BY DEF NoticesInv
<1> QED BY <1>1 DEF NoticesInv, IdsOf, Distinct, NoticesStay

LEMMA RenderInv ==
  ASSUME NoticesInv, RenderNotices PROVE NoticesInv' /\ NoticesStay
<1> DEFINE is == Mounted(link, trouble')
           old == Mount(notices, Mounted(noted.link, trouble), is)
           news == IF heard # noted.heard THEN <<Notice(2 * heard, is)>> ELSE <<>>
           state == IF link # noted.link /\ link \in {"connected", "error"}
                    THEN <<Notice(2 * links + 1, is)>> ELSE <<>>
           front == state \o news
           all == front \o old
<1>0. heard \in Nat /\ links \in Nat /\ noted.heard \in 0..heard /\ NoticeLimit \in Nat
  BY FeedbackAssumption DEF NoticesInv
<1>1. trouble' \in BOOLEAN /\ UNCHANGED <<heard, link, links>>
      /\ noted' = [heard |-> heard, link |-> link]
  BY DEF RenderNotices, NoticesInv
<1>2. is \in BOOLEAN
  BY <1>1, MountedIs
<1>3. notices' = FirstOf(all, NoticeLimit)
  BY DEF RenderNotices
<1> HIDE DEF is
<1>4. /\ old \in Seq(NoticeRecord) /\ Len(old) = Len(notices)
      /\ \A i \in 1..Len(notices) : old[i].id = notices[i].id
  BY <1>2, MountIs DEF NoticesInv
<1> HIDE DEF old
<1>5. IdsOf(old) = IdsOf(notices) /\ Distinct(old)
  BY <1>4 DEF IdsOf, Distinct, NoticesInv
<1>6. ASSUME NEW k \in Nat
      PROVE  /\ <<Notice(k, is)>> \in Seq(NoticeRecord) /\ Distinct(<<Notice(k, is)>>)
             /\ IdsOf(<<Notice(k, is)>>) = {k}
  <2>1. Notice(k, is) \in NoticeRecord /\ Notice(k, is).id = k
    BY <1>2 DEF Notice, NoticeRecord
  <2> HIDE DEF Notice
  <2>2. Len(<<Notice(k, is)>>) = 1 /\ <<Notice(k, is)>>[1] = Notice(k, is)
    OBVIOUS
  <2> QED BY <2>1, <2>2 DEF Distinct, IdsOf
<1>7. <<>> \in Seq(NoticeRecord) /\ Distinct(<<>>) /\ IdsOf(<<>>) = {}
  BY DEF Distinct, IdsOf
<1>8. news \in Seq(NoticeRecord) /\ Distinct(news)
      /\ IdsOf(news) = (IF heard # noted.heard THEN {2 * heard} ELSE {})
  <2>1. CASE heard # noted.heard
    <3>1. 2 * heard \in Nat /\ news = <<Notice(2 * heard, is)>>
      BY <2>1, <1>0
    <3> HIDE DEF news
    <3> QED BY <2>1, <3>1, <1>6
  <2>2. CASE heard = noted.heard
    <3>1. news = <<>>
      BY <2>2
    <3> HIDE DEF news
    <3> QED BY <2>2, <3>1, <1>7
  <2> QED BY <2>1, <2>2
<1>9. state \in Seq(NoticeRecord) /\ Distinct(state)
      /\ IdsOf(state) \subseteq (IF link # noted.link THEN {2 * links + 1} ELSE {})
  <2>1. CASE link # noted.link /\ link \in {"connected", "error"}
    <3>1. 2 * links + 1 \in Nat /\ state = <<Notice(2 * links + 1, is)>>
      BY <2>1, <1>0
    <3> HIDE DEF state
    <3> QED BY <2>1, <3>1, <1>6
  <2>2. CASE ~(link # noted.link /\ link \in {"connected", "error"})
    <3>1. state = <<>>
      BY <2>2
    <3> HIDE DEF state
    <3> QED BY <3>1, <1>7
  <2> QED BY <2>1, <2>2
<1> HIDE DEF news, state
<1>10. IdsOf(state) \cap IdsOf(news) = {}
  <2>1. 2 * heard # 2 * links + 1
    BY <1>0
  <2> QED BY <2>1, <1>8, <1>9
<1>11. front \in Seq(NoticeRecord) /\ Distinct(front) /\ IdsOf(front) = IdsOf(state) \cup IdsOf(news)
  BY <1>8, <1>9, <1>10, JoinedAre
<1>12. IdsOf(old) \cap IdsOf(news) = {}
  <2> SUFFICES ASSUME heard # noted.heard, 2 * heard \in IdsOf(notices) PROVE FALSE
    BY <1>5, <1>8
  <2>1. 2 * heard \in NoticeIds(noted.heard, LinksNoted)
    BY DEF NoticesInv
  <2>2. CASE \E k \in 0..noted.heard : 2 * heard = 2 * k
    BY <2>2, <1>0
  <2>3. CASE \E k \in 0..LinksNoted : 2 * heard = 2 * k + 1
    BY <2>3, <1>0
  <2> QED BY <2>1, <2>2, <2>3 DEF NoticeIds
<1>13. IdsOf(old) \cap IdsOf(state) = {}
  <2> SUFFICES ASSUME link # noted.link, 2 * links + 1 \in IdsOf(notices) PROVE FALSE
    BY <1>5, <1>9
  <2>1. 2 * links + 1 \in NoticeIds(noted.heard, links - 1)
    BY DEF NoticesInv, LinksNoted
  <2>2. CASE \E k \in 0..noted.heard : 2 * links + 1 = 2 * k
    BY <2>2, <1>0
  <2>3. CASE \E k \in 0..(links - 1) : 2 * links + 1 = 2 * k + 1
    BY <2>3, <1>0
  <2> QED BY <2>1, <2>2, <2>3 DEF NoticeIds
<1> HIDE DEF front
<1>14. /\ all \in Seq(NoticeRecord) /\ Distinct(all)
       /\ IdsOf(all) = IdsOf(state) \cup IdsOf(news) \cup IdsOf(notices)
  BY <1>4, <1>5, <1>11, <1>12, <1>13, JoinedAre
<1> HIDE DEF all
<1>15. /\ notices' \in Seq(NoticeRecord)
       /\ Len(notices') = IF NoticeLimit < Len(all) THEN NoticeLimit ELSE Len(all)
       /\ \A i \in 1..Len(notices') : i \in 1..Len(all) /\ notices'[i] = all[i]
  BY <1>0, <1>3, <1>14, FirstOfIs
<1>16. IdsOf(notices') \subseteq IdsOf(all) /\ Distinct(notices')
  BY <1>14, <1>15 DEF IdsOf, Distinct
<1>17. IdsOf(all) \subseteq NoticeIds(heard, links)
  <2>1. heard \in 0..heard /\ links \in 0..links
    BY <1>0
  <2>2. IdsOf(state) \cup IdsOf(news) \subseteq NoticeIds(heard, links)
    BY <2>1, <1>8, <1>9 DEF NoticeIds
  <2>3. 0..noted.heard \subseteq 0..heard /\ 0..LinksNoted \subseteq 0..links
    BY <1>0 DEF LinksNoted
  <2>4. NoticeIds(noted.heard, LinksNoted) \subseteq NoticeIds(heard, links)
    BY <2>3 DEF NoticeIds
  <2> QED BY <2>2, <2>4, <1>14 DEF NoticesInv
<1>18. noted'.heard = heard /\ noted'.link = link /\ LinksNoted' = links
  BY <1>1 DEF LinksNoted
<1>19. NoticesInv'
  BY <1>0, <1>1, <1>15, <1>16, <1>17, <1>18 DEF NoticesInv
<1>20. NoticesStay
  <2> SUFFICES ASSUME NEW i \in DOMAIN notices,
                      \A j \in DOMAIN notices' : notices'[j].id # notices[i].id,
                      Len(notices') # NoticeLimit
               PROVE  FALSE
    BY DEF NoticesStay
  <2>1. Len(notices') = Len(all)
    BY <1>15
  <2>2. DOMAIN notices = 1..Len(notices) /\ DOMAIN notices' = 1..Len(notices')
    BY <1>15 DEF NoticesInv
  <2>3. notices[i].id \in IdsOf(all)
    BY <2>2, <1>14 DEF IdsOf
  <2>4. PICK j \in 1..Len(all) : all[j].id = notices[i].id
    BY <2>3 DEF IdsOf
  <2>5. notices'[j].id = notices[i].id /\ j \in DOMAIN notices'
    BY <2>1, <2>2, <2>4, <1>15
  <2> QED BY <2>5
<1> QED BY <1>19, <1>20

LEMMA LeavesInv ==
  ASSUME NoticesInv, NEW i \in 1..NoticeLimit, NoticeLeaves(i) PROVE NoticesInv' /\ NoticesStay
<1> DEFINE id == notices[i].id
<1>1. /\ i \in DOMAIN notices /\ notices[i].exits > 0 /\ notices' = WithoutId(notices, id)
      /\ UNCHANGED <<heard, link, links, noted, trouble>>
  BY DEF NoticeLeaves
<1>2. notices \in Seq(NoticeRecord) /\ Distinct(notices)
  BY DEF NoticesInv
<1>3. notices' \in Seq(NoticeRecord) /\ LeftOf(notices, id, Len(notices), notices')
  BY <1>1, <1>2, WithoutIdIs
<1>4. IdsOf(notices') \subseteq IdsOf(notices) /\ Distinct(notices')
  BY <1>2, <1>3 DEF LeftOf, IdsOf
<1>5. LinksNoted' = LinksNoted
  BY <1>1 DEF LinksNoted
<1>6. NoticesInv'
  BY <1>1, <1>3, <1>4, <1>5 DEF NoticesInv
<1>7. DOMAIN notices = 1..Len(notices) /\ DOMAIN notices' = 1..Len(notices')
  BY <1>2, <1>3
<1>8. NoticesStay
  <2> SUFFICES ASSUME NEW k \in 1..Len(notices),
                      \A j \in 1..Len(notices') : notices'[j].id # notices[k].id
               PROVE  notices[k].exits > 0
    BY <1>7 DEF NoticesStay
  <2>1. notices[k].id = id
    BY <1>3 DEF LeftOf
  <2>2. k = i
    BY <2>1, <1>1, <1>2, <1>7 DEF Distinct
  <2> QED BY <2>2, <1>1
<1> QED BY <1>6, <1>8

LEMMA HideInv ==
  ASSUME NoticesInv, NEW i \in 1..NoticeLimit, AutoHide(i) \/ DismissNotice(i)
  PROVE  NoticesInv' /\ NoticesStay
<1>1. /\ notices' = [notices EXCEPT ![i].auto = FALSE, ![i].exits = @ + 1]
         \/ notices' = [notices EXCEPT ![i].exits = @ + 1]
      /\ i \in DOMAIN notices
      /\ UNCHANGED <<heard, link, links, noted, trouble>>
  BY DEF AutoHide, DismissNotice, Visible
<1>2. notices \in Seq(NoticeRecord) /\ DOMAIN notices = 1..Len(notices) /\ Len(notices) \in Nat
      /\ \A k \in 1..Len(notices) : notices[k] \in NoticeRecord
  BY DEF NoticesInv
<1>3. ASSUME NEW k \in 1..Len(notices)
      PROVE  notices'[k] \in NoticeRecord /\ notices'[k].id = notices[k].id
  <2>1. notices[k] \in NoticeRecord
    BY <1>2
  <2>2. \/ notices'[k] = notices[k]
        \/ notices'[k] = [notices[k] EXCEPT !.auto = FALSE, !.exits = @ + 1]
        \/ notices'[k] = [notices[k] EXCEPT !.exits = @ + 1]
    BY <1>1, <1>2
  <2>3. ASSUME NEW r \in NoticeRecord
        PROVE  /\ [r EXCEPT !.auto = FALSE, !.exits = @ + 1] \in NoticeRecord
               /\ [r EXCEPT !.auto = FALSE, !.exits = @ + 1].id = r.id
    <3> DEFINE stopped == [r EXCEPT !.auto = FALSE]
               q == [r EXCEPT !.auto = FALSE, !.exits = @ + 1]
    <3>1. stopped \in NoticeRecord /\ stopped.id = r.id
      BY DEF NoticeRecord
    <3>2. q = [stopped EXCEPT !.exits = @ + 1]
      OBVIOUS
    <3> HIDE DEF stopped, q
    <3>3. q \in NoticeRecord /\ q.id = r.id
      BY <3>1, <3>2 DEF NoticeRecord
    <3> QED BY <3>3 DEF q
  <2>4. ASSUME NEW r \in NoticeRecord
        PROVE  /\ [r EXCEPT !.exits = @ + 1] \in NoticeRecord
               /\ [r EXCEPT !.exits = @ + 1].id = r.id
    BY DEF NoticeRecord
  <2> QED BY <2>1, <2>2, <2>3, <2>4
<1>4. notices' \in [1..Len(notices) -> NoticeRecord]
  BY <1>1, <1>2, <1>3
<1>5. notices' \in Seq(NoticeRecord) /\ Len(notices') = Len(notices)
  BY <1>2, <1>4
<1>6. LinksNoted' = LinksNoted
  BY <1>1 DEF LinksNoted
<1> QED BY <1>1, <1>3, <1>5, <1>6, SameIds DEF NoticesInv

LEMMA RetryInv ==
  ASSUME NoticesInv, RetryConnection PROVE NoticesInv' /\ NoticesStay
<1>1. /\ notices' = Mount(notices, FALSE, Mounted(link, FALSE)) /\ trouble' = FALSE
      /\ UNCHANGED <<heard, link, links, noted>>
  BY DEF RetryConnection
<1>2. notices' \in Seq(NoticeRecord) /\ Len(notices') = Len(notices)
      /\ \A i \in 1..Len(notices) : notices'[i].id = notices[i].id
  <2>1. Mounted(link, FALSE) \in BOOLEAN
    BY MountedIs
  <2> QED BY <1>1, <2>1, MountIs DEF NoticesInv
<1>3. LinksNoted' = LinksNoted
  BY <1>1 DEF LinksNoted
<1> QED BY <1>1, <1>2, <1>3, SameIds DEF NoticesInv

LEMMA OthersInv ==
  ASSUME NoticesInv,
         \/ UNCHANGED noticeVars \/ Hear \/ DismissAll
         \/ \E state \in {"disconnected", "connecting", "connected", "error"} : LinkChanges(state)
  PROVE  NoticesInv' /\ NoticesStay
<1>1. CASE UNCHANGED noticeVars
  BY <1>1 DEF noticeVars, NoticesInv, NoticesStay, LinksNoted
<1>2. CASE Hear
  BY <1>2 DEF Hear, NoticesInv, NoticesStay, LinksNoted
<1>3. CASE DismissAll
  <2>1. notices' = <<>> /\ UNCHANGED <<heard, link, links, noted, trouble>>
    BY <1>3 DEF DismissAll
  <2>2. IdsOf(<<>>) = {} /\ Distinct(<<>>) /\ LinksNoted' = LinksNoted
    BY <2>1 DEF IdsOf, Distinct, LinksNoted
  <2> QED BY <1>3, <2>1, <2>2 DEF NoticesInv, NoticesStay
<1>4. ASSUME NEW state \in {"disconnected", "connecting", "connected", "error"}, LinkChanges(state)
      PROVE  NoticesInv' /\ NoticesStay
  <2>1. /\ links' = links + 1 /\ UNCHANGED <<notices, heard, noted, trouble>>
        /\ links \in Nat
    BY <1>4 DEF LinkChanges, NoticesInv
  <2>2. 0..LinksNoted \subseteq 0..LinksNoted'
    BY <2>1 DEF LinksNoted
  <2>3. NoticeIds(noted.heard, LinksNoted) \subseteq NoticeIds(noted.heard, LinksNoted')
    BY <2>2 DEF NoticeIds
  <2>4. NoticesInv'
    BY <2>1, <2>3 DEF NoticesInv
  <2> QED BY <2>1, <2>4 DEF NoticesStay
<1> QED BY <1>1, <1>2, <1>3, <1>4

LEMMA NextNotices ==
  ASSUME NoticesInv, [FeedbackNext]_feedback PROVE NoticesInv' /\ NoticesStay
<1>1. CASE UNCHANGED noticeVars
  BY <1>1, OthersInv
<1>2. CASE NoticesNext
  BY <1>2, RenderInv, RetryInv, LeavesInv, HideInv, OthersInv DEF NoticesNext
<1>3. UNCHANGED noticeVars \/ NoticesNext
  BY DEF FeedbackNext, feedback
<1> QED BY <1>1, <1>2, <1>3

\* A toast leaves only when it was closed (its removal timer in use-toast), a notice only
\* when its exit is over (ScoreNotifications), or newer ones take their places, or all
\* are dismissed, or the page begins anew: for any limits and any number of toasts, updates
\* and connections, and timers of those that have gone.
THEOREM NothingIsLost == FeedbackSpec => NothingVanishes
<1>1. FeedbackInit => ToastsInv /\ NoticesInv
  <2> SUFFICES ASSUME FeedbackInit PROVE ToastsInv /\ NoticesInv
    OBVIOUS
  <2>1. ToastsInv
    BY DEF FeedbackInit, ToastsInit, ToastsInv
  <2>2. notices = <<>> /\ IdsOf(<<>>) = {} /\ Distinct(<<>>)
    BY DEF FeedbackInit, NoticesInit, IdsOf, Distinct
  <2>3. /\ heard = 0 /\ links = 0 /\ trouble = FALSE /\ link = "disconnected"
        /\ noted = [heard |-> 0, link |-> "disconnected"]
    BY DEF FeedbackInit, NoticesInit
  <2>4. noted = [heard |-> noted.heard, link |-> noted.link] /\ link = noted.link
        /\ noted.heard \in 0..heard
    BY <2>3
  <2>5. <<>> \in Seq(NoticeRecord)
    OBVIOUS
  <2>6. NoticesInv
    BY <2>2, <2>3, <2>4, <2>5 DEF NoticesInv
  <2> QED BY <2>1, <2>6
<1>2. ToastsInv /\ NoticesInv /\ [FeedbackNext]_feedback => (ToastsInv /\ NoticesInv)'
  BY NextToasts, NextNotices
<1>3. ToastsInv /\ NoticesInv /\ [FeedbackNext]_feedback => [ToastsStay /\ NoticesStay]_feedback
  BY NextToasts, NextNotices
<1>4. [ToastsStay /\ NoticesStay]_feedback <=>
      [/\ \A i \in DOMAIN toasts :
            (\A j \in DOMAIN toasts' : toasts'[j].id # toasts[i].id) =>
              ~toasts[i].open \/ made' > made \/ Reload
       /\ \A i \in DOMAIN notices :
            (\A j \in DOMAIN notices' : notices'[j].id # notices[i].id) =>
              notices[i].exits > 0 \/ Len(notices') = NoticeLimit \/ DismissAll]_feedback
  BY DEF ToastsStay, NoticesStay
<1>5. QED
  BY <1>1, <1>2, <1>3, <1>4, PTL DEF FeedbackSpec, NothingVanishes

-----------------------------------------------------------------------------
(* The cache of scores by sport: what an eviction may take.                  *)

CacheUpdate ==
  [kind : {"refreshing", "fresh", "failed"}, sport : DetectedSports]
    \cup [kind : {"remove"}, sports : SUBSET DetectedSports, evicts : BOOLEAN]

\* The selected sport was active after all others, so no eviction that waits has it.
CacheInv ==
  /\ updates \in Seq(CacheUpdate)
  /\ DOMAIN sportCache \subseteq DetectedSports
  /\ acts \in [active : Nat, refresh : Nat]
  /\ lastActive \in [DetectedSports -> 0..acts.active]
  /\ activeSport \in DetectedSports \cup {Absent}
  /\ activeSport # Absent =>
       /\ lastActive[activeSport] > 0
       /\ \A s \in DetectedSports \ {activeSport} : lastActive[s] < lastActive[activeSport]
  /\ \A i \in 1..Len(updates) :
       updates[i].kind = "remove" /\ updates[i].evicts => activeSport \notin updates[i].sports

\* Only a removal of its own takes a sport out.
LEMMA AppliedKeeps ==
  ASSUME NEW c, DOMAIN c \subseteq DetectedSports, NEW u \in CacheUpdate
  PROVE  /\ DOMAIN Applied(c, u) \subseteq DetectedSports
         /\ \A s \in DOMAIN c : \/ s \in DOMAIN Applied(c, u)
                                \/ u.kind = "remove" /\ s \in u.sports
<1>1. CASE u.kind = "remove"
  <2>1. Applied(c, u) = [x \in DOMAIN c \ u.sports |-> c[x]]
    BY <1>1 DEF Applied, Without
  <2> QED BY <2>1, <1>1
<1>2. CASE u.kind # "remove"
  <2>1. u.sport \in DetectedSports /\ u.kind \in {"refreshing", "fresh", "failed"}
    BY <1>2 DEF CacheUpdate
  <2>2. \E entry : Applied(c, u) = Entered(c, u.sport, entry)
    BY <2>1 DEF Applied
  <2>3. DOMAIN Applied(c, u) = DOMAIN c \cup {u.sport}
    BY <2>2 DEF Entered
  <2> QED BY <2>1, <2>3
<1> QED BY <1>1, <1>2

\* The recursive function of AfterUpdates, up to n.
Applies(f, n) ==
  f = [i \in 0..n |-> IF i = 0 THEN sportCache ELSE Applied(f[i - 1], updates[i])]

LEMMA AppliesExist ==
  ASSUME NEW n \in Nat
  PROVE  \E f : Applies(f, n)
<1> DEFINE S == {k \in Nat : \E f : Applies(f, k)}
<1>1. 0 \in S
  <2> DEFINE f == [i \in 0..0 |-> sportCache]
  <2>1. Applies(f, 0)
    BY DEF Applies
  <2> QED BY <2>1
<1>2. ASSUME NEW k \in Nat, k \in S PROVE k + 1 \in S
  <2>1. PICK f : Applies(f, k)
    BY <1>2
  <2>2. \A i \in 0..k : f[i] = IF i = 0 THEN sportCache ELSE Applied(f[i - 1], updates[i])
    BY <2>1 DEF Applies
  <2> DEFINE g == [i \in 0..(k + 1) |-> IF i = k + 1 THEN Applied(f[k], updates[i]) ELSE f[i]]
  <2>3. ASSUME NEW i \in 0..(k + 1)
        PROVE  g[i] = IF i = 0 THEN sportCache ELSE Applied(g[i - 1], updates[i])
    <3>1. CASE i = k + 1
      <4>1. i # 0 /\ i - 1 = k /\ k \in 0..(k + 1) /\ k # k + 1
        BY <3>1
      <4> QED BY <3>1, <4>1
    <3>2. CASE i # k + 1
      <4>1. i \in 0..k /\ g[i] = f[i]
        BY <3>2
      <4>2. i # 0 => i - 1 \in 0..(k + 1) /\ i - 1 # k + 1
        BY <4>1
      <4> QED BY <2>2, <4>1, <4>2
    <3> QED BY <3>1, <3>2
  <2>4. g = [i \in 0..(k + 1) |-> g[i]]
    OBVIOUS
  <2>5. g = [i \in 0..(k + 1) |-> IF i = 0 THEN sportCache ELSE Applied(g[i - 1], updates[i])]
    <3> HIDE DEF g
    <3> QED BY <2>3, <2>4
  <2>6. Applies(g, k + 1)
    <3> HIDE DEF g
    <3> QED BY <2>5 DEF Applies
  <2> QED BY <2>6
<1> HIDE DEF S
<1>3. Nat \subseteq S
  BY <1>1, <1>2, Induction
<1> QED BY <1>3 DEF S

\* What a render takes out of the cache, a set state has removed.
Removes(s) == \E i \in DOMAIN updates : updates[i].kind = "remove" /\ s \in updates[i].sports

LEMMA AfterUpdatesKeeps ==
  ASSUME CacheInv
  PROVE  /\ DOMAIN AfterUpdates \subseteq DetectedSports
         /\ \A s \in DOMAIN sportCache : s \in DOMAIN AfterUpdates \/ Removes(s)
<1> DEFINE n == Len(updates)
           f == CHOOSE g : Applies(g, n)
           good(c) == /\ DOMAIN c \subseteq DetectedSports
                      /\ \A s \in DOMAIN sportCache : s \in DOMAIN c \/ Removes(s)
<1>0. n \in Nat /\ DOMAIN updates = 1..n /\ \A i \in 1..n : updates[i] \in CacheUpdate
  BY DEF CacheInv
<1>1. Applies(f, n)
  BY <1>0, AppliesExist
<1>2. AfterUpdates = f[n]
  BY DEF AfterUpdates, Applies
<1> HIDE DEF f
<1>3. \A i \in 0..n : f[i] = IF i = 0 THEN sportCache ELSE Applied(f[i - 1], updates[i])
  BY <1>1 DEF Applies
<1> DEFINE S == {i \in Nat : i <= n => good(f[i])}
<1>4. 0 \in S
  <2>1. f[0] = sportCache
    BY <1>0, <1>3
  <2> QED BY <2>1 DEF CacheInv
<1>5. ASSUME NEW i \in Nat, i \in S PROVE i + 1 \in S
  <2> SUFFICES ASSUME i + 1 <= n PROVE good(f[i + 1])
    OBVIOUS
  <2>1. i + 1 \in 0..n /\ i + 1 # 0 /\ (i + 1) - 1 = i /\ i + 1 \in 1..n /\ i <= n
    BY <1>0
  <2>2. f[i + 1] = Applied(f[i], updates[i + 1])
    BY <2>1, <1>3
  <2>3. good(f[i])
    BY <2>1, <1>5
  <2>4. updates[i + 1] \in CacheUpdate
    BY <2>1, <1>0
  <2>5. /\ DOMAIN f[i + 1] \subseteq DetectedSports
        /\ \A s \in DOMAIN f[i] : \/ s \in DOMAIN f[i + 1]
                                  \/ updates[i + 1].kind = "remove" /\ s \in updates[i + 1].sports
    BY <2>2, <2>3, <2>4, AppliedKeeps
  <2> QED BY <2>1, <2>3, <2>5, <1>0 DEF Removes
<1> HIDE DEF S
<1>6. Nat \subseteq S
  BY <1>4, <1>5, Induction
<1> QED BY <1>0, <1>2, <1>6 DEF S

\* Which sports an eviction may take: not the one that was active last.
LEMMA EvictedSpares ==
  ASSUME NEW c, DOMAIN c \subseteq DetectedSports, NEW times \in [DetectedSports -> Nat],
         NEW gone \in Evicted(c, times)
  PROVE  /\ gone \subseteq DetectedSports
         /\ \A a \in DetectedSports :
              (\A s \in DetectedSports \ {a} : times[s] < times[a]) => a \notin gone
<1> DEFINE count == Cardinality(DOMAIN c) - MaxCached
<1>1. CASE count <= 0
  BY <1>1 DEF Evicted
<1>2. CASE ~(count <= 0)
  <2>1. /\ gone \subseteq DOMAIN c /\ Cardinality(gone) = count
        /\ \A s \in gone, t \in DOMAIN c \ gone : times[s] <= times[t]
    BY <1>2 DEF Evicted
  <2>2. ASSUME NEW a \in DetectedSports, a \in gone,
               \A s \in DetectedSports \ {a} : times[s] < times[a]
        PROVE  FALSE
    <3>1. ASSUME NEW t \in DOMAIN c \ gone PROVE FALSE
      <4>1. t \in DetectedSports \ {a} /\ times[a] <= times[t] /\ times[t] < times[a]
        BY <2>1, <2>2
      <4>2. times[a] \in Nat /\ times[t] \in Nat
        BY <4>1
      <4> QED BY <4>1, <4>2
    <3>2. gone = DOMAIN c
      BY <3>1, <2>1
    <3>3. Cardinality(DOMAIN c) \in Nat
      BY DetectionAssumption, FS_Subset, FS_CardinalityType
    <3> QED BY <2>1, <3>2, <3>3, DetectionAssumption
  <2> QED BY <2>1, <2>2
<1> QED BY <1>1, <1>2

\* A render, of the sport that was selected or of another one.
LEMMA CommitInv ==
  ASSUME CacheInv, NEW sport \in DetectedSports \cup {Absent}, Commit(sport),
         acts' \in [active : Nat, refresh : Nat], acts'.active >= acts.active,
         sport # activeSport => sport \in DetectedSports /\ acts'.active > acts.active
  PROVE  CacheInv'
<1> DEFINE now == AfterUpdates
           forgot == {s \in DetectedSports : \E i \in DOMAIN updates :
                        updates[i].kind = "remove" /\ updates[i].evicts /\ s \in updates[i].sports}
           times == [s \in DetectedSports |->
                       IF sport # activeSport /\ s = sport THEN acts'.active
                       ELSE IF s \in forgot THEN 0 ELSE lastActive[s]]
           first == IF sport # activeSport /\ sport \in queries
                    THEN <<[kind |-> "fresh", sport |-> sport]>> ELSE <<>>
           removal(gone) == IF gone = {} THEN <<>>
                            ELSE <<[kind |-> "remove", sports |-> gone, evicts |-> TRUE]>>
<1>1. PICK gone \in (IF updates = <<>> THEN {{}} ELSE Evicted(now, times)) :
        /\ sportCache' = now /\ activeSport' = sport /\ lastActive' = times
        /\ updates' = first \o removal(gone)
  BY DEF Commit
<1>2. /\ DOMAIN now \subseteq DetectedSports /\ DOMAIN updates = 1..Len(updates)
      /\ acts.active \in Nat /\ acts'.active \in Nat
      /\ \A s \in DetectedSports : lastActive[s] \in 0..acts.active
  BY AfterUpdatesKeeps DEF CacheInv
<1>3. activeSport \notin forgot
  BY <1>2 DEF CacheInv
<1>4. /\ times \in [DetectedSports -> 0..acts'.active]
      /\ times \in [DetectedSports -> Nat]
  <2>1. \A s \in DetectedSports : lastActive[s] \in 0..acts'.active
    BY <1>2
  <2>2. acts'.active \in 0..acts'.active /\ 0 \in 0..acts'.active
    BY <1>2
  <2>3. \A s \in DetectedSports : times[s] \in 0..acts'.active
    BY <2>1, <2>2
  <2> QED BY <2>3
<1> HIDE DEF forgot
<1>5. sport # Absent =>
        /\ times[sport] > 0
        /\ \A s \in DetectedSports \ {sport} : times[s] < times[sport]
  <2> SUFFICES ASSUME sport \in DetectedSports
               PROVE  /\ times[sport] > 0
                      /\ \A s \in DetectedSports \ {sport} : times[s] < times[sport]
    OBVIOUS
  <2>1. CASE sport # activeSport
    <3>1. times[sport] = acts'.active
      BY <2>1
    <3>2. \A s \in DetectedSports \ {sport} : times[s] = 0 \/ times[s] = lastActive[s]
      BY <2>1
    <3> HIDE DEF times
    <3> QED BY <2>1, <3>1, <3>2, <1>2
  <2>2. CASE sport = activeSport
    <3>1. times[sport] = lastActive[sport]
      BY <2>2, <1>3
    <3>2. \A s \in DetectedSports \ {sport} : times[s] = 0 \/ times[s] = lastActive[s]
      BY <2>2
    <3>3. /\ lastActive[sport] > 0
          /\ \A s \in DetectedSports \ {sport} : lastActive[s] < lastActive[sport]
      BY <2>2, DetectionAssumption DEF CacheInv
    <3> HIDE DEF times
    <3> QED BY <3>1, <3>2, <3>3, <1>2
  <2> QED BY <2>1, <2>2
<1> HIDE DEF times, now
<1>6. gone \subseteq DetectedSports /\ sport \notin gone
  <2>1. CASE updates = <<>>
    BY <2>1, <1>1
  <2>2. CASE updates # <<>>
    BY <2>2, <1>1, <1>2, <1>4, <1>5, EvictedSpares, DetectionAssumption
  <2> QED BY <2>1, <2>2
<1>7. /\ first \in Seq(CacheUpdate)
      /\ \A i \in 1..Len(first) : first[i].kind # "remove"
  <2>1. CASE sport # activeSport /\ sport \in queries
    <3>1. [kind |-> "fresh", sport |-> sport] \in CacheUpdate
      BY <2>1 DEF CacheUpdate
    <3> QED BY <2>1, <3>1
  <2>2. CASE ~(sport # activeSport /\ sport \in queries)
    BY <2>2
  <2> QED BY <2>1, <2>2
<1>8. /\ removal(gone) \in Seq(CacheUpdate)
      /\ \A i \in 1..Len(removal(gone)) : removal(gone)[i].sports = gone
  <2>1. CASE gone = {}
    BY <2>1
  <2>2. CASE gone # {}
    <3>1. [kind |-> "remove", sports |-> gone, evicts |-> TRUE] \in CacheUpdate
      BY <1>6 DEF CacheUpdate
    <3> QED BY <2>2, <3>1
  <2> QED BY <2>1, <2>2
<1> HIDE DEF first, removal
<1>9. /\ updates' \in Seq(CacheUpdate)
      /\ \A i \in 1..Len(updates') : updates'[i].kind = "remove" => sport \notin updates'[i].sports
  <2> DEFINE m == Len(first)
             k == Len(removal(gone))
  <2>1. /\ updates' \in Seq(CacheUpdate) /\ Len(updates') = m + k /\ m \in Nat /\ k \in Nat
        /\ \A i \in 1..m : updates'[i] = first[i]
        /\ \A i \in 1..k : updates'[m + i] = removal(gone)[i]
    BY <1>1, <1>7, <1>8
  <2>2. \A i \in 1..(m + k) : i \in 1..m \/ (i - m \in 1..k /\ m + (i - m) = i)
    BY <2>1
  <2>3. ASSUME NEW i \in 1..(m + k), updates'[i].kind = "remove"
        PROVE  sport \notin updates'[i].sports
    <3>1. CASE i \in 1..m
      BY <3>1, <2>1, <2>3, <1>7
    <3>2. CASE i - m \in 1..k /\ m + (i - m) = i
      <4>1. updates'[i] = removal(gone)[i - m]
        BY <3>2, <2>1
      <4> QED BY <4>1, <3>2, <1>6, <1>8
    <3> QED BY <3>1, <3>2, <2>2
  <2> QED BY <2>1, <2>3
<1> QED BY <1>1, <1>2, <1>4, <1>5, <1>9 DEF CacheInv

\* One more set state, which evicts nothing.
LEMMA QueueInv ==
  ASSUME CacheInv, NEW u \in CacheUpdate, u.kind = "remove" => ~u.evicts,
         updates' = Append(updates, u), UNCHANGED <<sportCache, activeSport, lastActive>>,
         acts' \in [active : Nat, refresh : Nat], acts'.active >= acts.active
  PROVE  CacheInv'
<1>1. /\ updates' \in Seq(CacheUpdate) /\ Len(updates') = Len(updates) + 1
      /\ Len(updates) \in Nat /\ updates'[Len(updates) + 1] = u
      /\ \A i \in 1..Len(updates) : updates'[i] = updates[i]
  BY DEF CacheInv
<1>2. \A i \in 1..Len(updates') :
        updates'[i].kind = "remove" /\ updates'[i].evicts => activeSport' \notin updates'[i].sports
  <2> SUFFICES ASSUME NEW i \in 1..(Len(updates) + 1),
                      updates'[i].kind = "remove", updates'[i].evicts
               PROVE  activeSport \notin updates'[i].sports
    BY <1>1
  <2>1. CASE i = Len(updates) + 1
    BY <2>1, <1>1
  <2>2. CASE i # Len(updates) + 1
    <3>1. i \in 1..Len(updates)
      BY <2>2, <1>1
    <3> QED BY <3>1, <1>1 DEF CacheInv
  <2> QED BY <2>1, <2>2
<1>3. lastActive' \in [DetectedSports -> 0..acts'.active]
  <2>1. acts.active \in Nat /\ acts'.active \in Nat
    BY DEF CacheInv
  <2>2. 0..acts.active \subseteq 0..acts'.active
    BY <2>1
  <2> QED BY <2>2 DEF CacheInv
<1> QED BY <1>1, <1>2, <1>3 DEF CacheInv

LEMMA NextCacheInv == CacheInv /\ [CacheNext]_cacheVars => CacheInv'
<1> SUFFICES ASSUME CacheInv, [CacheNext]_cacheVars PROVE CacheInv'
  OBVIOUS
<1>0. /\ acts \in [active : Nat, refresh : Nat] /\ acts.active \in Nat /\ acts.refresh \in Nat
      /\ [acts EXCEPT !.active = @ + 1] \in [active : Nat, refresh : Nat]
      /\ [acts EXCEPT !.active = @ + 1].active = acts.active + 1
      /\ [acts EXCEPT !.refresh = @ + 1] \in [active : Nat, refresh : Nat]
      /\ [acts EXCEPT !.refresh = @ + 1].active = acts.active
  BY DEF CacheInv
<1>1. CASE RenderCache
  <2>1. Commit(activeSport) /\ acts' = acts
    BY <1>1 DEF RenderCache
  <2>2. activeSport \in DetectedSports \cup {Absent} /\ acts'.active >= acts.active
    BY <2>1, <1>0 DEF CacheInv
  <2> QED BY <2>1, <2>2, <1>0, CommitInv
<1>2. ASSUME NEW s \in DetectedSports, Activate(s) PROVE CacheInv'
  <2>1. Commit(s) /\ acts' = [acts EXCEPT !.active = @ + 1]
    BY <1>2 DEF Activate
  <2>2. acts'.active = acts.active + 1 /\ acts' \in [active : Nat, refresh : Nat]
    BY <2>1, <1>0
  <2>3. acts'.active >= acts.active /\ acts'.active > acts.active
    BY <2>2, <1>0
  <2> QED BY <2>1, <2>2, <2>3, CommitInv
<1>3. ASSUME NEW s \in DetectedSports, Starts(s) PROVE CacheInv'
  <2>1. [kind |-> "refreshing", sport |-> s] \in CacheUpdate
    BY DEF CacheUpdate
  <2>2. /\ updates' = Append(updates, [kind |-> "refreshing", sport |-> s])
        /\ acts' = [acts EXCEPT !.refresh = @ + 1]
        /\ UNCHANGED <<sportCache, activeSport, lastActive>>
    BY <1>3 DEF Starts, Queue
  <2>3. acts'.active >= acts.active
    BY <2>2, <1>0
  <2> QED BY <2>1, <2>2, <2>3, <1>0, QueueInv
<1>4. ASSUME NEW s \in DetectedSports, NEW well \in BOOLEAN, RefreshAnswers(s, well)
      PROVE  CacheInv'
  <2> DEFINE u == [kind |-> IF well THEN "fresh" ELSE "failed", sport |-> s]
  <2>1. u \in CacheUpdate /\ u.kind # "remove"
    BY DEF CacheUpdate
  <2>2. /\ updates' = Append(updates, u) /\ acts' = acts
        /\ UNCHANGED <<sportCache, activeSport, lastActive>>
    BY <1>4 DEF RefreshAnswers, Queue
  <2>3. acts'.active >= acts.active
    BY <2>2, <1>0
  <2> HIDE DEF u
  <2> QED BY <2>1, <2>2, <2>3, <1>0, QueueInv
<1>5. ASSUME NEW gone, gone \subseteq DOMAIN sportCache, ClearSports(gone) PROVE CacheInv'
  <2> DEFINE u == [kind |-> "remove", sports |-> gone, evicts |-> FALSE]
  <2>1. u \in CacheUpdate /\ ~u.evicts
    BY <1>5 DEF CacheUpdate, CacheInv
  <2>2. /\ updates' = Append(updates, u) /\ acts' = [acts EXCEPT !.active = @ + 1]
        /\ UNCHANGED <<sportCache, activeSport, lastActive>>
    BY <1>5 DEF ClearSports, Queue
  <2>3. acts'.active >= acts.active
    BY <2>2, <1>0
  <2> HIDE DEF u
  <2> QED BY <2>1, <2>2, <2>3, <1>0, QueueInv
<1>6. ASSUME NEW s \in DetectedSports, GrowsStale(s) PROVE CacheInv'
  <2>1. DOMAIN sportCache' = DOMAIN sportCache
    BY <1>6 DEF GrowsStale
  <2> QED BY <1>6, <2>1 DEF GrowsStale, CacheInv
<1>7. ASSUME NEW s \in DetectedSports, Collected(s) PROVE CacheInv'
  BY <1>7 DEF Collected, CacheInv
<1>8. CASE UNCHANGED cacheVars
  BY <1>8 DEF cacheVars, CacheInv
<1>9. ASSUME NEW s \in DetectedSports, RefreshSport(s) \/ BackgroundRefresh(s) PROVE CacheInv'
  BY <1>9, <1>3 DEF RefreshSport, BackgroundRefresh
<1> QED BY <1>1, <1>2, <1>4, <1>5, <1>6, <1>7, <1>8, <1>9 DEF CacheNext, Held

LEMMA CacheStep ==
  ASSUME CacheInv, [CacheNext]_cacheVars, activeSport' = activeSport,
         activeSport \in Held, activeSport \notin DOMAIN sportCache'
  PROVE  \E i \in DOMAIN updates : updates[i].kind = "remove" /\ ~updates[i].evicts
<1>1. CASE sportCache' = AfterUpdates
  <2>1. Removes(activeSport)
    BY <1>1, AfterUpdatesKeeps DEF Held
  <2>2. DOMAIN updates = 1..Len(updates)
    BY DEF CacheInv
  <2> QED BY <2>1, <2>2 DEF Removes, CacheInv
<1>2. CASE DOMAIN sportCache' = DOMAIN sportCache
  BY <1>2 DEF Held
<1>3. ASSUME NEW sport, Commit(sport) PROVE sportCache' = AfterUpdates
  BY <1>3 DEF Commit
<1>4. sportCache' = AfterUpdates \/ DOMAIN sportCache' = DOMAIN sportCache
  BY <1>3 DEF CacheNext, RenderCache, Activate, RefreshSport, BackgroundRefresh, Starts,
              GrowsStale, Collected, RefreshAnswers, ClearSports, cacheVars
<1> QED BY <1>1, <1>2, <1>4

\* The selected sport's scores are not evicted to make room for others (the eviction effect of
\* useSportScoreCache): for any sports, size of the cache, and number of updates that
\* wait for a render, it leaves the cache only when it is cleared.
THEOREM SelectedIsKept == CacheSpec => ActiveKept
<1>1. CacheInit => CacheInv
  <2> SUFFICES ASSUME CacheInit PROVE CacheInv
    OBVIOUS
  <2>1. /\ sportCache = [s \in {} |-> Fresh] /\ updates = <<>> /\ activeSport = Absent
        /\ lastActive = [s \in DetectedSports |-> 0] /\ acts = [active |-> 0, refresh |-> 0]
    BY DEF CacheInit
  <2>2. DOMAIN sportCache = {} /\ updates \in Seq(CacheUpdate) /\ Len(updates) = 0
    BY <2>1
  <2>3. acts \in [active : Nat, refresh : Nat] /\ acts.active = 0
    BY <2>1
  <2>4. lastActive \in [DetectedSports -> 0..acts.active]
    BY <2>1, <2>3
  <2> QED BY <2>1, <2>2, <2>3, <2>4 DEF CacheInv
<1>2. CacheInv /\ [CacheNext]_cacheVars =>
        [/\ activeSport' = activeSport /\ activeSport \in Held /\ activeSport \notin DOMAIN sportCache'
           => \E i \in DOMAIN updates : updates[i].kind = "remove" /\ ~updates[i].evicts]_cacheVars
  BY CacheStep
<1>3. QED
  BY <1>1, <1>2, NextCacheInv, PTL DEF CacheSpec, ActiveKept
=============================================================================
