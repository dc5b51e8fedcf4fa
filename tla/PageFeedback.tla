---------------------------- MODULE PageFeedback ----------------------------
(***************************************************************************)
(* What a page tells its user when something happens: the error handler of *)
(* the sport context with the recovery strategies behind it, the error     *)
(* boundary around the page, toasts, and the notices of score updates.     *)
(*                                                                         *)
(* A hook is called again when its component renders: what is clicked was  *)
(* rendered before (shown), what ends later changes the state that the     *)
(* next render shows.  A click is rendered at once.  Delays are not        *)
(* measured.  No caller gives the error handler a retry function of its    *)
(* own, except where `own' says so: the strategies for the network and for *)
(* servers then only wait, and the last strategy, which clears caches,     *)
(* succeeds for every error.  The automatic retry of an error that no      *)
(* strategy handles is never reached and not modelled.                     *)
(***************************************************************************)
EXTENDS Naturals, FiniteSets, Sequences

CONSTANTS
  Nothing,
  MaxRetries,       \* of the error handler
  ToastLimit,       \* TOAST_LIMIT
  NoticeLimit,      \* maxNotifications
  Slots,            \* numbers of handler calls that may be in progress
  MaxErrors, MaxToasts,   \* errors, and toasts of others before them
  MaxHeard, MaxLinks      \* bounds on what happens

VARIABLES
  \* the error handler and the error boundary
  handler,          \* its state; shown is the one of the last render
  shown,
  own,              \* whether setRetryFunction was called
  calls,            \* slot -> a call in progress, or Nothing
  boundary,         \* the error the boundary shows, or Nothing
  occurred,
  \* toasts
  toasts,           \* newest first: records [id, open]
  removals,         \* the toasts with a removal timer
  made,             \* toasts made so far; the next id
  \* notices
  notices,          \* newest first: records [id, auto, exits]
  heard,            \* updates heard; the last one is lastUpdate of the feed
  link,             \* connectionState of the feed
  links,
  noted,            \* what the last effects saw of both
  trouble           \* connectionError

errorVars == <<handler, shown, own, calls, boundary, occurred>>
toastVars == <<toasts, removals, made>>
noticeVars == <<notices, heard, link, links, noted, trouble>>
feedback == <<errorVars, toastVars, noticeVars>>

-----------------------------------------------------------------------------
(* Toasts (use-toast.ts).                                                  *)

ToastsInit == toasts = <<>> /\ removals = {} /\ made = 0

\* list.filter(t => t.id !== id)
WithoutId(list, id) ==
  LET left[n \in 0..Len(list)] ==
        IF n = 0 THEN <<>> ELSE
        IF list[n].id = id THEN left[n - 1] ELSE Append(left[n - 1], list[n])
  IN  left[Len(list)]

FirstOf(list, n) == SubSeq(list, 1, IF n < Len(list) THEN n ELSE Len(list))

\* The list after n toasts were added, one after the other.
WithToasts(n) ==
  FirstOf([i \in 1..n |-> [id |-> made + n + 1 - i, open |-> TRUE]] \o toasts, ToastLimit)
Toasted(n) == toasts' = WithToasts(n) /\ made' = made + n /\ UNCHANGED removals

Toast == made < MaxToasts /\ Toasted(1)

\* A toast that is shown is closed, by the user or when its time is over.
DismissToast(id) ==
  /\ \E i \in DOMAIN toasts : toasts[i].id = id /\ toasts[i].open
  /\ toasts' = [i \in DOMAIN toasts |->
                  IF toasts[i].id = id THEN [toasts[i] EXCEPT !.open = FALSE] ELSE toasts[i]]
  /\ removals' = removals \cup {id}
  /\ UNCHANGED made

\* Bug: the newest toast is removed, whichever timer is over.
BugRemoveToast(id) ==
  /\ id \in removals /\ removals' = removals \ {id}
  /\ toasts' = (IF toasts = <<>> THEN toasts ELSE Tail(toasts))
  /\ UNCHANGED made

RemoveToast(id) ==
  /\ id \in removals /\ removals' = removals \ {id}
  /\ toasts' = WithoutId(toasts, id)
  /\ UNCHANGED made

ToastsNext == Toast \/ \E id \in 1..made : DismissToast(id) \/ RemoveToast(id)

-----------------------------------------------------------------------------
(* The error handler (useErrorHandler.ts, errorRecovery.ts).               *)

\* Errors by the strategies that can handle them.
Kinds == {"network", "server", "both", "status", "chunk", "other"}
Waits == [network |-> 1, server |-> 3, both |-> 4, status |-> 3, chunk |-> 0, other |-> 0]
Retryable(kind) == kind \in {"network", "server", "both"}

Clean == [error |-> Nothing, retrying |-> FALSE, count |-> 0, recovered |-> FALSE]

ErrorsInit ==
  /\ handler = Clean /\ shown = Clean /\ own \in BOOLEAN
  /\ calls = [i \in Slots |-> Nothing] /\ boundary = Nothing /\ occurred = 0

Free(i) == calls[i] = Nothing /\ \A j \in Slots : j < i => calls[j] # Nothing
Call == [of : {"handle", "log", "retry", "own"}, error : Kinds, waits : Nat]
ASSUME FeedbackAssumption ==
  /\ MaxRetries \in Nat /\ Nothing \notin Call
  /\ {ToastLimit, NoticeLimit} \subseteq Nat \ {0}

Calls(i, of, kind) == calls' = [calls EXCEPT ![i] = [of |-> of, error |-> kind, waits |-> Waits[kind]]]

\* refreshScores failed.
HandleError(i, kind) ==
  /\ occurred < MaxErrors /\ occurred' = occurred + 1
  /\ Free(i) /\ Calls(i, "handle", kind)
  /\ UNCHANGED <<handler, shown, own, boundary, toastVars>>

\* A component threw while it rendered.
Catches(i, kind) ==
  /\ occurred < MaxErrors /\ occurred' = occurred + 1
  /\ boundary = Nothing /\ boundary' = kind
  /\ Free(i) /\ Calls(i, "log", kind)
  /\ UNCHANGED <<handler, shown, own, toastVars>>

\* Its button to retry; the error's type is looked up with other words.
ResetErrorBoundary ==
  /\ boundary # Nothing
  /\ Retryable(boundary) \/ boundary = "chunk"
  /\ boundary' = Nothing
  /\ UNCHANGED <<handler, shown, own, calls, occurred, toastVars>>

\* The page begins anew: a chunk that cannot be loaded, or the boundary's button.
Reload ==
  /\ handler' = Clean /\ shown' = Clean /\ calls' = [i \in Slots |-> Nothing] /\ boundary' = Nothing
  /\ toasts' = <<>> /\ removals' = {}
  /\ UNCHANGED <<own, occurred, made>>
HandleReload == boundary # Nothing /\ Reload

\* A strategy waits, and gives up or tries again.
StrategyWaits(i) ==
  /\ calls[i] # Nothing
  /\ calls[i].of # "own"
  /\ calls[i].waits > 0
  /\ calls' = [calls EXCEPT ![i].waits = @ - 1]
  /\ UNCHANGED <<handler, shown, own, boundary, occurred, toastVars>>

\* What the end of a call leaves: the error stays shown, although it counts as
\* recovered, after handleError; it is taken back after a retry.
Handled(call) ==
  CASE call.of = "handle" -> [handler EXCEPT !.error = call.error, !.recovered = TRUE,
                                             !.retrying = FALSE]
    [] call.of = "retry" -> [handler EXCEPT !.error = Nothing, !.recovered = TRUE, !.retrying = FALSE]
    [] OTHER -> handler

Recovers(i) ==
  /\ calls[i] # Nothing
  /\ calls[i].of # "own"
  /\ calls[i].waits = 0
  /\ \/ calls[i].error = "chunk" /\ Reload
     \/ /\ calls[i].error # "chunk"
        /\ handler' = Handled(calls[i]) /\ calls' = [calls EXCEPT ![i] = Nothing]
        /\ CASE calls[i].of = "handle" -> Toasted(2)
             [] calls[i].of = "retry" -> Toasted(1)
             [] OTHER -> UNCHANGED toastVars
        /\ UNCHANGED <<shown, own, boundary, occurred>>

Retry(i) ==
  /\ shown.error # Nothing
  /\ Retryable(shown.error)
  /\ ~shown.retrying /\ shown.count < MaxRetries
  /\ Free(i) /\ Calls(i, IF own THEN "own" ELSE "retry", shown.error)
  /\ handler' = [handler EXCEPT !.retrying = TRUE, !.count = @ + 1]
  /\ shown' = handler'
  /\ UNCHANGED <<own, boundary, occurred, toastVars>>

OwnSucceeds(i) ==
  /\ calls[i] # Nothing
  /\ calls[i].of = "own"
  /\ handler' = [handler EXCEPT !.error = Nothing, !.retrying = FALSE, !.recovered = TRUE]
  /\ calls' = [calls EXCEPT ![i] = Nothing]
  /\ UNCHANGED <<shown, own, boundary, occurred, toastVars>>

\* Bug: the catch clause only logs the error.
BugOwnFails(i, kind) ==
  /\ calls[i] # Nothing
  /\ calls[i].of = "own"
  /\ Calls(i, "log", kind)
  /\ UNCHANGED <<handler, shown, own, boundary, occurred, toastVars>>

\* The error it failed with is logged, which tries to recover from it.
OwnFails(i, kind) ==
  /\ calls[i] # Nothing
  /\ calls[i].of = "own"
  /\ handler' = [handler EXCEPT !.retrying = FALSE]
  /\ Calls(i, "log", kind)
  /\ UNCHANGED <<shown, own, boundary, occurred, toastVars>>

ClearError ==
  /\ shown.error # Nothing
  /\ handler' = Clean /\ shown' = Clean
  /\ UNCHANGED <<own, calls, boundary, occurred, toastVars>>

RenderHandler ==
  /\ shown # handler /\ shown' = handler
  /\ UNCHANGED <<handler, own, calls, boundary, occurred, toastVars>>

ErrorsNext ==
  \/ \E i \in Slots :
       \/ \E kind \in Kinds : HandleError(i, kind) \/ Catches(i, kind) \/ OwnFails(i, kind)
       \/ StrategyWaits(i) \/ Recovers(i) \/ Retry(i) \/ OwnSucceeds(i)
  \/ ResetErrorBoundary \/ HandleReload \/ ClearError \/ RenderHandler
  \/ ToastsNext /\ UNCHANGED errorVars

-----------------------------------------------------------------------------
(* Notices of updates and of the connection (ScoreNotifications.tsx).      *)

NoticesInit ==
  /\ notices = <<>> /\ heard = 0 /\ link = "disconnected" /\ links = 0
  /\ noted = [heard |-> 0, link |-> "disconnected"] /\ trouble = FALSE

\* Items are mounted unless the page shows its loading or its error state instead.
Mounted(state, error) == state # "connecting" /\ ~error

\* Mounting starts an item's timer; unmounting stops it, but not the end of an exit.
Mount(list, was, is) ==
  [i \in DOMAIN list |-> IF was = is THEN list[i] ELSE [list[i] EXCEPT !.auto = is]]

Notice(id, mounted) == [id |-> id, auto |-> mounted, exits |-> 0]

\* A render with its effects.  Of several updates since the last one only the
\* last is seen.
RenderNotices ==
  /\ noted # [heard |-> heard, link |-> link]
  /\ noted' = [heard |-> heard, link |-> link]
  /\ trouble' = IF link = noted.link THEN trouble ELSE link = "error"
  /\ LET is == Mounted(link, trouble')
         old == Mount(notices, Mounted(noted.link, trouble), is)
         news == IF heard # noted.heard THEN <<Notice(2 * heard, is)>> ELSE <<>>
         state == IF link # noted.link /\ link \in {"connected", "error"}
                  THEN <<Notice(2 * links + 1, is)>> ELSE <<>>
     IN notices' = FirstOf(state \o news \o old, NoticeLimit)
  /\ UNCHANGED <<heard, link, links>>

\* The button of the error state; it also asks the feed to connect.
RetryConnection ==
  /\ trouble /\ link = noted.link
  /\ trouble' = FALSE
  /\ notices' = Mount(notices, FALSE, Mounted(link, FALSE))
  /\ UNCHANGED <<heard, link, links, noted>>

Visible(i) == i \in DOMAIN notices /\ Mounted(noted.link, trouble)

\* Its time is over, or it is clicked away: it leaves after the animation.
AutoHide(i) ==
  /\ Visible(i)
  /\ notices[i].auto
  /\ notices' = [notices EXCEPT ![i].auto = FALSE, ![i].exits = @ + 1]
  /\ UNCHANGED <<heard, link, links, noted, trouble>>
DismissNotice(i) ==
  /\ Visible(i)
  /\ notices[i].exits < 2
  /\ notices' = [notices EXCEPT ![i].exits = @ + 1]
  /\ UNCHANGED <<heard, link, links, noted, trouble>>
NoticeLeaves(i) ==
  /\ i \in DOMAIN notices
  /\ notices[i].exits > 0
  /\ notices' = WithoutId(notices, notices[i].id)
  /\ UNCHANGED <<heard, link, links, noted, trouble>>
DismissAll ==
  /\ Visible(2)
  /\ notices' = <<>>
  /\ UNCHANGED <<heard, link, links, noted, trouble>>

\* The feed.
Hear ==
  /\ heard < MaxHeard /\ heard' = heard + 1
  /\ UNCHANGED <<notices, link, links, noted, trouble>>
LinkChanges(state) ==
  /\ state # link /\ link' = state
  /\ links < MaxLinks /\ links' = links + 1
  /\ UNCHANGED <<notices, heard, noted, trouble>>

NoticesNext ==
  \/ RenderNotices \/ RetryConnection \/ DismissAll \/ Hear
  \/ \E state \in {"disconnected", "connecting", "connected", "error"} : LinkChanges(state)
  \/ \E i \in 1..NoticeLimit : AutoHide(i) \/ DismissNotice(i) \/ NoticeLeaves(i)

-----------------------------------------------------------------------------
(* The page.                                                               *)

FeedbackInit == ErrorsInit /\ ToastsInit /\ NoticesInit

FeedbackNext ==
  \/ ErrorsNext /\ UNCHANGED noticeVars
  \/ NoticesNext /\ UNCHANGED <<errorVars, toastVars>>

FeedbackSpec == FeedbackInit /\ [][FeedbackNext]_feedback

FeedbackTypeOK ==
  /\ handler.error \in Kinds \cup {Nothing} /\ handler.count \in 0..MaxRetries
  /\ Len(toasts) <= ToastLimit /\ Len(notices) <= NoticeLimit
  /\ \A i \in DOMAIN toasts : toasts[i].id \in 1..made

\* While the error handler says that it retries, a retry is in progress whose end
\* will say otherwise: whatever errors were handled, cleared or retried meanwhile,
\* the user gets the button back.
RetryingIsReal ==
  handler.retrying => \E i \in Slots : calls[i] # Nothing /\ calls[i].of \in {"retry", "own"}

\* A toast leaves only when it was closed, and a notice when its exit is over, or
\* newer ones take their places, or the user dismisses all or the page begins
\* anew: the timers of those that have gone take no other away.
NothingVanishes ==
  [][/\ \A i \in DOMAIN toasts :
          (\A j \in DOMAIN toasts' : toasts'[j].id # toasts[i].id) =>
            ~toasts[i].open \/ made' > made \/ Reload
     /\ \A i \in DOMAIN notices :
          (\A j \in DOMAIN notices' : notices'[j].id # notices[i].id) =>
            notices[i].exits > 0 \/ Len(notices') = NoticeLimit \/ DismissAll]_feedback

=============================================================================
