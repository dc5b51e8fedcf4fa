------------------------------ MODULE ScoreFeed ------------------------------
(***************************************************************************)
(* The hook useScoreUpdates (client/src/hooks/useScoreUpdates.ts) on top   *)
(* of useWebSocket, as ScoreUpdatesTest.tsx mounts it: messages of the     *)
(* socket are validated and filtered, and the sports of the filters are    *)
(* asked for on every connection.                                          *)
(*                                                                         *)
(* New filters are new event handlers, so the render that brings them      *)
(* makes useWebSocket drop its socket and connect again.  A socket keeps   *)
(* the filters of the render that made its handlers, and so does a retry.  *)
(* The effects of a commit run in the order of the hooks: the one that     *)
(* connects before the one that asks, which goes by what was rendered.     *)
(*                                                                         *)
(* What is only shown is left out: the latest update is the first of the   *)
(* recent ones unless they were cleared.                                   *)
(***************************************************************************)
EXTENDS WebSocketHook, Sequences

CONSTANTS
  FeedSports,
  Messages,          \* what the server says, whole or not
  FilterEdits,       \* what the page gives to updateFilters
  FirstFilters,      \* options.filters when the hook is mounted
  MaxRecentUpdates,  \* MAX_RECENT_UPDATES
  MaxErrorHistory,   \* options.maxErrorHistory
  MaxPageActs, MaxFeedMessages  \* bounds

Fields == {"gameId", "sport", "teams", "scores", "positive", "timestamp"}
\* What the server may say; this hook only handles score updates.
IncomingTypes == {"user-team-score-update", "user-team-status-change", "connection-status",
                  "subscription-confirmation", "user-teams-loaded"}
Updates == [type : IncomingTypes, missing : SUBSET Fields, sport : FeedSports, team : STRING,
            mine : BOOLEAN, status : STRING, difference : Nat]

\* Filters without a list, or with an empty one, let everything through.
Filters == [sports : SUBSET FeedSports, teamIds : SUBSET STRING, userTeamsOnly : BOOLEAN,
            gameStatuses : SUBSET STRING, minScoreDifference : Nat]

ASSUME FeedAssumption ==
  /\ \A update \in Messages : update \in Updates
  /\ \A f \in FilterEdits \cup {FirstFilters} : f \in Filters
  /\ MaxRecentUpdates \in Nat \ {0}
  /\ MaxErrorHistory \in Nat
  /\ FreshHandlers = BOOLEAN  \* new filters are new event handlers

VARIABLES
  filters,   \* currentFilters
  edited,    \* were they replaced after the last render
  shown,     \* the filters of the last render
  seen,      \* the connection state of the last render
  owes,      \* does the effect that asks have to run
  handles,   \* the filters that each socket's handlers have
  retries,   \* those of the handlers whose connect the retry timer calls
  asked,     \* the sports that each socket was asked for
  renounced, \* history: those the page unsubscribed from by hand
  recent, errors,
  pageActs, feedMessages
page == <<filters, edited, shown, seen, owes, pageActs>>
subscribed == <<asked, renounced>>
lists == <<recent, errors, feedMessages>>
feed == <<page, handles, retries, subscribed, lists>>

FeedInit ==
  /\ filters = FirstFilters /\ shown = FirstFilters /\ edited = FALSE
  /\ seen = "disconnected"
  /\ owes = TRUE
  /\ handles = [s \in Sockets |-> FirstFilters]
  /\ retries = FirstFilters
  /\ asked = [s \in Sockets |-> {}]
  /\ renounced = [s \in Sockets |-> {}]
  /\ recent = <<>> /\ errors = <<>>
  /\ pageActs = 0 /\ feedMessages = 0

-----------------------------------------------------------------------------

\* shouldProcessUpdate
ShouldProcess(update, by_) ==
  /\ by_.sports # {} => update.sport \in by_.sports
  /\ by_.teamIds # {} => update.team \in by_.teamIds
  /\ by_.userTeamsOnly => update.mine
  /\ by_.gameStatuses # {} => update.status \in by_.gameStatuses
  /\ update.difference >= by_.minScoreDifference

First(n, list) == SubSeq(list, 1, IF Len(list) < n THEN Len(list) ELSE n)

AddError(type) == errors' = First(MaxErrorHistory, <<type>> \o errors)

\* handleMessage drops what there is no handler for.
Handled(message) == message.type = "user-team-score-update"

\* processScoreUpdate.  A socket that is closing says no more.
Received(s) ==
  /\ mounted
  /\ ready[s] = "open"
  /\ feedMessages < MaxFeedMessages /\ feedMessages' = feedMessages + 1
  /\ \E update \in {m \in Messages : Handled(m)} :
       IF update.missing # {} THEN AddError("validation") /\ UNCHANGED recent
       ELSE /\ ShouldProcess(update, handles[s])
            /\ recent' = First(MaxRecentUpdates, <<update>> \o recent)
            /\ UNCHANGED errors
  /\ UNCHANGED <<vars, page, handles, retries, subscribed>>

-----------------------------------------------------------------------------
\* The page.

\* What the user does, signing in and out included.
PageActs == mounted /\ pageActs < MaxPageActs /\ pageActs' = pageActs + 1

UpdateFilters ==
  /\ PageActs
  /\ filters' \in FilterEdits
  /\ edited' = TRUE
  /\ UNCHANGED <<vars, shown, seen, owes, handles, retries, subscribed, lists>>

\* sendMessage
Sends == ws # None /\ ready[ws] = "open"

SubscribeToSport(sport) ==
  /\ PageActs /\ Sends
  /\ asked' = [asked EXCEPT ![ws] = @ \cup {sport}]
  /\ renounced' = [renounced EXCEPT ![ws] = @ \ {sport}]
  /\ UNCHANGED <<vars, filters, edited, shown, seen, owes, handles, retries, lists>>

UnsubscribeFromSport(sport) ==
  /\ PageActs /\ Sends
  /\ asked' = [asked EXCEPT ![ws] = @ \ {sport}]
  /\ renounced' = [renounced EXCEPT ![ws] = @ \cup {sport}]
  /\ UNCHANGED <<vars, filters, edited, shown, seen, owes, handles, retries, lists>>

\* clearUpdates and clearErrors
Clear ==
  /\ PageActs
  /\ \/ recent # <<>> /\ recent' = <<>> /\ UNCHANGED errors
     \/ errors # <<>> /\ errors' = <<>> /\ UNCHANGED recent
  /\ UNCHANGED <<vars, filters, edited, shown, seen, owes, handles, retries, subscribed,
                 feedMessages>>

-----------------------------------------------------------------------------
\* React.

Stale == state # seen \/ edited \/ rendered # view
Settled == effect = "none" /\ ~owes

\* Bug: the effect that asks only depends on the filters.
BugFeedRender ==
  /\ mounted /\ Settled
  /\ IF edited \/ rendered # view THEN Render(edited) ELSE UNCHANGED vars
  /\ seen' = state /\ shown' = filters /\ edited' = FALSE
  /\ owes' = edited
  /\ UNCHANGED <<filters, pageActs, handles, retries, subscribed, lists>>

\* useWebSocket returns a new object, so the effect that asks runs after every
\* render, whatever the reason for it.
FeedRender ==
  /\ mounted /\ Settled
  /\ IF edited \/ rendered # view THEN Render(edited) ELSE UNCHANGED vars
  /\ seen' = state /\ shown' = filters /\ edited' = FALSE
  /\ owes' = TRUE
  /\ UNCHANGED <<filters, pageActs, handles, retries, subscribed, lists>>

\* The auto-subscribe effect.  It does not unsubscribe from the sports that the
\* filters no longer have.
AutoSubscribe ==
  /\ mounted
  /\ owes /\ effect = "none"
  /\ owes' = FALSE
  /\ IF seen = "connected" /\ Sends
     THEN /\ asked' = [asked EXCEPT ![ws] = @ \cup shown.sports]
          /\ renounced' = [renounced EXCEPT ![ws] = @ \ shown.sports]
     ELSE UNCHANGED subscribed
  /\ UNCHANGED <<vars, filters, edited, shown, seen, handles, retries, pageActs, lists>>

-----------------------------------------------------------------------------
\* The steps of useWebSocket.

\* A socket that has just been made, with these filters in its handlers.
Made(with) ==
  LET new == {s \in Sockets : ready[s] = "free" /\ ready'[s] = "connecting"}
  IN  /\ handles' = [s \in Sockets |-> IF s \in new THEN with ELSE handles[s]]
      /\ asked' = [s \in Sockets |-> IF s \in new THEN {} ELSE asked[s]]
      /\ renounced' = [s \in Sockets |-> IF s \in new THEN {} ELSE renounced[s]]

\* The filters that go with the retry timer, while it runs.
Retrying(with) == retries' = IF retry' = None THEN FirstFilters ELSE with

HookActs ==
  /\ \/ RunEffect /\ UNCHANGED pageActs
     \/ Unmount /\ ~owes /\ UNCHANGED pageActs
     \/ PageActs /\ (UserChanges \/ Connect \/ Disconnect)
     \/ ~mounted /\ UserChanges /\ UNCHANGED pageActs
  /\ Made(shown) /\ Retrying(retries)
  /\ UNCHANGED <<filters, edited, shown, seen, owes, lists>>

\* A connection takes longer to open than a change takes to be rendered.
FeedOpens(s) ==
  /\ mounted => Settled /\ ~Stale
  /\ Opened(s)
  /\ UNCHANGED feed

FeedErrors(s) ==
  /\ Errored(s)
  /\ IF mounted THEN AddError("network") ELSE UNCHANGED errors
  /\ UNCHANGED <<page, handles, retries, subscribed, recent, feedMessages>>

FeedCloses(s) ==
  /\ \/ PeerCloses(s) /\ UNCHANGED <<retries, handles>>
     \/ /\ Closed(s) /\ Retrying(handles[s])
        /\ handles' = [handles EXCEPT ![s] = FirstFilters]
  /\ asked' = [asked EXCEPT ![s] = {}] /\ renounced' = [renounced EXCEPT ![s] = {}]
  /\ UNCHANGED <<page, lists>>

FeedRetries ==
  /\ Settled /\ ~Stale
  /\ RetryFires
  /\ Made(retries) /\ Retrying(retries)
  /\ UNCHANGED <<page, lists>>

FeedNext ==
  \/ FeedRender \/ AutoSubscribe \/ HookActs \/ FeedRetries
  \/ \E s \in Sockets : FeedOpens(s) \/ FeedErrors(s) \/ FeedCloses(s) \/ Received(s)
  \/ UpdateFilters \/ Clear
  \/ \E sport \in FeedSports : SubscribeToSport(sport) \/ UnsubscribeFromSport(sport)

FeedSpec == Init /\ FeedInit /\ [][FeedNext]_<<vars, feed>>

-----------------------------------------------------------------------------
(***************************************************************************)
(* Whatever is rendered as connected has been asked, on the connection     *)
(* that is there now, for every sport of the filters that the page has not *)
(* unsubscribed from by hand: also after a retry, after filters that made  *)
(* the hook connect again, and when the effect met a socket that was not   *)
(* open yet and its message was lost (the auto-subscribe effect and        *)
(* sendMessage).                                                           *)
(***************************************************************************)
SportsAsked ==
  mounted /\ Settled /\ ~Stale /\ seen = "connected" /\ Sends
    => shown.sports \subseteq asked[ws] \cup renounced[ws]

=============================================================================
