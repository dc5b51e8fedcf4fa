----------------------------- MODULE LiveScores -----------------------------
(***************************************************************************)
(* The scores on the page: useUserTeamScores.ts and the score state of     *)
(* SportContext.tsx.  The scores of a sport are a query whose data the     *)
(* browser fetches, polls, prefetches and retries; three listeners hear of *)
(* a change of a score, each on its own channel: the hook writes it into   *)
(* the cache, the sport context and the score update service invalidate    *)
(* queries so that they are fetched again.                                 *)
(*                                                                         *)
(* The board of a sport stands for what the server answers, as a version;  *)
(* a push carries the version it announces.  Times are left out: a timer   *)
(* fires at any moment, data that is not invalid may or may not be stale.  *)
(***************************************************************************)
EXTENDS Integers, Sequences, SequencesExt

CONSTANTS
  LiveSports,
  First,       \* the sport selected when the page opens
  Audiences,   \* bound: the sets of listeners that may hear of a change
  MaxGoals,    \* bound: changes of the boards
  MaxRetries,  \* retries of a fetch of the hook (3)
  MaxFails,    \* bound: requests that fail
  MaxActs      \* bound: what the user does: selects, retries, refreshes

VARIABLES
  board,       \* sport -> version on the server
  selected,    \* selectedSport of the context
  debounced,   \* the sport of the hook, 300 ms behind
  query,       \* sport -> [data, invalid, fetch, own, tries]
  wire,        \* listener -> pushes under way, in order
  scores,      \* sports whose games are in the score state of the context
  refresh,     \* the sport of a refreshScores under way
  fails, acts
live == <<board, selected, debounced, query, wire, scores, refresh, fails, acts>>

Listeners == {"hook", "context", "service"}
NoData == -1       \* no data
Asked == -2      \* the request is on its way
Idle == -3       \* no fetch; any other value of `fetch' is the answer's version

NoQuery == [data |-> NoData, invalid |-> FALSE, fetch |-> Idle, own |-> TRUE, tries |-> 0]
NoSport == "none"

LiveInit ==
  /\ board = [s \in LiveSports |-> 0]
  /\ selected = First /\ debounced = First
  /\ query = [s \in LiveSports |-> IF s = First THEN [NoQuery EXCEPT !.fetch = Asked]
                                               ELSE NoQuery]
  /\ wire = [l \in Listeners |-> <<>>]
  /\ scores = {}
  /\ refresh = NoSport
  /\ fails = 0 /\ acts = 0

LiveTypeOK ==
  /\ board \in [LiveSports -> 0..MaxGoals]
  /\ {selected, debounced} \subseteq LiveSports
  /\ query \in [LiveSports -> [data : NoData..MaxGoals, invalid : BOOLEAN,
                           fetch : Idle..MaxGoals, own : BOOLEAN, tries : 0..MaxRetries]]
  /\ \A l \in Listeners : \A i \in DOMAIN wire[l] : wire[l][i] \in LiveSports \X (1..MaxGoals)
  /\ scores \subseteq LiveSports
  /\ refresh \in LiveSports \cup {NoSport}

\* A fetch that starts: one that is running is joined.
Started(q) == IF q.fetch = Idle THEN [q EXCEPT !.fetch = Asked, !.own = TRUE, !.tries = 0]
                                ELSE q
\* A fetch again: one that is running is abandoned, unless there is no data yet.
Restarted(q) == Started(IF q.data # NoData THEN [q EXCEPT !.fetch = Idle] ELSE q)
\* invalidateQueries of the queries of the sports S: the observed one is fetched.
Invalidated(S) ==
  [s \in LiveSports |-> IF s \notin S \/ query[s] = NoQuery THEN query[s]
                    ELSE LET q == [query[s] EXCEPT !.invalid = TRUE]
                         IN  IF s = debounced THEN Restarted(q) ELSE q]

-----------------------------------------------------------------------------
(* The server. *)

\* A score changes and is announced to the listeners that are connected then.
Goal(s) ==
  /\ FoldFunction(+, 0, board) < MaxGoals
  /\ board' = [board EXCEPT ![s] = @ + 1]
  /\ \E to \in Audiences :
       wire' = [l \in Listeners |-> IF l \in to THEN Append(wire[l], <<s, board'[s]>>)
                                                ELSE wire[l]]
  /\ UNCHANGED <<selected, debounced, query, scores, refresh, fails, acts>>

\* GET /api/user-team-scores; a 401 is asked again with a new token.
Answers(s) ==
  /\ query[s].fetch = Asked
  /\ query' = [query EXCEPT ![s].fetch = board[s]]
  /\ UNCHANGED <<board, selected, debounced, wire, scores, refresh, fails, acts>>

-----------------------------------------------------------------------------
(* The query of a sport. *)

Arrives(s) ==
  /\ query[s].fetch >= 0
  /\ query' = [query EXCEPT ![s] = [NoQuery EXCEPT !.data = query[s].fetch]]
  /\ UNCHANGED <<board, selected, debounced, wire, scores, refresh, fails, acts>>

\* The error of an answer that is not ok; 0 stands for no answer at all.
HttpStatuses == {0, 401, 403, 404, 429, 500}
ErrorOf(status) ==
  CASE status = 0 -> "network"   [] status = 401 -> "authentication"
    [] status = 403 -> "forbidden" [] status = 404 -> "not found"
    [] status = 429 -> "too many" [] status = 500 -> "server"
\* The words of the message decide: that of a 404 does not have its number.
RetriedError(error) == error \notin {"authentication", "forbidden"}

\* A prefetch is not retried.
FetchFails(s) ==
  /\ query[s].fetch # Idle /\ fails < MaxFails
  /\ fails' = fails + 1
  /\ \E status \in HttpStatuses :
       query' = [query EXCEPT ![s] =
         IF @.own /\ RetriedError(ErrorOf(status)) /\ @.tries < MaxRetries
         THEN [@ EXCEPT !.fetch = Asked, !.tries = @ + 1]
         ELSE [@ EXCEPT !.fetch = Idle, !.tries = 0]]
  /\ UNCHANGED <<board, selected, debounced, wire, scores, refresh, acts>>

\* Bug: the interval runs only until there is data.
PollBug ==
  /\ query[debounced].fetch = Idle /\ query[debounced].data = NoData
  /\ query' = [query EXCEPT ![debounced] = Started(@)]
  /\ UNCHANGED <<board, selected, debounced, wire, scores, refresh, fails, acts>>

\* refetchInterval, and what the user asks for with the retry button.
Poll ==
  /\ query[debounced].fetch = Idle
  /\ query' = [query EXCEPT ![debounced] = Started(@)]
  /\ UNCHANGED <<board, selected, debounced, wire, scores, refresh, fails, acts>>
Refetch ==
  /\ acts < MaxActs /\ acts' = acts + 1
  /\ query' = [query EXCEPT ![debounced] = Restarted(@)]
  /\ UNCHANGED <<board, selected, debounced, wire, scores, refresh, fails>>

\* invalidateCache and invalidateAllUserTeamScores, for the page to call.
InvalidateCache ==
  /\ acts < MaxActs /\ acts' = acts + 1
  /\ \/ query' = Invalidated({debounced})
     \/ query' = Invalidated(LiveSports)
  /\ UNCHANGED <<board, selected, debounced, wire, scores, refresh, fails>>

\* prefetchNextPage of another sport: what it has may be fresh.
PrefetchNext(s) ==
  /\ s # debounced /\ query[s].fetch = Idle
  /\ acts < MaxActs /\ acts' = acts + 1
  /\ query' = [query EXCEPT ![s].fetch = Asked, ![s].own = FALSE]
  /\ UNCHANGED <<board, selected, debounced, wire, scores, refresh, fails>>

\* prefetchMultipleSports, when the favorite sports are known.
Prefetch ==
  /\ \E s \in LiveSports : query[s] = NoQuery
  /\ query' = [s \in LiveSports |-> IF query[s] = NoQuery
                                THEN [NoQuery EXCEPT !.fetch = Asked, !.own = FALSE]
                                ELSE query[s]]
  /\ UNCHANGED <<board, selected, debounced, wire, scores, refresh, fails, acts>>

-----------------------------------------------------------------------------
(* The selection. *)

\* setSelectedSportImmediate: the context's scores are emptied (its cache of
\* other sports has no user id and holds nothing), the queries it names do
\* not exist.
Select(s) ==
  /\ s # selected /\ acts < MaxActs
  /\ acts' = acts + 1
  /\ selected' = s
  /\ scores' = {}
  /\ UNCHANGED <<board, debounced, query, wire, refresh, fails>>

\* useDebounce: the hook leaves the query of the old sport, and its fetch is
\* cancelled if it was the hook's; the new one is fetched if it has no data,
\* is invalid, or is stale.
DebounceFires ==
  /\ debounced # selected
  /\ debounced' = selected
  /\ \E stale \in BOOLEAN :
       query' = [query EXCEPT
         ![debounced] = IF @.own THEN [@ EXCEPT !.fetch = Idle, !.tries = 0] ELSE @,
         ![selected] = IF @.data = NoData \/ @.invalid \/ stale THEN Started(@) ELSE @]
  /\ UNCHANGED <<board, selected, wire, scores, refresh, fails, acts>>

-----------------------------------------------------------------------------
(* The listeners. *)

Heard(l) == wire[l] # <<>> /\ wire' = [wire EXCEPT ![l] = Tail(@)]

\* onScoreUpdate of the hook writes the score into the data it has for its
\* sport; onStatusChange invalidates a key no query has.
HookHears ==
  /\ Heard("hook")
  /\ LET s == Head(wire["hook"])[1]
         v == Head(wire["hook"])[2]
     IN  \/ /\ s = debounced /\ query[s].data # NoData
            /\ \E new \in {v, query[s].data} :
                 query' = [query EXCEPT ![s].data = new, ![s].invalid = FALSE]
         \/ UNCHANGED query
  /\ UNCHANGED <<board, selected, debounced, scores, refresh, fails, acts>>

\* handleScoreUpdate and handleStatusChange of the context; a change of status
\* leaves a game it does not have alone.
ContextHears ==
  /\ Heard("context")
  /\ scores' \in {scores, scores \cup {Head(wire["context"])[1]}}
  /\ query' = Invalidated(LiveSports)
  /\ UNCHANGED <<board, selected, debounced, refresh, fails, acts>>

\* The service may refuse the update; the change of a status invalidates the
\* hook's own sport.
ServiceHears ==
  /\ Heard("service")
  /\ \/ query' = Invalidated({Head(wire["service"])[1]})
     \/ query' = Invalidated({debounced})
     \/ UNCHANGED query
  /\ UNCHANGED <<board, selected, debounced, scores, refresh, fails, acts>>

-----------------------------------------------------------------------------
(* refreshScores of the context. *)

AskRefresh ==
  /\ refresh = NoSport /\ refresh' = selected
  /\ acts < MaxActs /\ acts' = acts + 1
  /\ UNCHANGED <<board, selected, debounced, query, wire, scores, fails>>

\* The answer is of the sport that was selected, whatever is selected now.
Refreshed ==
  /\ refresh # NoSport /\ refresh' = NoSport
  /\ scores' = scores \cup {refresh}
  /\ query' = Invalidated(LiveSports)
  /\ UNCHANGED <<board, selected, debounced, wire, fails, acts>>

RefreshFails ==
  /\ refresh # NoSport /\ refresh' = NoSport
  /\ fails < MaxFails /\ fails' = fails + 1
  /\ UNCHANGED <<board, selected, debounced, query, wire, scores, acts>>

-----------------------------------------------------------------------------
LiveNext ==
  \/ \E s \in LiveSports : Goal(s) \/ Answers(s) \/ Arrives(s) \/ FetchFails(s) \/ Select(s)
  \/ \E s \in LiveSports : PrefetchNext(s)
  \/ Poll \/ Refetch \/ InvalidateCache \/ Prefetch \/ DebounceFires
  \/ HookHears \/ ContextHears \/ ServiceHears
  \/ AskRefresh \/ Refreshed \/ RefreshFails

(* Requests are answered, timers fire and messages are handled; the user and *)
(* the games do as they like.                                                *)
LiveFairness ==
  /\ \A s \in LiveSports : WF_live(Answers(s)) /\ WF_live(Arrives(s))
  /\ WF_live(Poll) /\ WF_live(DebounceFires)
  /\ WF_live(HookHears) /\ WF_live(ContextHears) /\ WF_live(ServiceHears)

(***************************************************************************)
(* Once the games and the user rest, the page comes to show the current    *)
(* scores of the selected sport and keeps them: whatever pushes were lost, *)
(* late or overtaken by an answer, whatever fetch was joined, cancelled or *)
(* failed.                                                                 *)
(***************************************************************************)
CatchesUp == <>[](debounced = selected /\ query[selected].data = board[selected])

-----------------------------------------------------------------------------
(***************************************************************************)
(* The feed of live updates: useRealTimeScoreUpdates.ts.  Messages of the  *)
(* socket wait in `pending' until no message has come for a second, then   *)
(* those whose key (game and timestamp) is not among the last keys seen    *)
(* are added to a bounded history.                                         *)
(*                                                                         *)
(* A message is its key and its type; what it invalidates and the sounds   *)
(* and notifications it causes are left out, but for one of them: the      *)
(* notification is shown by a timer that each message sets anew.           *)
(***************************************************************************)
CONSTANTS
  Messages,    \* the messages that may come: records [key, type]
  CacheSize,   \* maxCacheSize (50)
  MaxHistory,  \* maxUpdateHistory (100)
  MaxMessages  \* bound: messages that come

ASSUME FeedAssumption == CacheSize \in Nat \ {0} /\ MaxHistory \in Nat \ {0}

VARIABLES
  pending,     \* pendingUpdatesRef
  due,         \* whether updateThrottleRef runs
  cache,       \* keys of the LRUCache, the first one leaves first
  history,     \* updateHistory
  counts,      \* updateStats: totalUpdates, scoreUpdates, statusChanges
  notice,      \* whether a notification waits in its debouncer
  mounted, arrived
feed == <<pending, due, cache, history, counts, notice, mounted, arrived>>

NoCounts == [total |-> 0, scores |-> 0, changes |-> 0]

FeedInit ==
  /\ pending = <<>> /\ due = FALSE /\ cache = <<>> /\ history = <<>>
  /\ counts = NoCounts /\ notice = FALSE /\ mounted = TRUE /\ arrived = 0

FeedTypeOK ==
  /\ \A m \in ToSet(pending) \cup ToSet(history) : m \in Messages
  /\ Len(cache) <= CacheSize /\ Len(history) <= MaxHistory
  /\ arrived \in 0..MaxMessages
  /\ counts \in [{"total", "scores", "changes"} -> 0..MaxMessages]

\* Bug: a full cache forgets the key it has just seen instead of the oldest.
RememberedBug(keys, k) ==
  IF Len(keys) < CacheSize THEN Append(keys, k) ELSE Append(Front(keys), k)

\* LRUCache.set of a key that is not there (`has' does not move a key).
Remembered(keys, k) ==
  IF Len(keys) < CacheSize THEN Append(keys, k) ELSE Append(Tail(keys), k)

(* The filter of processPendingUpdates: what is new, and the keys after it. *)
Added(got, m) ==
  IF Contains(got.keys, m.key) THEN got
  ELSE [new |-> Append(got.new, m), keys |-> Remembered(got.keys, m.key)]
Filtered ==
  LET after[n \in 0..Len(pending)] ==
        IF n = 0 THEN [new |-> <<>>, keys |-> cache]
                 ELSE Added(after[n - 1], pending[n])
  IN  after[Len(pending)]

LastOf(s, n) == IF Len(s) <= n THEN s ELSE SubSeq(s, Len(s) - n + 1, Len(s))
CountOf(s, type) == Len(SelectSeq(s, LAMBDA m : m.type = type))

\* onScoreUpdate and onStatusChange of the socket, and addUpdate: the timer is
\* set anew by every message; some messages notify the user.
Receive(m) ==
  /\ mounted /\ arrived < MaxMessages /\ arrived' = arrived + 1
  /\ pending' = Append(pending, m)
  /\ due' = TRUE
  /\ notice' \in {notice, TRUE}
  /\ UNCHANGED <<cache, history, counts, mounted>>

\* processPendingUpdates, a second after the last message.
ProcessPending ==
  /\ due /\ due' = FALSE
  /\ pending' = <<>>
  /\ cache' = Filtered.keys
  /\ history' = LastOf(history \o Filtered.new, MaxHistory)
  /\ counts' = [total |-> counts.total + Len(Filtered.new),
                scores |-> counts.scores + CountOf(Filtered.new, "score"),
                changes |-> counts.changes + CountOf(Filtered.new, "status")]
  /\ UNCHANGED <<notice, mounted, arrived>>

\* The debounced notification; it is not cancelled when the page is left.
Notify == notice /\ notice' = FALSE
          /\ UNCHANGED <<pending, due, cache, history, counts, mounted, arrived>>

\* clearUpdateHistory leaves the pending messages and their timer.
ClearUpdateHistory ==
  /\ mounted
  /\ history' = <<>> /\ counts' = NoCounts /\ cache' = <<>>
  /\ UNCHANGED <<pending, due, notice, mounted, arrived>>

Unmount ==
  /\ mounted /\ mounted' = FALSE
  /\ due' = FALSE /\ cache' = <<>>
  /\ UNCHANGED <<pending, history, counts, notice, arrived>>

FeedNext ==
  \/ \E m \in Messages : Receive(m)
  \/ ProcessPending \/ Notify \/ ClearUpdateHistory \/ Unmount

FeedSpec == FeedInit /\ [][FeedNext]_feed

(***************************************************************************)
(* A message that is delivered twice, by two subscriptions or after a      *)
(* reconnection, appears once among any CacheSize + 1 consecutive updates  *)
(* of the history, whether the copies come in one batch or in two.         *)
(***************************************************************************)
RepeatsSpaced ==
  \A i, j \in DOMAIN history :
    i < j /\ history[i].key = history[j].key => j - i > CacheSize
=============================================================================
