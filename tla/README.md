# Formal models of CL Media Page

This directory holds TLA+ models of the program's core logic, the TLC
configurations that check them on small instances, and proofs, checked by
TLAPS, of their main safety properties for every instance. Every definition is
translated from the source; `PROJECT.json` maps each one to the lines it models.
Paths below are relative to the repository.

    tlc -workers 2 -config WsServer.cfg MCWsServer     # check a model
    tlapm WebSocketHookProofs.tla                      # check proofs

Contents: [1 The system](#1-the-system), [2 Modules](#2-modules),
[3 Runs](#3-runs), [4 Proofs](#4-proofs),
[5 Where the code and its words differ](#5-where-the-code-and-its-words-differ),
[6 Not modelled](#6-not-modelled), [7 Plan](#7-plan).

## 1. The system

CL Media Page is a sports fan site: an Express/Node server that scrapes scores
of four leagues, stores them, and pushes changes to React clients over
WebSockets.

| Component | Source | State it keeps | Modules |
|---|---|---|---|
| Database circuit breaker, query retry, pool | `server/utils/dbConnection.ts`, `databaseErrorHandling.ts` | breaker state, failure count, last failure; the manager's pool | CircuitBreaker, DatabaseCalls |
| Transactions, bulk operations | `server/utils/transactionUtils.ts`, `enhancedPgStorage.ts` | transactions of pooled clients | Transactions, BatchStore |
| Scores ingestion | `server/agents/scoresAgent.ts`, `server/jobs/workers.ts`, `server/routes.ts` | games table, Redis lists per team set and league, a user's scores, `refreshInFlight` | ScoresIngest, TeamScores |
| Job scheduling, maintenance | `server/index.ts`, `server/jobs/*.ts` | repeatable jobs in Redis, workers, health counters | JobSchedule |
| Score sources | `server/agents/adapters/*.ts` | none | SportAdapters, Scraping |
| Ethical scraping | `server/utils/scraping/*.ts` | last request of a domain, robots cache | Scraping |
| Storages and accounts | `server/storage.ts`, `pgStorage.ts`, middleware | all tables | Tables, MemStorage, PgStorage, Storages |
| HTTP API | `server/routes.ts` | requests in flight | Api, ScoresIngest |
| Search, deduplication | `server/utils/bm25`, `server/utils/deduplication` | inverted indexes, index rows, signatures | ArticleIndex |
| Error monitoring | `server/monitoring`, `client/src/utils/errorRecovery.ts`, `useErrorHandler.ts` | errors, alerts; the page's error | ErrorMonitoring, PageFeedback |
| WebSocket server | `server/ws.ts` | per socket: authentication, subscriptions, followed teams; counters; throttler | WsServer |
| WebSocket client service | `client/src/lib/websocket.ts`, `contexts/WebSocketContext.tsx` | connection state, socket, three timers; what the provider rendered | WebSocketClient |
| WebSocket hook | `client/src/hooks/useWebSocket.ts`, `useScoreUpdates.ts` | React state, socket, timers, manual flag; filters, recent updates | WebSocketHook, ScoreFeed |
| Client score updates | `lib/scoreUpdateService.ts`, `scoreComparisonService.ts`, `hooks/useUserTeamScores.ts`, `useRealTimeScoreUpdates.ts` | baselines, throttling queue; queries; history of the feed | ScoreUpdates, GameFeed, LiveScores |
| Smart update triggering | `lib/smartUpdateTriggeringService.ts` and its hook | queue, coalescing map, throttles | SmartUpdates |
| Sport session | `contexts/SportContext.tsx`, `sportChangeDetectionService.ts`, `useSportScoreCache.ts` | selected sport, changes in flight, history, cache | SportSession, SportDetection |
| User interface | `client/src/pages`, `App.tsx`, `AuthContext.tsx`, loading hooks | route, forms, cached profile, loading operations, toasts | AccountPages, LoadingState, PageFeedback |
| Configuration, metrics, schema | `server/config.ts`, `metrics.ts`, `shared/schema.ts` | none | the tables' keys are in PgStorage |

**How they interact.** The scheduler puts jobs for each followed team and each
league into the queue (JobSchedule). Two concurrent workers, and any number of
refresh requests, call `runOnce` on shared adapters, one storage and one Redis
cache (ScoresIngest); an adapter walks through its sources over one rate limiter
and one robots cache (Scraping). `runOnce` hands detected changes to the
WebSocket server by direct call, which sends them to sockets by subscription
(WsServer). In the browser two independent clients of that server exist side by
side: the service behind `WebSocketContext`, and the hook, of which each user
mounts an instance with a socket of its own. Their messages invalidate React
Query caches (LiveScores), which are filled by the HTTP API over the storages
(Api). Production storage is `PgStorage` over the pool of `server/db.ts`; the
connection manager with its breaker serves the queries of
`databaseErrorHandling.ts` and the transactions.

**What is hard.** Node runs one handler at a time, but every `await` is a point
where any other handler may run: two runs of the same game, a handshake and the
socket's own close, a `connect` that waits for its token and a `disconnect`.
Socket events of a connection that was replaced arrive late. React effects run
after the handlers that caused them, with functions of an older render. Timers
race with answers and outlive what set them. Redis, the sources and the database
each fail part-way. Tests run on `MemStorage`, production on PostgreSQL.

**What makes each component correct.** Breaker: trips at the threshold, stays
shut until the cool-down; clients of pools come back. Transactions: batches
whole or not at all. Ingestion: nothing of another team leaks, caches agree with
the table, announcements agree with what is stored, a guard is given back.
Jobs: whatever starts, stops and reconciliations there are, followed teams are
polled. Scraping: robots.txt is obeyed, requests to one domain keep their
distance, sources are tried in order. Storages: they answer alike. API:
acknowledged edits stay, favorites decide what is shown. Server: only
authenticated open sockets get anything, subscriptions follow what the client
asked for. Clients: no state waits for nothing, no retry after a disconnect,
lost connections are retried, connections have asked for what is shown. Score
updates: every significant change reaches the page. Sport session: the last
choice wins. Search: the index says what its texts say. Monitoring: each bad
period raises one alert. Pages: loading ends, nothing vanishes by itself.

## 2. Modules

A component has a module with its state, actions, specification and properties;
`MC...` modules name TLC's instances; theorems are in `...Proofs` modules.
Small components share an `MC` module: a variable `mode` is chosen
initially and says which of them moves, while the others stay as they
began. Operators named `Bug...` or `...Bug` are plausible wrong versions of the
definition after them; no specification uses them. They document what a
property would catch. History variables are named in the comments; no guard
reads them.

### CircuitBreaker, DatabaseCalls (MCOutsideCalls)
`state`, `failureCount`, `lastFailureTime` are the fields of
`DatabaseCircuitBreaker`. `pc` and `attempt` say where each call of
`executeWithRetry` is. `Admit` and `Reject` are the test at the head of `execute`;
`Succeed`, `Backoff`, `Retry`, `Fail` are the loop's continuations. Backoff
durations only order events, so a sleeping call wakes at any time.
DatabaseCalls puts a query inside the admitted call, taken from the manager's
pool, with `initialize`, its connection test and `close` running meanwhile.
None of them guards against another: a concurrent `initialize` leaks a pool, one
that fails its test leaves its pool behind, and a `close` in the middle may end
with `isInitialized` and no pool. `NoClientLost` says what holds nevertheless.

### Transactions, BatchStore (MCServerUtils, mode "bulk")
The database is explicit as far as a call can tell: each connection of the pool
has a transaction that is open or aborted, and what was written in it. `BEGIN`,
each item, `COMMIT` and `ROLLBACK` may fail, a server may crash, a serialization
failure is retried. A `ROLLBACK` fails with its connection (`RollbackFails`): its error takes the
place of the first one, and the pool replaces its client. `BatchStore` is what a caller of `executeBatch` may rely on.
The transactional storage of `EnhancedPgStorage` overrides nothing, so its work
goes through the other pool: that kind of work is modelled, and is not
among what implements `BatchStore`.

### ScoresIngest, TeamScores (MCScoresIngest)
A slot is a worker or a request, and `run[s]` is its call of `runOnce`: cache
lookup, fetch, detection of changes, one persist-and-announce per game, and the
write of the cache are separate actions because the code awaits in between.
`StartJob`, `Fallback`, `LastResort`, `JobEnds` are the queue's processor;
`RefreshStarts`, `RefreshRefused`, `RefreshReturns` are the refresh handler with
its guard and `finally` clause. `storageKind` makes `createGame` overwrite
(`MemStorage`) or reject a duplicate (`PgStorage`); `redis` may be absent. The
source is a `Timeline` each game moves along; entries expire at any time.
TeamScores is `fetchUserTeamScores`: the profile is read twice, `runOnce` is one
step, and the cache entry is keyed by user, sport and mode.

### JobSchedule (MCServerUtils, mode "jobs")
Start of the server with its awaits, repeatable jobs in Redis that outlive it,
health counters, the daily reconciliation with its lists league by league, job
attempts, signals, ports that are taken, crashes, a changed interval. A repeatable
job is an id and an interval. BullMQ is external: modelled by what the code and
its test expect of it.

### Scraping, SportAdapters (MCOutsideCalls)
A caller walks the stops of its league (`NextStop...`); each stop is a fetch with
robots check, limiter, timeout, retries and back-off. What a page says is data
of a small set; SportAdapters says how each adapter reads names, ids, statuses,
periods, clocks and starts from it, as pure functions. The patterns that make a text
scheduled and those that read a period are apart, since the code's differ: "Dec 25th, 8:00 PM"
has no ordinal of a period for the first (`\b(?:1st|2nd|3rd|4th)\b`) and one for the second
(`([\d])(?:st|nd|rd|th)`), so a scheduled game may show a period, and no property denies it.

### Tables, MemStorage, PgStorage, Storages (MCAccounts, mode "tables")
A database is a record of tables. Every operation of `IStorage` is defined twice,
returning the tables it leaves and its answer or error. `Storages` makes the same
calls on both, in one of six areas of the schema (`Areas`), and compares every query and
every answer after each call until PostgreSQL rejects a write. A query that sorts answers the
set of lists it may give, with ties in any order; whatever list PostgreSQL may give, MemStorage
may give too. Where PostgreSQL has no `orderBy` and MemStorage sorts (updates, experiences, the
team of a sport), the rows are compared and the order is not, as section 5 says. A sport is asked
for in lower case, as the callers do. The assumption says what
the tables start as (`Fit`: rows of their columns, games of known teams, nothing twice) and that
there are fewer calls than a query without limit returns rows (`All`). Two games may start at
one time.

### Api, AccountPages (MCAccounts, modes "api", "pages")
A request is a chain of awaits: limiters, token, context, checks, reads, writes.
On PostgreSQL requests interleave at every storage call; on `MemStorage` only
where a token is verified or a password hashed (`Turn`). A storage call may fail
after it was done. AccountPages is the browser over these handlers: sign-up,
sign-in, `ProtectedRoute`, onboarding, settings, reloads, and the profile that
React Query keeps for ever.

### ArticleIndex (MCServerUtils, modes "search", "dedup")
Texts are sequences of symbols; the index is an object, so a rebuild fills the
one it made even when the manager has another by then. Scores are
positive as soon as a term occurs, and `search` cuts its list at a limit. Which of the
documents are cut is left open (`Found` is a set of answers), as floating-point scores decide it. Signatures are as the code computes them.

### ErrorMonitoring (MCServerUtils, mode "monitor")
The history, two windows, two kinds of alerts with their five minutes of silence,
cleanup and health report. A tick is five minutes.

### WsServer (MCWsServer)
A handshake is `Connect`, `Authenticated` or `NotAuthenticated`, `ProfileRead`
or `ProfileMissing`, and one `TeamRead` per favorite team. Listeners are only
attached afterwards, so before that `Closed` and `SocketFails` have
no handlers to run. Messages, each broadcast, the throttler and its cleanup are
actions. `granted`, `renounced`, `passed` are history.

### WebSocketClient (MCLivePage, modes "socket", "context")
The service's fields, plus the browser's view of each socket and the event it
owes. `connect` awaits its URL, so `SocketCreated` is a later action. A timer is
a handle and a number of orphans: `setTimeout` over a live handle leaves a timer
that still fires and that nothing can cancel. A replaced socket keeps its
handlers. A socket the connection timer gave up is not closed, so it may open at any time
later, also before the page renders. A message that does not parse sets `lastError`. The second part is the provider of `WebSocketContext.tsx`, whose
effects go by what was rendered.

### WebSocketHook, ScoreFeed (MCWebSocketHook)
React is modelled explicitly. `Render` takes what changed into a new version of the
callbacks; `RunEffect` is the cleanup `disconnect` followed by the effect's `connect`;
each socket (`by`) and the retry timer (`retry`) keep the version that made them.
`FreshHandlers` says whether renders bring new `eventHandlers` objects, as the
literal in `SportContext.tsx` does. A retry fires only once React has rendered:
its delay is a second or more. ScoreFeed mounts `useScoreUpdates` on top: new filters
are new handlers, so the render that brings them drops the socket, and the
effect that asks for the filters' sports goes by the rendered state.

### ScoreUpdates, GameFeed (MCScoreUpdates)
`baseline` and `gameStates` are the maps of the two services; `updateQueue` is
the queue all games share; `throttleTimers` holds the games with a timer;
`filters` the leagues the mounted hooks filter on. `ProcessScoreUpdate` is
whole: filtered out or insignificant (`UpdateIgnored`), executed at once
(`UpdateExecuted`), or queued or dropped (`UpdateThrottled`). Only the first
difference counts (`Significant`), so points that come with a new clock reading
are a clock update, which is ignored. `TimerFires` compares the queued
update once more and so moves the baseline *back* to it. `GameFeed` is the abstract
specification: per game, the update shown and the newest one waiting.

### LiveScores, LoadingState (MCLivePage)
LiveScores, first part: a query per sport with the semantics of React
Query (joined, cancelled, invalidated fetches), polling, prefetches, retries, the
debounced sport and the three listeners of pushes, any of which may miss one. The
board stands for the server's answer as a version. Second part: the update feed
with its bounded set of seen keys. LoadingState: operations with their timeouts, intervals and
removals, including timers that a second start forgot.

### SportSession, PageFeedback, SportDetection, SmartUpdates (MCAccounts, modes "session", "errors", "notices", "detection", "cache", "smart")
SportSession: `next` is what handlers set, `view` what was rendered and what
closures hold; a change of sport awaits its invalidations, so several are in flight
and a failing one reverts. Timers, answers and socket events may come between a change of the
state and its render. Every render gives `useWebSocket` a new `eventHandlers` object
(`SportContext.tsx:241`), so its `connect` changes and its effect closes the socket and begins the
next one: `Render` leaves no open socket, drops what its clean-ups and effects send, and owes a
close event that may come late (`LateClose`). `FavoriteShown` excuses one corner (`overtaken`): a
debounced choice that comes between the effect's selection and its render starts from the old
sport, and may put back one that is no favorite.
PageFeedback: error handler and recovery strategies, error boundary, toasts with
their limit and removal timers, notices of updates. SportDetection: the singleton
with its debounce, hooks that poll it and clean-ups; and the cache of scores by
sport, whose removals are applied a render later. SmartUpdates: the queue and the
coalescing map with throttles, batches, overflow and the user's activity.

## 3. Runs

| Run | States | Question |
|---|---|---|
| `ingest` | 1.2 M | isolation, cache and announcement agreement, the guard's release; a user's scores are their own |
| `ws_server` | 0.9 M | subscriptions, routing, handshakes that settle |
| `ws_hook` | 1.4 M | lost connections are retried; the filters' sports are asked for |
| `score_updates` | 0.7 M | `GameFeed` is implemented, with its fairness |
| `server_utils` | 3.1 M | bulk operations, index, deduplicator, monitor, jobs |
| `outside_calls` | 1.3 M | scraping; breaker and pool |
| `accounts` | 1.6 M | the two storages, interleaved requests, a browser; of a page, the selected sport, errors, notices, detection, cache, smart updates |
| `live_page` | 0.6 M | connection and provider, scores query, feed, loading |
| `accounts_errors`, `sport_subscriptions`, `minhash`, `jobs_interval` | | a statement of the repository that the code does not keep (section 5) |

What each property says is above its definition; in short:

* `ingest`: `TeamIsolation`, `PgCopiesAgree`, `AnnouncedIsStored`,
  `RefreshGuardReleased`, `OwnGames` (a live answer for a user has games of
  teams that were favorites only).
* `ws_server`: `UnsubscribedStaysOut`, `ReachesOnlyLive`, `HandshakeSettles`.
* `ws_hook`: `LostIsRetried`, `SportsAsked` (what is shown as connected has been asked for
  the filters' sports on *this* connection).
* `score_updates`: `FeedKept` (refinement), `FeedCatchesUp` (no update waits for ever).
* `server_utils`: `StoredByBatch` (refinement), `FindsWhatIsThere` (the index against its
  reference definition), `CopiesFound`, `AlertedOnce`, `Polled`.
* `outside_calls`: `AdmissionAfterCoolDown`, `NoClientLost`, `RobotsHeard`, `Spaced`,
  `Answered`, `ReadsTheBoard`.
* `accounts`: `SameAnswers`, `EditsKept`, `Withdrawn`, `FavoritesOnly`, `HomeIsOnboarded`; of the
  page's parts `FavoriteShown`, `LastChoiceKept`, `RetryingIsReal`, `NothingVanishes`,
  `ForcedStands`, `ActiveKept`, `OnePerKey`.
* `live_page`: `TransientStatesMove` (no connecting or retrying without something under way),
  `Settles`, `CatchesUp`, `RepeatsSpaced`, `LoadingEnds`.

**Bounds, and why they are enough.** Races are between two parties that meet on
one thing, so two slots on one game, two sockets of one user, or a current socket
and dropped ones show every order.

* `ingest`: 1 worker, 1 request, 2 teams, 1 game in 2 states. Team `b` does not play and
  `a` plays a team nobody follows: job, league run and refresh all see the game
  differently, and leaks would show. Users: 2 fetchers, 2 users, 4 lists of favorites
  (an id of the league, one of another league with its code, a name that is no id),
  1 edit, 1 failed read. A second league is covered by the proofs.
* `ws_server`: 2 sockets of a user, 1 team, 1 game, clock to 3 with an interval of 2, 1 profile edit.
* `ws_hook`: 3 sockets (a new one and late events of two that were dropped), 1
  user, 2 attempts; under the feed 2 sockets, 1 retry, 2 acts of the page, 1
  message, lists of 1.
* `score_updates`: 2 games of leagues with different rules, queue of 2, 4 updates of 5
  kinds: one shown, two queued and one refused.
* `server_utils`: 3 bulk calls over 2 clients, 2 batches, 1 crash; 2 callers, teams and
  articles, 3 jobs (2 in memory, whose calls cannot fail), 2 posts, 1 failure; 5 errors in 7 ticks against limits of 2 and 1;
  2 leagues with a team each, 2 intervals, 2 starts, 1 edit, 1 fault, 1 due job of 2
  attempts. Symmetric in callers and intervals, whose modes have no liveness.
* `outside_calls`: 2 callers, a delay of 1 tick (2 s), 2 attempts; 3 calls
  against a threshold of 2 and a cool-down of 1, clock to 2: two to trip the
  breaker and one to probe or answer late; pools of 1 client, 2 pools, 2 starters.
* `accounts`: 3 writes per area of the schema, which starts with a row or its teams; 3 requests of 29 kinds, of which
  those that neither read nor write a profile or an RSVP meet one other only (`Beside`), 2 in the browser; 1
  failing call or refused request; two games that start together. Of a page, 3 sports, 2 profiles
  that share one, 2 clicks, 2 edits (one loads the profile), 1 opening of the socket, 1 failure; 2 errors in 2 slots with 1
  retry between clearings (the code's 3 differ in nothing: a clearing resets the count, so retries
  overlap all the same), toast limit 1, notice limit 2; 3 detection requests, history of 1; cache
  of 1; 4 smart requests, queue of 2, overflow and batch of 1.
* `live_page`: 2 sockets, 2 waiting connects, 2 retries, 1 orphan per timer; under the
  provider 1 waiting connect, no orphans of the connection and retry timers, 3 acts; 2 sports,
  2 changes of score, 1 failure, 1 retry, 1 act of the user; 5 messages with 2
  keys remembered and a history of 4; 2 operations, 5 calls.

**Deadlock** is checked for `ingest`, `ws_server`, `ws_hook` and `score_updates`.
In the others some mode really ends: all calls have returned, all requests are
answered, a page was left, or a bound of the environment is used up.

**Fairness** is weak and only of what the platform owes: a promise settles, a
timer fires, a socket that is failing or closing delivers its events, React
renders a change and runs a due effect, React Query polls. No model assumes that
a user acts, a connection succeeds, a job starts, a push arrives, or that a
render brings new handlers. With that `RefreshGuardReleased`, `HandshakeSettles`,
`LostIsRetried`, `FeedCatchesUp`, `Settles`, `CatchesUp` and `LoadingEnds` hold. A
promise that never settles, such as a query without a timeout, is outside
the models.

## 4. Proofs

The proof modules show, for all values of the constants that satisfy the named
`ASSUME`s:

* **OutsideCallsProofs**: of the breaker, types, `ClosedIffBelowThreshold`, a half-open breaker
  is cooled down, no admission of a tripped breaker before the cool-down,
  no call counts as more than one failure. The invariant joins the first
  three with "a sleeping call has an attempt left": a half-open breaker
  meets a failure with its count at the threshold, so it opens as the cool-down
  restarts. The bound on failures needs the finite
  set of calls and a cardinality argument: each failure adds a new failed call.
  Of DatabaseCalls, that a step of it is a step of the breaker or leaves it alone
  (`DatabaseIsGuarded`), so the same admission rule holds for the pool; and
  `NoClientLost`, with `WorkGoesOn`: a call has work at the pool exactly while it runs.
  Of Scraping, `RobotsHeard` and `Spaced` from `CacheHeard` (a cached verdict is what
  robots.txt said), `CallsHeard`, `LimiterSees` and `WaitsEnough` (the limiter's
  time of a host is that of its last request, and a sleeping call wakes late enough, as
  its back-off is a doubled delay, `DoublingsGrow`);
  `Answered` and `ReadsTheBoard` (games of one id have the same teams, and a scheduled game of the
  NBA or NHL shows no clock) from `AllSound`, which says of every reader what
  it has collected so far. The assumptions are that a page is a record of
  finite sequences, and that one event id of ESPN names one pair of teams.
* **ScoresIngestProofs**: types and `TeamIsolation`. Isolation is not inductive:
  a run's result is only isolated because everything it holds on the way is.
  `GoodRun` says that of the items, the sets still to be detected or saved and the
  output of each run, `GoodCache` of each entry, and `Select` is shown to return only
  the teams' games: for any number of workers, requests, leagues and
  games, and both fallbacks of the worker. On top of that invariant:
  `NoEmptyEntry`, `PgCopiesAgree`, `AnnouncedIsStored`. Only a saved game enters
  an answer, only a non-empty answer enters the cache, only `Persist` writes the table and
  broadcasts; on PostgreSQL it writes a game that was not there, so it cannot
  contradict a copy. `OwnGames` of TeamScores is proved the same way, from what each
  fetch, cache entry and profile holds.
* **ServerUtilsProofs**: types, `IdleIsClean`, and the refinement `StoredByBatch`. A
  client in the pool has no transaction and nothing pending, although a `ROLLBACK`
  may fail: it fails with its connection only, which takes its transaction along; so a call's transaction holds its own items only, and what is
  committed is its next batch. Of the jobs, `Polled`, from `StartInv` (what a start has
  read and scheduled so far) and `PassInv` (what a pass has kept).
  Of the search index, `FindsWhatIsThere`: an index has for a term exactly the documents with it,
  with their counts (`IndexOK`), which every addition, removal and rebuild keeps, by induction over the
  articles loaded; and an index being filled is a whole index, though another one may serve. A
  search then answers matching documents only, and all of them up to its limit.
  Of the deduplicator, `CopiesFound`: a signature depends on the text alone, so a copy has the same.
  Of the error monitor, `AlertedOnce`: the histories are in the order of time (`MonitorInv`),
  a cleanup keeps what a window can still see, and counting a window is a cardinality, which
  one new error raises by one.
* **WsServerProofs**: types, `SubsGranted`, `UnsubscribedStaysOut`, `ReachesOnlyLive`,
  `ConnectionsCovered`, `ThrottleSpacing`, for any number of sockets, users, teams and
  games. Subscriptions need the order of the handshake (`HandshakeOrder`): nobody
  can unsubscribe before the favorites are in, as the message listener comes
  last. The counters need a cardinality
  argument. Throttling assumes `SameId`, that callers give a game the same
  id each time: the throttler then remembers every update passed within the
  interval (`Remembered`), although cleanup forgets old ones.
* **BrowserProofs**: of the two storages, `SameAnswers`, for any teams, games, start times, starting
  tables and as many calls as `All` allows. The tables are equal but for sessions that have expired,
  which only PostgreSQL may keep (`Alike`), and stay fit (`StoragesInv`). That a write keeps this
  needs that MemStorage's first match is the only one (`Once`) and that PostgreSQL deletes no experience that
  has RSVPs. A query then reads equal tables, except that PostgreSQL merges the newest games at home
  and away. Greatest rows exist in a finite table with ties (`GreatestExist`), a cut list has all
  that is above it (`CutHas`), and the top of two tops is the top of the whole (`TopOfTops`), so
  the merged list is one that a sort of all games may give.
  The theorem holds from the start on, where the run compares after the first call.
  Of the handlers and the account pages, `EditsKept`, `Withdrawn`, `FavoritesOnly`
  and `HomeIsOnboarded`, for any number of requests, asks, tables and storages. Every step of a
  handler is shown to be a move of a few kinds (`Moves`: one profile is laid over, an RSVP is
  added or some are gone, a game is put in); that the calls in flight still fit the tables
  (`CallFits`) is shown of moves, once. A request knows of every edit that met it (`Meets`), which is
  why an unmet one stands. `Withdrawn` needs that MemStorage holds one RSVP of a user at most:
  between its check and its insert nothing else runs (`Turn`). `FavoritesOnly` needs that
  favorites at the start of a request are among those noted since, that each cut of the
  teams keeps to them, and what a sorted and cut list of rows holds (`OrderExists`, `GreatestAreFound`).
  `HomeIsOnboarded`: the cache and every answer under way are behind the table (`Behind`,
  `PageKnows`), nobody sends `done` as false (`Forward`), and a slot of the page awaits an answer about
  whoever is signed in (`PageWaits`). Assumed are a finite table of games with their times, finite
  favorites, pages counted from 1, and no RSVP twice at the start.
  Of WebSocketClient, types, `TransientStatesMove`, `ConnectedBeats`,
  `ManualStopsRetries`, for any number of sockets, retries and orphans. The
  four are inductive together. The provider's steps are shown to be steps of the
  service (`ProviderUses`), which carries these facts over.
* **WebSocketHookProofs**: types, `NoLeakedSocket`, `StateBacked`, `ManualIsQuiet`,
  for any number of sockets and users, with or without fresh handlers. An
  opening socket is the current one because no other is live; it is opened while
  not manual because a manual hook has no current socket. The type of `attempts`
  needs `AttemptsReset`: a counted attempt causes a render, and its effect sets
  the counter back. That fact is a theorem of its own, `LimitOutOfReach`: the counter never
  passes one, so `maxReconnectAttempts` (5) is never reached. ScoreFeed's steps
  are shown to be steps of the hook (`FeedUsesHook`), and `SportsAsked` is proved on
  top of the hook's invariant: what is asked for belongs to the socket, so a sport is
  lost with the connection only, and the render that shows the next one asks again.
* **ScoreUpdatesProofs**: types, `QueuedHasTimer`, `StatusKeepsUp`, and the
  refinement `FeedKept`, for any games, rules and limit. `QueueOrdered`
  (arrivals tell updates apart, and none is from the future) and `NewestExists` (a
  game with queued updates has a newest one) are kept inductively, which
  avoids an induction over the size of the queue. An executed update is
  `Show`, as no timer means nothing queued; a queued one is `Wait`; an ignored or
  refused one is `Ignore`; a timer is `CatchUp` or a stutter. Of the feed of
  LiveScores, `RepeatsSpaced`: the keys in the cache are those of the last updates of the history, in their
  order, and a history that has more has filled the cache (`Follows`). The filter of a batch keeps
  that, by induction over the batch, and cutting the oldest off does too. A page that was left has
  no cache, and no timer that would look into it (`FeedInv`).
* **SportSessionProofs**: types, `FavoriteShown`, `LastChoiceKept`, for
  any sports, favorites and numbers of clicks, edits, connections and failures. While nothing
  has failed, what is rendered lags behind what is set in known ways: a last choice is
  in the closure of an up-to-date page or already taken (`ChoiceInv`), and a sport that
  is no favorite waits for a render whose effect replaces it (`FavoriteInv`).
  Of the pages' feedback,
  `RetryingIsReal`; of the sport's detection, `ForcedStands`, as a history of changes stays
  linked when its oldest are dropped (`KeptIsLinked`). Of the smart updates, `OnePerKey`: ids are
  fresh, so a request is at one place of the queue, and what a key maps to is what waits under it
  (`SmartInv`); removing requests keeps the others in their order, each once (`Picked`).
  Two action properties: `NothingVanishes`, as a removal timer runs for closed toasts only
  (`ToastsInv`) and a notice has an id of its own, of what the effects have seen (`NoticesInv`), so
  filtering by id takes one away (`WithoutIdIs`); and `ActiveKept`, as the selected
  sport was active after all others, so that no eviction that waits for a render has it
  (`CacheInv`), and set states take out only what they remove (`AfterUpdatesKeeps`).

Several of these facts (types, `IdleIsClean`, `QueuedHasTimer`, `SubsGranted`,
`ConnectionsCovered`, `ThrottleSpacing`, `StatusKeepsUp`, `NoLeakedSocket`, `StateBacked`,
`ManualIsQuiet`, `ConnectedBeats` and others) are proved and need no run
of their own. The proofs are about the modules' own specifications, without modes.

**Only model-checked**: the violations and liveness (`RefreshGuardReleased`,
`HandshakeSettles`, `LostIsRetried`, `FeedCatchesUp`, `Settles`, `CatchesUp`,
`LoadingEnds`). Liveness and `ENABLED` are out of the prover's reach. Every safety invariant and
action property of the passing runs is a theorem. General induction over data is out of reach too, as the
library's induction theorems take an operator as a parameter; where a single function is
enough, induction over a set of numbers is proved (`Induction`) and used (`DoublingsGrow`, `OrderExists`,
`AddsExists`, `FiltersExist`).

## 5. Where the code and its words differ

Four statements of the repository are refuted by a run:

| Run | The statement | What happens |
|---|---|---|
| `accounts_errors` | `client/src/App.tsx:65`, "other errors are considered recoverable later" | Line 66 tests `!profile` first, which every failed load satisfies: a 500 answer sends an onboarded user to `/onboarding`, whose finish overwrites the favorites. |
| `sport_subscriptions` | `client/src/contexts/SportContext.tsx:528`, "Auto-subscribe to current sport when it changes" | Line 241 gives `useWebSocket` new handlers in every render, so `useWebSocket.ts:482-491` replaces the socket in every render, before the subscribing effect runs: what it sends finds no open socket. |
| `minhash` | `server/utils/deduplication/minHash.ts:68`, "approximates this by counting matching hash values" | The functions of line 162 differ by their seed only, which adds one number to every shingle of a length: all have their minimum at the same shingle, and texts that share it are duplicates. |
| `jobs_interval` | `server/jobs/workers.ts:377`, "Removes obsolete repeatables when teams or intervals change" | Ids alone are compared (line 400), and both intervals of a team share one id: the old repeatable stays. |

The models also follow the code where it does something a reader may not expect.

**Ingestion and sources.** A refused refresh clears the guard of the one in progress, so
"prevent overlapping refreshes" (`routes.ts:105`) holds for two requests only. Two runs that
race on one game in MemStorage may leave a change unannounced. A featured run writes its
games without points (`scoresAgent.ts:188`); the last resort drops sport and mode
(`workers.ts:174`). The schedule mode filters by the code only; the featured mode with no
valid id answers, and caches, the league's games; cached answers ignore limit, dates
and later favorites. MLB filters by abbreviations and the page's ids are names.
`fetchBoxScore` is a chain for NHL, throws for NFL and MLB, gives zeros for NBA, and has no
caller. The rate limiter sees no retries, and two waiters leave together, in spite
of `rateLimiter.ts:4`.

**WebSocket server.** `ws.ts:461` looks followers up in `userTeams`, which nothing fills, so
team updates and status changes for users reach nobody; `user_scores:update` carries no
teamIds and goes to everybody. `unsubscribe-user-teams` reads the favorites of
now. Callers without an id share one throttle key (`ws.ts:950`).

**WebSocket client.** The hook retries after a manual close (`useWebSocket.ts:330`). A
connect that awaits its token opens after `disconnect`, or after the page was left
(`websocket.ts:197`). `heartbeatResponseReceived` is not set for a new connection.
`url: undefined` overrides the default address, and the service emits `message` only, so
listeners for other names hear nothing. A socket the connection timer gave up is left open
(`websocket.ts:384`), and `disconnect` closes the current one only (`:203`): the other may open after
the user signed out and deliver messages, against "Disconnect when user logs out"
(`WebSocketContext.tsx:200`). `send` throws while a newer socket is
connecting. Removing a sport from the feed's filters does not unsubscribe it, a
manual unsubscribe is undone by the next render, and a late close after a change of
filters re-arms a retry with the old filters' handlers.

**Pages.** A deferred smart update that is merged gets its old condition back and is
stranded; cancelled and overflowed requests poison their key; the throttle timer's
reset strands the request of another game. The hook's `bySport` invalidation
matches no query; the previous sport's games are shown after a switch until the
answer; the feed's "throttle" is a debounce that a steady stream starves; a score
and a status of one game and time collide; a batch announces its last update only.
`useUserTeamScores` retries 404 and 429 although it says "Don't retry on … client errors".
A second start orphans the first's timers; `setError` leaves the timeout;
`stopLoading()` without an id stops the first operation, not the most recent. The
generic strategy handles every error, so `autoRetry` is never reached; a "Recovered" toast
displaces the "Error" that stays; the end of a retry clears a newer error.
Detecting the current sport again does not cancel a pending change; `isChanging`
stays true after `changeSport(current)`; forcing the current sport runs its clean-ups.
A callback of a second or remounted hook is ignored by the singleton.
Out-of-order saves of the profile leave a stale cache.

**Storages.** They differ on duplicates (`createGame` and `createUserProfile` overwrite
in memory, 23505 in Postgres), on deletes (first match or all; cascades or a
foreign-key error), on `getGamesByTeamIds([])` (all games or none), on the order
of updates and of experiences (`storage.ts:522`, `:528-532` sort by start; `pgStorage.ts:507`,
`:513-516` do not), on the team of a sport (order, the case it is echoed in, and a capitalised
sport, which only MemStorage knows; `storage.ts:673-674`, `pgStorage.ts:665`), and on `deleteOldGames` (a no-op on Postgres, not
called). `rsvps.user_id` references `users.id` while the route requires the Firebase
uid, so an RSVP is 422 on Postgres. Concurrent registrations duplicate in memory, RSVPs on Postgres.

**HTTP.** The limiters are mounted before authentication, so the "Per-user limiter" of
the user's scores counts addresses. `/api/schedule` applies its limit to the
latest games of the window. `GET /api/summary/:teamId` is a 500 when there is no summary.
`GET /api/experiences` and `/api/updates` accept any team.

**Database.** Deadlocks are classified retryable, but `executeWithRetry` looks for
connection messages only, and 40001 is looked for in the text. A transactional storage
overrides nothing: its queries run outside the transaction. A failed
`initialize` leaves its pool, and concurrent ones leak one; data errors
count against the breaker; a query whose connection dropped after it was applied
runs again; a `ROLLBACK` that fails replaces the error; `SET statement_timeout`
outlives the transaction.

**Jobs, index, monitor.** A league that cannot be listed loses its repeatables; teams
created later are not polled until a restart; signals stop the workers, not the HTTP
server. A failed rebuild empties the index; concurrent add and rebuild write stale
metadata; a crash leaves the rebuild flag; `bm25_indexes.team_id` is not unique. Texts
without shingles have all-zero signatures and are all duplicates; an error when
recent articles are read counts as "new". Ten newer alerts displace a critical one within its hour.

## 6. Not modelled

* **Configuration, metrics, schema**: constants, Prometheus counters and table definitions
  have no behaviour; the keys of the tables are part of PgStorage.
* **LoadingTransition.tsx**, which no page uses.
* **Rendering**: markup, styles, the components under `components/ui`, `data/sportsTeams.ts`.
  `LoadingStateWrapper` and `useSportChangeNotification` have state but decide nothing that
  another part reads.
* **Text**: HTML and points parsing beyond what the filters and fallbacks read, wording, logs.
  Parsing is where the sources' bugs would be; fixtures, not states, test it.
* **BM25 scores**: floating-point numbers and the order they give. Membership is modelled.
* **Database internals**: isolation levels, savepoints, session settings.
* **Without callers**: `broadcastUserTeamUpdateWithRetry`, `WebSocketService.destroy`, `fetchMany`,
  `reset` and `clearCache` of the fetcher, `DummyScoreSource`, `fetchRecentGames`, the clear and
  configuration calls of the score update service.
* **HTTP**: validation of bodies, session counters, logout.
* **Two server instances**, which would share Redis and could remove each other's jobs, and the
  hook's development user and changing `autoConnect`.

## 7. Plan

In the order of what it would add:

1. An end-to-end composition, from a worker's run through the server's broadcast to the
   client's feed, with the components' abstract specifications in place of
   their details.
2. Two server instances over one Redis and one database.
3. Larger instances of `accounts` and `server_utils`, which are near what can be
   checked in minutes.
