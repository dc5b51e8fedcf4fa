---------------------------- MODULE SportDetection ----------------------------
(***************************************************************************)
(* Sports a page has been at: the detection service, one object that       *)
(* outlives the components that use it, with the hook that feeds it from   *)
(* the route, components that register clean-ups and those that poll it    *)
(* (client/src/lib/sportChangeDetectionService.ts,                         *)
(* client/src/hooks/useSportChangeDetection.ts); and the cache of scores   *)
(* by sport (client/src/hooks/useSportScoreCache.ts).                      *)
(*                                                                         *)
(* The provider of sports keeps its cache without a user, and then it      *)
(* holds nothing; the cache is modelled for one user.  Set states wait for *)
(* a render: it applies them in order and runs the effects, which may set  *)
(* more.                                                                   *)
(***************************************************************************)
EXTENDS Naturals, FiniteSets, Sequences, SequencesExt

CONSTANTS DetectedSports,
          Absent,       \* no sport, null
          Segments,     \* sportMappings: the sports by segment of a path
          Paths,        \* the paths a page may go to, sequences of segments
          CleanupIds,   \* cleanup functions of components
          MaxHistory,   \* maxHistoryEntries
          MaxCached,    \* maxCacheSize
          MaxRequests,  \* bound on changes asked of the service
          MaxRefreshes, \* bound on refreshes of the cache
          MaxActs       \* bound on activations and clearings

ASSUME DetectionAssumption ==
  /\ MaxHistory \in Nat /\ MaxCached \in Nat \ {0}
  /\ IsFiniteSet(DetectedSports) /\ Absent \notin DetectedSports

VARIABLES
  service,   \* current and previous sport, the timer, the history and the tasks
  hook,      \* what the mounted hook shows, and whether the service tells it
  polled,    \* what useCurrentSport shows
  path,      \* where the page is
  requested,     \* the last request to the service, and their number
  sportCache,     \* entries by sport, of those the provider shows
  updates,   \* set states of the cache that wait for a render
  activeSport, lastActive, \* the selected sport; when each was, as an order
  queries,   \* sports whose query has data in the query client
  refreshes, \* refreshes in flight, by sport
  acts       \* activations, clearings and refreshes begun

detectionVars == <<service, hook, polled, path, requested>>
cacheVars == <<sportCache, updates, activeSport, lastActive, queries, refreshes, acts>>

NoRequest == [how |-> "none", sport |-> Absent, count |-> 0]
NoHook == [mounted |-> FALSE, heard |-> FALSE, current |-> Absent, previous |-> Absent,
           changing |-> FALSE, history |-> <<>>]

DetectionInit ==
  /\ service = [made |-> FALSE, current |-> Absent, previous |-> Absent, timer |-> Absent,
                history |-> <<>>, tasks |-> [s \in DetectedSports |-> <<>>]]
  /\ hook = NoHook
  /\ polled = Absent
  /\ path = <<>>
  /\ requested = NoRequest

(***************************************************************************)
(* The service                                                             *)
(***************************************************************************)
\* detectSportFromPath: the first segment that is the name of a sport.
SportOfPath(p) ==
  LET found == SelectSeq(p, LAMBDA segment : segment \in DOMAIN Segments)
  IN IF found = <<>> THEN Absent ELSE Segments[Head(found)]

Kept(history) ==
  IF Len(history) > MaxHistory THEN SubSeq(history, Len(history) - MaxHistory + 1, Len(history))
  ELSE history

\* executeSportChange: the tasks of the sport it leaves stay registered, and
\* forcing the sport that is current runs them too.
Changed(v, sport) ==
  [v EXCEPT !.previous = v.current, !.current = sport,
            !.history = Kept(Append(@, [from |-> v.current, to |-> sport,
                                        cleaned |-> IF v.current = Absent THEN <<>>
                                                    ELSE v.tasks[v.current]]))]

\* onSportChange reaches the component whose mount made the service.
Heard(sport, previous) ==
  IF hook.mounted /\ hook.heard
  THEN [hook EXCEPT !.current = sport, !.previous = previous, !.changing = FALSE]
  ELSE hook

\* detectSportChange: the sport it has leaves a pending change alone.
Detected(v, sport) ==
  IF v.current = sport THEN v ELSE [v EXCEPT !.timer = sport]

TimerEnds ==
  /\ service.timer # Absent
  /\ service' = [Changed(service, service.timer) EXCEPT !.timer = Absent]
  /\ hook' = Heard(service.timer, service.current)
  /\ UNCHANGED <<polled, path, requested>>

AsksFor(how, sport) ==
  /\ requested.count < MaxRequests
  /\ requested' = [how |-> how, sport |-> sport, count |-> requested.count + 1]

(***************************************************************************)
(* The hook and the components.  The location it reads has no query, so    *)
(* that only paths are detected.                                           *)
(***************************************************************************)
RouteDetected(v, p) ==
  IF SportOfPath(p) # Absent THEN Detected(v, SportOfPath(p)) ELSE v

MountHook ==
  /\ ~hook.mounted
  /\ hook' = [NoHook EXCEPT !.mounted = TRUE, !.heard = ~service.made, !.current = service.current]
  /\ service' = RouteDetected([service EXCEPT !.made = TRUE], path)
  /\ IF SportOfPath(path) = Absent THEN UNCHANGED requested ELSE AsksFor("detect", SportOfPath(path))
  /\ UNCHANGED <<polled, path>>

\* Nothing is cancelled: the timer the clean-up clears is one nobody sets.
UnmountHook ==
  /\ hook.mounted
  /\ hook' = [NoHook EXCEPT !.heard = FALSE]
  /\ UNCHANGED <<service, polled, path, requested>>

Navigate(p) ==
  /\ hook.mounted /\ p # path
  /\ path' = p
  /\ service' = RouteDetected(service, p)
  /\ IF SportOfPath(p) = Absent THEN UNCHANGED requested ELSE AsksFor("detect", SportOfPath(p))
  /\ UNCHANGED <<hook, polled>>

ChangeSport(sport) ==
  /\ hook.mounted
  /\ AsksFor("detect", sport)
  /\ hook' = [hook EXCEPT !.changing = TRUE]
  /\ service' = Detected(service, sport)
  /\ UNCHANGED <<polled, path>>

\* Bug: the pending change is not cancelled.
BugForceChangeSport(sport) ==
  /\ hook.mounted
  /\ AsksFor("force", sport)
  /\ service' = Changed(service, sport)
  /\ hook' = Heard(sport, service.current)
  /\ UNCHANGED <<polled, path>>

ForceChangeSport(sport) ==
  /\ hook.mounted
  /\ AsksFor("force", sport)
  /\ service' = [Changed(service, sport) EXCEPT !.timer = Absent]
  /\ hook' = Heard(sport, service.current)
  /\ UNCHANGED <<polled, path>>

\* useSportCleanup, as a component comes and goes.
RegisterCleanup(id, sport) ==
  /\ service.made
  /\ \A s \in DetectedSports : ~Contains(service.tasks[s], id)
  /\ service' = [service EXCEPT !.tasks[sport] = Append(@, id)]
  /\ UNCHANGED <<hook, polled, path, requested>>

UnregisterCleanup(id, sport) ==
  /\ Contains(service.tasks[sport], id)
  /\ service' = [service EXCEPT !.tasks[sport] = SelectSeq(@, LAMBDA t : t # id)]
  /\ UNCHANGED <<hook, polled, path, requested>>

\* The history of the hook and useCurrentSport follow the service by polling.
PollHistory ==
  /\ hook.mounted
  /\ hook' = [hook EXCEPT !.history = service.history]
  /\ UNCHANGED <<service, polled, path, requested>>

PollSport ==
  /\ polled' = service.current
  /\ UNCHANGED <<service, hook, path, requested>>

DetectionNext ==
  \/ TimerEnds \/ MountHook \/ UnmountHook \/ PollHistory \/ PollSport
  \/ \E p \in Paths : Navigate(p)
  \/ \E s \in DetectedSports : ChangeSport(s) \/ ForceChangeSport(s)
  \/ \E id \in CleanupIds, s \in DetectedSports : RegisterCleanup(id, s) \/ UnregisterCleanup(id, s)

DetectionSpec == DetectionInit /\ [][DetectionNext]_detectionVars

(***************************************************************************)
(* The cache                                                               *)
(***************************************************************************)
Held == DOMAIN sportCache
Fresh == [data |-> TRUE, dated |-> TRUE, refreshing |-> FALSE, stale |-> FALSE]
Bare == [data |-> FALSE, dated |-> FALSE, refreshing |-> FALSE, stale |-> FALSE]

Entered(c, s, entry) == [x \in DOMAIN c \cup {s} |-> IF x = s THEN entry ELSE c[x]]
Without(c, gone) == [x \in DOMAIN c \ gone |-> c[x]]
EntryOf(c, s) == IF s \in DOMAIN c THEN c[s] ELSE Bare

CacheInit ==
  /\ sportCache = [s \in {} |-> Fresh]
  /\ updates = <<>>
  /\ activeSport = Absent
  /\ lastActive = [s \in DetectedSports |-> 0]
  /\ queries = {}
  /\ refreshes = [s \in DetectedSports |-> 0]
  /\ acts = [active |-> 0, refresh |-> 0]

\* One set state, applied to what those before it left.
Applied(c, u) ==
  CASE u.kind = "refreshing" -> Entered(c, u.sport, [EntryOf(c, u.sport) EXCEPT !.refreshing = TRUE])
    [] u.kind = "fresh" -> Entered(c, u.sport, Fresh)
    [] u.kind = "failed" -> Entered(c, u.sport, [EntryOf(c, u.sport) EXCEPT !.refreshing = FALSE])
    [] u.kind = "remove" -> Without(c, u.sports)

Queue(u) == updates' = Append(updates, u)

\* The set states that wait, in their order.
AfterUpdates ==
  LET after[n \in 0..Len(updates)] ==
        IF n = 0 THEN sportCache ELSE Applied(after[n - 1], updates[n])
  IN  after[Len(updates)]

\* Bug: the sports that were active last go first.
BugEvicted(c, times) ==
  LET count == Cardinality(DOMAIN c) - MaxCached
  IN IF count <= 0 THEN {{}} ELSE
     {gone \in SUBSET DOMAIN c :
        Cardinality(gone) = count /\ \A s \in gone, t \in DOMAIN c \ gone : times[s] >= times[t]}

\* What the eviction effect may remove: the sports that were active the longest
\* time ago; of those that never were, any.
Evicted(c, times) ==
  LET count == Cardinality(DOMAIN c) - MaxCached
  IN IF count <= 0 THEN {{}} ELSE
     {gone \in SUBSET DOMAIN c :
        Cardinality(gone) = count /\ \A s \in gone, t \in DOMAIN c \ gone : times[s] <= times[t]}

\* A render with the sport to show: the updates, then the effects.
Commit(sport) ==
  LET now == AfterUpdates
      forgot == {s \in DetectedSports : \E i \in DOMAIN updates :
                   updates[i].kind = "remove" /\ updates[i].evicts /\ s \in updates[i].sports}
      times == [s \in DetectedSports |->
                  IF sport # activeSport /\ s = sport THEN acts'.active
                  ELSE IF s \in forgot THEN 0 ELSE lastActive[s]]
  IN \E evicted \in IF updates = <<>> THEN {{}} ELSE Evicted(now, times) :
       /\ sportCache' = now
       /\ activeSport' = sport
       /\ lastActive' = times
       /\ updates' = (IF sport # activeSport /\ sport \in queries
                      THEN <<[kind |-> "fresh", sport |-> sport]>> ELSE <<>>)
                     \o (IF evicted = {} THEN <<>>
                         ELSE <<[kind |-> "remove", sports |-> evicted, evicts |-> TRUE]>>)

Activate(s) ==
  /\ s # activeSport /\ acts.active < MaxActs
  /\ acts' = [acts EXCEPT !.active = @ + 1]
  /\ Commit(s)
  /\ UNCHANGED <<queries, refreshes>>

RenderCache ==
  /\ updates # <<>>
  /\ UNCHANGED acts
  /\ Commit(activeSport)
  /\ UNCHANGED <<queries, refreshes>>

Starts(s) ==
  /\ acts.refresh < MaxRefreshes
  /\ acts' = [acts EXCEPT !.refresh = @ + 1]
  /\ refreshes' = [refreshes EXCEPT ![s] = @ + 1]
  /\ Queue([kind |-> "refreshing", sport |-> s])
  /\ UNCHANGED <<sportCache, activeSport, lastActive, queries>>

RefreshSport(s) == Starts(s)

\* The interval is made anew with every cache, so it sees the rendered one.
BackgroundRefresh(s) ==
  /\ updates = <<>>
  /\ s \in Held \ {activeSport} /\ sportCache[s].dated
  /\ sportCache[s].stale /\ ~sportCache[s].refreshing
  /\ Starts(s)

RefreshAnswers(s, well) ==
  /\ refreshes[s] > 0
  /\ refreshes' = [refreshes EXCEPT ![s] = @ - 1]
  /\ queries' = IF well THEN queries \cup {s} ELSE queries
  /\ Queue([kind |-> IF well THEN "fresh" ELSE "failed", sport |-> s])
  /\ UNCHANGED <<sportCache, activeSport, lastActive, acts>>

ClearSports(gone) ==
  /\ gone # {} /\ acts.active < MaxActs
  /\ acts' = [acts EXCEPT !.active = @ + 1]
  /\ Queue([kind |-> "remove", sports |-> gone, evicts |-> FALSE])
  /\ UNCHANGED <<sportCache, activeSport, lastActive, queries, refreshes>>

GrowsStale(s) ==
  /\ s \in Held /\ sportCache[s].dated /\ ~sportCache[s].stale
  /\ sportCache' = [sportCache EXCEPT ![s].stale = TRUE]
  /\ UNCHANGED <<updates, activeSport, lastActive, queries, refreshes, acts>>

\* Data of a query that nobody watches is collected in time.
Collected(s) ==
  /\ s \in queries
  /\ queries' = queries \ {s}
  /\ UNCHANGED <<sportCache, updates, activeSport, lastActive, refreshes, acts>>

CacheNext ==
  \/ RenderCache
  \/ \E s \in DetectedSports :
       Activate(s) \/ RefreshSport(s) \/ BackgroundRefresh(s) \/ GrowsStale(s) \/ Collected(s)
  \/ \E s \in DetectedSports, well \in BOOLEAN : RefreshAnswers(s, well)
  \/ ClearSports(Held) \/ \E s \in Held : ClearSports({s})

CacheSpec == CacheInit /\ [][CacheNext]_cacheVars

-----------------------------------------------------------------------------
\* A change that was forced stands until another is asked for: a change that was
\* pending when it came does not follow it (forceSportChange).  And the changes
\* that are remembered follow one another to the current sport.
ForcedStands ==
  /\ requested.how = "force" => service.current = requested.sport
  /\ LET h == service.history
     IN /\ \A i \in 1..(Len(h) - 1) : h[i].to = h[i + 1].from
        /\ h # <<>> => h[Len(h)].to = service.current

\* The selected sport's scores are not evicted to make room for others that were
\* refreshed, however late updates are applied: it leaves the cache only when it is
\* cleared (useSportScoreCache).
ActiveKept ==
  [][/\ activeSport' = activeSport /\ activeSport \in Held /\ activeSport \notin DOMAIN sportCache'
        => \E i \in DOMAIN updates : updates[i].kind = "remove" /\ ~updates[i].evicts]_cacheVars

=============================================================================
