------------------------------ MODULE Scraping ------------------------------
(***************************************************************************)
(* How the adapters get their pages: the fallback chains of fetchLive,     *)
(* fetchFeaturedGames, fetchSchedule and fetchBoxScore (in                 *)
(* server/agents/adapters/), through EthicalFetcher.fetch with its retries *)
(* (server/utils/scraping/fetcher.ts), the robots.txt checker and the rate *)
(* limiter all callers share.  Nobody calls fetchBoxScore yet.             *)
(*                                                                         *)
(* A caller is a run of ScoresAgent that waits for its adapter.  The       *)
(* sources of a league are its stops: the two JSON scoreboards of ESPN     *)
(* ("json", "alt"), its document ("dom") and that of CBS ("cbs").  What a  *)
(* page says and how it is read is in SportAdapters.                       *)
(*                                                                         *)
(* Time is counted in ticks since the last grant and the last request of   *)
(* each domain, up to Delay, beyond which it makes no difference; timers   *)
(* may fire late.                                                          *)
(***************************************************************************)
EXTENDS SportAdapters

CONSTANTS
  Callers,
  Asks,         \* what each of them asks for
  Sites,        \* what robots.txt of the domains may say
  Pages,        \* per league and stop, what the site may show
  Delay,        \* the delay between requests to one domain
  FetchRetries,   \* attempts of one fetch
  None

Stops == {"json", "alt", "dom", "cbs"}
Domains == {"api", "espn", "cbs"}
DomainOf == [stop \in Stops |-> CASE stop = "dom" -> "espn"
                                  [] stop = "cbs" -> "cbs"
                                  [] OTHER -> "api"]
Operations == {"live", "featured", "schedule", "box"}

Doublings[n \in Nat] == IF n = 0 THEN 1 ELSE 2 * Doublings[n - 1]
BackoffDelay(attempt) == Delay * Doublings[attempt - 1]    \* 2 s, the delay, then 4 s

\* A finite sequence, of whatever it has.
IsSequence(s) == s \in Seq(ToSet(s))

\* The events of a page of JSON; ESPN gives one id to one event.
Scoreboard(rows) ==
  /\ \A row \in ToSet(rows) :
       IsSequence(row.awayAbbr) /\ IsSequence(row.homeAbbr) /\ IsSequence(row.date)
  /\ \A row, other \in ToSet(rows) :
       row.id = other.id /\ row.id # "" =>
         /\ row.away = other.away /\ row.awayAbbr = other.awayAbbr
         /\ row.home = other.home /\ row.homeAbbr = other.homeAbbr

ASSUME ScrapingAssumption ==
  /\ Sites \subseteq [Domains -> {"permits", "forbids"}]
  /\ Delay \in Nat \ {0}
  /\ FetchRetries \in Nat \ {0}
  /\ \A c \in Callers : \A ask \in Asks[c] :
       /\ ask.op \in Operations /\ ask.league \in ScrapedLeagues
       /\ ask.op = "live" => ask.codes # {}
       /\ ask.op = "featured" => ask.codes = {}
       /\ ask.op = "schedule" <=> ask.days # <<>>
  /\ \A league \in ScrapedLeagues, stop \in Stops : \A page \in Pages[league][stop] :
       /\ page = [parses |-> page.parses, rows |-> page.rows, links |-> page.links]
       /\ IsSequence(page.rows) /\ IsSequence(page.links)
       /\ \A row \in ToSet(page.rows) : IsSequence(row.away) /\ IsSequence(row.home)
       /\ \A link \in ToSet(page.links) : IsSequence(link.away)
       /\ stop \in {"json", "alt"} => Scoreboard(page.rows)

VARIABLES
  policy,    \* what robots.txt of each domain says of the pages asked for
  robots,    \* the rules the checker has cached
  age,       \* ticks since lastRequest of the limiter
  call,      \* the call each caller is making
  since,     \* history: ticks since the last request sent to each domain
  retried,   \* history: the domains whose last request was a retry
  misread    \* history: the domains whose robots.txt could not be read once

scraping == <<policy, robots, age, call, since, retried, misread>>
sent == <<age, since, retried>>

Idle == [pc |-> "idle", op |-> "live", league |-> None, codes |-> {}, limit |-> 0,
         days |-> <<>>, stop |-> "dom", attempt |-> 0, left |-> 0, found |-> <<>>,
         tried |-> {}, listed |-> {}, alone |-> TRUE]

ScrapeInit ==
  /\ policy \in Sites
  /\ robots = [d \in Domains |-> None]
  /\ age = [d \in Domains |-> Delay]
  /\ call = [c \in Callers |-> Idle]
  /\ since = age
  /\ retried = {}
  /\ misread = {}

Domain(c) == DomainOf[call[c].stop]
At(c, pc) == call[c].pc = pc

(***************************************************************************)
(* The fallback chain                                                      *)
(***************************************************************************)
FirstStop(league) == IF league \in {"NBA", "NFL"} THEN "dom" ELSE "json"

\* Where fetchLive goes after a stop that gave no games; ok: the page was read,
\* listed: it had events.
NbaNext(stop) == "cbs"
NflNext(stop) == "cbs"
MlbNext(stop, ok) == IF stop = "json" /\ ~ok THEN "dom" ELSE "cbs"
NhlNext(stop, ok, listed) ==
  CASE stop = "json" /\ ok /\ ~listed -> "alt"
    [] stop = "alt" \/ (stop = "json" /\ (~ok \/ listed)) -> "dom"
    [] OTHER -> "cbs"

NextStop(league, stop, ok, listed) ==
  CASE league = "NBA" -> NbaNext(stop)
    [] league = "NFL" -> NflNext(stop)
    [] league = "MLB" -> MlbNext(stop, ok)
    [] league = "NHL" -> NhlNext(stop, ok, listed)

\* The same within a day of the schedule of the NHL: only a day without events
\* goes on, and the document is the last.
NextOfDay(stop) == IF stop = "json" THEN "alt" ELSE "dom"

GoTo(r, stop) == [r EXCEPT !.pc = "robots", !.stop = stop, !.attempt = 1]

Answer(r, games) == [r EXCEPT !.pc = "answered", !.found = games, !.days = <<>>]

FirstGames(games, limit) == SubSeq(games, 1, IF limit < Len(games) THEN limit ELSE Len(games))

\* NBAAdapter.fetchSchedule: the games on the board that are still to be played.
ScheduledOn(games, days) ==
  SelectSeq(games, LAMBDA g : g.status = "scheduled" /\ g.start \in {"now"} \cup ToSet(days))

\* What the operation makes of the games of fetchLive.
Finish(r, games) ==
  CASE r.op = "live" -> games
    [] r.op = "featured" -> FirstGames(games, r.limit)
    [] r.op = "schedule" -> ScheduledOn(games, r.days)

\* Bug: a source that lists games is believed, even when none was asked for.
BugAfterStop(r, ok, page) ==
  LET games == IF ok THEN Scrape(r.league, r.stop, page, r.codes) ELSE <<>>
  IN IF (ok /\ page.rows # <<>>) \/ r.stop = "cbs" THEN Answer(r, Finish(r, games))
     ELSE GoTo(r, NextStop(r.league, r.stop, ok, FALSE))

\* fetchLive with the result of a stop.
AfterStop(r, ok, page) ==
  LET games == IF ok THEN Scrape(r.league, r.stop, page, r.codes) ELSE <<>>
  IN IF games # <<>> \/ r.stop = "cbs" THEN Answer(r, Finish(r, games))
     ELSE GoTo(r, NextStop(r.league, r.stop, ok, ok /\ page.rows # <<>>))

\* NHLAdapter.fetchSchedule: the next source of the day, the next day, the end.
AfterDayStop(r, ok, page) ==
  LET listed == ok /\ page.rows # <<>>
      found == r.found \o (IF listed THEN ScrapeDay(r.stop, page, r.codes, Head(r.days))
                           ELSE <<>>)
  IN IF ~listed /\ r.stop # "dom" THEN GoTo(r, NextOfDay(r.stop))
     ELSE IF Tail(r.days) # <<>>
          THEN GoTo([r EXCEPT !.found = found, !.days = Tail(r.days)], "json")
     ELSE Answer(r, FirstOf(found, TeamsAndDay))

\* NHLAdapter.fetchBoxScore: the summary has to name two teams; the game's page
\* is read whatever it shows, and when it cannot be read the caller gets an error.
AfterBoxStop(r, ok, page) ==
  IF ok /\ (r.stop = "json" => page.rows # <<>>) THEN Answer(r, <<>>)
  ELSE IF r.stop = "json" THEN GoTo(r, "dom") ELSE [r EXCEPT !.pc = "threw"]

\* tried and listed are history: the stops that were read or failed, and those
\* that had games to return.
After(r, ok, page) ==
  LET has == ok /\ Scrape(r.league, r.stop, page, r.codes) # <<>>
      s == [r EXCEPT !.tried = @ \cup {r.stop},
                     !.listed = IF has THEN @ \cup {r.stop} ELSE @]
  IN IF r.league = "NHL" /\ r.op = "schedule" THEN AfterDayStop(s, ok, page)
     ELSE IF r.op = "box" THEN AfterBoxStop(s, ok, page)
     ELSE AfterStop(s, ok, page)

\* A page of JSON that does not parse is a failure of its source.
Reads(r, page) == After(r, r.stop \in {"json", "alt"} => page.parses, page)
Fails(r) == After(r, FALSE, None)

(***************************************************************************)
(* Calls                                                                   *)
(***************************************************************************)
\* The schedules of the NFL and of the MLB are not implemented: no games.
AskSchedule(r) ==
  IF r.league \in {"NFL", "MLB"} THEN Answer(r, <<>>) ELSE GoTo(r, FirstStop(r.league))

\* Of box scores only those of the NHL are, and they need the number of an event;
\* in the NBA every game has no points, elsewhere there is an error.
AskBoxScore(r, event) ==
  IF r.league = "NBA" THEN Answer(r, <<>>)
  ELSE IF r.league = "NHL" /\ event THEN GoTo(r, "json") ELSE [r EXCEPT !.pc = "threw"]

Ask(c, ask) ==
  /\ call[c].pc \in {"idle", "answered", "threw"}
  /\ LET r == [Idle EXCEPT !.op = ask.op, !.league = ask.league, !.codes = ask.codes,
                           !.limit = ask.limit, !.days = ask.days]
     IN call' = [call EXCEPT ![c] = CASE ask.op = "schedule" -> AskSchedule(r)
                                      [] ask.op = "box" -> AskBoxScore(r, ask.event)
                                      [] OTHER -> GoTo(r, FirstStop(ask.league))]
  /\ UNCHANGED <<policy, robots, sent, misread>>

(***************************************************************************)
(* EthicalFetcher.fetch                                                    *)
(***************************************************************************)
\* A request leaves for the domain of c; the others who use it are not alone.
Sends(c, attempt) ==
  /\ since' = [since EXCEPT ![Domain(c)] = 0]
  /\ call' = [o \in Callers |->
                CASE o = c -> [call[c] EXCEPT !.pc = "request", !.attempt = attempt,
                                              !.alone = TRUE]
                  [] o # c /\ call[o].pc \in {"wait", "request", "backoff"}
                     /\ Domain(o) = Domain(c) -> [call[o] EXCEPT !.alone = FALSE]
                  [] OTHER -> call[o]]

\* waitIfNeeded: the limiter notes a request when it lets it go.
Grant(c) ==
  /\ Sends(c, 1)
  /\ age' = [age EXCEPT ![Domain(c)] = 0]
  /\ retried' = retried \ {Domain(c)}

\* The answer of canFetch: the source fails, the caller waits, or it may go.
Decide(c, rules) ==
  IF rules = "forbids"
  THEN call' = [call EXCEPT ![c] = Fails(@)] /\ UNCHANGED sent
  ELSE IF age[Domain(c)] < Delay
  THEN /\ call' = [call EXCEPT ![c].pc = "wait", ![c].left = Delay - age[Domain(c)],
                               ![c].alone = TRUE]
       /\ UNCHANGED sent
  ELSE Grant(c)

\* Bug: an empty rule set is cached while the file is fetched.
BugCheckRobots(c) ==
  /\ At(c, "robots")
  /\ IF robots[Domain(c)] # None THEN Decide(c, robots[Domain(c)]) /\ UNCHANGED robots
     ELSE /\ call' = [call EXCEPT ![c].pc = "fill"]
          /\ robots' = [robots EXCEPT ![Domain(c)] = "permits"]
          /\ UNCHANGED sent
  /\ UNCHANGED <<policy, misread>>

CheckRobots(c) ==
  /\ At(c, "robots")
  /\ IF robots[Domain(c)] # None THEN Decide(c, robots[Domain(c)])
     ELSE call' = [call EXCEPT ![c].pc = "fill"] /\ UNCHANGED sent
  /\ UNCHANGED <<policy, robots, misread>>

\* robots.txt arrives, or does not and everything counts as allowed.
Fill(c, rules) ==
  /\ At(c, "fill")
  /\ robots' = [robots EXCEPT ![Domain(c)] = rules]
  /\ misread' = IF rules = policy[Domain(c)] THEN misread ELSE misread \cup {Domain(c)}
  /\ Decide(c, rules)
  /\ UNCHANGED policy

RobotsArrive(c) == Fill(c, policy[Domain(c)])
RobotsUnread(c) == policy[Domain(c)] = "forbids" /\ Fill(c, "permits")

\* Bug: only a request that did not wait is noted.
BugWaitEnds(c) ==
  /\ At(c, "wait") /\ call[c].left = 0
  /\ Sends(c, 1)
  /\ retried' = retried \ {Domain(c)}
  /\ UNCHANGED <<policy, robots, age, misread>>

WaitEnds(c) ==
  /\ At(c, "wait") /\ call[c].left = 0
  /\ Grant(c)
  /\ UNCHANGED <<policy, robots, misread>>

PageArrives(c, page) ==
  /\ At(c, "request")
  /\ call' = [call EXCEPT ![c] = Reads(@, page)]
  /\ UNCHANGED <<policy, robots, sent, misread>>

\* A timeout, an error status or a broken connection.
AttemptFails(c) ==
  /\ At(c, "request")
  /\ call' = [call EXCEPT ![c] =
                IF @.attempt = FetchRetries THEN Fails(@)
                ELSE [@ EXCEPT !.pc = "backoff", !.left = BackoffDelay(call[c].attempt)]]
  /\ UNCHANGED <<policy, robots, sent, misread>>

\* The next attempt does not ask the limiter.
Retries(c) ==
  /\ At(c, "backoff") /\ call[c].left = 0
  /\ Sends(c, call[c].attempt + 1)
  /\ retried' = retried \cup {Domain(c)}
  /\ UNCHANGED <<policy, robots, age, misread>>

Older(n) == IF n < Delay THEN n + 1 ELSE n

ScrapeTick ==
  /\ age' = [d \in Domains |-> Older(age[d])]
  /\ since' = [d \in Domains |-> Older(since[d])]
  /\ call' = [c \in Callers |-> IF call[c].left > 0 THEN [call[c] EXCEPT !.left = @ - 1]
                                ELSE call[c]]
  /\ UNCHANGED <<policy, robots, retried, misread>>

Fetches(c) ==
  \/ CheckRobots(c) \/ RobotsArrive(c) \/ RobotsUnread(c) \/ WaitEnds(c)
  \/ AttemptFails(c) \/ Retries(c)
  \/ \E page \in IF At(c, "request") THEN Pages[call[c].league][call[c].stop] ELSE {} :
       PageArrives(c, page)

ScrapeNext ==
  \/ ScrapeTick
  \/ \E c \in Callers : Fetches(c)
  \/ \E c \in Callers : \E ask \in Asks[c] : Ask(c, ask)

\* Timers fire, and every request is answered, fails or times out.
ScrapeSpec == /\ ScrapeInit /\ [][ScrapeNext]_scraping
        /\ WF_scraping(ScrapeTick) /\ \A c \in Callers : WF_scraping(Fetches(c))

-----------------------------------------------------------------------------
Requested(c) == ~At(c, "request") /\ call'[c].pc = "request"

\* A page that robots.txt forbids is only ever requested after the file could not
\* be read: a check that starts while another is filling the cache does not
\* slip through (RobotsChecker.canFetch).
RobotsHeard ==
  [][\A c \in Callers : Requested(c) /\ policy[Domain(c)] = "forbids"
                        => Domain(c) \in misread']_scraping

\* A request that waited for its domain without another caller going first, or a
\* retry after its back-off, comes Delay after the request before it; so does one
\* that need not wait, unless the request before it was a retry, which the
\* limiter does not see (RateLimiter.waitIfNeeded, EthicalFetcher.fetch).
Spaced ==
  [][\A c \in Callers :
       /\ Requested(c)
       /\ call[c].pc \in {"wait", "backoff"} => call[c].alone
       /\ ~At(c, "backoff") => Domain(c) \notin retried
       => since[Domain(c)] = Delay]_scraping

OfAskedTeams(r) ==
  \A i \in DOMAIN r.found : Asked(r.codes, r.found[i].away, r.found[i].home)

\* An answer of fetchLive is what the last source gave; it is empty only when
\* every source of the league was read or failed: the document of ESPN is left
\* out only after its JSON, and a source that lists games that were asked for
\* is never passed over for another.  Except for the MLB, its games are games of
\* the teams asked for (fetchLive, scrapeESPN, scrapeCBS).
Answered ==
  \A c \in Callers : LET r == call[c] IN
    At(c, "answered") /\ r.op = "live" =>
      /\ r.found = <<>> => {"cbs", FirstStop(r.league)} \subseteq r.tried /\ r.listed = {}
      /\ r.found # <<>> => r.listed = {r.stop}
      /\ r.league # "MLB" => OfAskedTeams(r)

\* What an answer says is fit to be stored under its ids: two games with one id
\* are between the same teams when the names are in the tables, and a game that
\* the document calls scheduled shows no clock in the NBA and the NHL, whose
\* patterns exclude times of day (buildStableGameId, mapStatus,
\* extractTimeRemaining).  It may show a period: that of a day like Dec 22nd.
ReadsTheBoard ==
  \A c \in Callers : LET r == call[c] IN
    At(c, "answered") /\ r.op = "live" =>
      /\ \A i, j \in DOMAIN r.found :
           LET g == r.found[i]  h == r.found[j]
           IN /\ g.id = h.id
              /\ \A id \in {g.away, g.home, h.away, h.home} : Len(id) = 2
              => Teams(g) = Teams(h)
      /\ r.league \in {"NBA", "NHL"} /\ r.stop \in {"dom", "cbs"} =>
           \A i \in DOMAIN r.found :
             r.found[i].status = "scheduled" => ~r.found[i].clock

=============================================================================
