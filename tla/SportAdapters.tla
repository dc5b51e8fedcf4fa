---------------------------- MODULE SportAdapters ----------------------------
(***************************************************************************)
(* What the adapters of the four leagues read from a score page            *)
(* (server/agents/adapters/), and how TeamMapper                           *)
(* (server/utils/scraping/teamMapper.ts) and idUtils.ts name teams and     *)
(* games.  Everything here is a pure function of the page.                 *)
(*                                                                         *)
(* A name is the sequence of its words, <<"">> when the page shows none.   *)
(* An id is the sequence of its parts, those that '_' separates.  A status *)
(* text is what the patterns of the adapters look for in it, and the       *)
(* number that goes with them.  Points are left out.                       *)
(***************************************************************************)
EXTENDS Naturals, FiniteSets, Sequences, SequencesExt

CONSTANTS
  Table     \* per league, the team codes by the names the mapper knows

ScrapedLeagues == {"NBA", "NFL", "MLB", "NHL"}
Missing == <<"">>

\* The elements of s at some places, in their order: what a filter leaves.
Picked(s, places) ==
  [n \in 1..Cardinality(places) |->
     s[CHOOSE i \in places : Cardinality({j \in places : j <= i}) = n]]

\* A game as the adapters return it; start is a day, "now" when none is shown.
GameOf(id, away, home, status, period, clock, start) ==
  [id |-> id, away |-> away, home |-> home, status |-> status,
   period |-> period, clock |-> clock, start |-> start]

(***************************************************************************)
(* Names and ids                                                           *)
(***************************************************************************)
\* A name outside the table becomes an id of its own, one part per word.
MapTeam(name, league) ==
  IF name \in DOMAIN Table[league] THEN <<league, Table[league][name]>>
  ELSE <<league>> \o name

CodeOf(id) == id[2]
InvalidId(id) == Last(id) = ""

StableId(league, source, away, home, day) ==
  <<league, source>> \o day \o <<CodeOf(away), CodeOf(home)>>

Asked(codes, away, home) == codes = {} \/ CodeOf(away) \in codes \/ CodeOf(home) \in codes

(***************************************************************************)
(* Status texts: text.has is a set of signs, text.n the number that the    *)
(* patterns of the league find next to them, <<>> when there is none.  The *)
(* sign "ordinal" is a word like 2nd, "nth" an ordinal or a quarter that   *)
(* is part of a longer number or word, like the day in "Dec 22nd".         *)
(***************************************************************************)
Shows(text, signs) == text.has \cap signs # {}

Status(text, live) ==
  IF Shows(text, {"final"}) THEN "final"
  ELSE IF Shows(text, live) THEN "in_progress" ELSE "scheduled"

NbaStatus(text) == Status(text, {"quarter", "ordinal", "half", "live", "clock"})

\* Any colon makes an NFL game run, that of its kick-off too.
NflStatus(text) == Status(text, {"quarter", "half", "overtime", "clock", "ampm", "live"})

MlbStatus(text) ==
  IF Shows(text, {"postponed"}) THEN "scheduled"
  ELSE Status(text, {"delay", "inningHalf", "end", "ordinal", "nth", "outs", "live"})

NhlStatus(text) ==
  Status(text, {"ordinal", "overtime", "shootout", "period", "intermission", "clock", "live"})

MapStatus(league, text) ==
  CASE league = "NBA" -> NbaStatus(text)
    [] league = "NFL" -> NflStatus(text)
    [] league = "MLB" -> MlbStatus(text)
    [] league = "NHL" -> NhlStatus(text)

\* The period, as a label and a number; <<>> for undefined.  Its patterns do not
\* look for whole words, those of the status of the NBA and the NHL do.
NflPeriod(text) ==
  IF Shows(text, {"overtime"}) THEN <<"OT">> \o text.n
  ELSE IF Shows(text, {"half"}) THEN <<"HALF">>
  ELSE IF Shows(text, {"quarter", "ordinal", "nth"}) THEN text.n ELSE <<>>

NhlPeriod(text) ==
  IF Shows(text, {"shootout"}) THEN <<"SO">>
  ELSE IF Shows(text, {"overtime"}) THEN <<"OT">>
  ELSE IF Shows(text, {"intermission"})
       THEN <<"INT">> \o (IF Shows(text, {"ordinal", "nth"}) THEN text.n ELSE <<>>)
  ELSE IF Shows(text, {"ordinal", "nth"}) THEN text.n ELSE <<>>

\* Any number in the text of an MLB game passes for the inning.
MlbInning(text) == text.n

NbaPeriod(text) == IF Shows(text, {"quarter", "ordinal", "nth"}) THEN text.n ELSE <<>>

ExtractPeriod(league, text) ==
  CASE league = "NBA" -> NbaPeriod(text)
    [] league = "NFL" -> NflPeriod(text)
    [] league = "MLB" -> MlbInning(text)
    [] league = "NHL" -> NhlPeriod(text)

\* Is there a clock?  Times of day do not count in the NBA and the NHL.
NbaClock(text) == Shows(text, {"clock"})
NflClock(text) == Shows(text, {"clock", "ampm"})
NhlClock(text) == Shows(text, {"clock"})

\* The half of the inning, in ESPN's pages, or the outs take its place in the MLB.
MlbSubstate(text) == Shows(text, {"inningHalf", "end"})
MlbOuts(text) == Shows(text, {"outs"})

\* Bug: a time of day passes for a clock.
BugExtractClock(league, source, text) == Shows(text, {"clock", "ampm"})

ExtractClock(league, source, text) ==
  CASE league = "NBA" -> NbaClock(text)
    [] league = "NFL" -> NflClock(text)
    [] league = "MLB" -> (source = "ESPN" /\ MlbSubstate(text)) \/ MlbOuts(text)
    [] league = "NHL" -> NhlClock(text)

ScheduledStart(text) ==
  IF ~Shows(text, {"ampm"}) THEN <<>>
  ELSE IF Shows(text, {"tomorrow"}) THEN <<"tomorrow">> ELSE <<"today">>

StartOf(day) == IF day = <<>> THEN "now" ELSE day[1]

(***************************************************************************)
(* Pages.  A row of a page is a card of the document or an event of the    *)
(* JSON; only events have abbreviations, a state, a date and an id.        *)
(***************************************************************************)
\* A card of the ESPN or CBS document.
CardGame(league, source, row) ==
  LET away == MapTeam(row.away, league)
      home == MapTeam(row.home, league)
      day == ScheduledStart(row.text)
  IN GameOf(StableId(league, source, away, home, day), away, home,
            MapStatus(league, row.text), ExtractPeriod(league, row.text),
            ExtractClock(league, source, row.text), StartOf(day))

StateStatus(league, row) ==
  CASE row.state = "pre" -> "scheduled"
    [] row.state = "in" -> "in_progress"
    [] row.state = "post" -> "final"
    [] OTHER -> MapStatus(league, row.text)

EventId(league, row, away, home) ==
  IF row.id # "" THEN <<league, "ESPN", row.id>>
  ELSE IF league = "MLB" THEN StableId("MLB", "ESPN", away, home, row.date)
  ELSE <<league, "ESPN">> \o away \o home \o <<"now">>

\* MLB maps the display name, and the abbreviation only when there is no name.
MlbEventTeam(name, abbr) ==
  IF InvalidId(MapTeam(name, "MLB")) /\ abbr # Missing
  THEN MapTeam(abbr, "MLB") ELSE MapTeam(name, "MLB")

\* NHL maps the abbreviation, or the code of the mapped name without one.
NhlEventTeam(name, abbr) ==
  MapTeam(IF abbr # Missing THEN abbr ELSE <<CodeOf(MapTeam(name, "NHL"))>>, "NHL")

EventGame(league, row) ==
  LET Team(name, abbr) == IF league = "MLB" THEN MlbEventTeam(name, abbr)
                          ELSE NhlEventTeam(name, abbr)
      away == Team(row.away, row.awayAbbr)
      home == Team(row.home, row.homeAbbr)
  IN GameOf(EventId(league, row, away, home), away, home, StateStatus(league, row),
            ExtractPeriod(league, row.text),
            ExtractClock(league, "ESPN", row.text), StartOf(row.date))

\* The codes an event is asked by: MLB takes the abbreviation before the id.
EventAsked(league, row, codes) ==
  LET game == EventGame(league, row)
      Code(abbr, id) == IF league = "MLB" /\ abbr # Missing THEN abbr[1] ELSE CodeOf(id)
  IN \/ codes = {}
     \/ Code(row.awayAbbr, game.away) \in codes
     \/ Code(row.homeAbbr, game.home) \in codes

\* MLB skips a game with an invalid id; the other leagues return it.
Kept(league, game) == league = "MLB" => ~InvalidId(game.away) /\ ~InvalidId(game.home)

Cards(league, source, page, codes) ==
  LET cards == [i \in DOMAIN page.rows |-> CardGame(league, source, page.rows[i])]
  IN Picked(cards, {i \in DOMAIN cards : /\ Asked(codes, cards[i].away, cards[i].home)
                                         /\ Kept(league, cards[i])})

Events(league, page, codes) ==
  LET events == [i \in DOMAIN page.rows |-> EventGame(league, page.rows[i])]
  IN Picked(events, {i \in DOMAIN events : /\ EventAsked(league, page.rows[i], codes)
                                           /\ Kept(league, events[i])})

\* The preview links of the MLB page: the first group of the pattern is the date.
Previews(page, codes) ==
  LET Game(link) == LET away == MapTeam(<<link.date>>, "MLB")
                        home == MapTeam(link.away, "MLB")
                    IN GameOf(StableId("MLB", "CBS", away, home, <<>>), away, home,
                              "scheduled", <<>>, FALSE, "now")
      games == [i \in DOMAIN page.links |-> Game(page.links[i])]
  IN Picked(games, {i \in DOMAIN games : Asked(codes, games[i].away, games[i].home)})

\* The games in order, only the first of those with the same key.
FirstOf(games, Key(_)) ==
  Picked(games, {i \in DOMAIN games : \A j \in 1..(i - 1) : Key(games[j]) # Key(games[i])})

Teams(game) == <<game.away, game.home>>

NbaESPN(page, codes) == Cards("NBA", "ESPN", page, codes)
NbaCBS(page, codes) == Cards("NBA", "CBS", page, codes)

NflESPN(page, codes) == Cards("NFL", "ESPN", page, codes)
NflCBS(page, codes) == Cards("NFL", "CBS", page, codes)

MlbJSON(page, codes) == Events("MLB", page, codes)
MlbESPN(page, codes) == Cards("MLB", "ESPN", page, codes)
MlbCBS(page, codes) ==
  LET cards == Cards("MLB", "CBS", page, codes)
  IN IF cards # <<>> THEN cards ELSE Previews(page, codes)

\* The documents of the NHL may show a game in several layouts.
NhlJSON(page, codes) == Events("NHL", page, codes)
NhlESPN(page, codes) == FirstOf(Cards("NHL", "ESPN", page, codes), Teams)
NhlCBS(page, codes) == FirstOf(Cards("NHL", "CBS", page, codes), Teams)

\* What one source of a league gives for these codes.
Scrape(league, stop, page, codes) ==
  CASE league = "NBA" -> IF stop = "cbs" THEN NbaCBS(page, codes) ELSE NbaESPN(page, codes)
    [] league = "NFL" -> IF stop = "cbs" THEN NflCBS(page, codes) ELSE NflESPN(page, codes)
    [] league = "MLB" -> (CASE stop = "json" -> MlbJSON(page, codes)
                            [] stop = "dom" -> MlbESPN(page, codes)
                            [] stop = "cbs" -> MlbCBS(page, codes))
    [] league = "NHL" -> (CASE stop \in {"json", "alt"} -> NhlJSON(page, codes)
                            [] stop = "dom" -> NhlESPN(page, codes)
                            [] stop = "cbs" -> NhlCBS(page, codes))

(***************************************************************************)
(* The schedule of the NHL, one day at a time.                             *)
(***************************************************************************)
ScheduleCard(row, i, day) ==
  LET game == CardGame("NHL", "ESPN", row)
      start == ScheduledStart(row.text)
  IN [game EXCEPT !.id = <<"NHL", "ESPN", "DOM", day>> \o game.away \o game.home
                         \o <<ToString(i)>>,
                  !.start = IF start = <<>> THEN day ELSE start[1]]

ScheduleEvent(row, day) ==
  LET NameOf(abbr, name) == IF abbr # Missing THEN abbr ELSE name
      away == MapTeam(NameOf(row.awayAbbr, row.away), "NHL")
      home == MapTeam(NameOf(row.homeAbbr, row.home), "NHL")
      id == IF row.id # "" THEN <<"NHL", "ESPN", row.id>>
            ELSE <<"NHL", "ESPN", "NHL", day>> \o away \o home
      status == CASE row.state = "in" -> "in_progress"
                  [] row.state = "post" -> "final"
                  [] OTHER -> "scheduled"
  IN GameOf(id, away, home, status, <<>>, FALSE,
            IF row.date = <<>> THEN day ELSE row.date[1])

ScrapeDay(stop, page, codes, day) ==
  SelectSeq([i \in DOMAIN page.rows |->
               IF stop = "dom" THEN ScheduleCard(page.rows[i], i, day)
               ELSE ScheduleEvent(page.rows[i], day)],
            LAMBDA g : Asked(codes, g.away, g.home))

TeamsAndDay(game) == <<game.away, game.home, game.start>>
=============================================================================
