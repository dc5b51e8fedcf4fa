---------------------------- MODULE MCScoresIngest ----------------------------
(***************************************************************************)
(* ScoresIngest for TLC.  One game is enough for the races, which are all  *)
(* between runs that meet on a game.  Teams a and b are followed; a plays  *)
(* the game against a team nobody follows, so that the jobs of a, of b and *)
(* of the league and a refresh for both teams see it differently.          *)
(* In the other mode two calls ask for the scores of two users' favorites: *)
(* an id of the adapter's league, one of another league with its code, and *)
(* a name that is no id; of the two games, one is of none of them.         *)
(***************************************************************************)
EXTENDS ScoresIngest, TeamScores, TLC

CONSTANTS nba, a, b, g

MCTeamSport == [t \in {a, b} |-> nba]
MCTeamsOf == [x \in {g} |-> {a}]
MCRefreshTeams == {{a, b}}

\* The source shows the game before it starts, without a period, then under way.
MCTimeline == <<
  [pts |-> 0, status |-> "scheduled", period |-> Absent],
  [pts |-> 2, status |-> "in_progress", period |-> 1] >>

-----------------------------------------------------------------------------
CONSTANTS nfl, u, v, nbaA, nflA, odd,
          IngestModes   \* what the server does

MCPrefix == [t \in {nbaA, nflA} |-> IF t = nbaA THEN nba ELSE nfl] @@ [t \in {odd} |-> odd]
MCCode == [t \in {nbaA, nflA, odd} |-> IF t = odd THEN odd ELSE a]
MCFixtures == {[league |-> nba, codes |-> {a}], [league |-> nba, codes |-> {b}]}
AskOf(p, s, m) == [uid |-> p, sport |-> s, mode |-> m]
MCLists == {{}, {nbaA}, {nflA, odd}, {odd}}
MCAsked == {AskOf(u, NoSport, "live"), AskOf(u, NoSport, "featured"),
            AskOf(u, nba, "schedule"), AskOf(v, nba, "live")}

VARIABLE mode
ingest == <<vars, teamScores, mode>>

IngestInit ==
  /\ mode \in IngestModes
  /\ Init /\ TeamScoresInit
  /\ mode = "runs" => caching = FALSE /\ profiles = [p \in People |-> NoEntry]
  /\ mode = "users" => storageKind = "mem" /\ redis = FALSE

IngestNext ==
  /\ UNCHANGED mode
  /\ \/ mode = "runs" /\ Next /\ UNCHANGED teamScores
     \/ mode = "users" /\ TeamScoresNext /\ UNCHANGED vars

IngestSpec == IngestInit /\ [][IngestNext]_ingest /\ Fairness

=============================================================================
