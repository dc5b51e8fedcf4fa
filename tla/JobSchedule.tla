------------------------------ MODULE JobSchedule ------------------------------
(***************************************************************************)
(* The server's start, its repeatable jobs and its end: server/index.ts,   *)
(* server/jobs/workers.ts and server/jobs/queues.ts.                       *)
(*                                                                         *)
(* Repeatable jobs live in Redis and outlive the server.  A start adds     *)
(* those of the teams it finds, with the interval configured, one await    *)
(* after the other; the daily maintenance lists the teams again and        *)
(* removes the jobs of others.  The queue is external: a repeatable job is *)
(* due now and then, the same job never twice, and a worker that is gone   *)
(* leaves its job to be taken again.  What a job does is ScoresIngest.     *)
(***************************************************************************)
EXTENDS Naturals, Sequences, FiniteSets

CONSTANTS Leagues,     \* the leagues, in their order
          LeagueTeams, \* the teams of each league that may be stored
          Intervals,   \* settings of the intervals, one per start
          WorkersLimit, \* concurrency of the scores worker
          Attempts,    \* attempts of a job
          MorePorts,   \* ports tried after the first: 3 in development, else 0
          MaxStarts, MaxEdits, MaxFaults, MaxDue  \* bounds

VARIABLES
  server,    \* phase and what is left of the start
  interval,  \* the intervals this process was configured with
  teams,    \* teams in the storage
  repeats,   \* repeatable jobs, by id and interval
  queue,      \* jobs that are due or worked on, with attempts made
  pass,      \* a reconciliation: leagues left, ids wanted, jobs left to look at
  cleaning,  \* whether the maintenance job is due
  health,    \* scoresIngestHealth
  doubt,     \* teams whose schedule a failure, or an edit, kept from being complete
  bounds     \* starts, edits, errors and due jobs so far

schedule == <<server, interval, teams, repeats, queue, pass, cleaning, health, doubt, bounds>>

AllTeams == UNION {LeagueTeams[Leagues[i]] : i \in DOMAIN Leagues}
LeagueNames == {Leagues[i] : i \in DOMAIN Leagues}
LeagueOf(team) == CHOOSE l \in LeagueNames : team \in LeagueTeams[l]
NoPass == [at |-> "none", left |-> <<>>, wanted |-> {}, found |-> {}, sure |-> FALSE]
NoHealth == [on |-> FALSE, completed |-> 0, failed |-> 0, last |-> {}]
TeamJob(t) == [kind |-> "team", of |-> t]
FeaturedJob(l) == [kind |-> "featured", of |-> l]

\* League names are neither those of teams nor of the other steps.
ASSUME ScheduleAssumption ==
  /\ Leagues \in Seq(LeagueNames)
  /\ LeagueNames \cap (AllTeams \cup {"live", "featured", "maintenance", "observe", "listen"}) = {}

Steps == <<"live">> \o Leagues \o <<"featured">> \o Leagues \o <<"maintenance", "observe", "listen">>

ScheduleInit ==
  /\ server = [phase |-> "down", todo |-> <<>>, list |-> {}, featured |-> FALSE, ports |-> 0]
  /\ interval = (CHOOSE every \in Intervals : TRUE)
  /\ teams \in SUBSET AllTeams
  /\ repeats = {} /\ queue = {}
  /\ pass = NoPass /\ cleaning = FALSE /\ health = NoHealth
  /\ doubt = AllTeams \cup LeagueNames
  /\ bounds = [starts |-> 0, edits |-> 0, errors |-> 0, due |-> 0]

Fault == bounds.errors < MaxFaults /\ bounds' = [bounds EXCEPT !.errors = @ + 1]

(***************************************************************************)
(* The start                                                               *)
(***************************************************************************)
Boot(every) ==
  /\ server.phase = "down" /\ bounds.starts < MaxStarts
  /\ bounds' = [bounds EXCEPT !.starts = @ + 1]
  /\ interval' = every
  /\ server' = [phase |-> "booting", todo |-> Steps, list |-> {}, featured |-> FALSE, ports |-> 0]
  /\ doubt' = AllTeams \cup LeagueNames
  /\ health' = NoHealth
  /\ UNCHANGED <<teams, repeats, queue, pass, cleaning>>

Booting(step) == server.phase = "booting" /\ server.list = {} /\ server.todo # <<>>
                 /\ Head(server.todo) = step
Booted(fields) == server' = [fields EXCEPT !.todo = Tail(@)]
Rest == <<interval, teams, queue, pass, cleaning, health>>

\* scheduleLiveTeamJobs lists the teams of a league ...
ListsTeams(l, well) ==
  /\ Booting(l) /\ ~server.featured
  /\ IF well THEN UNCHANGED bounds ELSE Fault
  /\ Booted([server EXCEPT !.list = IF well THEN teams \cap LeagueTeams[l] ELSE {}])
  /\ doubt' = IF well THEN doubt \ (LeagueTeams[l] \ teams) ELSE doubt
  /\ UNCHANGED <<Rest, repeats>>

\* ... and adds their jobs; one that cannot be added is passed over.
AddsTeam(t, well) ==
  /\ server.phase = "booting" /\ t \in server.list
  /\ IF well THEN UNCHANGED bounds ELSE Fault
  /\ server' = [server EXCEPT !.list = @ \ {t}]
  /\ repeats' = IF well THEN repeats \cup {[id |-> TeamJob(t), every |-> interval]} ELSE repeats
  /\ doubt' = IF well THEN doubt \ {t} ELSE doubt
  /\ UNCHANGED Rest

TurnsToFeatured ==
  /\ \E phase \in {"live", "featured"} :
       Booting(phase) /\ Booted([server EXCEPT !.featured = (phase = "featured")])
  /\ UNCHANGED <<Rest, repeats, doubt, bounds>>

AddsFeatured(l, well) ==
  /\ Booting(l) /\ server.featured
  /\ IF well THEN UNCHANGED bounds ELSE Fault
  /\ Booted(server)
  /\ repeats' = IF well THEN repeats \cup {[id |-> FeaturedJob(l), every |-> interval]} ELSE repeats
  /\ doubt' = IF well THEN doubt \ {l} ELSE doubt
  /\ UNCHANGED Rest

\* The workers take jobs from now on; the scores worker did before.
StartsMaintenance ==
  /\ Booting("maintenance") /\ Booted(server)
  /\ cleaning' = TRUE
  /\ UNCHANGED <<interval, teams, repeats, queue, pass, health, doubt, bounds>>

Observes ==
  /\ Booting("observe") /\ Booted(server)
  /\ health' = [health EXCEPT !.on = TRUE]
  /\ UNCHANGED <<interval, teams, repeats, queue, pass, cleaning, doubt, bounds>>

\* startServerWithRetry: a port that is taken makes it try the next.  A server
\* that gets none stays, and its workers with it.
Listens(free) ==
  /\ Booting("listen")
  /\ IF free THEN Booted([server EXCEPT !.phase = "serving"]) /\ UNCHANGED bounds
     ELSE /\ Fault
          /\ server' = IF server.ports < MorePorts THEN [server EXCEPT !.ports = @ + 1]
                       ELSE [server EXCEPT !.phase = "headless", !.todo = <<>>]
  /\ UNCHANGED <<Rest, repeats, doubt>>

\* A signal: the workers finish what they do and take no more.  The server
\* itself goes on; a signal before the start is over kills it, as a crash does.
Signal ==
  /\ server.phase = "serving"
  /\ server' = [server EXCEPT !.phase = "stopping"]
  /\ UNCHANGED <<Rest, repeats, doubt, bounds>>

Active(j) == j.at = "active"
Stopped ==
  /\ server.phase = "stopping"
  /\ ~\E j \in queue : Active(j)
  /\ pass.at = "none"
  /\ server' = [server EXCEPT !.phase = "stopped"]
  /\ UNCHANGED <<Rest, repeats, doubt, bounds>>

\* Stalled jobs are taken again by the next process.
Dies ==
  /\ server.phase # "down"
  /\ server' = [server EXCEPT !.phase = "down", !.todo = <<>>, !.list = {}]
  /\ queue' = {[j EXCEPT !.at = "due"] : j \in queue}
  /\ pass' = NoPass
  /\ cleaning' = (cleaning \/ pass.at # "none")
  /\ health' = NoHealth
  /\ doubt' = AllTeams \cup LeagueNames
  /\ UNCHANGED <<interval, teams, repeats, bounds>>

\* Teams are stored and deleted by others: scripts and the development routes.
Edit(t) ==
  /\ bounds.edits < MaxEdits
  /\ bounds' = [bounds EXCEPT !.edits = @ + 1]
  /\ teams' = IF t \in teams THEN teams \ {t} ELSE teams \cup {t}
  /\ doubt' = doubt \cup {t}
  /\ UNCHANGED <<server, interval, repeats, queue, pass, cleaning, health>>

(***************************************************************************)
(* Jobs                                                                    *)
(***************************************************************************)
Working == server.phase \in {"booting", "serving", "headless"}

Due(r) ==
  /\ bounds.due < MaxDue
  /\ r \in repeats /\ ~\E j \in queue : j.of = r /\ j.at = "due"
  /\ bounds' = [bounds EXCEPT !.due = @ + 1]
  /\ queue' = queue \cup {[of |-> r, at |-> "due", tries |-> 0, no |-> bounds.due]}
  /\ UNCHANGED <<server, interval, teams, repeats, pass, cleaning, health, doubt>>

Take(j) ==
  /\ Working /\ j.at = "due"
  /\ Cardinality({k \in queue : Active(k)}) < WorkersLimit
  /\ queue' = (queue \ {j}) \cup {[j EXCEPT !.at = "active", !.tries = @ + 1]}
  /\ UNCHANGED <<server, interval, teams, repeats, pass, cleaning, health, doubt, bounds>>

\* The queue tells of the job that is done; it does not keep it, so that the
\* handler, which looks for its duration afterwards, finds none.
Completes(j) ==
  /\ Active(j)
  /\ queue' = queue \ {j}
  /\ IF health.on
     THEN health' = [health EXCEPT !.completed = @ + 1, !.last = {j.no}]
     ELSE UNCHANGED health
  /\ UNCHANGED <<server, interval, teams, repeats, pass, cleaning, doubt, bounds>>

\* A job that used its attempts is kept as failed.
JobFails(j) ==
  /\ Active(j)
  /\ IF j.tries < Attempts
     THEN /\ queue' = (queue \ {j}) \cup {[j EXCEPT !.at = "due"]}
          /\ UNCHANGED health
     ELSE /\ queue' = queue \ {j}
          /\ health' = IF health.on THEN [health EXCEPT !.failed = @ + 1, !.last = {j.no}] ELSE health
  /\ UNCHANGED <<server, interval, teams, repeats, pass, cleaning, doubt, bounds>>

(***************************************************************************)
(* Maintenance                                                             *)
(***************************************************************************)
CleaningDue ==
  /\ ~cleaning /\ pass.at = "none" /\ server.phase # "down"
  /\ cleaning' = TRUE
  /\ UNCHANGED <<server, interval, teams, repeats, queue, pass, health, doubt, bounds>>

MaintenanceWorking == Working /\ ~\E i \in DOMAIN server.todo : server.todo[i] = "maintenance"

Maintains ==
  /\ MaintenanceWorking /\ cleaning /\ pass.at = "none"
  /\ cleaning' = FALSE
  /\ pass' = [at |-> "lists", left |-> Leagues, wanted |-> {}, found |-> {}, sure |-> TRUE]
  /\ UNCHANGED <<server, interval, teams, repeats, queue, health, doubt, bounds>>

Desired(l) == {TeamJob(t) : t \in teams \cap LeagueTeams[l]} \cup {FeaturedJob(l)}

\* Bug: the set is made anew for each league.
BugListsDesired(l, well) ==
  /\ pass.at = "lists" /\ pass.left # <<>> /\ Head(pass.left) = l
  /\ IF well THEN UNCHANGED <<bounds, doubt>>
     ELSE Fault /\ doubt' = doubt \cup LeagueTeams[l] \cup {l}
  /\ pass' = [pass EXCEPT !.left = Tail(@), !.sure = @ /\ well,
                          !.wanted = IF well THEN Desired(l) ELSE @]
  /\ UNCHANGED <<server, interval, teams, repeats, queue, cleaning, health>>

\* reconcileRepeatableScoresJobs lists the teams of each league; the jobs of a
\* league that cannot be listed are not wanted.
ListsDesired(l, well) ==
  /\ pass.at = "lists" /\ pass.left # <<>> /\ Head(pass.left) = l
  /\ IF well THEN UNCHANGED <<bounds, doubt>>
     ELSE Fault /\ doubt' = doubt \cup LeagueTeams[l] \cup {l}
  /\ pass' = [pass EXCEPT !.left = Tail(@), !.sure = @ /\ well,
                          !.wanted = IF well THEN @ \cup Desired(l) ELSE @]
  /\ UNCHANGED <<server, interval, teams, repeats, queue, cleaning, health>>

ReadsRepeats ==
  /\ pass.at = "lists" /\ pass.left = <<>>
  /\ pass' = [pass EXCEPT !.at = "removes", !.found = {r \in repeats : r.id \notin pass.wanted}]
  /\ UNCHANGED <<server, interval, teams, repeats, queue, cleaning, health, doubt, bounds>>

RemovesRepeat(r, well) ==
  /\ pass.at = "removes" /\ r \in pass.found
  /\ IF well THEN UNCHANGED bounds ELSE Fault
  /\ repeats' = IF well THEN repeats \ {r} ELSE repeats
  /\ queue' = IF well THEN {j \in queue : j.of # r \/ Active(j) \/ j.tries > 0} ELSE queue
  /\ pass' = [pass EXCEPT !.found = @ \ {r}, !.sure = @ /\ well]
  /\ UNCHANGED <<server, interval, teams, cleaning, health, doubt>>

PassEnds ==
  /\ pass.at = "removes" /\ pass.found = {}
  /\ pass' = NoPass
  /\ UNCHANGED <<server, interval, teams, repeats, queue, cleaning, health, doubt, bounds>>

ScheduleNext ==
  \/ \E every \in Intervals : Boot(every)
  \/ \E l \in LeagueNames, well \in BOOLEAN :
       ListsTeams(l, well) \/ AddsFeatured(l, well) \/ ListsDesired(l, well)
  \/ \E t \in AllTeams, well \in BOOLEAN : AddsTeam(t, well)
  \/ TurnsToFeatured \/ StartsMaintenance \/ Observes \/ Signal \/ Stopped \/ Dies
  \/ \E free \in BOOLEAN : Listens(free)
  \/ \E t \in AllTeams : Edit(t)
  \/ \E r \in repeats : Due(r)
  \/ \E j \in queue : Take(j) \/ Completes(j) \/ JobFails(j)
  \/ CleaningDue \/ Maintains \/ ReadsRepeats \/ PassEnds
  \/ \E r \in pass.found, well \in BOOLEAN : RemovesRepeat(r, well)

ScheduleSpec == ScheduleInit /\ [][ScheduleNext]_schedule

-----------------------------------------------------------------------------
\* A server that is up polls every team it found at its start, with the interval
\* it has, and every league, except for teams stored or deleted since and for
\* what a failure left out: no reconciliation, begun before a restart or in the
\* middle of the start, takes their jobs away (scheduleLiveTeamJobs,
\* reconcileRepeatableScoresJobs).
Polled ==
  /\ \A t \in (teams \ doubt) : [id |-> TeamJob(t), every |-> interval] \in repeats
  /\ \A l \in LeagueNames \ doubt : [id |-> FeaturedJob(l), every |-> interval] \in repeats

\* A reconciliation that met no failure leaves no job with another interval than
\* the one configured, as its comment says.  The code looks at the ids alone.
IntervalsFollowed ==
  [][pass.at = "removes" /\ pass'.at = "none" /\ pass.sure /\ server.phase = "serving"
     => \A r \in repeats : r.every = interval]_schedule

=============================================================================
