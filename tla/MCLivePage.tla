----------------------------- MODULE MCLivePage -----------------------------
(***************************************************************************)
(* The connection of a page and the mechanisms that keep it live, one at a *)
(* time: in each mode one of them moves and the others stay in a state in  *)
(* which nothing of theirs is due.  The connection has two sockets, so     *)
(* that the events of one that was replaced meet the next one.             *)
(***************************************************************************)
EXTENDS WebSocketClient, LiveScores, LoadingState

MCAudiences == {{}, {"hook"}, {"context"}, {"service"}}

MCMessages == {[key |-> k, type |-> "score"] : k \in 1..4}
              \cup {[key |-> 1, type |-> "status"]}

CONSTANT PageModes
VARIABLE mode
page == <<mode, vars, context, live, feed, loads>>

PageInit ==
  /\ mode \in PageModes
  /\ Init /\ ContextInit /\ FeedInit /\ LoadsInit
  /\ mode # "context" => signedIn
  /\ \/ mode = "live" /\ LiveInit
     \/ /\ mode # "live"    \* no scores on the page: `fetch' is none of its values
        /\ board = [s \in LiveSports |-> 0]
        /\ selected = First /\ debounced = First
        /\ query = [s \in LiveSports |-> [NoQuery EXCEPT !.data = 0, !.fetch = NoData]]
        /\ wire = [l \in Listeners |-> <<>>]
        /\ scores = {} /\ refresh = NoSport /\ fails = 0 /\ acts = 0

PageNext ==
  /\ UNCHANGED mode
  /\ \/ mode = "socket" /\ Next /\ UNCHANGED <<context, live, feed, loads>>
     \/ /\ mode = "context" /\ ContextNext /\ UNCHANGED <<live, feed, loads>>
        /\ waiting' < MaxWaiting
        /\ connectionTimer'.orphans = 0 /\ reconnectTimer'.orphans = 0
     \/ mode = "live" /\ LiveNext /\ UNCHANGED <<vars, context, feed, loads>>
     \/ mode = "feed" /\ FeedNext /\ UNCHANGED <<vars, context, live, loads>>
     \/ mode = "loads" /\ LoadsNext /\ UNCHANGED <<vars, context, live, feed>>

PageSpec ==
  PageInit /\ [][PageNext]_page /\ Fairness /\ LiveFairness /\ LoadsFairness
=============================================================================
