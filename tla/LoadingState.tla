---------------------------- MODULE LoadingState ----------------------------
(***************************************************************************)
(* The loading operations of a page: useLoadingState.ts.  An operation     *)
(* that starts is shown as loading until it is stopped, fails, or runs     *)
(* into the maximal time; one that ended well is removed a second later.   *)
(*                                                                         *)
(* Timers are numbered by the call that set them.  The hook remembers one  *)
(* timeout and one progress interval per operation; those it forgot, since *)
(* a second start does not clear the first one's, go on running.           *)
(***************************************************************************)
EXTENDS Integers, Sequences, SequencesExt

CONSTANTS
  Ids,         \* operations
  MaxCalls     \* bound: operations started, stopped or failed by callers

VARIABLES
  operations,  \* records [id, loading, error], in the order of their starts
  clearing,    \* ids whose removal is timed
  timeouts,    \* timeouts that run: <<id, call>>
  kept,        \* id -> the call whose timeout the hook remembers, or 0
  ticking,     \* progress intervals that run: <<id, call>>
  keptTick,    \* id -> the call whose interval the hook remembers, or 0
  calls, shown
loads == <<operations, clearing, timeouts, kept, ticking, keptTick, calls, shown>>

LoadsInit ==
  /\ operations = <<>> /\ clearing = {} /\ timeouts = {} /\ ticking = {}
  /\ kept = [i \in Ids |-> 0] /\ keptTick = [i \in Ids |-> 0]
  /\ calls = 0 /\ shown = TRUE

LoadsTypeOK ==
  /\ \A o \in ToSet(operations) : o \in [id : Ids, loading : BOOLEAN, error : BOOLEAN]
  /\ \A i, j \in DOMAIN operations : operations[i].id = operations[j].id => i = j
  /\ clearing \subseteq Ids
  /\ timeouts \cup ticking \subseteq Ids \X (1..MaxCalls)
  /\ kept \in [Ids -> 0..MaxCalls] /\ keptTick \in [Ids -> 0..MaxCalls]

Has(id) == \E o \in ToSet(operations) : o.id = id
Loading == SelectSeq(operations, LAMBDA o : o.loading)

Ended(id, failed) ==
  [i \in DOMAIN operations |->
     IF operations[i].id = id
     THEN [operations[i] EXCEPT !.loading = FALSE, !.error = @ \/ failed]
     ELSE operations[i]]
Stopped(running, remembered, id) == running \ {<<id, remembered[id]>>}

\* Bug: a timeout that is still remembered is not set again.
StartLoadingBug(id) ==
  /\ shown /\ calls < MaxCalls /\ calls' = calls + 1
  /\ clearing' = clearing \ {id}
  /\ operations' = Append(SelectSeq(operations, LAMBDA o : o.id # id),
                          [id |-> id, loading |-> TRUE, error |-> FALSE])
  /\ timeouts' = IF kept[id] # 0 THEN timeouts ELSE timeouts \cup {<<id, calls'>>}
  /\ kept' = IF kept[id] # 0 THEN kept ELSE [kept EXCEPT ![id] = calls']
  /\ ticking' = ticking \cup {<<id, calls'>>} /\ keptTick' = [keptTick EXCEPT ![id] = calls']
  /\ UNCHANGED shown

StartLoading(id) ==
  /\ shown /\ calls < MaxCalls /\ calls' = calls + 1
  /\ clearing' = clearing \ {id}
  /\ operations' = Append(SelectSeq(operations, LAMBDA o : o.id # id),
                          [id |-> id, loading |-> TRUE, error |-> FALSE])
  /\ timeouts' = timeouts \cup {<<id, calls'>>} /\ kept' = [kept EXCEPT ![id] = calls']
  /\ ticking' = ticking \cup {<<id, calls'>>} /\ keptTick' = [keptTick EXCEPT ![id] = calls']
  /\ UNCHANGED shown

\* Without an id: that of the first operation that loads.
StopLoading(id) ==
  /\ shown /\ calls < MaxCalls /\ calls' = calls + 1
  /\ clearing' = clearing \ {id}
  /\ timeouts' = Stopped(timeouts, kept, id) /\ kept' = [kept EXCEPT ![id] = 0]
  /\ ticking' = Stopped(ticking, keptTick, id) /\ keptTick' = [keptTick EXCEPT ![id] = 0]
  /\ operations' = Ended(id, FALSE)
  /\ UNCHANGED shown

\* setError leaves the timeout running.
SetError(id) ==
  /\ shown /\ calls < MaxCalls /\ calls' = calls + 1
  /\ clearing' = clearing \ {id}
  /\ ticking' = Stopped(ticking, keptTick, id) /\ keptTick' = [keptTick EXCEPT ![id] = 0]
  /\ operations' = Ended(id, TRUE)
  /\ UNCHANGED <<timeouts, kept, shown>>

\* An operation that still loads, whichever start set the timeout, has failed.
TimesOut(t) ==
  /\ timeouts' = timeouts \ {t}
  /\ operations' = IF \E o \in ToSet(Loading) : o.id = t[1] THEN Ended(t[1], TRUE)
                                                            ELSE operations
  /\ UNCHANGED <<clearing, kept, ticking, keptTick, calls, shown>>

\* The effect that times the removal of what ended well, and the removal.
TimeRemoval ==
  LET done == {o.id : o \in {p \in ToSet(operations) : ~p.loading /\ ~p.error}}
  IN  /\ shown /\ ~(done \subseteq clearing)
      /\ clearing' = clearing \cup done
      /\ UNCHANGED <<operations, timeouts, kept, ticking, keptTick, calls, shown>>
RemoveEnded(id) ==
  /\ id \in clearing /\ clearing' = clearing \ {id}
  /\ operations' = SelectSeq(operations, LAMBDA o : o.id # id)
  /\ UNCHANGED <<timeouts, kept, ticking, keptTick, calls, shown>>

\* What the hook remembers is stopped, what it forgot is not.
DropTimers ==
  /\ clearing' = {}
  /\ timeouts' = {t \in timeouts : kept[t[1]] # t[2]}
  /\ ticking' = {t \in ticking : keptTick[t[1]] # t[2]}
ClearAll ==
  /\ shown /\ DropTimers
  /\ operations' = <<>>
  /\ kept' = [i \in Ids |-> 0] /\ keptTick' = [i \in Ids |-> 0]
  /\ UNCHANGED <<calls, shown>>
Leave ==
  /\ shown /\ shown' = FALSE /\ DropTimers
  /\ UNCHANGED <<operations, kept, keptTick, calls>>

LoadsNext ==
  \/ \E id \in Ids : StartLoading(id) \/ RemoveEnded(id)
  \/ \E id \in Ids : Has(id) /\ (StopLoading(id) \/ SetError(id))
  \/ \E t \in timeouts : TimesOut(t)
  \/ TimeRemoval \/ ClearAll \/ Leave

LoadsFairness ==
  /\ WF_loads(\E t \in timeouts : TimesOut(t))
  /\ WF_loads(TimeRemoval) /\ WF_loads(\E id \in Ids : RemoveEnded(id))

-----------------------------------------------------------------------------
\* What the page shows of an operation that did not fail.
Busy(id) == shown /\ \E o \in ToSet(operations) : o.id = id /\ ~o.error
(***************************************************************************)
(* No loading is shown for ever.  However starts, stops, errors, timeouts  *)
(* and removals of the same operation fall together, it ends in an error   *)
(* or is removed, even when nobody ever stops it.                          *)
(***************************************************************************)
LoadingEnds == \A id \in Ids : Busy(id) ~> ~Busy(id)
=============================================================================
