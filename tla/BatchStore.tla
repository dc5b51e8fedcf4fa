------------------------------ MODULE BatchStore ------------------------------
(***************************************************************************)
(* What executeBatch (server/utils/transactionUtils.ts) promises of a bulk *)
(* operation: its items are stored in order, batch by batch, each batch    *)
(* entirely or not at all and never twice; it only reports success when    *)
(* every item is stored.  A failure may leave any number of batches        *)
(* behind, one more than the caller was told of included.                  *)
(***************************************************************************)
EXTENDS Naturals

CONSTANTS Calls, Items, BatchSize

VARIABLES stored,   \* how often each item of a call is stored
          outcome   \* what the caller knows

vars == <<stored, outcome>>

\* The first n items of c, each once.
Prefix(c, n) == [i \in 1..Items[c] |-> IF i <= n THEN 1 ELSE 0]

\* The end of the batch that follows the first n items of c.
BatchEnd(c, n) == IF n + BatchSize < Items[c] THEN n + BatchSize ELSE Items[c]

Init ==
  /\ stored = [c \in Calls |-> Prefix(c, 0)]
  /\ outcome = [c \in Calls |-> "running"]

Stays(c) == stored'[c] = stored[c]

\* The next batch of c is stored.
Stores(c) ==
  \E n \in 0..Items[c] :
    /\ stored[c] = Prefix(c, n)
    /\ stored'[c] = Prefix(c, BatchEnd(c, n))

\* What happens to one call: several may be cut off by one crash.
Moves(c) ==
  \/ Stays(c) /\ outcome'[c] = outcome[c]
  \/ /\ outcome[c] = "running"
     /\ Stays(c) \/ Stores(c)
     /\ \/ outcome'[c] \in {"running", "failed"}
        \/ outcome'[c] = "done" /\ stored'[c] = Prefix(c, Items[c])

Next == \A c \in Calls : Moves(c)

Spec == Init /\ [][Next]_vars

=============================================================================
