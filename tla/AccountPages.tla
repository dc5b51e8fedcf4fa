---------------------------- MODULE AccountPages ----------------------------
(***************************************************************************)
(* The browser in front of Api: AuthContext, ProtectedRoute (App.tsx), the *)
(* pages login, onboarding and settings, and the profile that React Query  *)
(* caches for ever (queryClient.ts: staleTime Infinity, no retries).       *)
(* Firebase keeps who is signed in, across reloads; what the server knows  *)
(* of them is the profile, which the pages make in several requests.       *)
(***************************************************************************)
EXTENDS Api

CONSTANTS Uids,      \* who may sign up
          Name, SportList, TeamList, NewTeams   \* what the user enters
ASSUME PagesAssumption ==
  /\ Null \notin Uids \cup Requests
  /\ IsFiniteSet(TeamList) /\ IsFiniteSet(NewTeams)

VARIABLES
  accounts,  \* the accounts of Firebase
  current,   \* auth.currentUser
  page       \* what is lost by loading the page again
pages == <<accounts, current, page>>

Forms == {"login", "onboarding", "name", "teams"}
NewPage(at) == [at |-> at, user |-> Null, ready |-> FALSE, signUpFlow |-> FALSE,
                status |-> "none", profile |-> Null, query |-> Null,
                busy |-> [f \in Forms |-> Null], finishing |-> FALSE]

PagesInit(known) ==
  /\ accounts = known
  /\ current = Null
  /\ page = NewPage("login")

Listens(r) == r = page.query \/ \E f \in Forms : page.busy[f] = r
Settled == page.status \in {"row", "missing", "error"}

\* Bug: whoever has no profile has nothing to complete.
BugNeedsOnboarding == page.status = "row" /\ ~page.profile.done
\* ProtectedRoute takes every error for a missing profile.
NeedsOnboarding == page.status = "row" => ~page.profile.done
Shows(at) == page.at = at /\ page.user # Null /\ page.ready /\ Settled
Protected == {"onboarding", "home", "settings"}

-----------------------------------------------------------------------------
\* A response reaches the page that waits for it, or nobody.
Receives(r, next) ==
  /\ call[r].pc = "over"
  /\ call' = [call EXCEPT ![r] = NoCall]
  /\ page' = next
  /\ UNCHANGED <<store, db, serial, fails, accounts>>
Forgotten(r) == ~Listens(r) /\ Receives(r, page) /\ UNCHANGED current

Sends(r, ask, next) ==
  /\ Arrives(r, ask)
  /\ page' = next

\* AuthContext.refresh at the start.
Boots ==
  /\ ~page.ready
  /\ page' = [page EXCEPT !.ready = TRUE, !.user = current]
  /\ UNCHANGED <<api, accounts, current>>

\* The redirects of ProtectedRoute and of the login page.
Redirects ==
  /\ \E next \in Protected \cup {"login"} :
       /\ \/ /\ page.at \in Protected /\ page.user = Null
             /\ page.at = "onboarding" => page.ready
             /\ next = "login"
          \/ /\ page.at = "login" /\ page.user # Null /\ page.ready /\ ~page.signUpFlow
             /\ next = "home"
          \/ /\ page.at \in Protected \ {"onboarding"} /\ Shows(page.at) /\ NeedsOnboarding
             /\ next = "onboarding"
          \/ /\ Shows("onboarding") /\ ~NeedsOnboarding
             /\ next = "home"
       /\ page' = [page EXCEPT !.at = next]
  /\ UNCHANGED <<api, accounts, current>>

\* The profile is fetched once; after an error again by a page that mounts.
Fetches(r) ==
  /\ page.user # Null /\ page.query = Null
  /\ page.status = "none" \/ (page.status \in {"missing", "error"} /\ page.at \in Protected)
  /\ Sends(r, [op |-> "read", by |-> page.user, who |-> page.user],
           [page EXCEPT !.status = "loading", !.query = r])
  /\ UNCHANGED <<accounts, current>>

Fetched(r) ==
  /\ r = page.query
  /\ Receives(r, IF call[r].status = 200
                 THEN [page EXCEPT !.status = "row", !.profile = call[r].body, !.query = Null]
                 ELSE [page EXCEPT !.query = Null,
                                   !.status = IF call[r].status = 404 THEN "missing" ELSE "error"])
  /\ UNCHANGED current

-----------------------------------------------------------------------------
\* login.tsx

SignsIn(uid) ==
  /\ page.at = "login" /\ page.user = Null /\ page.busy["login"] = Null
  /\ uid \in accounts
  /\ current' = uid
  /\ page' = [page EXCEPT !.user = uid, !.ready = TRUE, !.at = "home"]
  /\ UNCHANGED <<api, accounts>>

\* The account of Firebase comes first, the profile after it.
SignsUp(r, uid) ==
  /\ page.at = "login" /\ page.user = Null /\ page.busy["login"] = Null
  /\ uid \notin accounts
  /\ accounts' = accounts \cup {uid}
  /\ current' = uid
  /\ Sends(r, [op |-> "upsert", by |-> uid, who |-> uid,
               data |-> [name |-> Name, sports |-> <<>>, teams |-> {}]],
           [page EXCEPT !.signUpFlow = TRUE, !.busy["login"] = r])

SignedUp(r) ==
  /\ r = page.busy["login"]
  /\ Receives(r, IF call[r].status = 200
                 THEN [page EXCEPT !.busy["login"] = Null, !.user = current, !.ready = TRUE,
                                   !.at = "onboarding"]
                 ELSE [page EXCEPT !.busy["login"] = Null])
  /\ UNCHANGED current

-----------------------------------------------------------------------------
\* onboarding.tsx: handleFinish

Finishes(r) ==
  /\ Shows("onboarding") /\ NeedsOnboarding
  /\ page.busy["onboarding"] = Null /\ ~page.finishing
  /\ Sends(r, [op |-> "upsert", by |-> page.user, who |-> page.user,
               data |-> [sports |-> SportList, teams |-> TeamList]],
           [page EXCEPT !.busy["onboarding"] = r])
  /\ UNCHANGED <<accounts, current>>

PreferencesSaved(r) ==
  /\ r = page.busy["onboarding"] /\ ~page.finishing
  /\ Receives(r, [page EXCEPT !.busy["onboarding"] = Null, !.finishing = call[r].status = 200])
  /\ UNCHANGED current

Completes(r) ==
  /\ page.finishing /\ page.busy["onboarding"] = Null
  /\ Sends(r, [op |-> "onboarded", by |-> page.user, who |-> page.user, data |-> [done |-> TRUE]],
           [page EXCEPT !.busy["onboarding"] = r])
  /\ UNCHANGED <<accounts, current>>

Completed(r) ==
  /\ r = page.busy["onboarding"] /\ page.finishing
  /\ LET over == [page EXCEPT !.busy["onboarding"] = Null, !.finishing = FALSE]
     IN Receives(r, IF call[r].status = 200
                    THEN [over EXCEPT !.status = "row", !.profile = call[r].body, !.at = "home"]
                    ELSE over)
  /\ UNCHANGED current

-----------------------------------------------------------------------------
\* settings.tsx: each part of the profile has its own button.

Saves(r) ==
  /\ Shows("settings") /\ ~NeedsOnboarding
  /\ \E part \in {"name", "teams"} :
       /\ page.busy[part] = Null
       /\ Sends(r, [op |-> "patch", by |-> page.user, who |-> page.user,
                    data |-> IF part = "name" THEN [name |-> Name] ELSE [teams |-> NewTeams]],
                [page EXCEPT !.busy[part] = r])
  /\ UNCHANGED <<accounts, current>>

\* The answers may come in another order than the edits were done.
Saved(r) ==
  /\ \E part \in {"name", "teams"} :
       /\ r = page.busy[part]
       /\ Receives(r, IF call[r].status = 200
                      THEN [page EXCEPT !.busy[part] = Null, !.status = "row", !.profile = call[r].body]
                      ELSE [page EXCEPT !.busy[part] = Null])
  /\ UNCHANGED current

Visits ==
  /\ \E at \in {"home", "settings"} :
       /\ Shows(at) /\ ~NeedsOnboarding
       /\ page' = [page EXCEPT !.at = CHOOSE other \in {"home", "settings"} : other # at]
  /\ UNCHANGED <<api, accounts, current>>

\* signOut ends by loading the login page.
SignsOut ==
  /\ page.user # Null
  /\ current' = Null
  /\ page' = NewPage("login")
  /\ UNCHANGED <<api, accounts>>

Reloads ==
  /\ page.ready
  /\ page' = NewPage(page.at)
  /\ UNCHANGED <<api, accounts, current>>

PagesNext ==
  \/ Boots \/ Redirects \/ Visits \/ SignsOut \/ Reloads
  \/ \E uid \in Uids : SignsIn(uid) \/ \E r \in Requests : SignsUp(r, uid)
  \/ \E r \in Requests :
       \/ Fetches(r) \/ Fetched(r) \/ Forgotten(r)
       \/ SignedUp(r) \/ Finishes(r) \/ PreferencesSaved(r) \/ Completes(r) \/ Completed(r)
       \/ Saves(r) \/ Saved(r)
       \/ Serves(r) /\ UNCHANGED pages

PagesSpec ==
  /\ ApiInit /\ \E known \in SUBSET Uids : PagesInit(known)
  /\ [][PagesNext]_<<api, pages>>

-----------------------------------------------------------------------------
(***************************************************************************)
(* Whoever is shown the home page or the settings has finished onboarding  *)
(* as far as the server knows, too: with a lost answer, a write that was   *)
(* done but failed, or a page that is left half-way, the cache is never    *)
(* ahead of the table (ProtectedRoute and handleFinish).                   *)
(***************************************************************************)
HomeIsOnboarded ==
  \A at \in {"home", "settings"} :
    (Shows(at) /\ ~NeedsOnboarding)
      => page.user \in DOMAIN db.profiles /\ P!GetUserProfile(db, page.user).done

(***************************************************************************)
(* ProtectedRoute says that an error other than 404 does not mean that     *)
(* there is no profile (App.tsx: "other errors are considered recoverable  *)
(* later"): it sends nobody to onboarding who has been there.              *)
(***************************************************************************)
ErrorsRecoverable ==
  (Shows("onboarding") /\ page.status = "error")
    => LET profile == P!GetUserProfile(db, page.user) IN profile = Null \/ ~profile.done
=============================================================================
