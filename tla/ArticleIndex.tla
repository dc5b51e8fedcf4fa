---------------------------- MODULE ArticleIndex ----------------------------
(***************************************************************************)
(* Search and deduplication of articles: the tokenizer, BM25Index and      *)
(* BM25IndexManager of server/utils/bm25, MinHash and Deduplicator of      *)
(* server/utils/deduplication, over the articles and the index rows of a   *)
(* storage.  Several callers use the one manager; each await is a place    *)
(* where the others run.                                                   *)
(*                                                                         *)
(* A text is a sequence of symbols, each of which stands for a word to the *)
(* tokenizer and for a character to MinHash.  The index is an object: a    *)
(* rebuild fills the one it made, even when the manager has another by     *)
(* then.  A score is positive as soon as a term occurs, so only who is     *)
(* found is modelled, not the order.                                       *)
(***************************************************************************)
EXTENDS Naturals, FiniteSets, Sequences, SequencesExt

CONSTANTS
  Callers,      \* concurrent users of the manager
  Articles, TeamIds,
  TeamOf,       \* the team of each article
  Texts,        \* sequences of symbols, which are numbers
  Kept,         \* the symbols the tokenizer keeps: no stop word, length 2 to 50
  ShingleSize, NumHashes,
  MaxJobs,      \* bound on the calls
  MaxPosts,     \* bound on articles published, edited or retracted
  MaxFailures,  \* bound on storage calls that fail (PostgreSQL only)
  Unreadable    \* a minHash that does not parse to a signature

VARIABLES
  kind,         \* "mem" or "pg", the storage
  news,         \* the articles stored, oldest first
  rows,         \* team -> the rows of bm25_indexes, oldest first
  index,        \* team -> the manager's index
  made,         \* team -> how many index objects it had
  work,         \* what each caller waits for
  jobs, posts, failures
library == <<kind, news, rows, index, made, work, jobs, posts, failures>>

-----------------------------------------------------------------------------
(* The index.                                                              *)

\* The tokens of a text, but for their order, and how often one of them is there.
Terms(text) == ToSet(text) \cap Kept
Frequency(term, text) == Cardinality({i \in DOMAIN text : text[i] = term})

EmptyIndex == [docs |-> <<>>, postings |-> <<>>, total |-> 0]

WithoutDocument(ix, id) ==
  LET terms == Terms(ix.docs[id])
      left  == DOMAIN ix.docs \ {id}
  IN IF id \notin DOMAIN ix.docs THEN ix ELSE
     [docs |-> [d \in left |-> ix.docs[d]],
      postings |-> [t \in {u \in DOMAIN ix.postings : u \in terms => DOMAIN ix.postings[u] # {id}} |->
                      IF t \in terms
                      THEN [d \in DOMAIN ix.postings[t] \ {id} |-> ix.postings[t][d]]
                      ELSE ix.postings[t]],
      total |-> Cardinality(left)]

\* Bug: a document that is replaced is not removed first.
BugWithDocument(ix, id, text) ==
  LET terms == Terms(text)
      docs == [d \in DOMAIN ix.docs \cup {id} |-> IF d = id THEN text ELSE ix.docs[d]]
      before(t) == IF t \in DOMAIN ix.postings THEN ix.postings[t] ELSE <<>>
  IN [docs |-> docs,
      postings |-> [t \in DOMAIN ix.postings \cup terms |->
                      IF t \notin terms THEN before(t) ELSE
                      [d \in DOMAIN before(t) \cup {id} |->
                         IF d = id THEN Frequency(t, text) ELSE before(t)[d]]],
      total |-> Cardinality(DOMAIN docs)]

WithDocument(ix, id, text) ==
  LET old == WithoutDocument(ix, id)
      terms == Terms(text)
      docs == [d \in DOMAIN old.docs \cup {id} |-> IF d = id THEN text ELSE old.docs[d]]
      before(t) == IF t \in DOMAIN old.postings THEN old.postings[t] ELSE <<>>
  IN [docs |-> docs,
      postings |-> [t \in DOMAIN old.postings \cup terms |->
                      IF t \notin terms THEN before(t) ELSE
                      [d \in DOMAIN before(t) \cup {id} |->
                         IF d = id THEN Frequency(t, text) ELSE before(t)[d]]],
      total |-> Cardinality(DOMAIN docs)]

\* ix with the articles that are stored for the team, one after the other.
Filled(ix, team) ==
  LET with[n \in 0..Len(news)] ==
        IF n = 0 THEN ix
        ELSE IF news[n].team = team /\ ~news[n].deleted
             THEN WithDocument(with[n - 1], news[n].id, news[n].text)
             ELSE with[n - 1]
  IN  with[Len(news)]

\* The documents with a positive score.
Scored(ix, query) ==
  {d \in DOMAIN ix.docs :
     \E t \in Terms(query) : t \in DOMAIN ix.postings /\ d \in DOMAIN ix.postings[t]}

\* What search may return: the first `limit' of them, by scores that are not
\* modelled.
Found(ix, query, limit) ==
  LET scored == Scored(ix, query)
  IN  IF Cardinality(scored) <= limit
        THEN {scored} ELSE {top \in SUBSET scored : Cardinality(top) = limit}

-----------------------------------------------------------------------------
(* MinHash.  The code's 32-bit arithmetic cannot overflow on shingles of   *)
(* three characters, so its truncation and absolute value change nothing.  *)

Shingles(text) ==
  {SubSeq(text, i, i + ShingleSize - 1) : i \in 1..(Len(text) + 1 - ShingleSize)}

Hash(shingle, i) ==
  LET h[n \in 0..Len(shingle)] == IF n = 0 THEN 42 + i ELSE 31 * h[n - 1] + shingle[n]
  IN h[Len(shingle)]

Least(S) == CHOOSE x \in S : \A y \in S : x <= y

Signature(text) ==
  [i \in 1..NumHashes |->
     IF Shingles(text) = {} THEN 0 ELSE Least({Hash(s, i - 1) : s \in Shingles(text)})]

\* similarity reaches the threshold, 0.85.
Similar(sig1, sig2) ==
  100 * Cardinality({i \in 1..NumHashes : sig1[i] = sig2[i]}) >= 85 * NumHashes

\* A text's signature is none of the values that no signature has.
ASSUME SearchAssumption ==
  /\ NumHashes \in Nat \ {0}
  /\ \A text \in Texts : Signature(text) # Unreadable

Recent(team) ==
  Reverse(SelectSeq(news, LAMBDA a : a.team = team /\ ~a.old /\ ~a.deleted))

\* Bug: a signature that cannot be read ends the search instead of being skipped.
BugMatches(articles, sig) ==
  \E i \in DOMAIN articles :
    /\ articles[i].minHash # <<>> /\ articles[i].minHash # Unreadable
    /\ \A j \in 1..i : articles[j].minHash # Unreadable
    /\ Similar(sig, articles[i].minHash)

Matches(articles, sig) ==
  \E a \in ToSet(articles) :
    /\ a.minHash # <<>> /\ a.minHash # Unreadable
    /\ Similar(sig, a.minHash)

-----------------------------------------------------------------------------
(* Storage calls.                                                          *)

Row == [rebuild |-> FALSE, total |-> 0, queries |-> 0]

\* The row a read may return, if there is one: PostgreSQL promises no order.
Seen(team) ==
  IF kind = "mem" THEN {rows[team][i] : i \in {1} \cap DOMAIN rows[team]} ELSE ToSet(rows[team])

Create(team, row) == rows' = [rows EXCEPT ![team] = Append(@, row)]

UpdateStats(team, field, value) ==
  rows' = [rows EXCEPT ![team] =
    [i \in DOMAIN @ |->
       IF i = 1 \/ kind = "pg" THEN [@[i] EXCEPT ![field] = value] ELSE @[i]]]

Resting == [at |-> "idle", todo |-> <<>>, gen |-> 0, found |-> FALSE, count |-> 0,
         text |-> <<>>, new |-> FALSE]

LibraryInit ==
  /\ kind \in {"mem", "pg"}
  /\ news = <<>>
  /\ rows = [t \in TeamIds |-> <<>>]
  /\ index = [t \in TeamIds |-> EmptyIndex]
  /\ made = [t \in TeamIds |-> 1]
  /\ work = [c \in Callers |-> Resting]
  /\ jobs = 0 /\ posts = 0 /\ failures = 0

Team(c) == Head(work[c].todo)

\* c goes on at the step `at'.
Goes(c, at) == work' = [work EXCEPT ![c].at = at]

\* A call of the manager begins at the step given, for the teams given.
Asks(c, at, teams, count) ==
  /\ work[c].at = "idle" /\ jobs < MaxJobs /\ jobs' = jobs + 1
  /\ work' = [work EXCEPT ![c] = [Resting EXCEPT !.at = at, !.todo = teams, !.count = count]]

\* What is left of c's work after its call for a team has returned or thrown:
\* rebuildAllIndexes goes on with the next team in both cases.
AfterTeam(c) ==
  IF Len(work[c].todo) > 1
  THEN [Resting EXCEPT !.at = "rebuild", !.todo = Tail(work[c].todo)]
  ELSE Resting

\* Whether c's call is a rebuild past its first write, which has a catch clause.
Rebuilding(c) == work[c].gen > 0

\* Where a caller waits for the storage.
Waits(c) ==
  work[c].at \in {"rebuild", "mark", "load", "look", "write", "unmark", "clear", "count", "counted",
                  "check", "sign"}

\* A storage call fails.
Thrown(c) ==
  /\ Waits(c) /\ kind = "pg" /\ failures < MaxFailures /\ failures' = failures + 1
  /\ work' = [work EXCEPT ![c] =
       IF Rebuilding(c) /\ @.at # "clear" THEN [@ EXCEPT !.at = "clear"] ELSE AfterTeam(c)]
  /\ UNCHANGED <<kind, news, rows, index, made, jobs, posts>>

-----------------------------------------------------------------------------
(* BM25IndexManager.                                                       *)

\* addArticle, with an article that was read before.
AddArticle(c, a) ==
  /\ LET ix == WithDocument(index[a.team], a.id, a.text) IN
     /\ index' = [index EXCEPT ![a.team] = ix]
     /\ Asks(c, "look", <<a.team>>, ix.total)
  /\ UNCHANGED <<kind, news, rows, made, posts, failures>>

RemoveDocument(c, a) ==
  /\ LET ix == WithoutDocument(index[a.team], a.id) IN
     /\ index' = [index EXCEPT ![a.team] = ix]
     /\ Asks(c, "look", <<a.team>>, ix.total)
  /\ UNCHANGED <<kind, news, rows, made, posts, failures>>

\* updateIndexMetadata writes the statistics it took before it looked.
LooksForRow(c) ==
  /\ work[c].at = "look"
  /\ work' = [work EXCEPT ![c].at = "write", ![c].found = Seen(Team(c)) # {}]
  /\ UNCHANGED <<kind, news, rows, index, made, jobs, posts, failures>>

WritesMetadata(c) ==
  /\ work[c].at = "write"
  /\ IF work[c].found THEN UpdateStats(Team(c), "total", work[c].count)
     ELSE Create(Team(c), [Row EXCEPT !.total = work[c].count])
  /\ work' = [work EXCEPT ![c] = IF Rebuilding(c) THEN [@ EXCEPT !.at = "unmark"] ELSE Resting]
  /\ UNCHANGED <<kind, news, index, made, jobs, posts, failures>>

\* search answers at once; its statistics are updated behind its back.
Searches(c, team) ==
  /\ Asks(c, "count", <<team>>, 0)
  /\ UNCHANGED <<kind, news, rows, index, made, posts, failures>>

CountsQuery(c) ==
  /\ work[c].at = "count"
  /\ \/ Seen(Team(c)) = {} /\ work' = [work EXCEPT ![c] = Resting]
     \/ \E row \in Seen(Team(c)) :
          work' = [work EXCEPT ![c].at = "counted", ![c].count = row.queries + 1]
  /\ UNCHANGED <<kind, news, rows, index, made, jobs, posts, failures>>

QueryCounted(c) ==
  /\ work[c].at = "counted"
  /\ UpdateStats(Team(c), "queries", work[c].count)
  /\ work' = [work EXCEPT ![c] = Resting]
  /\ UNCHANGED <<kind, news, index, made, jobs, posts, failures>>

\* rebuildIndex of one team, or rebuildAllIndexes.
StartsRebuild(c, teams) ==
  /\ Asks(c, "rebuild", teams, 0)
  /\ UNCHANGED <<kind, news, rows, index, made, posts, failures>>

FindsRow(c) ==
  /\ work[c].at = "rebuild"
  /\ work' = [work EXCEPT ![c].at = "mark", ![c].found = Seen(Team(c)) # {}]
  /\ UNCHANGED <<kind, news, rows, index, made, jobs, posts, failures>>

\* The team gets a new, empty index, and its articles are asked for.
MarksRebuild(c) ==
  /\ work[c].at = "mark"
  /\ IF work[c].found THEN UpdateStats(Team(c), "rebuild", TRUE)
     ELSE Create(Team(c), [Row EXCEPT !.rebuild = TRUE])
  /\ index' = [index EXCEPT ![Team(c)] = EmptyIndex]
  /\ made' = [made EXCEPT ![Team(c)] = @ + 1]
  /\ work' = [work EXCEPT ![c].at = "load", ![c].gen = made'[Team(c)]]
  /\ UNCHANGED <<kind, news, jobs, posts, failures>>

LoadsArticles(c) ==
  /\ work[c].at = "load"
  /\ index' = IF work[c].gen = made[Team(c)]
               THEN [index EXCEPT ![Team(c)] = Filled(@, Team(c))] ELSE index
  /\ work' = [work EXCEPT ![c].at = "look", ![c].count = index'[Team(c)].total]
  /\ UNCHANGED <<kind, news, rows, made, jobs, posts, failures>>

FinishesRebuild(c) ==
  /\ work[c].at = "unmark"
  /\ UpdateStats(Team(c), "rebuild", FALSE)
  /\ work' = [work EXCEPT ![c] = AfterTeam(c)]
  /\ UNCHANGED <<kind, news, index, made, jobs, posts, failures>>

\* The catch clause; the error is thrown on.
FailsRebuild(c) ==
  /\ work[c].at = "clear"
  /\ UpdateStats(Team(c), "rebuild", FALSE)
  /\ work' = [work EXCEPT ![c] = AfterTeam(c)]
  /\ UNCHANGED <<kind, news, index, made, jobs, posts, failures>>

\* clearIndex empties the index in place, clearAll also forgets it.
ClearIndex(team) ==
  /\ jobs < MaxJobs /\ jobs' = jobs + 1
  /\ index' = [index EXCEPT ![team] = EmptyIndex]
  /\ UNCHANGED <<kind, news, rows, made, work, posts, failures>>

ClearAll ==
  /\ jobs < MaxJobs /\ jobs' = jobs + 1
  /\ index' = [t \in TeamIds |-> EmptyIndex]
  /\ made' = [t \in TeamIds |-> made[t] + 1]
  /\ UNCHANGED <<kind, news, rows, work, posts, failures>>

-----------------------------------------------------------------------------
(* Deduplicator.                                                           *)

Checks(c, team, text) ==
  /\ work[c].at = "idle" /\ jobs < MaxJobs /\ jobs' = jobs + 1
  /\ work' = [work EXCEPT ![c] = [Resting EXCEPT !.at = "check", !.todo = <<team>>, !.text = text]]
  /\ UNCHANGED <<kind, news, rows, index, made, posts, failures>>

\* checkDuplicate with the recent articles; when they cannot be read it answers
\* "no duplicate" too (Thrown).
Answers(c) ==
  /\ work[c].at = "check"
  /\ work' = [work EXCEPT ![c] =
       [Resting EXCEPT !.new = ~Matches(Recent(Team(c)), Signature(work[c].text))]]
  /\ UNCHANGED <<kind, news, rows, index, made, jobs, posts, failures>>

\* generateSignature, with the content an article had.
SignsArticle(c, a) ==
  /\ work[c].at = "idle" /\ jobs < MaxJobs /\ jobs' = jobs + 1
  /\ work' = [work EXCEPT ![c] =
       [Resting EXCEPT !.at = "sign", !.todo = <<a.id>>, !.text = a.text]]
  /\ UNCHANGED <<kind, news, rows, index, made, posts, failures>>

ArticleSigned(c) ==
  /\ work[c].at = "sign"
  /\ news' = [i \in DOMAIN news |->
       IF news[i].id = Head(work[c].todo)
       THEN [news[i] EXCEPT !.minHash = Signature(work[c].text)] ELSE news[i]]
  /\ work' = [work EXCEPT ![c] = Resting]
  /\ UNCHANGED <<kind, rows, index, made, jobs, posts, failures>>

-----------------------------------------------------------------------------
(* The articles, which others write.                                       *)

Posts ==
  /\ posts < MaxPosts /\ posts' = posts + 1
  /\ \/ \E a \in Articles, text \in Texts, sig \in {<<>>, Unreadable} :
          /\ \A i \in DOMAIN news : news[i].id # a
          /\ news' = Append(news, [id |-> a, team |-> TeamOf[a], text |-> text, minHash |-> sig,
                                   old |-> FALSE, deleted |-> FALSE])
     \/ \E i \in DOMAIN news : \/ news' = [news EXCEPT ![i].deleted = TRUE]
                               \/ news' = [news EXCEPT ![i].old = TRUE]
                               \/ \E text \in Texts : news' = [news EXCEPT ![i].text = text]
  /\ UNCHANGED <<kind, rows, index, made, work, jobs, failures>>

SearchNext ==
  \/ Posts \/ ClearAll
  \/ \E t \in TeamIds : ClearIndex(t)
  \/ \E c \in Callers :
       \/ \E a \in ToSet(news) : AddArticle(c, a) \/ RemoveDocument(c, a)
       \/ \E t \in TeamIds : Searches(c, t) \/ StartsRebuild(c, <<t>>)
       \/ StartsRebuild(c, SetToSeq(TeamIds))
       \/ LooksForRow(c) \/ WritesMetadata(c) \/ CountsQuery(c) \/ QueryCounted(c)
       \/ FindsRow(c) \/ MarksRebuild(c) \/ LoadsArticles(c) \/ FinishesRebuild(c) \/ FailsRebuild(c)
       \/ Thrown(c)

DedupNext ==
  \/ Posts
  \/ \E c \in Callers :
       \/ \E a \in ToSet(news) : SignsArticle(c, a)
       \/ \E t \in TeamIds, text \in Texts : Checks(c, t, text)
       \/ Answers(c) \/ ArticleSigned(c) \/ Thrown(c)

\* Who searches and who looks for duplicates use the same articles.
LibrarySpec == LibraryInit /\ [][SearchNext \/ DedupNext]_library

LibraryTypeOK ==
  /\ kind \in {"mem", "pg"}
  /\ \A t \in TeamIds :
       /\ \A r \in ToSet(rows[t]) : r.rebuild \in BOOLEAN /\ r.total \in Nat /\ r.queries \in Nat
       /\ index[t].total = Cardinality(DOMAIN index[t].docs)
  /\ \A c \in Callers : work[c].todo = <<>> <=> work[c].at = "idle"

-----------------------------------------------------------------------------
(* Properties.                                                             *)

\* The documents that contain a term of the query.
Containing(ix, query) ==
  {d \in DOMAIN ix.docs : ToSet(query) \cap ToSet(ix.docs[d]) \cap Kept # {}}

\* A search of a team's index finds documents that contain a term of the query
\* and no other: every one, or as many as its limit if there are more.  It
\* counts each term as often as it occurs in the text the document has now --
\* whatever was added again with another text, removed, rebuilt or cleared
\* before.
FindsWhatIsThere ==
  \A t \in TeamIds : LET ix == index[t] IN
    /\ \A query \in Texts : LET there == Containing(ix, query) IN
         \A limit \in 1..Cardinality(Articles) : \A found \in Found(ix, query, limit) :
           /\ found \subseteq there
           /\ IF Cardinality(there) <= limit THEN found = there ELSE Cardinality(found) = limit
    /\ \A term \in DOMAIN ix.postings :
         ix.postings[term] = [d \in {e \in DOMAIN ix.docs : term \in ToSet(ix.docs[e])} |->
                                Frequency(term, ix.docs[d])]

\* A check that could read the recent articles and calls a text new has seen no
\* signed article of the team with the same text, whatever lies before it in the
\* list, and whatever was published or signed while it waited.
CopiesFound ==
  [][\A c \in Callers :
       work[c].at = "check" /\ work'[c].new =>
         \A a \in ToSet(Recent(Team(c))) :
           a.text = work[c].text => a.minHash # Signature(a.text)]_library

\* A text that is taken for a copy of an article has at least half of the
\* shingles of the two in common with it: the similarity that is compared with
\* the threshold of 0.85 approximates the one of Jaccard, as MinHash's comments
\* say.  (It does not: the hash functions of the code differ by a number added to
\* all hashes, so every one of them picks the same shingle.)
OnlyNearDuplicates ==
  \A c \in Callers : work[c].at = "check" =>
    \A a \in ToSet(Recent(Team(c))) :
      a.minHash = Signature(a.text) /\ Matches(<<a>>, Signature(work[c].text)) =>
        LET mine == Shingles(work[c].text)  its == Shingles(a.text) IN
        2 * Cardinality(mine \cap its) >= Cardinality(mine \cup its)

=============================================================================
