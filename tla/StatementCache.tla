--------------------------- MODULE StatementCache ---------------------------
(***************************************************************************)
(* The FundamentalsCache rows of one ticker (core/cache.py), its Refresh   *)
(* (pipeline/refresh.py) and the nightly prune (pipeline/prune_cache.py).  *)
(*                                                                         *)
(* Coroutines of the API and cron processes ask for a cache key; between   *)
(* the question to FMP and its answer anything happens.  The answer is     *)
(* merged with the row the session of the call loaded before it asked, if  *)
(* it still holds it (the select before the merge finds that instance in   *)
(* the session's identity map and does not refresh it), and written by an  *)
(* upsert in a transaction of its own.  A Refresh marks the history rows   *)
(* stale, deletes the others, fetches them all and stores the score,       *)
(* unless some fetch failed with nothing cached to fall back on.           *)
(*                                                                         *)
(* core/history_merge.py: the one rule by which a fresh answer is merged   *)
(* with the cached history it would replace.                               *)
(*                                                                         *)
(* A body is a whole response.  Its rows map the period of each row to     *)
(* what the row says; FMP sends one row per period, newest first, so the   *)
(* order is left to the periods.  "dated" is false when some row has no    *)
(* date to tell its period by, "usable" when the body is a list of rows    *)
(* at all (and not null or an error object).                               *)
(***************************************************************************)
EXTENDS Integers, FiniteSets

Periods(b) == DOMAIN b.rows
Count(b)   == Cardinality(Periods(b))
IsEmpty(b) == ~b.usable \/ Periods(b) = {}

\* The n newest of a set of periods.
NewestOf(S, n) == {p \in S : Cardinality({q \in S : q > p}) < n}

\* The cached periods that survive: those the answer does not contain, newest first, as
\* far as the longer of the two histories has room for them.
Carried(cached, new) ==
    LET room == IF Count(cached) > Count(new) THEN Count(cached) - Count(new) ELSE 0
    IN  NewestOf(Periods(cached) \ Periods(new), room)

MergeDated(cached, new) ==
    [usable |-> TRUE,
     dated  |-> TRUE,
     rows   |-> [p \in Periods(new) \cup Carried(cached, new) |->
                    IF p \in Periods(new) THEN new.rows[p] ELSE cached.rows[p]]]

\* merge_history.
Merge(cached, new) ==
    IF IsEmpty(cached) THEN new
    ELSE IF IsEmpty(new) THEN cached
    ELSE IF cached.dated /\ new.dated THEN MergeDated(cached, new)
    ELSE IF Count(new) >= Count(cached) THEN new ELSE cached

-----------------------------------------------------------------------------
CONSTANTS HistoryKeys, SnapshotKeys, \* cache keys a score is computed from
          Views,      \* coroutines of the API
          Crons,      \* cron processes that fetch
          None, Failed, Refused,
          Window,     \* rows of a full answer
          MaxEdition, \* bound: quarters FMP publishes
          MaxSwitches \* bound: times the data group is switched

ASSUME Bounds == /\ Window \in Nat \ {0} /\ MaxEdition \in Nat /\ MaxSwitches \in Nat
                 /\ HistoryKeys \cap SnapshotKeys = {} /\ Views \cap Crons = {}

Keys  == HistoryKeys \cup SnapshotKeys
Tasks == Views \cup Crons

VARIABLES edition,  \* the newest quarter FMP knows
          live,     \* whether the keys' data group may make calls
          switches,
          row,      \* the cached row of each key: body, and whether fetched_at is
                    \* within the freshness rule, past it, or INVALIDATED_AT
          task,     \* what each coroutine and process is doing
          doomed,   \* keys of the rows the prune has chosen
          score     \* the stored score: "none", "full", or "degraded" (inputs missing)

vars == <<edition, live, switches, row, task, doomed, score>>

Quarters == 0 .. Window + MaxEdition
Rows     == UNION {[S -> 0 .. MaxEdition] : S \in SUBSET Quarters}
Body     == [usable : BOOLEAN, dated : BOOLEAN, rows : Rows]
Row      == [body : Body, at : {"fresh", "stale", "invalid"}]

\* had: whether there was a row before the await.  loaded: the history the task's session has
\* held since, if any.  missing, failed: some input was empty, some fetch went into the
\* tracker's list of unrecovered ones.
Idle == [pc |-> "idle", kind |-> "get", key |-> None, todo |-> {}, had |-> FALSE,
         loaded |-> None, answer |-> None, missing |-> FALSE, failed |-> FALSE]
Task == [pc : {"idle", "pick", "await", "write"},
         kind : {"get", "compute"},
         key : Keys \cup {None},
         todo : SUBSET Keys,
         had : BOOLEAN,
         loaded : Body \cup {None},
         answer : Body \cup {None, Failed, Refused},
         missing : BOOLEAN, failed : BOOLEAN]

TypeOK == /\ edition \in 0 .. MaxEdition
          /\ live \in BOOLEAN
          /\ switches \in 0 .. MaxSwitches
          /\ row \in [Keys -> Row \cup {None}]
          /\ task \in [Tasks -> Task]
          /\ doomed \subseteq Keys
          /\ score \in {"none", "full", "degraded"}

Init == /\ edition = 0
        /\ live = TRUE
        /\ switches = 0
        /\ row = [k \in Keys |-> None]
        /\ task = [t \in Tasks |-> Idle]
        /\ doomed = {}
        /\ score = "none"

(***************************************************************************)
(* FMP.                                                                    *)
(***************************************************************************)

Answer(periods, dated) == [usable |-> TRUE, dated |-> dated, rows |-> [p \in periods |-> edition]]
NoRows(usable)         == [usable |-> usable, dated |-> TRUE, rows |-> [p \in {} |-> edition]]

Newest == edition + Window

\* What FMP may answer: the whole window, a clamped one, rows without a date, an empty
\* list, no list; a call may fail, and one the plan does not cover is refused.
Answers(k) == {Failed, Refused} \cup
              IF k \in SnapshotKeys THEN {Answer({Newest}, TRUE)}
              ELSE {Answer(edition + 1 .. Newest, TRUE), Answer({Newest}, TRUE), Answer({Newest}, FALSE),
                    NoRows(TRUE), NoRows(FALSE)}

Publish ==
    /\ edition < MaxEdition
    /\ edition' = edition + 1
    /\ UNCHANGED <<live, switches, row, task, doomed, score>>

Switch ==
    /\ switches < MaxSwitches
    /\ switches' = switches + 1
    /\ live' = ~live
    /\ UNCHANGED <<edition, row, task, doomed, score>>

(***************************************************************************)
(* Reading through the cache.                                              *)
(***************************************************************************)

\* Mutant: the endpoints run in threads.
LoopFreeInThreads(t) == TRUE

\* Two coroutines of the API interleave at their awaits only.
LoopFree(t) == t \in Crons \/ \A u \in Views \ {t} : task[u].pc # "write"

\* Mutant: the earnings-aware rule without its first test, no earnings being due.
IsFreshByDate(k) == row[k] # None /\ row[k].at # "stale"

\* A flat window and the earnings-aware rule both take INVALIDATED_AT for stale.
IsFresh(k) == row[k] # None /\ row[k].at = "fresh"

\* The task goes on without key k, which it has from the cache, or not at all.
Served(rec, k)  == [rec EXCEPT !.pc = "pick", !.todo = rec.todo \ {k}, !.key = None, !.had = FALSE,
                               !.loaded = None, !.answer = None]
Missing(rec, k) == [Served(rec, k) EXCEPT !.missing = TRUE]
Raised(rec, k)  == [Missing(rec, k) EXCEPT !.failed = TRUE]

\* A get is over with its only key, a compute when it has stored its score.
Put(t, rec) == task' = [task EXCEPT ![t] = IF rec.kind = "get" /\ rec.pc = "pick" THEN Idle ELSE rec]

\* The copy of the row that get_or_fetch and get_or_fetch_earnings_aware keep in a local over
\* their await; force_fetch keeps none.
Loaded(k, force) == IF k \in HistoryKeys /\ row[k] # None /\ ~force THEN row[k].body ELSE None

\* get_or_fetch, get_or_fetch_earnings_aware up to their await (force: force_fetch).
Ask(t, rec, k, force) ==
    \/ /\ IF live THEN IsFresh(k) /\ ~force ELSE row[k] # None
       /\ Put(t, Served(rec, k))
    \/ /\ ~live /\ row[k] = None
       /\ Put(t, IF force THEN Raised(rec, k) ELSE Missing(rec, k))
    \/ /\ live /\ ~(IsFresh(k) /\ ~force)
       /\ \E a \in Answers(k) :
             Put(t, [rec EXCEPT !.pc = "await", !.key = k, !.had = row[k] # None,
                                !.loaded = Loaded(k, force), !.answer = a])

\* Some page or job wants key k.
Get(t, k, force) ==
    /\ task[t].pc = "idle"
    /\ LoopFree(t)
    /\ Ask(t, [Idle EXCEPT !.todo = {k}], k, force)
    /\ UNCHANGED <<edition, live, switches, row, doomed, score>>

\* A compute takes its next input (the header's quote is forced).
Take(t, k, force) ==
    /\ task[t].pc = "pick"
    /\ k \in task[t].todo
    /\ LoopFree(t)
    /\ Ask(t, task[t], k, force)
    /\ UNCHANGED <<edition, live, switches, row, doomed, score>>

\* Mutant: the answer is stored as it came.
AsItCame(rec) == rec.answer

\* The select before the merge finds the row the session holds, as it was loaded; only a row
\* the session does not hold is read as it is now, and one that is gone is not found.
Cached(rec) == IF rec.loaded # None THEN rec.loaded ELSE row[rec.key].body

Merged(rec) == IF rec.key \in HistoryKeys /\ row[rec.key] # None THEN Merge(Cached(rec), rec.answer) ELSE rec.answer

\* The await returns: a body is merged, and ...
Arrives(t) ==
    /\ task[t].pc = "await"
    /\ task[t].answer \notin {Failed, Refused}
    /\ LoopFree(t)
    /\ Put(t, [task[t] EXCEPT !.pc = "write", !.answer = Merged(task[t])])
    /\ UNCHANGED <<edition, live, switches, row, doomed, score>>

\* ... upserted in the next transaction.
Upsert(t) ==
    /\ task[t].pc = "write"
    /\ row' = [row EXCEPT ![task[t].key] = [body |-> task[t].answer, at |-> "fresh"]]
    /\ Put(t, Served(task[t], task[t].key))
    /\ UNCHANGED <<edition, live, switches, doomed, score>>

\* A compute that tracks failures falls back on the row it had; a refused variant always does.
FallsBack(t) == task[t].had /\ (task[t].answer = Refused \/ task[t].kind = "compute")

\* Mutant: a failure is recorded only when there was a row to serve.
RaisesUnrecorded(t) ==
    /\ task[t].pc = "await"
    /\ task[t].answer \in {Failed, Refused}
    /\ LoopFree(t)
    /\ Put(t, IF FallsBack(t) THEN Served(task[t], task[t].key) ELSE Missing(task[t], task[t].key))
    /\ UNCHANGED <<edition, live, switches, row, doomed, score>>

\* The call raises: the row stays as it is, its stale mark included.
Raises(t) ==
    /\ task[t].pc = "await"
    /\ task[t].answer \in {Failed, Refused}
    /\ LoopFree(t)
    /\ Put(t, IF FallsBack(t) THEN Served(task[t], task[t].key) ELSE Raised(task[t], task[t].key))
    /\ UNCHANGED <<edition, live, switches, row, doomed, score>>

(***************************************************************************)
(* Refresh, and the live recompute of a score that is out of date.         *)
(***************************************************************************)

Compute(t) == task' = [task EXCEPT ![t] = [Idle EXCEPT !.pc = "pick", !.kind = "compute", !.todo = Keys]]

\* clear_ticker_cache.
Cleared(k) == IF row[k] # None /\ k \in HistoryKeys THEN [row[k] EXCEPT !.at = "invalid"] ELSE None

\* ticker_refresh: not while the group is off.
Refresh(t) ==
    /\ t \in Views
    /\ task[t].pc = "idle"
    /\ LoopFree(t)
    /\ live
    /\ row' = [k \in Keys |-> Cleared(k)]
    /\ Compute(t)
    /\ UNCHANGED <<edition, live, switches, doomed, score>>

\* GET /score of a row that nobody recomputed for 36 hours.
RefreshFrozen(t) ==
    /\ t \in Views
    /\ task[t].pc = "idle"
    /\ LoopFree(t)
    /\ score # "none"
    /\ Compute(t)
    /\ UNCHANGED <<edition, live, switches, row, doomed, score>>

\* The end of compute_ticker_score.
Persist(t) ==
    /\ task[t].pc = "pick"
    /\ task[t].todo = {}
    /\ LoopFree(t)
    /\ task' = [task EXCEPT ![t] = Idle]
    /\ score' = IF task[t].failed THEN score ELSE IF task[t].missing THEN "degraded" ELSE "full"
    /\ UNCHANGED <<edition, live, switches, row, doomed>>

\* Every other compute (the recompute's worker, a first view, a saved moat) reads what is
\* cached, and tracks no failures.
ComputeCached ==
    /\ score' = IF \E k \in Keys : row[k] = None THEN "degraded" ELSE "full"
    /\ UNCHANGED <<edition, live, switches, row, task, doomed>>

(***************************************************************************)
(* Time and the prune.                                                     *)
(***************************************************************************)

\* The staleness window passes, or the ticker reports earnings.
GoesStale(k) ==
    /\ row[k] # None
    /\ row[k].at = "fresh"
    /\ row' = [row EXCEPT ![k] = [row[k] EXCEPT !.at = "stale"]]
    /\ UNCHANGED <<edition, live, switches, task, doomed, score>>

\* prune_cache selects the rows of an untracked ticker past their retention, but none
\* that a Refresh has marked ...
PruneSelects(S) ==
    /\ S # {}
    /\ doomed = {}
    /\ \A k \in S : row[k] # None /\ row[k].at = "stale"
    /\ doomed' = S
    /\ UNCHANGED <<edition, live, switches, row, task, score>>

\* A row that a session holds and that is deleted is not found under its id again, unless
\* SQLite gives the id to the row that replaces it.
Forgets(rec, gone) == IF rec.pc = "await" /\ rec.key \in gone THEN [rec EXCEPT !.loaded = None] ELSE rec

\* ... and deletes them by their ids.
PruneDeletes ==
    /\ doomed # {}
    /\ row' = [k \in Keys |-> IF k \in doomed THEN None ELSE row[k]]
    /\ \E gone \in SUBSET doomed : task' = [t \in Tasks |-> Forgets(task[t], gone)]
    /\ doomed' = {}
    /\ UNCHANGED <<edition, live, switches, score>>

Fetches(t) == Arrives(t) \/ Upsert(t) \/ Raises(t) \/ Persist(t) \/ \E k \in Keys, force \in BOOLEAN : Take(t, k, force)

Next == \/ \E t \in Tasks : \/ \E k \in Keys, force \in BOOLEAN : Get(t, k, force)
                            \/ Fetches(t)
        \/ \E t \in Views : Refresh(t) \/ RefreshFrozen(t)
        \/ ComputeCached
        \/ \E k \in Keys : GoesStale(k)
        \/ \E S \in SUBSET Keys : PruneSelects(S)
        \/ PruneDeletes
        \/ Publish
        \/ Switch

Spec == Init /\ [][Next]_vars

\* A task whose call returned goes on, and a page that keeps being opened is sooner or
\* later served by FMP.
Fairness == /\ \A t \in Tasks : WF_vars(Fetches(t))
            /\ \A k \in Keys : SF_vars(\E t \in Views :
                   Get(t, k, FALSE) /\ task'[t].answer \notin {Failed, Refused})

FairSpec == Spec /\ Fairness

(***************************************************************************)
(* Properties.                                                             *)
(***************************************************************************)

Shortens(k) == row[k] # None /\ row'[k] # None /\ Count(row'[k].body) < Count(row[k].body)

\* "the stored history is never shorter than before" (history_merge.py:11).
HistoryNeverShorter == [][\A k \in HistoryKeys : ~Shortens(k)]_vars

\* What the code does keep of it, while one event loop fetches: answers may be clamped,
\* empty or undated, fail, be pruned under or land in another order than they were asked
\* for, and a history gets shorter only in the upsert of a task that carried a copy of the
\* row over its await which is not the row any more.  A fetch that nothing overtook, a
\* first one and a forced one never shorten it.
OnlyStaleCopiesShorten ==
    [][\A k \in HistoryKeys : Shortens(k) =>
           \E t \in Tasks : /\ task[t].pc = "write" /\ task[t].key = k
                            /\ task[t].loaded \notin {None, row[k].body}]_vars

\* A live recompute whose fetches fail "will not overwrite the last good TickerScore
\* with one built from missing inputs" (main.py:1069), whatever other tasks do with the
\* rows it needs, as long as the group is not switched off while it fetches.
LiveComputeKeepsScore ==
    [][(\E t \in Views : task[t].kind = "compute" /\ task'[t] = Idle) /\ switches = 0 /\ score # score'
           => score' = "full"]_vars

\* Whatever a Refresh marked stale, a prune deleted or a failed call left as it was, a
\* key that is asked for is fetched again: "stale to every freshness rule, rows kept"
\* (history_merge.py:69-70).
RowsRecover == \A k \in Keys : <>[]live => []<>(row[k] # None /\ row[k].at = "fresh")
=============================================================================
