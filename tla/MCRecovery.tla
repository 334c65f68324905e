------------------------------ MODULE MCRecovery ------------------------------
(***************************************************************************)
(* What the cached statements (whose module this one extends) and the      *)
(* score rows recover to, under the fairness each states: one history key, *)
(* one snapshot key and one page; one ticker, one page, one job and one    *)
(* saver.  A behaviour runs one of the two stores (part); the other stays  *)
(* at its initial state.                                                   *)
(***************************************************************************)
EXTENDS StatementCache

CONSTANTS k1, v1, j1, s1, w1, n1, m1, h1, h2, Api

VARIABLES
    part,
    saved, narrow, moat, scored, cache, compute, job, saver, state, lastId, failures

MCHistoryKeys  == {h1}
MCSnapshotKeys == {h2}
MCViews        == {v1}

R == INSTANCE ScoreRows WITH
        Tickers <- {k1}, Jobs <- {j1}, Savers <- {s1}, WeightSets <- {w1},
        Narrows <- {n1}, Moats <- {m1}, MaxRuns <- 2, MaxFailures <- 1, row <- scored, task <- compute

rvars == <<saved, narrow, moat, scored, cache, compute, job, saver, state, lastId, failures>>

InitStores == part \in {"scores", "statements"} /\ R!Init /\ Init

Scores == part = "scores" /\ R!Next /\ UNCHANGED <<part, vars>>

Statements == part = "statements" /\ Next /\ UNCHANGED <<part, rvars>>

NextStores == Scores \/ Statements

\* The fairness of the two modules, of the store that runs.
StoresFairness ==
    /\ \A v \in Views :
           /\ SF_rvars(part = "scores" /\ R!View(v, k1))
           /\ WF_rvars(part = "scores" /\ R!Computes(v))
    /\ \A p \in R!Procs : WF_rvars(part = "scores" /\ R!Expires(p))
    /\ \A t \in Tasks : WF_vars(part = "statements" /\ Fetches(t))
    /\ \A k \in Keys : SF_vars(part = "statements" /\ \E t \in Views :
                                   Get(t, k, FALSE) /\ task'[t].answer \notin {Failed, Refused})

StoresSpec == InitStores /\ [][NextStores]_<<part, rvars, vars>> /\ StoresFairness

-----------------------------------------------------------------------------
\* Of the behaviours of the score rows: a ticker that is looked at ends on the saved weights.
ScoreRowsCatchUp == part = "scores" => R!RowsCatchUp

\* Of those of the statements: a key that is asked for is fetched again, whatever marked it
\* stale, deleted it or left it as it was.
StatementRowsRecover == part = "statements" => RowsRecover
=============================================================================
