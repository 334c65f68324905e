----------------------------- MODULE MCStoredRows -----------------------------
(***************************************************************************)
(* Three stores of the backend, safety only: the score rows with their     *)
(* weights and multiplier, the tables a start migrates (whose modules this *)
(* one extends) and the cached statements of one history key.  They share  *)
(* no state in these models; a behaviour runs one of them (part) and the   *)
(* others stay at their initial states.                                    *)
(***************************************************************************)
EXTENDS ScoreRows, StartupMigrations, FiniteSets, TLC

CONSTANTS k1, v1, v2, j1, s1, w1, w2, n1, n2, m1, h1, Failed, Refused

VARIABLES part, edition, live, switches, held, fetch, doomed, score

MCTickers    == {k1}
MCViews      == {v1, v2}
MCJobs       == {j1}
MCSavers     == {s1}
MCWeightSets == {w1, w2}
MCNarrows    == {n1, n2}
MCMoats      == {m1}
MCDdl        == [create |-> {"table"}, columns |-> {"column", "another"}, obsolete |-> {"old column"}]

S == INSTANCE StatementCache WITH
        HistoryKeys <- {h1}, SnapshotKeys <- {}, Crons <- {}, Window <- 2,
        MaxEdition <- 1, MaxSwitches <- 0, row <- held, task <- fetch

Symmetry == Permutations(Views) \cup Permutations(WeightSets) \cup Permutations(Narrows)

svars == <<edition, live, switches, held, fetch, doomed, score>>

-----------------------------------------------------------------------------
OneDatabase ==
    picks.rows = Mapped \cup Unmapped /\ views.rows = {StockView(n) : n \in Names}
    /\ multiplier = "null" /\ overall = "oldCustom" /\ debt = "stale"

InitStores ==
    /\ part \in {"scores", "statements", "start"}
    /\ Init /\ S!Init /\ InitStart
    /\ part # "start" => OneDatabase

Scores == part = "scores" /\ Next /\ UNCHANGED <<part, svars, mvars>>

Statements == part = "statements" /\ S!Next /\ UNCHANGED <<part, vars, mvars>>

Migrations == part = "start" /\ NextStart /\ UNCHANGED <<part, vars, svars>>

NextStores == Scores \/ Statements \/ Migrations

StoresSpec == InitStores /\ [][NextStores]_<<part, vars, svars, mvars>>

-----------------------------------------------------------------------------
\* The cached history of the statements gets shorter only by a fetch that carried an older
\* copy of the row over its await.
OnlyStaleCopiesShorten == S!OnlyStaleCopiesShorten
=============================================================================
