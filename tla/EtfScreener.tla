----------------------------- MODULE EtfScreener -----------------------------
(***************************************************************************)
(* The nightly ETF refresh: one row a fund, its columns from sources that  *)
(* fail one by one, plus the fund's trend row and last close.  Only what a *)
(* run computed is written; a row goes when the fund has left the universe *)
(* and a live run over the whole universe went well.                       *)
(*                                                                         *)
(* A column's value is the day it was computed (price, stage and yield:    *)
(* the day of the bar behind it); 0 is NULL.                               *)
(***************************************************************************)
EXTENDS Integers, FiniteSets

CONSTANTS
    Funds,
    Answers,              \* what the sources may answer for one fund in one run
    FAILURE_RATE,         \* percent of failed funds a run may not reach
    MIN_ATTEMPTED,        \* funds from which the rate counts
    LastDay,              \* days of a behaviour
    Mishaps               \* departures from a plain run in a behaviour

VARIABLES
    market,   \* the day, the universe, bars held, and each fund's active signal
    tables    \* the three tables, and what the last run met

evars == <<market, tables>>

NULL == 0
FromProfile == 1
FromInfo == 2
SIGNAL_FIELDS == {"signal"}
WRITABLE_FIELDS == {"price", "stage", "assets", "holdings", "name", "yield"} \cup SIGNAL_FIELDS

AllWell == [reached |-> TRUE, staged |-> TRUE, info |-> "ok", profile |-> "named", closeFetched |-> TRUE]

Held(f, a, fetched) == IF fetched /\ a.reached THEN market.day ELSE market.held[f]

-----------------------------------------------------------------------------
(***************************************************************************)
(* What one fund's sources give: each is tried on its own.                 *)
(***************************************************************************)
BarFields(a, held) ==
    IF held = NULL THEN {} ELSE {<<"price", held>>} \cup (IF a.staged THEN {<<"stage", held>>} ELSE {})

\* "stale": the fetch failed and the cached answer is used.
InfoFields(a) ==
    CASE a.info \in {"ok", "stale"} -> {<<"assets", market.day>>, <<"holdings", market.day>>}
      [] a.info = "uncounted" -> {<<"assets", market.day>>, <<"holdings", NULL>>}
      [] OTHER -> {}

ProfileFields(a, held) ==
    IF a.profile \in {"named", "unnamed"} /\ held # NULL THEN {<<"yield", held>>} ELSE {}

\* The other source's wording whenever the profile gives none, a slip.
AnyName(a) ==
    CASE a.profile = "named" -> {<<"name", FromProfile>>}
      [] a.profile # "named" /\ a.info \in {"ok", "stale", "uncounted"} -> {<<"name", FromInfo>>}
      [] OTHER -> {}

\* The profile's name; the info's only if the profile did not fail.
NameFields(a) ==
    CASE a.profile = "named" -> {<<"name", FromProfile>>}
      [] a.profile \in {"unnamed", "none"} /\ a.info \in {"ok", "stale", "uncounted"} -> {<<"name", FromInfo>>}
      [] OTHER -> {}

\* Only a signal that is there is written, a slip.
ActiveSignal(f) == IF market.signal[f] = NULL THEN {} ELSE {<<"signal", market.signal[f]>>}
SignalFields(f) == {<<"signal", market.signal[f]>>}

Refreshed(f, a, held) == BarFields(a, held) \cup InfoFields(a) \cup ProfileFields(a, held) \cup NameFields(a) \cup SignalFields(f)

Failed(a, live) == a.info \in {"failed", "stale"} \/ a.profile = "failed" \/ (live /\ ~a.closeFetched)

-----------------------------------------------------------------------------
Blank == [x \in WRITABLE_FIELDS |-> NULL]

\* Columns a run did not compute are cleared, a slip.
WholeRow(row, fields) == [x \in WRITABLE_FIELDS |-> IF \E v \in fields : v[1] = x THEN (CHOOSE v \in fields : v[1] = x)[2] ELSE NULL]
UpsertRow(row, fields) == [x \in WRITABLE_FIELDS |-> IF \E v \in fields : v[1] = x THEN (CHOOSE v \in fields : v[1] = x)[2] ELSE row[x]]

\* Signals alone never make a row.
AlwaysWorth(f, fields) == TRUE
WorthWriting(f, fields) == (\E v \in fields : v[1] \notin SIGNAL_FIELDS /\ v[2] # NULL) \/ f \in DOMAIN tables.rows

\* The trend row of a run that found no stage, a slip: NULL is written.
StageOrNull(f, a, held) == IF a.staged /\ held # NULL THEN held ELSE NULL
StoredTrend(f, a, held) == IF a.staged /\ held # NULL THEN held ELSE tables.trend[f]

\* A failed fetch keeps the stored close.
StoredClose(f, a) == IF a.closeFetched THEN market.day ELSE tables.close[f]

Breaches(attempted, failed) ==
    failed > 0 /\ (failed >= attempted \/ (attempted >= MIN_ATTEMPTED /\ 100 * failed >= FAILURE_RATE * attempted))

Keep(rows, funds) == [f \in DOMAIN rows \cap funds |-> rows[f]]

\* Any run prunes, a slip.
AlwaysPruned(rows, full, live, fetchOk) == Keep(rows, market.universe)
Pruned(rows, full, live, fetchOk) == IF full /\ live /\ fetchOk THEN Keep(rows, market.universe) ELSE rows

\* mode: live, cached (no network) or dry (nothing written); full: the whole universe.
Refresh(mode, targets, full, answers, batchFailed) ==
    LET live == mode = "live"
        fetched == mode # "cached" /\ ~batchFailed
        held == [f \in Funds |-> IF f \in targets THEN Held(f, answers[f], fetched) ELSE market.held[f]]
        fields == [f \in targets |-> Refreshed(f, answers[f], held[f])]
        written == IF mode = "dry" THEN {} ELSE {f \in targets : WorthWriting(f, fields[f])}
        failures == Cardinality({f \in targets : Failed(answers[f], live)})
        rows == [f \in DOMAIN tables.rows \cup written |->
                    IF f \in written THEN UpsertRow(IF f \in DOMAIN tables.rows THEN tables.rows[f] ELSE Blank, fields[f]) ELSE tables.rows[f]]
        departures == Cardinality({f \in targets : answers[f] # AllWell}) + (IF live THEN 0 ELSE 1) + (IF full THEN 0 ELSE 1) + (IF batchFailed THEN 1 ELSE 0)
    IN /\ departures <= market.mishaps
       /\ market' = [market EXCEPT !.held = held, !.ran = TRUE, !.mishaps = @ - departures]
       /\ tables' =
              [rows |-> Pruned(rows, full, live, ~batchFailed /\ ~Breaches(Cardinality(targets), failures)),
               trend |-> [f \in Funds |-> IF live /\ f \in targets THEN StoredTrend(f, answers[f], held[f]) ELSE tables.trend[f]],
               close |-> [f \in Funds |-> IF live /\ f \in targets THEN StoredClose(f, answers[f]) ELSE tables.close[f]],
               run |-> [mode |-> mode, targets |-> targets, answers |-> answers, failures |-> failures, batchFailed |-> batchFailed,
                        signal |-> market.signal, before |-> [rows |-> tables.rows, trend |-> tables.trend, close |-> tables.close]]]

\* The full nightly run, or one by hand on given tickers.
RefreshEtfScreener ==
    \E mode \in {"live", "cached", "dry"}, targets \in {market.universe} \cup {{f} : f \in Funds},
       answers \in [Funds -> Answers], batchFailed \in BOOLEAN :
        /\ ~market.ran
        /\ mode = "cached" => ~batchFailed /\ \A f \in targets : ~Failed(answers[f], FALSE) /\ answers[f].reached
        /\ \A f \in Funds \ targets : answers[f] = AllWell
        /\ Refresh(mode, targets, targets = market.universe, answers, batchFailed)

-----------------------------------------------------------------------------
\* A fund is added or expires; the universe, seeded by a list, is never empty.
UniverseChanges ==
    /\ market.mishaps > 0
    /\ \E f \in Funds :
        /\ market.universe # {f}
        /\ market' = [market EXCEPT !.mishaps = @ - 1, !.universe = IF f \in @ THEN @ \ {f} ELSE @ \cup {f}]
    /\ UNCHANGED tables

\* A monitored fund's signal fires or ends.
SignalChanges ==
    /\ market.mishaps > 0
    /\ \E f \in Funds :
           market' = [market EXCEPT !.mishaps = @ - 1, !.signal[f] = IF market.signal[f] = NULL THEN market.day ELSE NULL]
    /\ UNCHANGED tables

NextDay ==
    /\ market.day < LastDay
    /\ market' = [market EXCEPT !.day = @ + 1, !.ran = FALSE]
    /\ UNCHANGED tables

InitScreener ==
    /\ market = [day |-> 1, ran |-> FALSE, universe |-> Funds, held |-> [f \in Funds |-> NULL],
                 signal |-> [f \in Funds |-> NULL], mishaps |-> Mishaps]
    /\ tables = [rows |-> [f \in {} |-> Blank], trend |-> [f \in Funds |-> NULL], close |-> [f \in Funds |-> NULL],
                 run |-> [mode |-> "none"]]

NextScreener == RefreshEtfScreener \/ UniverseChanges \/ SignalChanges \/ NextDay

SpecScreener == InitScreener /\ [][NextScreener]_evars

-----------------------------------------------------------------------------
ScreenerTypeOK ==
    /\ market.day \in 1 .. LastDay /\ market.mishaps \in 0 .. Mishaps
    /\ \A f \in DOMAIN tables.rows : tables.rows[f] \in [WRITABLE_FIELDS -> 0 .. LastDay]

Ran == tables.run.mode # "none"
Before == tables.run.before

\* A source that fails one night never costs a column another night gave: no
\* column, stage or close goes blank or back to an earlier day.  A fund that
\* reports no count of holdings is the exception the code makes.
ColumnsNeverGoBack ==
    Ran => /\ \A f \in DOMAIN tables.rows \cap DOMAIN Before.rows, x \in {"price", "stage", "assets", "yield"} :
                  tables.rows[f][x] >= Before.rows[f][x]
           /\ \A f \in Funds : tables.trend[f] >= Before.trend[f] /\ tables.close[f] >= Before.close[f]

\* An outage of the profile does not swap the stored name for the other
\* source's wording.
OutageKeepsName ==
    Ran => \A f \in DOMAIN tables.rows \cap DOMAIN Before.rows :
               Before.rows[f].name = FromProfile /\ tables.run.answers[f].profile = "failed" => tables.rows[f].name = FromProfile

\* A signal that ended is cleared from a stored row, and signals alone never
\* make one.
SignalsFollowTables ==
    /\ \A f \in DOMAIN tables.rows : \E x \in WRITABLE_FIELDS \ SIGNAL_FIELDS : tables.rows[f][x] # NULL
    /\ Ran /\ tables.run.mode # "dry" =>
           \A f \in tables.run.targets \cap DOMAIN tables.rows : tables.rows[f].signal = tables.run.signal[f]

\* A row is deleted only by a live run that reached most funds, and never
\* that of a fund the run refreshed; a run by hand or a dry one deletes none.
RowsAreLostOnPurpose ==
    Ran /\ DOMAIN Before.rows \ DOMAIN tables.rows # {} =>
        /\ tables.run.mode = "live" /\ ~tables.run.batchFailed
        /\ tables.run.failures < Cardinality(tables.run.targets)
        /\ DOMAIN tables.rows \subseteq tables.run.targets

ScreenerKeepsAnswers == ColumnsNeverGoBack /\ OutageKeepsName /\ SignalsFollowTables /\ RowsAreLostOnPurpose
=============================================================================
