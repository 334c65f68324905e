---------------------------- MODULE MarketBreadth ----------------------------
(***************************************************************************)
(* Market breadth: one row a session for the index and for each sector,    *)
(* counted over the constituents' own daily bars.  The nightly job fetches *)
(* bars (some constituents may not be reached, and a run during market     *)
(* hours gets today's unfinished bar), refuses a session too few           *)
(* constituents have a bar on, and replaces the session's row.  The        *)
(* backfill inserts rows for past sessions from the bars held, with        *)
(* today's constituents, and with --rebuild replaces its own rows.         *)
(*                                                                         *)
(* A bar is its close: high and low are not told apart.  Two averages      *)
(* stand for the three: the short one is the 20-day one, which rows        *)
(* written before it existed do not have.                                  *)
(***************************************************************************)
EXTENDS Integers, FiniteSets, FiniteSetsExt

CONSTANTS
    Markets,                  \* closes of every ticker on every day; 0 is no bar
    Indexes,                  \* the constituents to start with
    Incoming,                 \* a ticker that may replace a constituent
    SECTOR_TO_ETF,            \* ticker to its sector's fund, "none" when unmapped
    SectorEtfs,               \* the sector funds
    ShortWindow, LongWindow,  \* bars of the averages
    HL_WINDOW,                \* bars of the 52-week window
    MIN_COVERAGE,             \* percent of the constituents a saved row needs
    FLOOR_MISSING,            \* constituents a sector may always miss
    GATE_LOG_RETENTION_DAYS,  \* age at which a gate record is pruned
    FirstDay, LastDay,        \* days of a behaviour
    Mishaps                   \* departures from a plain night in a behaviour

VARIABLES
    exchange,   \* the last completed session, the bars there are and those held
    board       \* stored rows, the gate log, and what each live row was written from

bvars == <<exchange, board>>

NA == -1
UNIVERSE == "sp500"
Universes == {UNIVERSE} \cup SectorEtfs

Closes(t) == exchange.market[t]
Biggest(S) == CHOOSE x \in S : \A y \in S : y <= x
Smallest(S) == CHOOSE x \in S : \A y \in S : x <= y

-----------------------------------------------------------------------------
(***************************************************************************)
(* Counts, each window over a ticker's own bars.                           *)
(***************************************************************************)
OwnBars(t, held) == {d \in 1 .. held[t] : Closes(t)[d] > 0}

\* A window on the calendar, a slip: one missing bar disqualifies.
CalendarBars(t, d, n, held) == OwnBars(t, held) \cap (d - n) + 1 .. d

LastBars(t, d, n, held) ==
    LET own == {e \in OwnBars(t, held) : e <= d}
    IN {e \in own : Cardinality({f \in own : e <= f}) <= n}

Eligible(t, d, n, held) == Cardinality(LastBars(t, d, n, held)) = n

AboveAverage(t, d, n, held) ==
    Eligible(t, d, n, held) /\ n * Closes(t)[d] > MapThenSumSet(LAMBDA e : Closes(t)[e], LastBars(t, d, n, held))

WithBar(ts, d, held) == {t \in ts : d \in OwnBars(t, held)}

\* The row of one universe on one session; ts has its constituents.
Snapshot(universe, ts, d, held, backfilled) ==
    LET with == WithBar(ts, d, held)
        count(P(_)) == Cardinality({t \in with : P(t)})
        window(t) == {Closes(t)[e] : e \in LastBars(t, d, HL_WINDOW, held)}
    IN [universe |-> universe, at |-> d, constituents |-> Cardinality(ts), withBar |-> Cardinality(with),
        shortEligible |-> count(LAMBDA t : Eligible(t, d, ShortWindow, held)),
        shortAbove |-> count(LAMBDA t : AboveAverage(t, d, ShortWindow, held)),
        longEligible |-> count(LAMBDA t : Eligible(t, d, LongWindow, held)),
        longAbove |-> count(LAMBDA t : AboveAverage(t, d, LongWindow, held)),
        hlEligible |-> count(LAMBDA t : Eligible(t, d, HL_WINDOW, held)),
        highs |-> count(LAMBDA t : Eligible(t, d, HL_WINDOW, held) /\ Closes(t)[d] >= Biggest(window(t))),
        lows |-> count(LAMBDA t : Eligible(t, d, HL_WINDOW, held) /\ Closes(t)[d] <= Smallest(window(t))),
        backfilled |-> backfilled]

-----------------------------------------------------------------------------
Bucket(etf, ts) == {t \in ts : SECTOR_TO_ETF[t] = etf}

CoverageOk(with, of) == of > 0 /\ 100 * with >= MIN_COVERAGE * of

\* No gate at all, a slip.
AnyCoverage(with, of, floor) == TRUE
GatePasses(with, of, floor) == of > 0 /\ (CoverageOk(with, of) \/ of - with <= floor)

NoFloor == -1
SectorOk(with, of) == GatePasses(with, of, FLOOR_MISSING)

\* The newest session any constituent has a bar on, up to the completed one.
UncappedAnchor(held) ==
    LET days == UNION {OwnBars(t, held) : t \in exchange.members}
    IN IF days = {} THEN 0 ELSE Biggest(days)

Anchor(held) ==
    LET days == {d \in UNION {OwnBars(t, held) : t \in exchange.members} : d <= exchange.day}
    IN IF days = {} THEN 0 ELSE Biggest(days)

Key(row) == <<row.universe, row.at>>
Keys(rows) == {Key(row) : row \in rows}

\* The backfill overwrites too, a slip.
AlwaysOverwritten(rows, new, overwrite) == {row \in rows : Key(row) \notin Keys(new)} \cup new

\* An upsert: the nightly rows win, the backfill's only fill gaps.
StoreSnapshots(rows, new, overwrite) ==
    IF overwrite THEN {row \in rows : Key(row) \notin Keys(new)} \cup new
    ELSE rows \cup {row \in new : Key(row) \notin Keys(rows)}

-----------------------------------------------------------------------------
GateRecord(universe, d, with, of, floor) ==
    [universe |-> universe, at |-> d, checkedAt |-> exchange.day, passed |-> GatePasses(with, of, floor)]

\* A sector row needs its gate and one bar at least.
SectorRows(d, held) ==
    {Snapshot(etf, Bucket(etf, exchange.members), d, held, FALSE) :
         etf \in {e \in SectorEtfs :
                     LET ts == Bucket(e, exchange.members)
                     IN SectorOk(Cardinality(WithBar(ts, d, held)), Cardinality(ts)) /\ WithBar(ts, d, held) # {}}}

SectorRecords(d, held) ==
    {GateRecord(etf, d, Cardinality(WithBar(Bucket(etf, exchange.members), d, held)),
                Cardinality(Bucket(etf, exchange.members)), FLOOR_MISSING) : etf \in SectorEtfs}

PruneGateLog(log) == {r \in log : r.checkedAt >= exchange.day - GATE_LOG_RETENTION_DAYS}

\* The live rows of a session replace their evidence too.
Written(rows, d, held) ==
    {e \in board.live : Key(e.row) \notin Keys(rows)} \cup
        {[row |-> row, with |-> WithBar(IF row.universe = UNIVERSE THEN exchange.members ELSE Bucket(row.universe, exchange.members), d, held)] :
            row \in rows}

Night(reached, early) ==
    /\ exchange.due
    /\ LET held == [t \in DOMAIN exchange.held |->
                       IF t \in reached THEN exchange.day + (IF early THEN 1 ELSE 0) ELSE exchange.held[t]]
           d == Anchor(held)
           with == Cardinality(WithBar(exchange.members, d, held))
           of == Cardinality(exchange.members)
           index == Snapshot(UNIVERSE, exchange.members, d, held, FALSE)
           new == {index} \cup SectorRows(d, held)
       IN /\ exchange' = [exchange EXCEPT !.held = held, !.due = FALSE,
                              !.mishaps = @ - Cardinality(exchange.members \ reached) - (IF early THEN 1 ELSE 0)]
          /\ exchange'.mishaps >= 0
          /\ board' =
                CASE d = 0 -> board
                  [] d > 0 /\ ~GatePasses(with, of, NoFloor) ->
                        [board EXCEPT !.log = @ \cup {GateRecord(UNIVERSE, d, with, of, NoFloor)}]
                  [] OTHER ->
                        [rows |-> StoreSnapshots(board.rows, new, TRUE),
                         log |-> PruneGateLog(board.log \cup {GateRecord(UNIVERSE, d, with, of, NoFloor)} \cup SectorRecords(d, held)),
                         live |-> Written(new, d, held)]

-----------------------------------------------------------------------------
(***************************************************************************)
(* The backfill: sessions covered, and eligible for the longest window, by *)
(* enough of today's constituents.                                         *)
(***************************************************************************)
EligibleAt(ts, d) == {t \in WithBar(ts, d, exchange.held) : Eligible(t, d, HL_WINDOW, exchange.held)}

BackfillRows ==
    UNION {LET ts == IF u = UNIVERSE THEN exchange.members ELSE Bucket(u, exchange.members)
               of == Cardinality(ts)
               passes(with) == GatePasses(Cardinality(with), of, IF u = UNIVERSE THEN NoFloor ELSE FLOOR_MISSING)
               seen == {d \in 1 .. exchange.day : WithBar(ts, d, exchange.held) # {}}
               days == {d \in seen : passes(WithBar(ts, d, exchange.held)) /\ passes(EligibleAt(ts, d))}
           IN {Snapshot(u, ts, d, exchange.held, TRUE) : d \in days} : u \in Universes}

\* The rows a rebuild deletes first: its own, in the dates it recomputed.
Rebuilt(rows, new) ==
    {row \in rows : row.backfilled /\ \E a, b \in new :
        a.universe = row.universe /\ b.universe = row.universe /\ a.at <= row.at /\ row.at <= b.at}

\* Old rows have no short average; only that is filled, only where it misses.
FillMissingSma20(rows, new) ==
    {IF row.universe = UNIVERSE /\ row.backfilled /\ row.shortEligible = NA /\ Key(row) \in Keys(new)
     THEN LET n == CHOOSE n \in new : Key(n) = Key(row)
          IN [row EXCEPT !.shortEligible = n.shortEligible, !.shortAbove = n.shortAbove]
     ELSE row : row \in rows}

Backfill(rebuild) ==
    /\ exchange.mishaps > 0
    /\ LET new == BackfillRows
           kept == board.rows \ (IF rebuild THEN Rebuilt(board.rows, new) ELSE {})
           index == {row \in new : row.universe = UNIVERSE}
       IN board' = [board EXCEPT !.rows =
                       StoreSnapshots(FillMissingSma20(StoreSnapshots(kept, index, FALSE), index), new \ index, FALSE)]
    /\ exchange' = [exchange EXCEPT !.mishaps = @ - 1]

-----------------------------------------------------------------------------
NextDay ==
    /\ exchange.day < LastDay
    /\ exchange' = [exchange EXCEPT !.day = @ + 1, !.due = TRUE]
    /\ UNCHANGED board

\* The index replaces a constituent.
IndexChanges ==
    /\ exchange.mishaps > 0 /\ Incoming \notin exchange.members
    /\ \E out \in exchange.members :
           exchange' = [exchange EXCEPT !.members = (@ \ {out}) \cup {Incoming}, !.mishaps = @ - 1]
    /\ UNCHANGED board

\* Rows a first backfill left before the short average existed.
LegacyRows(market, members) ==
    {[universe |-> UNIVERSE, at |-> 1, constituents |-> Cardinality(members), withBar |-> Cardinality(members),
      shortEligible |-> NA, shortAbove |-> NA, longEligible |-> 0, longAbove |-> 0, hlEligible |-> 0,
      highs |-> 0, lows |-> 0, backfilled |-> TRUE]}

InitBreadth ==
    \E market \in Markets, members \in Indexes, legacy \in BOOLEAN :
        /\ exchange = [day |-> FirstDay, due |-> TRUE, market |-> market, members |-> members,
                       held |-> [t \in DOMAIN market |-> 0], mishaps |-> Mishaps]
        /\ board = [rows |-> IF legacy THEN LegacyRows(market, members) ELSE {}, log |-> {}, live |-> {}]

NextBreadth ==
    \/ \E reached \in SUBSET exchange.members, early \in BOOLEAN : Night(reached, early)
    \/ \E rebuild \in BOOLEAN : Backfill(rebuild)
    \/ NextDay \/ IndexChanges

SpecBreadth == InitBreadth /\ [][NextBreadth]_bvars

-----------------------------------------------------------------------------
BreadthTypeOK ==
    /\ exchange.day \in FirstDay .. LastDay /\ exchange.mishaps \in 0 .. Mishaps
    /\ \A row \in board.rows : row.universe \in Universes /\ row.at \in 1 .. LastDay + 1
    /\ \A row, other \in board.rows : Key(row) = Key(other) => row = other

\* A live row is point-in-time: once a night has written it, no backfill or
\* rebuild replaces it, whatever the index holds by then.
LiveRowsStay == \A e \in board.live : e.row \in board.rows /\ ~e.row.backfilled

\* A live row counts a constituent in a window exactly when it has that many
\* bars of its own: a hole in the calendar does not disqualify it, and a
\* young ticker is left out rather than counted as below.
WindowsCountOwnBars ==
    \A e \in board.live :
        LET with(n) == Cardinality({t \in e.with : Cardinality({d \in 1 .. e.row.at : Closes(t)[d] > 0}) >= n})
        IN /\ e.row.shortEligible = with(ShortWindow) /\ e.row.longEligible = with(LongWindow)
           /\ e.row.hlEligible = with(HL_WINDOW)
           /\ e.row.shortAbove <= e.row.shortEligible /\ e.row.longAbove <= e.row.longEligible

\* No skewed or unfinished session is stored: a live index row has the
\* coverage, no row is of a session still open, and a live sector row rests
\* on an index row of the same session.
RowsAreCovered ==
    /\ \A e \in board.live :
           /\ e.row.at <= exchange.day
           /\ e.row.universe = UNIVERSE => 100 * e.row.withBar >= MIN_COVERAGE * e.row.constituents
           /\ e.row.universe # UNIVERSE =>
                  /\ e.row.withBar > 0 /\ e.row.constituents - e.row.withBar <= FLOOR_MISSING
                  /\ \E i \in board.rows : i.universe = UNIVERSE /\ i.at = e.row.at /\ ~i.backfilled
    /\ \A row \in board.rows : row.backfilled => row.at <= exchange.day

\* Every live row still within the log's retention has the record of the
\* check it passed; a refused index night leaves its record and no row.
GateLogExplains ==
    /\ \A e \in board.live : e.row.at >= exchange.day - GATE_LOG_RETENTION_DAYS =>
           \E r \in board.log : r.universe = e.row.universe /\ r.at = e.row.at /\ r.passed
    /\ \A r \in board.log : r.universe = UNIVERSE /\ ~r.passed =>
           \A s \in board.log : s.at = r.at /\ s.checkedAt = r.checkedAt => s = r

BreadthCounts == LiveRowsStay /\ WindowsCountOwnBars /\ RowsAreCovered /\ GateLogExplains
=============================================================================
