---------------------------- MODULE BoardSnapshots ----------------------------
(***************************************************************************)
(* The two dated boards computed from daily closes: the monthly momentum   *)
(* ranking (stocks with a moat rating, and ETFs) and the nightly sector    *)
(* heatmap.  A run fetches bars, some tickers may not be reached and keep  *)
(* older ones; it writes the snapshot of its anchor session only, and the  *)
(* pages read what is stored.                                              *)
(*                                                                         *)
(* Days are numbered; the anchor's calendar offsets are multiples of       *)
(* MONTH.  A behaviour follows one board.                                  *)
(***************************************************************************)
EXTENDS Integers, FiniteSets, FiniteSetsExt

CONSTANTS
    Closes,            \* closes of each ticker by day; 0 is no bar
    Sessions,          \* the days the exchange is open
    MONTH,             \* days of a month; a year is two months
    LOOKBACK_MONTHS,   \* of the ranking
    WINDOWS,           \* days back of each heatmap window; 0 is year to date
    MAX_STALE_DAYS, RETENTION_DAYS,
    Boards,            \* the boards followed, "momentum" and "heatmap"
    FirstDay, LastDay, \* days of a behaviour
    Mishaps            \* departures from a plain run in a behaviour

VARIABLES
    desk,     \* the day, the bars held, the tickers in the universes
    stored    \* stored rows, and what each run wrote

dvars == <<desk, stored>>

Tickers == DOMAIN Closes      \* numbered in alphabetical order
NONE == 0
Biggest(S) == CHOOSE x \in S : \A y \in S : y <= x
Month(d) == (d - 1) \div MONTH
Year(d) == Month(d) \div 2

\* Bars a run sees: up to the last day held for the ticker.
Bars(t, held) == {d \in 1 .. held[t] : Closes[t][d] > 0}

\* The first bar from the target on, a slip.
BarAfter(t, target, held) == LET at == {d \in Bars(t, held) : d >= target} IN IF at = {} THEN NONE ELSE CHOOSE d \in at : \A e \in at : d <= e
LastBar(t, target, held) == LET at == {d \in Bars(t, held) : d <= target} IN IF at = {} THEN NONE ELSE Biggest(at)

-----------------------------------------------------------------------------
(***************************************************************************)
(* Momentum.                                                               *)
(***************************************************************************)
\* The month's last session, when today is the first of the next month.
Anchor(today) ==
    LET before == {s \in Sessions : s < today}
    IN IF today \in Sessions /\ \A s \in before : Month(s) < Month(today) THEN Biggest(before) ELSE NONE

\* A ticker without a price at one of the lookbacks is scored on the others, a slip.
AnyBase(t, anchor, held) == LastBar(t, anchor, held) # NONE /\ \E m \in LOOKBACK_MONTHS : LastBar(t, anchor - m * MONTH, held) # NONE

Scored(t, anchor, held) == LastBar(t, anchor, held) # NONE /\ \A m \in LOOKBACK_MONTHS : LastBar(t, anchor - m * MONTH, held) # NONE

\* The sum of the lookbacks' price ratios, in sixtieths: every close divides 60.
Composite(t, anchor, held) ==
    MapThenSumSet(LAMBDA m : LET base == LastBar(t, anchor - m * MONTH, held)
                             IN IF base = NONE THEN 60 ELSE (Closes[t][LastBar(t, anchor, held)] * 60) \div Closes[t][base], LOOKBACK_MONTHS)

Ranking(universe, anchor, held) ==
    LET scored == {t \in universe : Scored(t, anchor, held)}
        ahead(t, u) == \/ Composite(u, anchor, held) > Composite(t, anchor, held)
                       \/ Composite(u, anchor, held) = Composite(t, anchor, held) /\ u < t
    IN {[ticker |-> t, at |-> anchor, composite |-> Composite(t, anchor, held),
         rank |-> 1 + Cardinality({u \in scored : ahead(t, u)})] : t \in scored}

\* Rows are upserted by ticker, a slip: one that left the ranking stays in it.
Merged(rows, new, anchor) == {r \in rows : r.at # anchor \/ \A n \in new : n.ticker # r.ticker} \cup new

\* Every stored row goes, a slip.
OnlyNew(rows, new, anchor) == new
Replaced(rows, new, anchor) == {r \in rows : r.at # anchor} \cup new

Wrote(evidence, key, new) == {e \in evidence : e.key # key} \cup {[key |-> key, rows |-> new]}

\* Both passes run; one that fails leaves its table as it was.
MomentumRun(anchor, forced, reached, etfOnly, cachedOnly, failed) ==
    LET passes == (IF etfOnly THEN {"etf"} ELSE {"stock", "etf"}) \ failed
        fetched(t) == ~cachedOnly /\ t \in reached /\ \E p \in passes : t \in desk.universe[p]
        held == [t \in Tickers |-> IF fetched(t) THEN desk.day - 1 ELSE desk.held[t]]
        new == [p \in passes |-> Ranking(desk.universe[p], anchor, held)]
        departures == Cardinality(failed) + Cardinality(Tickers \ reached) + (IF ~forced /\ ~etfOnly THEN 0 ELSE 1)
    IN /\ cachedOnly => etfOnly
       /\ departures <= desk.mishaps
       /\ desk' = [desk EXCEPT !.held = held, !.ran = TRUE, !.mishaps = @ - departures]
       /\ stored' = [stored EXCEPT
              !.rankings = [p \in DOMAIN @ |-> IF p \in passes THEN Replaced(@[p], new[p], anchor) ELSE @[p]],
              !.wrote = UNION {{e \in @ : \A p \in passes : e.key # <<p, anchor>>},
                               {[key |-> <<p, anchor>>, rows |-> new[p]] : p \in passes}}]

\* The monthly gate, or an anchor forced by hand.
Momentum ==
    /\ desk.board = "momentum" /\ ~desk.ran
    /\ LET due == Anchor(desk.day) IN
       \E anchor \in ({due} \cup {s \in Sessions : s < desk.day /\ s >= desk.day - MONTH}) \ {NONE},
          reached \in SUBSET Tickers, etfOnly, cachedOnly \in BOOLEAN, failed \in SUBSET {"stock", "etf"} :
              MomentumRun(anchor, anchor # due, reached, etfOnly, cachedOnly, failed)

\* A rating is set or taken back, an ETF enters or leaves its universe.
UniverseChanges ==
    /\ desk.board = "momentum" /\ desk.mishaps > 0
    /\ \E p \in {"stock", "etf"}, t \in Tickers :
           desk' = [desk EXCEPT !.mishaps = @ - 1,
                       !.universe = [@ EXCEPT ![p] = IF t \in @ THEN @ \ {t} ELSE @ \cup {t}]]
    /\ UNCHANGED stored

Dates(rows) == {r.at : r \in rows}

\* The second newest snapshot, a slip.
SecondNewest(dates) == LET older == dates \ {Biggest(dates)} IN IF older = {} THEN NONE ELSE Biggest(older)
PreviousSnapshotDate(dates) ==
    LET earlier == {d \in dates : Month(d) < Month(Biggest(dates))} IN IF earlier = {} THEN NONE ELSE Biggest(earlier)

Page(rows, period) ==
    LET target == IF rows = {} THEN NONE ELSE IF period = "current" THEN Biggest(Dates(rows)) ELSE PreviousSnapshotDate(Dates(rows))
    IN {r \in rows : r.at = target}

-----------------------------------------------------------------------------
(***************************************************************************)
(* The sector heatmap.                                                     *)
(***************************************************************************)
\* The newest bar of any fund, up to the last completed session.
NewestBar(held) == LET days == UNION {Bars(t, held) : t \in Tickers} IN IF days = {} THEN NONE ELSE Biggest(days)
ResolveAnchor(held) ==
    LET days == {d \in UNION {Bars(t, held) : t \in Tickers} : d < desk.day} IN IF days = {} THEN NONE ELSE Biggest(days)

Target(window, anchor) == IF window = 0 THEN Year(anchor) * 2 * MONTH ELSE anchor - window

\* A fund that stopped printing bars is not shown as current.
AnyAge(t, anchor, held) == LastBar(t, anchor, held) # NONE
Current(t, anchor, held) == LastBar(t, anchor, held) # NONE /\ anchor - LastBar(t, anchor, held) <= MAX_STALE_DAYS

WindowReturn(t, window, anchor, held) ==
    LET base == IF Current(t, anchor, held) THEN LastBar(t, Target(window, anchor), held) ELSE NONE
    IN [ticker |-> t, window |-> window, at |-> anchor, base |-> base,
        pct |-> IF base = NONE THEN NONE ELSE (Closes[t][LastBar(t, anchor, held)] * 60) \div Closes[t][base]]

Cell(r) == <<r.ticker, r.window, r.at>>
Upserted(rows, new) == {r \in rows : \A n \in new : Cell(n) # Cell(r)} \cup new

\* A cutoff from the calendar, a slip.
PrunedByClock(rows, asOf) == {r \in rows : r.at >= desk.day - RETENTION_DAYS}
Pruned(rows, asOf) == {r \in rows : r.at >= asOf - RETENTION_DAYS}

\* A fund with no bars held is reported as failed and gets no row.
Heatmap(reached, early) ==
    LET held == [t \in Tickers |-> IF t \in reached THEN desk.day - (IF early THEN 0 ELSE 1) ELSE desk.held[t]]
        anchor == ResolveAnchor(held)
        new == {WindowReturn(t, w, anchor, held) : t \in {u \in Tickers : Bars(u, held) # {}}, w \in WINDOWS}
        departures == Cardinality(Tickers \ reached) + (IF early THEN 1 ELSE 0)
    IN /\ desk.board = "heatmap" /\ ~desk.ran
       /\ departures <= desk.mishaps
       /\ desk' = [desk EXCEPT !.held = held, !.ran = TRUE, !.mishaps = @ - departures]
       /\ stored' = IF anchor = NONE THEN stored
                    ELSE [stored EXCEPT !.cells = Pruned(Upserted(@, new), anchor), !.wrote = Wrote(@, <<"heatmap", anchor>>, new)]

-----------------------------------------------------------------------------
NextDay ==
    /\ desk.day < LastDay
    /\ desk' = [desk EXCEPT !.day = @ + 1, !.ran = FALSE]
    /\ UNCHANGED stored

InitBoards ==
    /\ \E board \in Boards :
           desk = [board |-> board, day |-> FirstDay, ran |-> FALSE, held |-> [t \in Tickers |-> NONE], mishaps |-> Mishaps,
                   universe |-> [stock |-> {t \in Tickers : t > 1}, etf |-> Tickers]]
    /\ stored = [rankings |-> [stock |-> {}, etf |-> {}], cells |-> {}, wrote |-> {}]

NextBoards ==
    \/ Momentum \/ UniverseChanges \/ NextDay
    \/ \E reached \in SUBSET Tickers, early \in BOOLEAN : Heatmap(reached, early)

SpecBoards == InitBoards /\ [][NextBoards]_dvars

-----------------------------------------------------------------------------
BoardTypeOK ==
    /\ desk.day \in FirstDay .. LastDay /\ desk.mishaps \in 0 .. Mishaps
    /\ \A r \in stored.cells : r.ticker \in Tickers /\ r.window \in WINDOWS
    /\ \A r, s \in stored.cells : Cell(r) = Cell(s) => r = s

\* A snapshot reads as its last run wrote it, whatever later runs did to
\* other anchors and the other table.
SnapshotsAsWritten ==
    \A e \in stored.wrote :
        /\ e.key[1] # "heatmap" => {r \in stored.rankings[e.key[1]] : r.at = e.key[2]} = e.rows
        /\ e.key[1] = "heatmap" /\ (\A f \in stored.wrote : e.key[2] >= f.key[2] - RETENTION_DAYS) =>
               {r \in stored.cells : r.at = e.key[2]} = e.rows

\* Ranks run from one without a gap or a tie, by composite and then name,
\* and everything ranked had a bar a whole lookback before the anchor.
RankingsAreOrdered ==
    \A p \in {"stock", "etf"} : \A d \in Dates(stored.rankings[p]) :
        LET rows == {r \in stored.rankings[p] : r.at = d}
        IN /\ {r.rank : r \in rows} = 1 .. Cardinality(rows)
           /\ \A r, s \in rows : r.rank < s.rank => r.composite > s.composite \/ (r.composite = s.composite /\ r.ticker < s.ticker)
           /\ \A r \in rows, m \in LOOKBACK_MONTHS : \E e \in 1 .. d - m * MONTH : Closes[r.ticker][e] > 0

\* The two momentum pages are never of one month, and no month with a
\* snapshot lies between them: a second run in the current month shadows
\* nothing.
PagesAreMonthsApart ==
    \A p \in {"stock", "etf"} :
        LET rows == stored.rankings[p]
            months == {Month(d) : d \in Dates(rows)}
            shown(period) == {Month(r.at) : r \in Page(rows, period)}
        IN Cardinality(months) > 1 =>
               /\ shown("current") = {Biggest(months)}
               /\ shown("previous") = {Biggest(months \ {Biggest(months)})}

\* The heatmap is of one completed session, and each return starts at the
\* fund's own last bar on or before the window's target and ends within
\* MAX_STALE_DAYS of the session.
HeatmapIsOneSession ==
    \A r \in stored.cells :
        /\ r.at \in Sessions /\ r.at < desk.day
        /\ r.base # NONE =>
               \E e \in r.at - MAX_STALE_DAYS .. r.at :
                   /\ Closes[r.ticker][e] > 0 /\ r.base <= e /\ r.base <= Target(r.window, r.at)
                   /\ r.pct = (Closes[r.ticker][e] * 60) \div Closes[r.ticker][r.base]
                   /\ \A d \in r.base + 1 .. e : d <= Target(r.window, r.at) => Closes[r.ticker][d] = 0

BoardsHold == SnapshotsAsWritten /\ RankingsAreOrdered /\ PagesAreMonthsApart /\ HeatmapIsOneSession
=============================================================================
