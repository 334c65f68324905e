---------------------------- MODULE OpportunityList ----------------------------
(***************************************************************************)
(* The weekly opportunity lists (data/opportunity_data.py and              *)
(* scoring/opportunity_rules.py, ranked by scoring/momentum.py): a gate,   *)
(* a ranking inside each group of gate passers, one list at most for each  *)
(* ticker by the age of its trend, and the rules that put it there.  A     *)
(* ticker is a record of what is stored of it; percentages are whole, and  *)
(* a name's order is a number.                                             *)
(***************************************************************************)
EXTENDS Arithmetic

CONSTANT Universes      \* sets of tickers, one per name

VARIABLES universe, weekly

\* The last rank in the top 1 / parts of a group, rounded up.
TopCut(size, parts) == (size + parts - 1) \div parts

-----------------------------------------------------------------------------
(***************************************************************************)
(* The gate and the tier.                                                  *)
(***************************************************************************)
GateReason(t) ==
    CASE t.benchmark -> "excluded"
      [] ~t.benchmark /\ t.delisted -> "delisted"
      [] OTHER ->
         CASE t.bars.last = "none" -> "no_bars"
           [] t.bars.last = "older" -> "stale_bar"
           [] OTHER ->
              CASE t.bars.provisional -> "provisional_bar"
                [] ~t.bars.provisional /\ t.bars.months < 12 -> "short_history"
                [] ~t.bars.provisional /\ t.bars.months >= 12 /\ t.bars.volume < 25 -> "illiquid"
                [] OTHER -> "none"

Passed(u) == {t \in u : GateReason(t) = "none"}

LeverageFactor(t) == IF ~t.fund THEN 0 ELSE IF t.curated # 0 THEN t.curated ELSE t.named

TierFor(t) ==
    CASE t.fund -> "etf"
      [] ~t.fund /\ t.verdict \in {"Pass", "Strong Pass"} -> "quality"
      [] OTHER -> "momentum_only"

\* An entry signal in the last ten sessions counts whether or not the ticker is still watched.
SignalStatus(t) ==
    CASE \E e \in t.signals : e.kind \in {"blue_up", "yellow_up", "bb_rsi"} /\ e.age \in 0 .. 9 -> "fired"
      [] OTHER -> IF t.monitored THEN "no_signal" ELSE "not_covered"

(***************************************************************************)
(* The trend row, read only when it was computed from the run's own last   *)
(* bar.                                                                    *)
(***************************************************************************)
NoTrend == [stage |-> "none", weeks |-> NA, pending |-> "none", slope |-> NA, rs |-> NA, over |-> NA]

\* Mutant: last night's row will do.
AnyTrend(t) == IF t.trend.on = "none" THEN NoTrend ELSE [k \in DOMAIN NoTrend |-> t.trend[k]]

Trend(t) == IF t.trend.on # "as_of" THEN NoTrend ELSE [k \in DOMAIN NoTrend |-> t.trend[k]]

WeeksInAdvance(t) == IF Trend(t).stage = "advance" THEN Trend(t).weeks ELSE NA

-----------------------------------------------------------------------------
(***************************************************************************)
(* The ranking.                                                            *)
(***************************************************************************)
\* Mutant: all funds are ranked together.
OneFundGroup(t) == IF t.fund THEN "etfs" ELSE "stocks"

Group(t) == CASE ~t.fund -> "stocks" [] t.fund /\ LeverageFactor(t) = 0 -> "etfs" [] OTHER -> "leveraged_etfs"

\* The sum of the returns orders as their average does.
Composite(t) == t.returns[1] + t.returns[2] + t.returns[3]

Rankable(t) == \A i \in 1 .. 3 : t.returns[i] # NA

\* Mutant: everything that has returns is ranked.
RankedAll(u, t) == {x \in u : Rankable(x) /\ Group(x) = Group(t)}

RankedWith(u, t) == {x \in Passed(u) : Rankable(x) /\ Group(x) = Group(t)}

Before(a, b) == Composite(a) > Composite(b) \/ (Composite(a) = Composite(b) /\ a.name < b.name)

Rank(u, t) == 1 + Cardinality({x \in RankedWith(u, t) : Before(x, t)})

\* Mutant: rounded down.
InTopFloor(u, t, parts) == Rankable(t) /\ Rank(u, t) <= Cardinality(RankedWith(u, t)) \div parts

InTop(u, t, parts) == Rankable(t) /\ Rank(u, t) <= TopCut(Cardinality(RankedWith(u, t)), parts)

-----------------------------------------------------------------------------
(***************************************************************************)
(* The lists.                                                              *)
(***************************************************************************)
\* An advance of at most eight weeks is a fresh one and belongs to Reversal.
AssignList(t) ==
    LET s == Trend(t) IN
    CASE s.stage = "advance" ->
             (IF WeeksInAdvance(t) = NA THEN "none" ELSE IF WeeksInAdvance(t) > 8 THEN "momentum" ELSE "reversal")
      [] s.stage \in {"decline", "base"} -> "reversal"
      [] OTHER -> IF s.pending = "advance" THEN "reversal" ELSE "none"

Extended(t) == Trend(t).over >= (IF TierFor(t) = "momentum_only" THEN 15 ELSE 20)

\* Not a runaway: what has no quality must be young, cooled down and among the strongest.
NoJunkRally(u, t) ==
    /\ WeeksInAdvance(t) <= 52
    /\ t.returns[1] # NA /\ t.returns[1] <= 30
    /\ t.returns[3] # NA /\ t.returns[3] <= 150
    /\ InTop(u, t, 5)

MomentumRules(u, t) ==
    LET s == Trend(t) IN
    IF /\ NA \notin {s.slope, s.rs, s.over}
       /\ s.slope > 0 /\ s.rs > 0 /\ ~Extended(t)
       /\ TierFor(t) = "momentum_only" => NoJunkRally(u, t)
       /\ TierFor(t) = "etf" => InTop(u, t, 3)
    THEN {"A"} ELSE {}

PriceStructureOk(t) ==
    LET p == t.price IN
    /\ p.drawdown # NA /\ p.now # NA /\ p.then # NA
    /\ p.drawdown >= (IF TierFor(t) = "momentum_only" THEN 30 ELSE 20)
    /\ p.higherLow /\ p.above /\ p.now > p.then /\ p.now >= -2

\* Mutant: a signal speaks for any stock.
AnyoneSignals(t) == SignalStatus(t) = "fired" /\ Trend(t).stage \in {"decline", "base"}

Signals(t) == TierFor(t) = "quality" /\ SignalStatus(t) = "fired" /\ Trend(t).stage \in {"decline", "base"}

ReversalRules(t) ==
    (IF TierFor(t) = "quality" /\ (Trend(t).stage = "base" \/ Trend(t).pending = "advance") THEN {"B1"} ELSE {})
    \cup (IF PriceStructureOk(t) THEN {"B2"} ELSE {})
    \cup (IF Signals(t) THEN {"B3"} ELSE {})

\* The rules that put a ticker on the one list its trend allows.
Place(u, t) ==
    CASE AssignList(t) = "momentum" -> MomentumRules(u, t)
      [] AssignList(t) = "reversal" -> ReversalRules(t)
      [] OTHER -> {}

HeldBackByMoat(t) == t.steps # NA /\ t.overall # NA /\ t.steps >= 70 /\ t.overall < 70

Tags(t) ==
    {k \in {"late_trend", "leveraged", "held_back_by_moat", "deep_pullback"} :
        CASE k = "late_trend" -> Trend(t).stage = "advance" /\ Trend(t).weeks >= 52
          [] k = "leveraged" -> LeverageFactor(t) > 0
          [] k = "held_back_by_moat" -> ~t.fund /\ HeldBackByMoat(t)
          [] OTHER -> AssignList(t) = "momentum" /\ PriceStructureOk(t)}

-----------------------------------------------------------------------------
(***************************************************************************)
(* The run.                                                                *)
(***************************************************************************)
Fresh(t) == t.trend.on = "as_of"

\* Mutant: an eighth of the stage rows may be missing.
HollowLater(u) == 8 * Cardinality({t \in Passed(u) : Fresh(t)}) < 7 * Cardinality(Passed(u))

\* Fewer than nine in ten gate passers have the night's stage row.
Hollow(u) == 10 * Cardinality({t \in Passed(u) : Fresh(t)}) < 9 * Cardinality(Passed(u))

\* On Reversal more rules come first.
Above(u, a, b) ==
    LET more == Cardinality(Place(u, a)) - Cardinality(Place(u, b)) IN
    IF AssignList(a) = "reversal" /\ more # 0 THEN more > 0 ELSE Before(a, b)

SnapshotRow(u, t, listed) ==
    [ticker |-> t.name, list |-> AssignList(t), tier |-> TierFor(t), rules |-> Place(u, t), tags |-> Tags(t),
     order |-> 1 + Cardinality({x \in listed : AssignList(x) = AssignList(t) /\ Above(u, x, t)})]

PoolRow(u, t) ==
    [ticker |-> t.name, tier |-> TierFor(t), assigned |-> AssignList(t), listed |-> Place(u, t) # {}, rank |-> Rank(u, t)]

Rows(u) ==
    LET listed == {t \in Passed(u) : Place(u, t) # {}} IN {SnapshotRow(u, t, listed) : t \in listed}

\* Every gate passer, listed or not.
Pool(u) == {PoolRow(u, t) : t \in Passed(u)}

ComputeRun(u) ==
    IF Hollow(u) THEN [status |-> "refused", rows |-> {}, pool |-> {}]
    ELSE [status |-> "computed", rows |-> Rows(u), pool |-> Pool(u)]

InitList == universe = {} /\ weekly = [status |-> "none", rows |-> {}, pool |-> {}]

\* compute_run of one as-of date.
BuildLists ==
    /\ weekly.status = "none"
    /\ \E u \in Universes : universe' = u /\ weekly' = ComputeRun(u)

NextList == BuildLists

-----------------------------------------------------------------------------
ListTypeOK ==
    /\ weekly.status \in {"none", "refused", "computed"}
    /\ \A r \in weekly.rows : r.list \in {"momentum", "reversal"} /\ r.tier \in {"etf", "quality", "momentum_only"}

Built == weekly.status = "computed"

\* "The ranked universe: every ticker that PASSES THE GATE" (data/opportunity_data.py:11):
\* what fails the gate, the benchmark, a delisted winner, a half-finished bar, moves
\* nobody's rank, place or order, and cannot make a run refuse.
OutsidersHaveNoSay == weekly.status # "none" => ComputeRun(Passed(universe)) = weekly

\* Whatever a stage row of another day says, the lists are those of a row that is missing.
StaleStageHasNoSay ==
    weekly.status # "none" =>
        ComputeRun({IF Fresh(t) THEN t ELSE [t EXCEPT !.trend.on = "none", !.trend.stage = "none"] : t \in universe}) = weekly

\* A list is not frozen while the stage job is behind: no more than a tenth of those who
\* pass the gate can be off the lists for want of a stage row.
ListsAreNotHollow ==
    Built => 10 * Cardinality({t \in Passed(universe) : ~Fresh(t)}) <= Cardinality(Passed(universe))

\* Stocks, funds and leveraged funds are ranked apart: without one group the others' rows
\* keep their ranks.
GroupsRankedApart ==
    Built => \A g \in {"stocks", "etfs", "leveraged_etfs"} :
        \A t \in {x \in Passed(universe) : Group(x) = g} :
            \E p \in weekly.pool :
                /\ p.ticker = t.name
                /\ p.rank = Rank({x \in universe : IF g = "stocks" THEN ~x.fund
                                                    ELSE x.fund /\ (LeverageFactor(x) > 0) = (g = "leveraged_etfs")}, t)

\* Momentum without quality is for the top fifth of the stocks and the top third of the
\* funds of a kind, never for more of them, and never for nobody: the best fund of a kind
\* in an old rising trend that is not extended is on the list.
OnlyTheStrongest ==
    Built =>
        LET on(tier) == {r.ticker : r \in {x \in weekly.rows : x.list = "momentum" /\ x.tier = tier}}
            stocks == {t \in Passed(universe) : ~t.fund}
            funds(l) == {t \in Passed(universe) : t.fund /\ (LeverageFactor(t) > 0) = l}
            rising(t) == AssignList(t) = "momentum" /\ Trend(t).slope > 0 /\ Trend(t).rs > 0 /\ Trend(t).over < 20
        IN /\ 5 * Cardinality(on("momentum_only")) < Cardinality(stocks) + 5
           /\ \A t \in stocks : t.name \in on("momentum_only") =>
                  5 * Cardinality({x \in stocks : Composite(x) > Composite(t)}) < Cardinality(stocks)
           /\ \A l \in BOOLEAN :
                  /\ 3 * Cardinality(on("etf") \cap {t.name : t \in funds(l)}) < Cardinality(funds(l)) + 3
                  /\ \A t \in funds(l) :
                         rising(t) /\ NA \notin {Trend(t).over, Trend(t).rs} /\ (\A x \in funds(l) \ {t} : Composite(x) < Composite(t))
                             => t.name \in on("etf")

\* A stock without quality and a fund turn only by their own prices: no watched signal
\* and no stage alone lists them.
OthersTurnByPrice ==
    \A r \in weekly.rows : r.list = "reversal" /\ r.tier # "quality" => r.rules = {"B2"}

\* One row for each listed ticker, numbered without a gap in each list.
OrderedOnce ==
    /\ \A r, x \in weekly.rows : r.ticker = x.ticker => r = x
    /\ \A l \in {"momentum", "reversal"} :
           LET rows == {r \in weekly.rows : r.list = l} IN {r.order : r \in rows} = 1 .. Cardinality(rows)

(***************************************************************************)
(* What freezing a list promises.                                          *)
(***************************************************************************)
ListsRestOnTheGate ==
    /\ OutsidersHaveNoSay /\ StaleStageHasNoSay /\ ListsAreNotHollow
    /\ GroupsRankedApart /\ OnlyTheStrongest /\ OthersTurnByPrice /\ OrderedOnce
=============================================================================
