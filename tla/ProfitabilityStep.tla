--------------------------- MODULE ProfitabilityStep ---------------------------
(***************************************************************************)
(* The Profitability check (scoring/step4.py over the series               *)
(* data/step4_data.py reads): two return ratios judged by level,           *)
(* consistency and decline, and two kinds of evidence beside them,         *)
(* receivables against revenue and the cash conversion cycle.  Returns are *)
(* whole percents and cycles whole days, oldest year first and the         *)
(* trailing twelve months last; days of sales are kept to the hundredth.   *)
(***************************************************************************)
EXTENDS Arithmetic

LOCAL INSTANCE SequencesExt
LOCAL INSTANCE FiniteSetsExt

CONSTANTS
    Returns,       \* years of [roe, equity, income, roic], NA where FMP has no figure
    Evidence,      \* years of [revenue, receivables], and the cycle in days, empty without an inventory
    ProfitTypes,   \* company types
    ProfitWeights  \* weights of roe, roic, ar and ccc

VARIABLES profitInputs, profitCard

Sum(s) == FoldSeq(LAMBDA x, y : x + y, 0, s)
Column(rows, field) == [i \in DOMAIN rows |-> rows[i][field]]
Lowest(s) == CHOOSE x \in {s[i] : i \in DOMAIN s} : \A i \in DOMAIN s : x <= s[i]
Latest(s, P(_)) == CHOOSE i \in DOMAIN s : P(s[i]) /\ \A j \in DOMAIN s : P(s[j]) => j <= i

-----------------------------------------------------------------------------
(***************************************************************************)
(* Returns.                                                                *)
(***************************************************************************)
\* Mutant: the placeholder of a year without a figure counts as a return of zero.
WithPlaceholders(s) == SelectSeq(s, LAMBDA x : x # NA)

RealPoints(s) == SelectSeq(s, LAMBDA x : x # NA /\ x # 0)

ResolvedDips(v) == {d \in Dips(v) : BackAtBase(v, d) \/ DurablyResolved(v, d)}

\* What is left once the last dip that was made good, and all before it, is dropped.
DropDips(v, made) ==
    LET last == CHOOSE e \in made : \A f \in made : f <= e IN
    IF made = {} \/ Len(v) - last < 3 THEN v ELSE SubSeq(v, last + 2, Len(v))

AfterRecovery(v) == DropDips(v, {d.end : d \in ResolvedDips(v)})

\* The mean, without a maximum at least twice the median of the others.
SpikeRobust(v) ==
    LET top == CHOOSE i \in DOMAIN v : \A j \in DOMAIN v : v[i] > v[j] \/ (v[i] = v[j] /\ i <= j)
        others == SortSeq(RemoveAt(v, top), <)
        n == Len(others)
        median2 == others[(n + 1) \div 2] + others[n \div 2 + 1]
    IN IF Len(v) >= 3 /\ median2 > 0 /\ v[top] >= median2
       THEN [num |-> Sum(others), den |-> n] ELSE [num |-> Sum(v), den |-> Len(v)]

\* The worst year is at least 8 %, or is long past and the series has recovered.
Consistent(v) ==
    LET worst == Lowest(v) IN worst >= 8 \/ (Len(v) - Latest(v, LAMBDA x : x = worst) > 3 /\ Recovers(v))

Tier(label, points) == [label |-> label, points |-> points]

TierOf(mean, consistent) ==
    LET over(percent) == mean.num > percent * mean.den
        atLeast(percent) == mean.num >= percent * mean.den
    IN CASE over(15) /\ consistent -> Tier("excellent", {100})
         [] ~over(15) /\ atLeast(12) /\ consistent -> Tier("good", {85})
         [] atLeast(8) /\ (~atLeast(12) \/ ~consistent) -> Tier("marginal", {60})
         [] ~atLeast(8) /\ atLeast(0) -> Tier("weak_but_positive", Nearest(160 * mean.den + 35 * mean.num, 8 * mean.den))
         [] OTHER -> Tier("fail", {0})

ReturnTier(v) == TierOf(SpikeRobust(v), Consistent(v))

\* Two falls in a row that reach the limit together.
Sustained(v, limit) ==
    \E i \in 1 .. Len(v) - 2 : v[i + 1] < v[i] /\ v[i + 2] < v[i + 1] /\ v[i] - v[i + 2] >= limit

\* The last year is below the average of the first three.
BelowStart(v) ==
    LET w == IF Len(v) < 3 THEN Len(v) ELSE 3 IN w * Last(v) < Sum(SubSeq(v, 1, w))

Demoted(tier, v) ==
    CASE tier.label = "excellent" /\ Sustained(v, 15) /\ BelowStart(v) -> Tier("good", {85})
      [] tier.label = "good" /\ Sustained(v, 15) /\ BelowStart(v) -> Tier("marginal", {60})
      [] OTHER -> tier

\* A loss in the latest year holds the points at 40.
LatestCapped(tier, real) ==
    IF Last(real) < 0 THEN [tier EXCEPT !.points = {IF p > 40 THEN 40 ELSE p : p \in tier.points}] ELSE tier

ScoreReal(real, kept) == LatestCapped(Demoted(ReturnTier(kept), kept), real)

ScoreReturn(s) ==
    LET real == RealPoints(s) IN
    IF real = <<>> THEN Tier("insufficient_data", {0}) ELSE ScoreReal(real, AfterRecovery(real))

\* Net income where equity is negative: never a loss and no less than at first,
\* or the last loss is long past and made good.
IncomeConsistent(income) ==
    IF \A i \in DOMAIN income : income[i] > 0
    THEN Last(income) >= income[1]
    ELSE Len(income) - Latest(income, LAMBDA x : x <= 0) > 3 /\ Recovers(income)

NegativeEquity(rows) == \E i \in DOMAIN rows : rows[i].equity < 0

ScoreRoe(rows) ==
    IF NegativeEquity(rows)
    THEN IF IncomeConsistent(Column(rows, "income"))
         THEN Tier("positive_despite_negative_equity", {100})
         ELSE Tier("negative_equity_inconsistent_income", {60})
    ELSE ScoreReturn(Column(rows, "roe"))

-----------------------------------------------------------------------------
(***************************************************************************)
(* Receivables against revenue.                                            *)
(***************************************************************************)
\* How much faster receivables grew than revenue, as a fraction.
Gap(r, a) == [num |-> a.num * r.den - r.num * a.den, den |-> a.den * r.den]

DaysOfSales(sales) ==
    LET sold == SelectSeq(sales, LAMBDA y : y.revenue # 0)
    IN [i \in DOMAIN sold |-> (36500 * sold[i].receivables) \div sold[i].revenue]

\* The days of sales are more than 15 above those of the first years.
DaysRise(sales) == LET d == DaysOfSales(sales) IN Len(d) >= 3 /\ LateDirection6(d, FALSE) > 6 * 1500

ScoreReceivables(sales) ==
    LET n == Len(sales) - 1
        years == {i \in 1 .. n : sales[i].revenue # 0 /\ sales[i].receivables # 0}
        grew(i) == Change(sales[i].revenue, sales[i + 1].revenue)
        owed(i) == Change(sales[i].receivables, sales[i + 1].receivables)
        outpaced == {i \in years : ChangeAbove(Gap(grew(i), owed(i)), 2)}
        large == {i \in outpaced : ChangeAbove(Gap(grew(i), owed(i)), 50)}
        recent(i) == i > n - 3
        limit == IF (6 * n + 5) \div 10 < 3 THEN 3 ELSE (6 * n + 5) \div 10
    IN CASE DaysRise(sales) \/ (\E i \in years : recent(i) /\ ChangeBelow(grew(i), -2) /\ ChangeAbove(owed(i), 2)) -> 0
         [] OTHER ->
            IF (Cardinality(outpaced) >= limit \/ large # {}) /\ (\E i \in outpaced : recent(i)) THEN 40
            ELSE IF Cardinality(outpaced) <= 1 /\ (\A i \in outpaced : ~ChangeAbove(Gap(grew(i), owed(i)), 15)) THEN 100 ELSE 70

-----------------------------------------------------------------------------
(***************************************************************************)
(* The cash conversion cycle.  Fewer days are better, and below zero the   *)
(* suppliers pay for the business.                                         *)
(***************************************************************************)
Pattern(label, points) == [label |-> label, points |-> points]

\* From 40 points at 10 more days down to none at 50.
UpwardPoints(num, den) ==
    IF num <= 10 * den THEN {40} ELSE IF num >= 50 * den THEN {0} ELSE Nearest(50 * den - num, den)

\* Three times the late average less the early one; with fewer than three years they are the same.
Direction3(v) ==
    LET n == Len(v) IN IF n < 3 THEN 0 ELSE v[n] + v[n - 1] + v[n - 2] - v[1] - v[2] - v[3]
RobustDirection6(v) == IF Len(v) < 3 THEN 0 ELSE LateDirection6(v, FALSE)

\* Mutant: more days are taken for the better direction.
UnnegatedCycle(days) == days

Negated(days) == [i \in DOMAIN days |-> -days[i]]

PositiveCycle(days) ==
    LET v == Negated(days)
        direction == Direction3(v)
        robust == RobustDirection6(v)
        sustained == Sustained(v, 5)
        rises == Cardinality({i \in Changes(v) : v[i + 1] - v[i] < -3})
    IN CASE sustained /\ direction < -3 -> Pattern("sustained_upward", UpwardPoints(-direction, 3))
         [] ~(sustained /\ direction < -3) /\ rises >= 2 /\ Size(direction) < 6 -> Pattern("volatile_no_trend", {40})
         [] OTHER ->
            CASE direction >= -3 /\ ~sustained /\ robust < -6 -> Pattern("sustained_upward", UpwardPoints(-robust, 6))
              [] direction >= -3 /\ (sustained \/ robust >= -6) ->
                     IF rises >= 1 THEN Pattern("volatile_but_net_declining", {70}) ELSE Pattern("declining_or_stable", {100})
              [] OTHER -> Pattern("sustained_upward", UpwardPoints(-direction, 3))

\* The one year on the other side of zero, three times as far from it as the rest.
Isolated(side, rest) ==
    LET sizes == SortSeq([i \in DOMAIN rest |-> Size(rest[i])], <)
        n == Len(sizes)
    IN Len(side) = 1 /\ n >= 3 /\ 2 * Size(side[1]) >= 3 * (sizes[(n + 1) \div 2] + sizes[n \div 2 + 1])

ClassifyCycle(days) ==
    LET below == SelectSeq(days, LAMBDA x : x < -1)
        above == SelectSeq(days, LAMBDA x : x > 1)
        w == IF Len(days) < 3 THEN Len(days) ELSE 3
        early == Sum(SubSeq(days, 1, w))
        late6w == w * RobustDirection6(days) + 6 * early
    IN CASE above = <<>> -> Pattern("consistently_negative", {100})
         [] above # <<>> /\ below = <<>> -> PositiveCycle(days)
         [] OTHER ->
            CASE Isolated(below, above) -> PositiveCycle(days)
              [] ~Isolated(below, above) /\ Isolated(above, below) -> Pattern("consistently_negative", {100})
              [] OTHER ->
                 CASE early > w /\ late6w < -6 * w -> Pattern("gained_bargaining_power", {100})
                   [] early < -w /\ late6w > 6 * w -> Pattern("lost_bargaining_power", {0})
                   [] OTHER ->
                      IF \A i \in DOMAIN days : Size(days[i]) <= 10
                      THEN Pattern("negligible_working_capital", {85}) ELSE Pattern("mixed_unclear", {40})

-----------------------------------------------------------------------------
(***************************************************************************)
(* The blend.                                                              *)
(***************************************************************************)
\* Banks, insurers, REITs and regulated utilities are judged by ROE alone.
Exempt(type) == type # "Standard"

RoeYears(rows)  == SelectSeq(rows, LAMBDA y : y.roe # NA /\ y.equity # NA /\ y.income # NA)
RoicYears(rows) == SelectSeq(Column(rows, "roic"), LAMBDA x : x # NA)
SoldYears(sales) == SelectSeq(sales, LAMBDA y : y.revenue # NA /\ y.receivables # NA)

\* What applies, and what it scores.
Metrics(type, rows, evidence) ==
    [roe  |-> ScoreRoe(RoeYears(rows)),
     roic |-> IF Exempt(type) \/ Len(RoicYears(rows)) < 2 THEN Tier("exempt", {0}) ELSE ScoreReturn(RoicYears(rows)),
     ar   |-> IF Exempt(type) THEN Tier("exempt", {0}) ELSE Tier("scored", {ScoreReceivables(SoldYears(evidence.sales))}),
     ccc  |-> IF Exempt(type) \/ Len(evidence.days) < 2 THEN Tier("exempt", {0}) ELSE ClassifyCycle(evidence.days)]

Applicable(m) == {k \in {"roe", "roic", "ar", "ccc"} : m[k].label # "exempt"}

HardFail(m) == m.roe.label = "fail" \/ m.roic.label = "fail"

HistoryPoints(type, rows) ==
    LET roe == IF NegativeEquity(RoeYears(rows)) THEN Len(RoeYears(rows)) ELSE Len(RealPoints(Column(RoeYears(rows), "roe")))
        roic == Len(RealPoints(RoicYears(rows)))
    IN IF Exempt(type) \/ Len(RoicYears(rows)) < 2 \/ roe < roic THEN roe ELSE roic

\* Mutant: a short history is not held back.
AnyHistory(score, points) == score

\* A short history is no Strong Pass.
ThinCapped(score, points) == IF points < 8 /\ score > 90 THEN 90 ELSE score

\* Mutant: the average decides alone.
ScoreAlone(score, hard) == IF score < 70 THEN "Fail" ELSE IF score > 90 THEN "Strong Pass" ELSE "Pass"

ProfitVerdict(score, hard) ==
    CASE hard \/ score < 70 -> "Fail" [] ~hard /\ score > 90 -> "Strong Pass" [] OTHER -> "Pass"

\* Mutant: a gap in a series that is not scored blocks the card too.
EnoughOfAll(type, rows, evidence) == Len(RoeYears(rows)) >= 2 /\ Len(SoldYears(evidence.sales)) >= 2

EnoughYears(type, rows, evidence) ==
    Len(RoeYears(rows)) >= 2 /\ (Exempt(type) \/ Len(SoldYears(evidence.sales)) >= 2)

Blend(m, years, w) ==
    LET weight == MapThenSumSet(LAMBDA k : w[k], Applicable(m))
        totals == {w["roe"] * a + w["roic"] * b + w["ar"] * c + w["ccc"] * d :
                       a \in m.roe.points, b \in m.roic.points, c \in m.ar.points, d \in m.ccc.points}
    IN {LET s == ThinCapped(score, years) IN [score |-> s, verdict |-> ProfitVerdict(s, HardFail(m))] :
           score \in UNION {Nearest(t, weight) : t \in totals}}

Cards(type, rows, evidence, w) ==
    IF ~EnoughYears(type, rows, evidence) THEN {[score |-> NA, verdict |-> "insufficient_data"]}
    ELSE Blend(Metrics(type, rows, evidence), HistoryPoints(type, rows), w)

InitProfit == profitInputs = [type |-> "none"] /\ profitCard = [score |-> NA, verdict |-> "none"]

\* get_step4_data of one ticker.
GetStep4Data ==
    /\ profitInputs.type = "none"
    /\ \E type \in ProfitTypes, rows \in Returns, evidence \in Evidence, w \in ProfitWeights :
           /\ profitInputs' = [type |-> type, rows |-> rows, evidence |-> evidence, weights |-> w]
           /\ \E card \in Cards(type, rows, evidence, w) : profitCard' = card

NextProfit == GetStep4Data

-----------------------------------------------------------------------------
ProfitTypeOK ==
    /\ profitInputs.type \in {"none"} \cup ProfitTypes
    /\ profitCard.score \in {NA} \cup 0 .. 100
    /\ profitCard.verdict \in {"none", "Fail", "Pass", "Strong Pass", "insufficient_data"}

Given == profitInputs.type # "none"
Rated == Given /\ profitCard.score # NA
Sold == SoldYears(profitInputs.evidence.sales)
Here == Metrics(profitInputs.type, profitInputs.rows, profitInputs.evidence)

\* A return that destroys capital fails the card, however good the evidence beside
\* it; a company that is only mediocre, and never below zero, is not failed so
\* (the comment at scoring/step4.py:60-76).
DestroyersFail ==
    Rated =>
        /\ HardFail(Here) => profitCard.verdict = "Fail"
        /\ (\A i \in DOMAIN profitInputs.rows : profitInputs.rows[i].roe >= 0 /\ profitInputs.rows[i].roic >= 0)
              => ~HardFail(Here)

\* A company that earns more than 15 % in every year it has figures for, and never
\* less than the year before, is excellent: no year without a figure, wherever it
\* lies, and no rule about recoveries, spikes or declines takes that away.
SteadyReturnsExcel ==
    Rated =>
        LET v == SelectSeq(Column(profitInputs.rows, "roe"), LAMBDA x : x \notin {0, NA}) IN
        v # <<>> /\ (\A i \in DOMAIN v : v[i] > 15) /\ (\A i \in Changes(v) : v[i] <= v[i + 1])
            => Here.roe.points = {100}

\* Receivables that never outgrow revenue earn full points, and a cycle that gets
\* shorter every year is never read as one that gets longer.
GoodEvidenceCounts ==
    /\ Rated /\ ~Exempt(profitInputs.type) =>
           ((\A i \in 1 .. Len(Sold) - 1 :
                 /\ Sold[i].revenue > 0 /\ Sold[i].receivables > 0 /\ Sold[i + 1].revenue > 0
                 /\ Sold[i + 1].receivables * Sold[i].revenue <= Sold[i].receivables * Sold[i + 1].revenue)
            => Here.ar.points = {100})
    /\ Rated =>
           ((\A i \in Changes(profitInputs.evidence.days) :
                 profitInputs.evidence.days[i + 1] <= profitInputs.evidence.days[i])
            => Here.ccc.label \notin {"sustained_upward", "lost_bargaining_power", "volatile_no_trend"})

\* Fewer than eight years is never a Strong Pass, and a gap in figures that are not
\* scored never keeps a company from its score.
HistoryCounts ==
    /\ Rated /\ HistoryPoints(profitInputs.type, profitInputs.rows) < 8 => profitCard.verdict # "Strong Pass"
    /\ Given /\ Exempt(profitInputs.type) /\ Len(RoeYears(profitInputs.rows)) >= 2 => profitCard.score # NA

(***************************************************************************)
(* What the Profitability card promises of its returns and its evidence.   *)
(***************************************************************************)
ProfitReadsReturns == DestroyersFail /\ SteadyReturnsExcel /\ GoodEvidenceCounts /\ HistoryCounts
=============================================================================
