------------------------------ MODULE DebtStep ------------------------------
(***************************************************************************)
(* The Debt check (scoring/step5.py over the figures data/step5_data.py    *)
(* reads).  A company's figures are classified ratio by ratio, a           *)
(* borderline breach may be excused by its context, and the points are     *)
(* blended with a saved weight set.  Nothing forces a verdict: that a      *)
(* breach ends below the pass line is left to the weights.  Ratios are     *)
(* fractions of whole amounts and are compared by cross-multiplying.  A    *)
(* score half-way between two whole numbers may go either way, as the      *)
(* shares are floats.                                                      *)
(***************************************************************************)
EXTENDS Arithmetic

CONSTANTS
    Balances,      \* the newest balance sheet: current assets, current liabilities, deferred revenue
    Earnings,      \* total debt, EBITDA
    Services,      \* net interest expense, operating cash flow
    Coverages,     \* EBIT, interest expense
    Contexts,      \* the breach-context signals that are read from other figures
    WeightSets,    \* weight sets in the bounds of the Settings page
    Gearings, Cet1s, Npls  \* percentages of a REIT and of a bank

VARIABLES
    debtPath,      \* "none", "standard", "reit" or "bank"
    debtInputs,
    debtWeights,
    debtScore

dvars == <<debtPath, debtInputs, debtWeights, debtScore>>

CR == "current_ratio"
DE == "debt_to_ebitda"
DS == "debt_servicing_ratio"

\* The bounds, the order and the sum a saved weight set keeps.
ValidWeights(w) ==
    /\ w[CR] \in 15 .. 30 /\ w[DE] \in 35 .. 60 /\ w[DS] \in 15 .. 30
    /\ w[DE] > w[DS] /\ w[DS] > w[CR]
    /\ w[CR] + w[DE] + w[DS] = 100

Result(label, points) == [label |-> label, points |-> points, breach |-> FALSE, saved |-> FALSE, excluded |-> FALSE]
Saved(r) == [r EXCEPT !.saved = TRUE]
Breach(label, points) == [Result(label, points) EXCEPT !.breach = TRUE]

\* From 15 points at the severe line down to 0, left of the full range to go; half to even.
Graduated(left, full) ==
    LET q == (15 * left) \div full
        rest == 2 * ((15 * left) % full)
    IN IF left <= 0 THEN 0 ELSE IF rest < full \/ (rest = full /\ q % 2 = 0) THEN q ELSE q + 1

-----------------------------------------------------------------------------
(***************************************************************************)
(* Current ratio.                                                          *)
(***************************************************************************)
\* ca / cl >= tenths / 10.
AtLeast(ca, cl, tenths) == 10 * ca >= tenths * cl

Tier(ca, cl) ==
    CASE ~AtLeast(ca, cl, 15) -> Result("acceptable", 70)
      [] AtLeast(ca, cl, 15) /\ ca <= 2 * cl -> Result("good", 85)
      [] OTHER -> Result("excellent", 100)

\* Liabilities less deferred revenue; the raw ones when nothing would be left.
Adjusted(b) == IF b.deferred # NA /\ b.cl - b.deferred > 0 THEN b.cl - b.deferred ELSE b.cl

ScoreCurrentRatio(b) ==
    CASE AtLeast(b.ca, b.cl, 10) -> Tier(b.ca, b.cl)
      [] ~AtLeast(b.ca, b.cl, 10) /\ AtLeast(b.ca, Adjusted(b), 10) -> Saved(Tier(b.ca, Adjusted(b)))
      [] ~AtLeast(b.ca, b.cl, 10) /\ ~AtLeast(b.ca, Adjusted(b), 10) /\ AtLeast(b.ca, Adjusted(b), 7) -> Breach("borderline_fail", 0)
      [] OTHER -> Breach("severe", 0)

(***************************************************************************)
(* Debt / EBITDA.                                                          *)
(***************************************************************************)
ScoreDebtToEbitda(e) ==
    CASE e.ebitda <= 0 -> Breach("negative_ebitda", 0)
      [] e.ebitda > 0 /\ e.debt <= e.ebitda -> Result("excellent", 100)
      [] e.ebitda > 0 /\ e.debt > e.ebitda /\ e.debt <= 2 * e.ebitda -> Result("good", 85)
      [] e.ebitda > 0 /\ e.debt > 2 * e.ebitda /\ e.debt <= 3 * e.ebitda -> Result("acceptable", 70)
      [] e.ebitda > 0 /\ e.debt > 3 * e.ebitda /\ e.debt <= 4 * e.ebitda -> Breach("borderline_fail", 0)
      [] OTHER -> Breach("severe", Graduated(10 * e.ebitda - e.debt, 6 * e.ebitda))

(***************************************************************************)
(* Debt servicing.                                                         *)
(***************************************************************************)
IcrKnown(c) == c.ebit # NA /\ c.interest # NA /\ c.interest > 0
IcrSafe(c) == IcrKnown(c) /\ c.ebit > 3 * c.interest

DsrKnown(s) == s.net # NA /\ s.cfo # NA /\ s.cfo > 0
\* net / cfo < percent.
Under(s, percent) == 100 * s.net < percent * s.cfo

ScoreDebtServicing(s, c) ==
    CASE ~DsrKnown(s) -> [Result("excluded_negative_cfo", 0) EXCEPT !.excluded = TRUE]
      [] DsrKnown(s) /\ Under(s, 10) -> Result("excellent", 100)
      [] DsrKnown(s) /\ ~Under(s, 10) /\ Under(s, 20) -> Result("good", 85)
      [] DsrKnown(s) /\ ~Under(s, 20) /\ Under(s, 30) -> Result("approaching_limit", 60)
      [] DsrKnown(s) /\ ~Under(s, 30) /\ Under(s, 40) ->
             IF IcrSafe(c) THEN Saved(Result("borderline_saved_by_icr", 60)) ELSE Breach("borderline_fail", 0)
      [] OTHER -> Breach("severe", Graduated(120 * s.cfo - 100 * s.net, 80 * s.cfo))

-----------------------------------------------------------------------------
(***************************************************************************)
(* The breach context.                                                     *)
(***************************************************************************)
Signal(known, good) == IF ~known THEN "not_computable" ELSE IF good THEN "favorable" ELSE "unfavorable"

\* Debt has fallen by a tenth since five years ago; free cash flow; interest coverage.
DebtSignals(f) == <<f.context.debtTrend, f.context.fcf, Signal(IcrKnown(f.coverage), IcrSafe(f.coverage))>>

\* Deferred revenue is material; the ratio has not fallen by a tenth; cash; receivables.
CurrentSignals(f) == <<
    Signal(f.balance.deferred # NA, 100 * f.balance.deferred >= 15 * f.balance.cl),
    f.context.ratioTrend, f.context.cash, f.context.quality>>

Count(signals, status) == Cardinality({i \in DOMAIN signals : signals[i] = status})

\* A strict majority of what can be computed.
Excused(signals) == Count(signals, "favorable") > Count(signals, "unfavorable")

\* 40 and a share of the 20 up to a saved breach.
MarginalScore(signals) ==
    LET good == Count(signals, "favorable")
        all == good + Count(signals, "unfavorable")
    IN CHOOSE s \in Nearest(40 * all + 20 * good, all) : TRUE

Marginal(signals) == Saved(Result("marginal_via_breach_context", MarginalScore(signals)))

\* Mutant: a debt servicing ratio that is unknown vouches for the others.
ServiceCleanIfKnown(f) == DsrKnown(f.service) => Under(f.service, 30)

\* The gates read the raw figures of the other two ratios.
ServiceClean(f) == DsrKnown(f.service) /\ Under(f.service, 30)
LiquidityClean(f) == AtLeast(f.balance.ca, f.balance.cl, 10)
LeverageClean(f) == f.earnings.ebitda > 0 /\ f.earnings.debt <= 3 * f.earnings.ebitda

DebtRatio(f) ==
    LET r == ScoreDebtToEbitda(f.earnings)
    IN IF r.label = "borderline_fail" /\ LiquidityClean(f) /\ ServiceClean(f) /\ Excused(DebtSignals(f))
       THEN Marginal(DebtSignals(f)) ELSE r

CurrentRatio(f) ==
    LET r == ScoreCurrentRatio(f.balance)
    IN IF r.label = "borderline_fail" /\ LeverageClean(f) /\ ServiceClean(f) /\ Excused(CurrentSignals(f))
       THEN Marginal(CurrentSignals(f)) ELSE r

Ratios(f) == [
    current_ratio |-> CurrentRatio(f),
    debt_to_ebitda |-> DebtRatio(f),
    debt_servicing_ratio |-> ScoreDebtServicing(f.service, f.coverage)]

-----------------------------------------------------------------------------
(***************************************************************************)
(* The blend and its verdict.                                              *)
(***************************************************************************)
\* Weight and points of the ratios that apply.
Weight(r, w) == w[CR] + w[DE] + (IF r[DS].excluded THEN 0 ELSE w[DS])
Points(r, w) == w[CR] * r[CR].points + w[DE] * r[DE].points + (IF r[DS].excluded THEN 0 ELSE w[DS] * r[DS].points)

Caution(r) == \E k \in {CR, DE, DS} : r[k].saved \/ r[k].breach

\* Mutant: only an excused breach is capped.
CappedIfSaved(s, r) == IF (\E k \in {CR, DE, DS} : r[k].saved) /\ s >= 70 THEN (IF s < 74 THEN s ELSE 74) ELSE s

Capped(s, r) == IF Caution(r) /\ s >= 70 THEN (IF s < 74 THEN s ELSE 74) ELSE s

Verdict(s, caution) ==
    CASE s < 70 -> "Fail"
      [] s >= 70 /\ caution -> "Pass with caution"
      [] s > 90 /\ ~caution -> "Strong Pass"
      [] OTHER -> "Pass"

NoScore == [score |-> -1, verdict |-> "none"]

\* Step5Out of an ordinary company: the ratios need a current ratio, debt and EBITDA.
Computable(f) ==
    /\ f.balance.ca # NA /\ f.balance.cl # NA /\ f.balance.cl # 0
    /\ f.earnings.debt # NA /\ f.earnings.ebitda # NA

ScoreStandard ==
    /\ debtPath = "none"
    /\ debtPath' = "standard"
    /\ \E b \in Balances, e \in Earnings, s \in Services, c \in Coverages, x \in Contexts, w \in WeightSets :
           LET f == [balance |-> b, earnings |-> e, service |-> s, coverage |-> c, context |-> x] IN
           /\ debtInputs' = f
           /\ debtWeights' = w
           /\ IF Computable(f)
              THEN LET r == Ratios(f) IN
                   \E score \in Nearest(Points(r, w), Weight(r, w)) :
                       debtScore' = [score |-> Capped(score, r), verdict |-> Verdict(Capped(score, r), Caution(r))]
              ELSE debtScore' = [score |-> -1, verdict |-> "insufficient_data"]

\* Gearing of a REIT or property developer.
GearingPoints(g) == CASE g < 30 -> 100 [] g >= 30 /\ g <= 40 -> 85 [] g > 40 /\ g <= 45 -> 70 [] OTHER -> 0

ScoreReit ==
    /\ debtPath = "none"
    /\ debtPath' = "reit"
    /\ \E g \in Gearings :
           /\ debtInputs' = [gearing |-> g]
           /\ debtScore' = [score |-> GearingPoints(g), verdict |-> Verdict(GearingPoints(g), FALSE)]
    /\ UNCHANGED debtWeights

\* Mutant: the worst tier of the capital ratio is scored like the next one.
Cet1PointsFlat(p) == CASE p < 12 -> 70 [] p >= 12 /\ p < 14 -> 85 [] OTHER -> 100

\* The two halves of a bank's score.
Cet1Points(p) == CASE p < 10 -> 0 [] p >= 10 /\ p < 12 -> 70 [] p >= 12 /\ p < 14 -> 85 [] OTHER -> 100
NplPoints(p) == CASE p >= 5 -> 0 [] p >= 3 /\ p < 5 -> 70 [] p >= 1 /\ p < 3 -> 85 [] OTHER -> 100

\* The capital ratio is typed in by hand; a bank without one is not scored.
ScoreBank ==
    /\ debtPath = "none"
    /\ debtPath' = "bank"
    /\ \E cet1 \in Cet1s, npl \in Npls :
           /\ debtInputs' = [cet1 |-> cet1, npl |-> npl]
           /\ IF cet1 = NA \/ npl = NA
              THEN debtScore' = [score |-> -1, verdict |-> "not_supported"]
              ELSE \E score \in Nearest(Cet1Points(cet1) + NplPoints(npl), 2) :
                       debtScore' = [score |-> score, verdict |-> Verdict(score, FALSE)]
    /\ UNCHANGED debtWeights

InitDebt ==
    /\ debtPath = "none"
    /\ debtInputs = [gearing |-> 0]
    /\ debtWeights = [k \in {CR, DE, DS} |-> 0]
    /\ debtScore = NoScore

NextDebt == ScoreStandard \/ ScoreReit \/ ScoreBank

DebtSpec == InitDebt /\ [][NextDebt]_dvars

-----------------------------------------------------------------------------
TypeOK ==
    /\ debtPath \in {"none", "standard", "reit", "bank"}
    /\ debtScore.score \in -1 .. 100
    /\ debtScore.verdict \in {"none", "Fail", "Pass with caution", "Pass", "Strong Pass", "insufficient_data", "not_supported"}

Scored == debtPath = "standard" /\ debtScore.score >= 0

(***************************************************************************)
(* "With the hard fail gone it is the weights that end it below 70"        *)
(* (docs/specs/debt.md:186): an unexcused debt breach, whatever the other  *)
(* figures and also when the debt servicing ratio drops out, fails.        *)
(***************************************************************************)
DebtBreachFails == Scored /\ DebtRatio(debtInputs).breach => debtScore.verdict = "Fail"

\* So do any two unexcused breaches, whose joint weight no third ratio carries.
TwoBreachesFail ==
    Scored /\ Cardinality({k \in {CR, DE, DS} : Ratios(debtInputs)[k].breach}) >= 2 => debtScore.verdict = "Fail"

\* A breach that passes, excused or carried by the others, never passes as a
\* clean company, and never shows a better score than a barely passing one.
BreachShows ==
    Scored /\ Caution(Ratios(debtInputs)) => debtScore.verdict \in {"Fail", "Pass with caution"} /\ debtScore.score <= 74

\* The two contexts never vouch for each other: with both ratios borderline
\* neither is excused, and nothing is when debt servicing is unknown.
NoMutualRescue ==
    Scored =>
        LET r == Ratios(debtInputs) IN
        /\ ~(r[CR].label = "marginal_via_breach_context" /\ r[DE].label = "marginal_via_breach_context")
        /\ r[DS].excluded => r[CR].label # "marginal_via_breach_context" /\ r[DE].label # "marginal_via_breach_context"

\* The least excused breach outranks the best severe one.
ExcusedOutranksSevere ==
    Scored => \A k, m \in {CR, DE, DS} :
        LET r == Ratios(debtInputs) IN
        r[k].label = "marginal_via_breach_context" /\ r[m].label = "severe" => r[k].points > r[m].points

\* A bank or REIT at both limits passes; past either it fails.
LimitsDecide ==
    /\ debtPath = "reit" => (debtScore.verdict = "Fail") = (debtInputs.gearing > 45)
    /\ debtPath = "bank" /\ debtScore.score >= 0 =>
           (debtScore.verdict = "Fail") = (debtInputs.cet1 < 10 \/ debtInputs.npl >= 5)

(***************************************************************************)
(* What the Debt card promises of a breach on each of its paths.           *)
(***************************************************************************)
BreachesCount ==
    /\ DebtBreachFails /\ TwoBreachesFail /\ BreachShows
    /\ NoMutualRescue /\ ExcusedOutranksSevere /\ LimitsDecide
=============================================================================
