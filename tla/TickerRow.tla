------------------------------ MODULE TickerRow ------------------------------
(***************************************************************************)
(* One score row (data/ticker_score.py::compute_ticker_score): the four    *)
(* checks and the ticker's summary are each read behind a guard of their   *)
(* own, the checks are blended with the saved weights, and the Moat        *)
(* multiplier scales the blend (scoring/overall.py).  The Growth Rate      *)
(* check is computed twice, for the row and inside the summary; the other  *)
(* three are given by their answers.                                       *)
(*                                                                         *)
(* The Growth Rate check: data/step2_data.py picks the base and the target *)
(* year of the analysts' estimates, scoring/step2.py scores the rate       *)
(* between them and how far the analysts agree.                            *)
(*                                                                         *)
(* Of an estimate, what matters is its year (counted from the base year),  *)
(* the sign of its average, the yearly rate from the base year to it and   *)
(* the distance of high and low, both in tenths of a percent (rate and     *)
(* spread).  A rate is defined only when both ends are positive: Python    *)
(* gives the fractional power of a negative number as a complex one.       *)
(***************************************************************************)
EXTENDS Arithmetic

Signs == {"missing", "zero", "positive", "negative"}

\* The base year's average and the later estimates, none or one a year.
Estimate(at, avg, rate, spread) == [at |-> at, avg |-> avg, rate |-> rate, spread |-> spread]

Usable(e) == e.avg \in {"positive", "negative"}

Distance(e) == IF e.at < 4 THEN 4 - e.at ELSE e.at - 4

\* Mutant: the year nearest to four years out, with an average or without.
NearestYear(later) ==
    LET window == {e \in later : e.at \in 3 .. 5} IN IF window = {} THEN later ELSE window

\* The estimates about four years out, or all there are; those with an average first.
Pool(later) ==
    LET window == {e \in later : e.at \in 3 .. 5}
        candidates == IF window = {} THEN later ELSE window
        usable == {e \in candidates : Usable(e)}
    IN IF usable = {} THEN candidates ELSE usable

\* The earlier of two equally distant years.
Target(later) ==
    CHOOSE e \in Pool(later) : \A o \in Pool(later) : Distance(e) < Distance(o) \/ (Distance(e) = Distance(o) /\ e.at <= o.at)

\* A basis (EPS or revenue) gives a projection, or none.
Projects(basis) ==
    /\ basis.later # {} /\ basis.base = "positive"
    /\ Usable(Target(basis.later)) /\ Target(basis.later).at > 0

Basis(estimates, reit) ==
    CASE ~reit /\ Projects(estimates.eps) -> "eps"
      [] ~(~reit /\ Projects(estimates.eps)) /\ Projects(estimates.revenue) -> "revenue"
      [] OTHER -> "none"

\* The root of a negative ratio is complex, and comparing it with a tier raises.
Complex(e) == e.avg = "negative" /\ e.at > 1

-----------------------------------------------------------------------------
Magnitude(rate) ==
    CASE rate > 150 -> {100}
      [] rate >= 100 /\ rate <= 150 -> {85}
      [] rate >= 50 /\ rate < 100 -> {65}
      [] rate >= 0 /\ rate < 50 -> {40}
      [] rate >= -100 /\ rate < 0 -> Nearest(1000 + 25 * (rate + 100), 100)
      [] OTHER -> {0}

Agreement(spread) ==
    CASE spread < 100 -> 100
      [] spread >= 100 /\ spread <= 200 -> 60
      [] OTHER -> 20

\* `spread or 100.0`: no spread reads as 100 %, and so does a spread of zero.
ScoredSpread(e) == IF e.spread \in {NA, 0} THEN 1000 ELSE e.spread

\* The blend with m points for magnitude and the rest of 100 for agreement.
Blend(e, m) ==
    UNION {Nearest(m * p + (100 - m) * Agreement(ScoredSpread(e)), 100) : p \in Magnitude(e.rate)}

\* Mutant: the floor asks whether the magnitude has any points.
FlooredIfPoints(rate, score) == IF Magnitude(rate) # {0} /\ score < 70 THEN 70 ELSE score

\* A rate that is not negative scores at least the pass line.
Floored(rate, score) == IF rate >= 0 /\ score < 70 THEN 70 ELSE score

Band(score) ==
    CASE score > 90 -> "Strong Pass"
      [] score >= 70 /\ score <= 90 -> "Pass"
      [] OTHER -> "Fail"

\* What the check can answer: a score, no data, or an exception.
Raised == [score |-> NA, verdict |-> "raised"]
NoData == [score |-> NA, verdict |-> "insufficient_data"]

GrowthChecks(estimates, reit, m) ==
    LET basis == Basis(estimates, reit) IN
    IF basis = "none" THEN {NoData}
    ELSE LET target == Target(estimates[basis].later) IN
         IF Complex(target) THEN {Raised}
         ELSE {[score |-> s, verdict |-> Band(s)] : s \in {Floored(target.rate, b) : b \in Blend(target, m)}}

-----------------------------------------------------------------------------
CONSTANTS
    EstimateSets,  \* analysts' estimates: [eps, revenue], each [base, later]
    Financials,    \* answers of the other three checks
    Profitability,
    DebtAnswers,
    Blends,        \* saved weights: those of the four checks, and the magnitude's
    Multipliers    \* hundredths: a wide moat, a narrow one as saved, none or not rated

VARIABLES rowInputs, scoreRow

NoRow == [status |-> "none"]

Checks == {"step1", "step2", "step4", "step5"}

\* What a check's answer counts as.
Status(a) ==
    CASE a.verdict = "raised" -> "error"
      [] a.verdict = "not_supported" -> "exempt"
      [] a.verdict = "insufficient_data" -> "incomplete"
      [] OTHER -> "ok"

Counted(answers) == {k \in Checks : Status(answers[k]) = "ok"}

\* Mutant: a check that raised is left out like an exempt one.
MissingOnlyData(answers) == {k \in Checks : Status(answers[k]) = "incomplete"}

Missing(answers) == {k \in Checks : Status(answers[k]) \in {"error", "incomplete"}}

Total(f, on) ==
    LET part(k) == IF k \in on THEN f[k] ELSE 0
    IN part("step1") + part("step2") + part("step4") + part("step5")

Weigh(answers, w) == [k \in Checks |-> w[k] * answers[k].score]

\* Mutant: a check is weak when its score says so.
WeakByScore(answers) == {k \in Counted(answers) : answers[k].score < 70}

Weak(answers) == {k \in Counted(answers) : answers[k].verdict = "Fail" \/ answers[k].score < 70}

Cautions(answers) == {k \in Counted(answers) : answers[k].verdict = "Pass with caution"}

\* Rounded once, after the multiplication.
Overalls(answers, w, multiplier) ==
    LET on == Counted(answers) IN Nearest(multiplier * Total(Weigh(answers, w), on), 100 * Total(w, on))

Read(answers, score) ==
    IF Band(score) # "Fail" /\ Weak(answers) \cup Cautions(answers) # {} THEN "Pass with caution" ELSE Band(score)

Assess(answers, w, multiplier) ==
    IF Missing(answers) = {} /\ Total(w, Counted(answers)) > 0
    THEN {[status |-> "complete", score |-> s, verdict |-> Read(answers, s)] : s \in Overalls(answers, w, multiplier)}
    ELSE {[status |-> "incomplete", score |-> NA, verdict |-> "none"]}

InitRow == rowInputs = [status |-> "none"] /\ scoreRow = NoRow

(***************************************************************************)
(* A ticker whose summary raises keeps the row it has.  The summary of a   *)
(* stock reads the Growth Rate check again.                                *)
(***************************************************************************)
ComputeTickerScore ==
    /\ scoreRow = NoRow
    /\ \E e \in EstimateSets, reit \in BOOLEAN, a1 \in Financials, a4 \in Profitability, a5 \in DebtAnswers,
          b \in Blends, multiplier \in Multipliers :
       \E a2 \in GrowthChecks(e, reit, b.magnitude) :
           LET answers == [step1 |-> a1, step2 |-> a2, step4 |-> a4, step5 |-> a5] IN
           /\ rowInputs' = [status |-> "read", estimates |-> e, reit |-> reit, answers |-> answers,
                            weights |-> b.overall, magnitude |-> b.magnitude, multiplier |-> multiplier]
           /\ scoreRow' \in (IF a2 = Raised THEN {[status |-> "kept"]} ELSE Assess(answers, b.overall, multiplier))

NextRow == ComputeTickerScore

-----------------------------------------------------------------------------
RowTypeOK ==
    /\ rowInputs.status \in {"none", "read"}
    /\ scoreRow.status \in {"none", "kept", "incomplete", "complete"}
    /\ scoreRow.status = "complete" =>
           /\ scoreRow.score \in 0 .. 100
           /\ scoreRow.verdict \in {"Strong Pass", "Pass", "Pass with caution", "Fail"}

Complete == scoreRow.status = "complete"

\* The rate the Growth Rate check went by.
Rate == Target(rowInputs.estimates[Basis(rowInputs.estimates, rowInputs.reit)].later).rate

\* Counted answers hide nothing: an unqualified pass of the row rests on
\* checks that all pass, none of them cautioned or failed by a rule of its own.
PassRestsOnPasses ==
    Complete /\ scoreRow.verdict \in {"Pass", "Strong Pass"} =>
        \A k \in Counted(rowInputs.answers) :
            rowInputs.answers[k].score >= 70 /\ rowInputs.answers[k].verdict \notin {"Fail", "Pass with caution"}

\* "A negative rate can never pass" (docs/specs/growth-rate.md:145) with any
\* saved split and however well the analysts agree, and no other rate fails.
GrowthSignDecides ==
    Complete => rowInputs.answers["step2"].verdict = "Fail" <=> Rate < 0

\* A row is never scored without a check that applies to the company.
NoneLeftOut ==
    Complete => \A k \in Checks : rowInputs.answers[k].verdict \notin {"raised", "insufficient_data"}

\* The blend lies among the scores it blends, and the Moat only takes from it:
\* a Strong Pass needs a wide one.
MoatOnlyTakes ==
    Complete =>
        LET scores == {rowInputs.answers[k].score : k \in Counted(rowInputs.answers)} IN
        /\ \E s \in scores : scoreRow.score <= s
        /\ rowInputs.multiplier = 100 => \E s \in scores : scoreRow.score >= s
        /\ rowInputs.multiplier < 100 => scoreRow.verdict # "Strong Pass"

\* A year about four years out with an average of its own is never lost to a
\* nearer one without.
UsableYearIsUsed ==
    rowInputs.status = "read" =>
        \A basis \in {"eps", "revenue"} :
            LET b == rowInputs.estimates[basis] IN
            /\ (basis = "eps" => ~rowInputs.reit)
            /\ b.base = "positive"
            /\ \E e \in b.later : e.at \in 3 .. 5 /\ Usable(e)
            => rowInputs.answers["step2"].verdict # "insufficient_data"

RowReadsItsChecks ==
    /\ PassRestsOnPasses /\ GrowthSignDecides /\ NoneLeftOut
    /\ MoatOnlyTakes /\ UsableYearIsUsed

(***************************************************************************)
(* "One step's data function failing ... must not blow up this ticker's    *)
(* whole score row" (data/ticker_score.py:39): the row is written then,    *)
(* without a score.                                                        *)
(***************************************************************************)
StepFailureKeepsTheRow == scoreRow.status # "kept"
=============================================================================
