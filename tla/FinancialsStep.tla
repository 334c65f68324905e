---------------------------- MODULE FinancialsStep ----------------------------
(***************************************************************************)
(* The Financials check (scoring/step1.py over the fiscal years            *)
(* data/step1_data.py reads): what surrounds the two scoring engines.  A   *)
(* company's sector and industry decide what is scored; a metric that is   *)
(* not yet positive scores by the size of its loss; operating income may   *)
(* lift net income; margins are blended under a ceiling; a gap in what is  *)
(* scored leaves no score.  The engines' own scores are an input: they are *)
(* floats of slopes and exponentials.  Amounts are whole, revenue is       *)
(* not negative, years run oldest first, and the trailing twelve months    *)
(* enter only as the margin nudge.                                         *)
(***************************************************************************)
EXTENDS Arithmetic

LOCAL INSTANCE SequencesExt

CONSTANTS
    Profiles,      \* [fund, sector, industry, override]: override is a hand-kept exception of the ticker
    Ledgers,       \* yearly lines [revenue, gross, operating, net, cfo, capex], NA where FMP has no figure
    Opinions,      \* what the engines score each metric, and whether they label a margin a decline
    StepWeights    \* weights of revenue, net income, cfo, margins and fcf

VARIABLES stepInputs, stepCard

Present(v) == SelectSeq(v, LAMBDA x : x # NA)
Least(a, b) == IF a < b THEN a ELSE b
Most(a, b) == IF a > b THEN a ELSE b

-----------------------------------------------------------------------------
(***************************************************************************)
(* What is scored.                                                         *)
(***************************************************************************)
Regulated(profile) == profile.sector = "Utilities" /\ profile.industry \in {"Regulated", "none"}

ClassifyCompanyType(profile) ==
    CASE profile.fund -> "ETF"
      [] ~profile.fund /\ profile.sector = "Financial Services" /\ profile.industry = "Insurance" -> "Insurance"
      [] ~profile.fund /\ profile.sector = "Financial Services" /\ profile.industry = "Banks" ->
             IF profile.override THEN "Standard" ELSE "Bank"
      [] ~profile.fund /\ Regulated(profile) -> "Utility"
      [] ~profile.fund /\ (profile.sector = "Real Estate" \/ profile.industry = "REIT") -> "REIT/Property Developer"
      [] OTHER -> "Standard"

\* A price taker: the producers of two sectors, and who is in them without an industry.
Commodity(profile) ==
    profile.sector \in {"Basic Materials", "Energy"} /\ ~profile.override /\ profile.industry \in {"Producer", "none"}

DetectExemption(profile) ==
    LET type == ClassifyCompanyType(profile) IN
    CASE type \in {"Bank", "Insurance"} -> type
      [] type = "REIT/Property Developer" -> "Property Developer"
      [] OTHER -> IF Commodity(profile) THEN "Commodity Company" ELSE "none"

-----------------------------------------------------------------------------
(***************************************************************************)
(* One metric.                                                             *)
(***************************************************************************)
Scored(points) == [gap |-> FALSE, points |-> points]
Gap == [gap |-> TRUE, points |-> {0}]

\* At least two years, and not mostly zeros: the median size is not zero.
Assessable(v) == Len(v) >= 2 /\ 2 * Cardinality({i \in DOMAIN v : v[i] = 0}) <= Len(v)

\* From 15 points at a loss of nothing to none at a fifth of the revenue.
LossPoints(loss, revenue) ==
    CASE revenue <= 0 \/ 100 * loss >= 20 * revenue -> {0}
      [] OTHER -> Nearest(15 * revenue - 75 * loss, revenue)

\* Mutant: a company that is not yet positive keeps the score of its shape.
ByShape(v, scale, opinion) == IF ~Assessable(v) THEN Gap ELSE Scored({opinion})

ClassifyPositive(v, scale, opinion) ==
    CASE ~Assessable(v) -> Gap
      [] Assessable(v) /\ Last(v) <= 0 ->
             Scored(IF scale = <<>> THEN {0} ELSE LossPoints(-Last(v), Last(scale)))
      [] OTHER -> Scored({opinion})

(***************************************************************************)
(* The operating income backup.                                            *)
(***************************************************************************)
\* The last fall of more than 5 % came into one of the last three years.
FellLately(v) == \E i \in RealDips(v) : Len(v) - 1 - i <= 2

LastFive(v) == SubSeq(v, Most(Len(v) - 4, 1), Len(v))

\* Mutant: the quality of the operating income is not asked for.
AlwaysAllowed(v, latest, revenue) == latest # NA

\* Positive now, a twentieth of the revenue, and positive in four of the last five years.
BackupAllowed(v, latest, revenue) ==
    /\ latest # NA /\ revenue # NA
    /\ latest > 0 /\ revenue > 0 /\ 20 * latest >= revenue
    /\ Len(SelectSeq(LastFive(v), LAMBDA x : x > 0)) >= 4

\* What net income scores, and whether it is a gap, given its own result.
NetIncome(ledger, opinion) ==
    LET net == Present(ledger.net)
        operating == Present(ledger.operating)
        revenue == Present(ledger.revenue)
        own == ClassifyPositive(net, revenue, opinion.net)
        spare == ClassifyPositive(operating, revenue, opinion.operating)
        lifts(p) == p <= 79 /\ (own.gap \/ FellLately(net))
        lifted(p, q) ==
            IF lifts(p) /\ BackupAllowed(operating, Last(ledger.operating), Last(ledger.revenue)) THEN Least(80, Most(p, q)) ELSE p
    IN [gap |-> own.gap /\ spare.gap,
        points |-> {lifted(p, q) : p \in own.points, q \in spare.points}]

(***************************************************************************)
(* Margins.                                                                *)
(***************************************************************************)
\* Years with both figures and a revenue, as amounts.
MarginYears(line, revenue) ==
    SelectSeq([i \in DOMAIN revenue |-> [part |-> line[i], revenue |-> revenue[i]]],
              LAMBDA y : y.part # NA /\ y.revenue \notin {NA, 0})

\* The trailing margin counts when no outlier is flagged and it is not too far from the latest.
TtmAllowed(years, ttm) ==
    LET latest == Last(years)
        off == Size(ttm.margin * latest.revenue - 100 * latest.part)
    IN /\ ttm.margin # NA /\ ~ttm.flagged /\ years # <<>>
       /\ off <= 8 * latest.revenue \/ 2 * off <= Size(100 * latest.part)

\* The engine's score with the nudge of the trailing margin; a regulated utility's decline is not severe.
MarginScore(years, opinion, ttm, utility) ==
    LET nudged == IF Len(years) >= 5 /\ Last(years).part * Last(years).revenue > 0 /\ TtmAllowed(years, ttm)
                  THEN Least(100, Most(0, opinion.score + opinion.nudge)) ELSE opinion.score
    IN IF utility /\ opinion.decline THEN Most(nudged, 60) ELSE nudged

\* 40 points for no margin at all, none for a loss of ten percent.
Ceiling(latest) == Most(0, 40 * latest.revenue + 400 * latest.part)

\* Half gross and half the better of net and operating, capped while neither is positive.
Margins(ledger, opinion, ttm, utility) ==
    LET gross == MarginYears(ledger.gross, ledger.revenue)
        operating == MarginYears(ledger.operating, ledger.revenue)
        net == MarginYears(ledger.net, ledger.revenue)
        scored == {k \in {<<operating, opinion.operatingMargin>>, <<net, opinion.netMargin>>} : Len(k[1]) >= 2}
        legs == {MarginScore(k[1], k[2], ttm, utility) : k \in scored}
        profit == CHOOSE s \in legs : \A t \in legs : s >= t
        twice == IF Len(gross) >= 2 THEN MarginScore(gross, opinion.grossMargin, ttm, utility) + profit ELSE 2 * profit
        latest == {Last(y) : y \in {x \in {operating, net} : x # <<>>}}
        best == CHOOSE a \in latest : \A b \in latest : a.part * b.revenue >= b.part * a.revenue
        ceiling == Ceiling(best)
    IN CASE scored = {} -> Gap
         [] OTHER ->
            IF best.part <= 0 /\ twice * best.revenue > 2 * ceiling
            THEN Scored(Nearest(ceiling, best.revenue)) ELSE Scored(Nearest(twice, 2))

-----------------------------------------------------------------------------
(***************************************************************************)
(* The blend.                                                              *)
(***************************************************************************)
FreeCash(ledger) ==
    [i \in DOMAIN ledger.cfo |-> IF NA \in {ledger.cfo[i], ledger.capex[i]} THEN NA ELSE ledger.cfo[i] + ledger.capex[i]]

AssessCash(v, opinion) == IF Assessable(v) THEN Scored({opinion}) ELSE Gap

Unscored == Scored({0})

\* Mutant: an exempt company's cash flow is looked at for gaps.
AllMetrics(profile, ledger, opinion, ttm) ==
    [revenue |-> ClassifyPositive(Present(ledger.revenue), <<>>, opinion.revenue),
     net |-> NetIncome(ledger, opinion),
     cfo |-> ClassifyPositive(Present(ledger.cfo), Present(ledger.revenue), opinion.cfo),
     fcf |-> AssessCash(Present(FreeCash(ledger)), opinion.fcf),
     margins |-> Margins(ledger, opinion, ttm, ClassifyCompanyType(profile) = "Utility")]

StepMetrics(profile, ledger, opinion, ttm) ==
    LET exempt == DetectExemption(profile) # "none" IN
    [revenue |-> ClassifyPositive(Present(ledger.revenue), <<>>, opinion.revenue),
     net |-> NetIncome(ledger, opinion),
     cfo |-> IF exempt THEN Unscored ELSE ClassifyPositive(Present(ledger.cfo), Present(ledger.revenue), opinion.cfo),
     fcf |-> IF exempt THEN Unscored ELSE AssessCash(Present(FreeCash(ledger)), opinion.fcf),
     margins |-> IF exempt THEN Unscored ELSE Margins(ledger, opinion, ttm, ClassifyCompanyType(profile) = "Utility")]

\* Without cash flow and margins their weight goes to revenue and net income: that of the
\* cash flows in equal parts over what is left, that of margins in proportion.
Table(w, exempt) ==
    LET targets == IF w.margins > 0 THEN 3 ELSE 2
        bonus == w.cfo + w.fcf
    IN IF exempt
       THEN [revenue |-> targets * w.revenue + bonus, net |-> targets * w.net + bonus, cfo |-> 0, fcf |-> 0, margins |-> 0]
       ELSE w

\* Mutant: a short history is not held back.
AnyLength(score, years) == score

Held(score, years) == IF years < 8 THEN Least(score, 90) ELSE score

StepVerdict(score) == CASE score > 90 -> "Strong Pass" [] score >= 70 /\ score <= 90 -> "Pass" [] OTHER -> "Fail"

NoCard == [score |-> NA, verdict |-> "insufficient_data"]

\* Mutant: a gap counts as nought points.
NoGap(m) == {}

\* Metrics that are scored and have no figures.
Gaps(m) == {k \in DOMAIN m : m[k].gap}

StepCards(profile, ledger, opinion, ttm, w) ==
    LET m == StepMetrics(profile, ledger, opinion, ttm)
        t == Table(w, DetectExemption(profile) # "none")
        weight == t.revenue + t.net + t.cfo + t.fcf + t.margins
        totals == {t.revenue * a + t.net * b + t.cfo * c + t.fcf * d + t.margins * e :
                       a \in m.revenue.points, b \in m.net.points, c \in m.cfo.points,
                       d \in m.fcf.points, e \in m.margins.points}
    IN IF Gaps(m) # {} THEN {NoCard}
       ELSE {LET s == Held(score, Len(Present(ledger.revenue))) IN [score |-> s, verdict |-> StepVerdict(s)] :
                 score \in UNION {Nearest(total, weight) : total \in totals}}

InitStep == stepInputs = [weights |-> "none"] /\ stepCard = [score |-> NA, verdict |-> "none"]

\* get_step1_data of one ticker, with a trailing margin or none.
GetStep1Data ==
    /\ stepCard.verdict = "none"
    /\ \E profile \in Profiles, ledger \in Ledgers, opinion \in Opinions, w \in StepWeights,
          ttm \in [margin : {NA, 12}, flagged : BOOLEAN] :
           /\ stepInputs' = [profile |-> profile, ledger |-> ledger, opinion |-> opinion, ttm |-> ttm, weights |-> w]
           /\ \E card \in StepCards(profile, ledger, opinion, ttm, w) : stepCard' = card

NextStep == GetStep1Data

-----------------------------------------------------------------------------
StepTypeOK ==
    /\ stepCard.score \in {NA} \cup 0 .. 100
    /\ stepCard.verdict \in {"none", "Fail", "Pass", "Strong Pass", "insufficient_data"}

Done == stepCard.verdict # "none"
Of == stepInputs.ledger
Excepted == DetectExemption(stepInputs.profile) # "none"
CardsOf(ledger, ttm) == StepCards(stepInputs.profile, ledger, stepInputs.opinion, ttm, stepInputs.weights)

\* "That pattern's score of 0 must never be folded into the weighted sum"
\* (scoring/step1.py:264): no score comes of fewer than two years of revenue, or
\* of cash flow or both margins where they are scored, or of net income when
\* operating income is short too; and the gaps of what is exempt cost nothing.
GapIsNoFail ==
    Done =>
        LET short(line) == Len(Present(line)) < 2 IN
        /\ short(Of.revenue) \/ (short(Of.net) /\ short(Of.operating)) => stepCard.score = NA
        /\ ~Excepted /\ (short(Of.cfo) \/ short(Of.capex) \/ (short(Of.net) /\ short(Of.operating))) => stepCard.score = NA
        /\ Excepted /\ Assessable(Present(Of.revenue)) /\ Assessable(Present(Of.net)) => stepCard.score # NA

\* A bank's, an insurer's, a landlord's or a price taker's card is the same
\* whatever its cash flow, capital expenditure and gross profit read, and whatever
\* the trailing margin.
ExemptReadsNoCash ==
    Done /\ Excepted =>
        LET blank == [i \in DOMAIN Of.revenue |-> NA] IN
        stepCard \in CardsOf([Of EXCEPT !.cfo = blank, !.capex = blank, !.gross = blank], [margin |-> NA, flagged |-> FALSE])

\* The backup only lifts, and never a company whose latest year makes no operating
\* profit: with that year's operating income lost the net income scores no better.
BackupNeedsProfit ==
    Done =>
        LET n == Len(Of.operating)
            lost == [Of EXCEPT !.operating = [@ EXCEPT ![n] = -1]]
            own == ClassifyPositive(Present(Of.net), Present(Of.revenue), stepInputs.opinion.net)
        IN /\ \A p \in NetIncome(lost, stepInputs.opinion).points : p \in own.points
           /\ \A p \in NetIncome(Of, stepInputs.opinion).points : \E q \in own.points : p = q \/ (p > q /\ p <= 80)

\* A company that loses money in its latest year scores at most 15 for it, however
\* good the shape of its years, unless the backup speaks for it; and its margins,
\* when the operations lose money too, at most 40.
LossHolds ==
    Done /\ Present(Of.net) # <<>> =>
        (Last(Present(Of.net)) <= 0 /\ Last(Of.operating) <= 0 =>
            /\ \A p \in NetIncome(Of, stepInputs.opinion).points : p <= 15
            /\ ~Excepted /\ Of.operating[Len(Of.operating)] # NA /\ Of.net[Len(Of.net)] # NA
               /\ Of.revenue[Len(Of.revenue)] \notin {NA, 0}
                  => \A p \in StepMetrics(stepInputs.profile, Of, stepInputs.opinion, stepInputs.ttm).margins.points : p <= 40)

\* A quarter the outlier check flagged has no say: the card is that of a company
\* whose trailing margin is missing.
OutlierHasNoSay ==
    Done /\ stepInputs.ttm.flagged => stepCard \in CardsOf(Of, [margin |-> NA, flagged |-> FALSE])

\* Fewer than eight years of revenue are never a Strong Pass.
ShortHistoryHeld == Done /\ Len(Present(Of.revenue)) < 8 => stepCard.verdict # "Strong Pass"

(***************************************************************************)
(* What the Financials card promises around its engines.                   *)
(***************************************************************************)
FinancialsReadYears ==
    /\ GapIsNoFail /\ ExemptReadsNoCash /\ BackupNeedsProfit
    /\ LossHolds /\ OutlierHasNoSay /\ ShortHistoryHeld
=============================================================================
