--------------------------- MODULE ValuationMethod ---------------------------
(***************************************************************************)
(* The fair value of a ticker: which method its figures allow              *)
(* (scoring/step3.py::select_method), which figure that method projects    *)
(* (data/step3_data.py), what it comes to and how the price compares.      *)
(*                                                                         *)
(* Figures are whole amounts of the quoted currency.  Twenty years of      *)
(* discounted growth are one positive factor, and amounts per share are    *)
(* taken for all shares.  The same filing gives a year's operating cash    *)
(* flow, capital spending and free cash flow; the trailing twelve months   *)
(* of each may be missing on their own.                                    *)
(***************************************************************************)
EXTENDS Arithmetic

LOCAL INSTANCE SequencesExt

CONSTANTS
    Companies,  \* company types
    Flows,      \* yearly cfo and capex, and the trailing twelve months of each
    Profits,    \* yearly net income, its trailing twelve months, and whether these are the last year again
    Revenues,   \* revenue, the trailing twelve months last
    Books,      \* book value and the mean price to book, in hundredths, NA with too short a history
    Finances,   \* whether figures can be converted, projected growth in percent, the factor it gives
                \* (NA when any input is missing), cash less debt, sales
    Prices,     \* the price of all shares
    Customs     \* what the user saved instead: a method and its inputs, or nothing that can be read

VARIABLES valued, fairValue

Total(s) == FoldSeq(LAMBDA x, y : x + y, 0, s)

Newest(s, n) == IF Len(s) > n THEN SubSeq(s, Len(s) - n + 1, Len(s)) ELSE s

\* Cash flow and capital spending are kept in step; so is what the one leaves of the other.
Paired(f)      == f.cfoTtm # NA /\ f.capexTtm # NA
CfoSeries(f)   == IF Paired(f) THEN Append(f.cfo, f.cfoTtm) ELSE f.cfo
CapexSeries(f) == IF Paired(f) THEN Append(f.capex, f.capexTtm) ELSE f.capex
FcfTtm(f)      == IF Paired(f) THEN f.cfoTtm + f.capexTtm ELSE NA
FcfSeries(f)   == [i \in DOMAIN CfoSeries(f) |-> CfoSeries(f)[i] + CapexSeries(f)[i]]
NiSeries(p)    == IF p.ttm = NA THEN p.ni ELSE Append(p.ni, p.ttm)

\* Every year's spending replaced by the average of the newest five, times their number.
NormalizedTimes(f) ==
    LET window == Newest(CapexSeries(f), 5) IN
    [i \in DOMAIN CfoSeries(f) |-> Len(window) * CfoSeries(f)[i] + Total(window)]

-----------------------------------------------------------------------------
(***************************************************************************)
(* The checks of the tree.  One that has too little data is neither passed *)
(* nor failed.                                                             *)
(***************************************************************************)
Enough(s) == Len(s) >= 5

\* Mutant: losses that shrink are growth.
LossIgnored(s) == FALSE

LossLately(s) == \E i \in Len(s) - 3 .. Len(s) : s[i] <= 0

PositiveAndIncreasing(s) == Enough(s) /\ ~LossLately(s) /\ Recovers(s)

PositiveAndConsistent(s) == Enough(s) /\ ((\A i \in DOMAIN s : s[i] > 0) \/ (~LossLately(s) /\ Recovers(s)))

\* 15 % a year from the first year with revenue on.
GrowsAggressively(s) ==
    LET positive == {i \in DOMAIN s : s[i] > 0}
        first == CHOOSE i \in positive : \A j \in positive : i <= j
        years == Len(s) - first
    IN /\ Len(s) >= 2 /\ positive # {} /\ first # Len(s) /\ Last(s) > 0
       /\ Last(s) * 20 ^ years >= s[first] * 23 ^ years

Selection(method, source) == [method |-> method, source |-> source]
NoMethod == Selection("none", "none")

FromCashFlow(f, p) ==
    CASE ~PositiveAndIncreasing(CfoSeries(f)) \/ f.cfoTtm = NA \/ p.ttm = NA -> NoMethod
      [] OTHER ->
         CASE 2 * f.cfoTtm <= 3 * p.ttm -> Selection("DCF", "cfo_ttm")
           [] 2 * f.cfoTtm > 3 * p.ttm /\ PositiveAndConsistent(FcfSeries(f)) -> Selection("DFCF", "fcf_ttm")
           [] OTHER -> IF PositiveAndConsistent(NormalizedTimes(f)) THEN Selection("DFCF", "fcf_normalized") ELSE NoMethod

FromNetIncome(p) ==
    CASE PositiveAndIncreasing(NiSeries(p)) -> Selection("DNI", "net_income_ttm")
      [] ~PositiveAndIncreasing(NiSeries(p)) /\ p.ttm # NA /\ p.ttm > 0 /\ Total(Newest(NiSeries(p), 5)) > 0 ->
             Selection("DNI_NORMALIZED", "net_income_smoothed")
      [] OTHER -> NoMethod

\* Mutant: insurers are not told apart.
AllUseCashFlow(company) == TRUE

UsesCashFlow(company) == company # "Insurance"

\* The first that the company's type and its figures allow.
FirstOf(company, cash, income, revenue) ==
    CASE company \in {"Bank", "REIT/Property Developer"} -> Selection("PRICE_TO_BOOK_STANDARD", "none")
      [] company \notin {"Bank", "REIT/Property Developer"} /\ cash # NoMethod -> cash
      [] OTHER ->
         CASE income # NoMethod -> income
           [] income = NoMethod /\ GrowsAggressively(revenue) -> Selection("PSG", "none")
           [] OTHER -> Selection("PASS", "none")

SelectMethod(company, f, p, revenue) ==
    FirstOf(company, IF UsesCashFlow(company) THEN FromCashFlow(f, p) ELSE NoMethod, FromNetIncome(p), revenue)

\* A check on the way to PASS that could not be made.
InsufficientData(company, f, p, revenue) ==
    /\ SelectMethod(company, f, p, revenue).method = "PASS"
    /\ \/ UsesCashFlow(company) /\ (~Enough(CfoSeries(f)) \/ (PositiveAndIncreasing(CfoSeries(f)) /\ (f.cfoTtm = NA \/ p.ttm = NA)))
       \/ ~Enough(NiSeries(p)) \/ p.ttm = NA \/ Len(revenue) < 2

-----------------------------------------------------------------------------
(***************************************************************************)
(* The value.  Amounts are fractions.                                      *)
(***************************************************************************)
Amount(num, den) == [num |-> num, den |-> den]
NoAmount == Amount(NA, 1)

\* The average leaves the trailing twelve months out when they are the last fiscal year again.
Smoothed(p) ==
    LET series == NiSeries(p)
        distinct == IF p.repeats /\ Len(series) > 2 THEN SubSeq(series, 1, Len(series) - 1) ELSE series
        window == Newest(distinct, 5)
    IN IF window = <<>> THEN NoAmount ELSE Amount(Total(window), Len(window))

Figure(source, f, p) ==
    CASE source = "cfo_ttm" -> Amount(f.cfoTtm, 1)
      [] source = "fcf_ttm" -> Amount(FcfTtm(f), 1)
      [] source = "fcf_normalized" -> Amount(Last(NormalizedTimes(f)), Len(Newest(CapexSeries(f), 5)))
      [] source = "net_income_ttm" -> Amount(p.ttm, 1)
      [] source = "net_income_smoothed" -> Smoothed(p)
      [] OTHER -> NoAmount

Projecting == {"DCF", "DFCF", "DNI", "DNI_NORMALIZED", "CF_NORMALIZED", "FCF_NORMALIZED"}

\* Mutant: a value that is not positive is shown.
ProjectedAnyway(figure, m) ==
    IF figure.num = NA \/ m.factor = NA THEN NoAmount ELSE Amount(figure.num * m.factor + m.net * figure.den, figure.den)

\* What is left after debt; nothing when that is not positive.
Projected(figure, m) ==
    LET value == figure.num * m.factor + m.net * figure.den IN
    IF figure.num = NA \/ m.factor = NA \/ value <= 0 THEN NoAmount ELSE Amount(value, figure.den)

\* Sales times the growth in percent, at a fair ratio of a fifth.
Worth(method, figure, book, m) ==
    CASE method \in Projecting -> Projected(figure, m)
      [] method \in {"PRICE_TO_BOOK", "PRICE_TO_BOOK_STANDARD"} ->
             IF NA \in {book.value, book.multiple} \/ book.value <= 0 THEN NoAmount ELSE Amount(book.value * book.multiple, 100)
      [] method = "PSG" -> IF NA \in {m.sales, m.growth} \/ m.growth < 0 THEN NoAmount ELSE Amount(m.sales * m.growth, 5)
      [] OTHER -> NoAmount

ClassifyValuation(worth, price) ==
    CASE worth.num \in {NA, 0} \/ price \in {NA, 0} -> "none"
      [] OTHER ->
         CASE 10 * price * worth.den <= 9 * worth.num -> "undervalued"
           [] 10 * price * worth.den >= 11 * worth.num -> "overvalued"
           [] OTHER -> "fair"

InitValue == valued = [company |-> "none"] /\ fairValue = [method |-> "none"]

(***************************************************************************)
(* The automatic value is always computed, of nothing when the figures     *)
(* cannot be converted; a saved one that can be read takes its place,      *)
(* compared with the same price.                                           *)
(***************************************************************************)
GetActiveValuation ==
    /\ fairValue.method = "none"
    /\ \E company \in Companies, f \in Flows, p \in Profits, revenue \in Revenues, book \in Books, m \in Finances,
          price \in Prices, custom \in Customs :
           \E auto \in {IF m.converts THEN SelectMethod(company, f, p, revenue) ELSE Selection("PASS", "none")} :
           \E figure \in {Figure(auto.source, f, p)} :
           LET worth == IF custom.saved THEN Worth(custom.method, custom.figure, custom.book, custom.finance)
                        ELSE Worth(auto.method, figure, book, m)
           IN /\ valued' = [company |-> company, flows |-> f, profit |-> p, revenue |-> revenue, book |-> book,
                            finance |-> m, price |-> price, custom |-> custom, auto |-> auto, figure |-> figure]
              /\ fairValue' = [method |-> IF custom.saved THEN custom.method ELSE auto.method,
                               worth |-> worth, verdict |-> ClassifyValuation(worth, price),
                               insufficient |-> ~m.converts \/ InsufficientData(company, f, p, revenue)]

NextValue == GetActiveValuation

-----------------------------------------------------------------------------
Valued == fairValue.method # "none"

ValueTypeOK ==
    Valued =>
        /\ fairValue.method \in Projecting \cup {"PRICE_TO_BOOK", "PRICE_TO_BOOK_STANDARD", "PSG", "PASS"}
        /\ valued.auto.method \notin {"PRICE_TO_BOOK", "CF_NORMALIZED", "FCF_NORMALIZED"}
        /\ fairValue.verdict \in {"none", "undervalued", "overvalued", "fair"}

\* Losses are not discounted: what a method projects is positive wherever its
\* check looked at it (of cash flow it looks only when capital spending is known).
ProjectsNoLoss ==
    Valued /\ valued.auto.source \in {"cfo_ttm", "fcf_ttm", "fcf_normalized", "net_income_ttm"} =>
        \/ valued.auto.source = "cfo_ttm" /\ ~Paired(valued.flows)
        \/ valued.figure.num = NA \/ valued.figure.num > 0

\* An insurer's cash flow, premiums included, never values it; of a bank and a
\* property company only the book does.
MethodFitsCompany ==
    Valued =>
        /\ valued.company = "Insurance" => valued.auto.method \notin {"DCF", "DFCF"}
        /\ valued.company \in {"Bank", "REIT/Property Developer"} /\ valued.finance.converts =>
               valued.auto.method = "PRICE_TO_BOOK_STANDARD"

\* Debt that eats the projection leaves no value and no verdict, saved inputs included.
VerdictNeedsValue == Valued /\ fairValue.verdict # "none" => fairValue.worth.num > 0 /\ fairValue.worth.den > 0

Times(k, x) == IF x = NA THEN NA ELSE k * x
Scaled(k, s) == [i \in DOMAIN s |-> k * s[i]]

(***************************************************************************)
(* "every check it runs (CFO/NI ratio, CAGR, trend shape) is               *)
(* scale-invariant" (data/step3_data.py:404), so figures may be converted  *)
(* before the method is selected.                                          *)
(***************************************************************************)
UnitsDontMatter ==
    Valued =>
        LET f == valued.flows
            p == valued.profit
            g == [cfo |-> Scaled(7, f.cfo), capex |-> Scaled(7, f.capex), cfoTtm |-> Times(7, f.cfoTtm),
                  capexTtm |-> Times(7, f.capexTtm)]
            q == [ni |-> Scaled(7, p.ni), ttm |-> Times(7, p.ttm), repeats |-> p.repeats]
        IN /\ SelectMethod(valued.company, g, q, Scaled(7, valued.revenue)) =
                  SelectMethod(valued.company, f, p, valued.revenue)
           /\ ClassifyTrend(NiSeries(q)) = ClassifyTrend(NiSeries(p))
           /\ ClassifyTrend(CfoSeries(g)) = ClassifyTrend(CfoSeries(f))

MethodFitsFigures == ProjectsNoLoss /\ MethodFitsCompany /\ VerdictNeedsValue /\ UnitsDontMatter
=============================================================================
