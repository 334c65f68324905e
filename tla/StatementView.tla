----------------------------- MODULE StatementView -----------------------------
(***************************************************************************)
(* What the scorers read of a ticker's cached statements                   *)
(* (helpers/statement_view.py, ttm.py, balance_sheet_gate.py and           *)
(* debt_metrics.py), the marks the pages carry, the Financials tab's TTM   *)
(* column (data/financials_data.py) and the series Step 4 scores           *)
(* (data/step4_data.py).  A list of rows is a sequence, newest first; a    *)
(* row ends on a day and carries the lines the rules look at, a cash-flow  *)
(* row also the sizes of its money lines, in half decades.                 *)
(***************************************************************************)
EXTENDS Arithmetic, SequencesExt

CONSTANTS
    Raws,     \* cached statements with the company type and whether the newest quarter has landed
    Window    \* ANNUAL_WINDOW

VARIABLES raw, view

Indexes(rows) == DOMAIN rows

-----------------------------------------------------------------------------
(***************************************************************************)
(* Cash-flow rows that count as missing.                                   *)
(***************************************************************************)
\* The net income of the same period: by the end day, else by the label.
PeriodNetIncome(row, income) ==
    LET dated == SelectSeq(income, LAMBDA r : row.end # NA /\ r.end = row.end)
        labelled == SelectSeq(income, LAMBDA r : r.year = row.year /\ r.period = row.period)
    IN IF dated # <<>> THEN dated[1].net ELSE IF labelled # <<>> THEN labelled[1].net ELSE NA

IsPlaceholder(row, income) == row.skeleton /\ PeriodNetIncome(row, income) \notin {NA, 0}

\* The four rows nearest to row i, the newer ones first when two are as near.
Neighbours(rows, i) ==
    LET nearer(j, k) == LET d(x) == IF x < i THEN i - x ELSE x - i IN d(j) < d(k) \/ (d(j) = d(k) /\ j < k)
    IN {j \in Indexes(rows) \ {i} : Cardinality({k \in Indexes(rows) \ {i} : nearer(k, j)}) < 4}

\* How far each line of row i is from its neighbours' median, in quarter decades, for
\* the lines with two neighbours that have them.
LogRatios(rows, i) ==
    LET has(line) == {j \in Neighbours(rows, i) : rows[j].size[line] # NA}
        lines == {line \in Indexes(rows[i].size) : rows[i].size[line] # NA /\ Cardinality(has(line)) >= 2}
        ratio(line) == LET of(j) == rows[j].size[line] IN 2 * rows[i].size[line] - MedianTwice(has(line), of)
    IN [line \in lines |-> ratio(line)]

\* Mutant: one line far away is enough.
OneLineFar(ratios) == \E line \in DOMAIN ratios : ratios[line] >= 10 \/ ratios[line] <= -10

\* Eight comparable lines, four fifths of them two and a half decades off to the same
\* side, and close to each other.
IsScaleBreak(ratios) ==
    LET n == Cardinality(DOMAIN ratios)
        of(line) == ratios[line]
        up == MedianTwice(DOMAIN ratios, of) > 0
        far == {line \in DOMAIN ratios : IF up THEN ratios[line] >= 10 ELSE ratios[line] <= -10}
    IN n >= 8 /\ 5 * Cardinality(far) >= 4 * n
       /\ Kth(DOMAIN ratios, of, (3 * n) \div 4 + 1) - Kth(DOMAIN ratios, of, n \div 4 + 1) <= 2

IsScaleBroken(rows, i) == IsScaleBreak(LogRatios(rows, i))

Blank(row) == [row EXCEPT !.skeleton = FALSE, !.cfo = NA, !.size = [line \in DOMAIN @ |-> NA]]

\* Mutant: a missing quarter is skipped wherever it is.
SkipMissing(rows, missing, dropLeading) ==
    IF dropLeading THEN [k \in 1 .. Len(rows) - Cardinality(missing) |->
                             rows[Kth(Indexes(rows) \ missing, LAMBDA i : i, k)]]
    ELSE [i \in Indexes(rows) |-> IF i \in missing THEN Blank(rows[i]) ELSE rows[i]]

\* The newest missing quarters are dropped, others are kept and blanked.
TreatAsMissing(rows, missing, dropLeading) ==
    LET lead == {i \in Indexes(rows) : dropLeading /\ 1 .. i \subseteq missing}
    IN [k \in 1 .. Len(rows) - Cardinality(lead) |->
           LET i == k + Cardinality(lead) IN IF i \in missing THEN Blank(rows[i]) ELSE rows[i]]

BrokenYears(rows) == {rows[i].year : i \in {j \in Indexes(rows) : IsScaleBroken(rows, j)}}

AnnualMissing(r) ==
    {i \in Indexes(r.cashAnnual) : IsScaleBroken(r.cashAnnual, i) \/ IsPlaceholder(r.cashAnnual[i], r.incomeAnnual)}

\* Mutant: the Q4 that FMP derives from a scale-broken year is trusted.
OwnDefectsOnly(r) ==
    {i \in Indexes(r.cashQuarters) : IsScaleBroken(r.cashQuarters, i) \/ IsPlaceholder(r.cashQuarters[i], r.incomeQuarters)}

QuarterlyMissing(r) ==
    {i \in Indexes(r.cashQuarters) :
        \/ IsScaleBroken(r.cashQuarters, i)
        \/ IsPlaceholder(r.cashQuarters[i], r.incomeQuarters)
        \/ r.cashQuarters[i].period = 4 /\ r.cashQuarters[i].year \in BrokenYears(r.cashAnnual)}

-----------------------------------------------------------------------------
(***************************************************************************)
(* The completeness gate of the newest quarterly balance sheet.            *)
(***************************************************************************)
Standing(row) == IF row.short = NA THEN row.long ELSE IF row.long = NA THEN row.short ELSE row.short + row.long
TotalDebt(row, type) == IF type = "REIT" THEN row.total ELSE Standing(row)

DebtRemap(new, old, type) ==
    LET decline == TotalDebt(old, type) - TotalDebt(new, type) IN
    /\ NA \notin {TotalDebt(new, type), TotalDebt(old, type), new.liabilities, old.liabilities, old.assets}
    /\ TotalDebt(old, type) > 0 /\ 100 * decline >= 65 * TotalDebt(old, type)
    /\ old.assets > 0 /\ 100 * decline >= 2 * old.assets
    /\ 2 * (old.liabilities - new.liabilities) < decline

Flat(new, old) == old > 0 /\ 20 * (new - old) <= old /\ 20 * (old - new) <= old

CurrentAssetsRemap(new, old) ==
    /\ \A k \in {"currentAssets", "assets", "liabilities", "currentLiabilities"} : NA \notin {new[k], old[k]}
    /\ old.currentAssets > 0 /\ 100 * (old.currentAssets - new.currentAssets) > 60 * old.currentAssets
    /\ Flat(new.assets, old.assets) /\ Flat(new.liabilities, old.liabilities)
    /\ Flat(new.currentLiabilities, old.currentLiabilities)

NoSheet == [end |-> NA, short |-> NA, long |-> NA, total |-> NA, liabilities |-> NA, assets |-> NA,
            currentAssets |-> NA, currentLiabilities |-> NA, equity |-> NA]

\* Reason: none, or why the quarter before the newest is used.
Reason(sheets, type) ==
    CASE Len(sheets) < 2 -> "none"
      [] Len(sheets) >= 2 /\ DebtRemap(sheets[1], sheets[2], type) -> "debt_remap"
      [] OTHER -> IF type # "REIT" /\ CurrentAssetsRemap(sheets[1], sheets[2]) THEN "current_assets_remap" ELSE "none"

UsedSheet(sheets, type) ==
    CASE sheets = <<>> -> NoSheet
      [] sheets # <<>> /\ Reason(sheets, type) = "none" -> sheets[1]
      [] OTHER -> sheets[2]

\* Mutant: the flows stay where they are.
Unaligned(rows, end) == rows

\* The newest quarters that end more than ten days after the sheet in use are dropped.
Align(rows, end) ==
    LET later == {i \in Indexes(rows) : \A j \in 1 .. i : rows[j].end # NA /\ rows[j].end > end + 10}
    IN SubSeq(rows, Cardinality(later) + 1, Len(rows))

-----------------------------------------------------------------------------
(***************************************************************************)
(* Trailing four quarters of a line k.                                     *)
(***************************************************************************)
YearOf(annual, year) == SelectSeq(annual, LAMBDA r : r.year = year)

\* FMP served the year's total as its Q4.
IsAnnualInQ4(annual, quarters, k) ==
    /\ quarters # <<>> /\ quarters[1].period = 4 /\ YearOf(annual, quarters[1].year) # <<>>
    /\ quarters[1][k] # NA /\ quarters[1][k] = YearOf(annual, quarters[1].year)[1][k]

\* Mutant: any difference will do as the fourth quarter.
AnyQuarter(q, three) == TRUE

\* Between a quarter and four times the mean of the others, and on its side of zero.
IsPlausible(q, three) ==
    LET a == IF q < 0 THEN -q ELSE q
        m == IF three < 0 THEN -three ELSE three
    IN three # 0 /\ q * three >= 0 /\ m <= 12 * a /\ 3 * a <= 4 * m

\* The newest quarter as it counts.
Corrected(quarters, k, annual) ==
    LET three == quarters[2][k] + quarters[3][k] + quarters[4][k]
        left == YearOf(annual, quarters[1].year)[1][k] - three
    IN IF IsAnnualInQ4(annual, quarters, k) /\ IsPlausible(left, three) THEN left ELSE quarters[1][k]

Complete(quarters, k) == Len(quarters) >= 4 /\ \A i \in 1 .. 4 : quarters[i][k] # NA

TTM(quarters, k, annual) ==
    IF ~Complete(quarters, k) THEN NA
    ELSE Corrected(quarters, k, annual) + quarters[2][k] + quarters[3][k] + quarters[4][k]

\* The summed quarters five times off the median of up to eight before them.
Outliers(quarters, k, annual) ==
    LET size(x) == IF x < 0 THEN -x ELSE x
        base == {i \in 5 .. 12 : i <= Len(quarters) /\ quarters[i][k] # NA}
        twice == MedianTwice(base, LAMBDA i : size(quarters[i][k]))
        value(i) == IF i = 1 THEN Corrected(quarters, k, annual) ELSE quarters[i][k]
    IN {i \in 1 .. 4 : /\ Complete(quarters, k) /\ Cardinality(base) >= 4 /\ twice > 0
                       /\ 2 * size(value(i)) > 5 * twice \/ 10 * size(value(i)) < twice}

\* The trailing four quarters are the last year's own.
DuplicatesLastYear(annual, quarters) ==
    /\ annual # <<>> /\ Len(quarters) >= 4
    /\ LET last == CHOOSE y \in {r.year : r \in ToSet(annual)} : \A r \in ToSet(annual) : r.year <= y
       IN \A i \in 1 .. 4 : quarters[i].year = last /\ \E j \in 1 .. 4 : quarters[j].period = i

DebtMetrics(sheet, quarters, annual) ==
    LET interest == TTM(quarters, "interest", annual)
    IN [debt |-> Standing(sheet), ebitda |-> TTM(quarters, "ebitda", annual),
        netInterest |-> IF interest = NA THEN NA ELSE IF interest < 0 THEN -interest ELSE 0,
        outliers |-> Outliers(quarters, "ebitda", annual)]

-----------------------------------------------------------------------------
(***************************************************************************)
(* The view.                                                               *)
(***************************************************************************)
Ends(rows) == IF rows = <<>> THEN NA ELSE rows[1].end

BuildView(r) ==
    LET reason == Reason(r.sheets, r.type)
        used == UsedSheet(r.sheets, r.type)
        cashAnnual == TreatAsMissing(r.cashAnnual, AnnualMissing(r), FALSE)
        cash == TreatAsMissing(r.cashQuarters, QuarterlyMissing(r), TRUE)
        aligned(rows) == IF reason = "none" THEN rows ELSE Align(rows, used.end)
    IN [sheet |-> used, reason |-> reason, income |-> aligned(r.incomeQuarters), cash |-> aligned(cash),
        cashAnnual |-> cashAnnual, ends |-> [income |-> Ends(aligned(r.incomeQuarters)), cash |-> Ends(aligned(cash))],
        cfo |-> TTM(aligned(cash), "cfo", cashAnnual), net |-> TTM(aligned(r.incomeQuarters), "net", r.incomeAnnual),
        debts |-> DebtMetrics(used, aligned(r.incomeQuarters), r.incomeAnnual),
        duplicate |-> DuplicatesLastYear(r.incomeAnnual, r.incomeQuarters)]

\* The marks: a row of a list, whether it is in the raw TTM window, and the rule.
Flag(rule, list, row, i, own) == [rule |-> rule, list |-> list, end |-> row.end, inTtm |-> own /\ i <= 4, index |-> i]

OwnFlags(list, rows, income) ==
    {Flag(IF IsPlaceholder(rows[i], income) THEN "placeholder_cf" ELSE "scale_break", list, rows[i], i, list = "quarterly") :
        i \in {j \in Indexes(rows) : IsPlaceholder(rows[j], income) \/ IsScaleBroken(rows, j)}}

\* The Q4 of a year whose annual row is off by a scale is marked too.
CashFlowFlags(r) ==
    LET own == OwnFlags("annual", r.cashAnnual, r.incomeAnnual) \cup OwnFlags("quarterly", r.cashQuarters, r.incomeQuarters)
        years == {r.cashAnnual[f.index].year : f \in {g \in own : g.list = "annual" /\ g.rule = "scale_break"}}
        marked == {f.end : f \in {g \in own : g.list = "quarterly"}}
    IN own \cup {Flag("scale_break", "quarterly", r.cashQuarters[i], i, TRUE) :
                    i \in {j \in Indexes(r.cashQuarters) : /\ r.cashQuarters[j].period = 4 /\ r.cashQuarters[j].year \in years
                                                           /\ r.cashQuarters[j].end \notin marked}}

DataQuality(r) ==
    CashFlowFlags(r)
    \cup (IF Reason(r.sheets, r.type) = "none" THEN {} ELSE {Flag("partial_balance_sheet", "sheet", r.sheets[1], 1, TRUE)})
    \cup (IF r.landed THEN {} ELSE {Flag("not_landed", "income", [end |-> Ends(r.incomeQuarters)], 1, FALSE)})

(***************************************************************************)
(* The Financials tab: the raw rows and their TTM column.                  *)
(***************************************************************************)
\* More than a hundred times the quarter before is a unit error.
ImplausibleShift(new, old) == new \notin {NA, 0} /\ old \notin {NA, 0} /\ (new > 100 * old \/ 100 * new < old)

Shares(quarters) ==
    CASE quarters = <<>> -> NA
      [] Len(quarters) = 1 -> quarters[1].shares
      [] OTHER -> IF ImplausibleShift(quarters[1].shares, quarters[2].shares) THEN NA ELSE quarters[1].shares

\* The newest rows, oldest first, padded in front.
Padded(rows, n) == [i \in 1 .. n |-> IF n - i + 1 <= Len(rows) THEN rows[n - i + 1] ELSE [end |-> NA]]

FinancialsTab(r) ==
    [columns |-> [list \in {"income", "cash", "sheet"} |->
         [i \in 1 .. Window |-> Padded(CASE list = "income" -> r.incomeAnnual [] list = "cash" -> r.cashAnnual
                                         [] OTHER -> r.sheetsAnnual, Window)[i].end]],
     cfo |-> TTM(r.cashQuarters, "cfo", r.cashAnnual), net |-> TTM(r.incomeQuarters, "net", r.incomeAnnual),
     shares |-> Shares(r.incomeQuarters), sheet |-> IF r.sheets = <<>> THEN NA ELSE r.sheets[1].end]

(***************************************************************************)
(* Step 4's series: the years, oldest first, and the TTM figure.           *)
(***************************************************************************)
\* Mutant: a short list is padded at its new end.
PaddedBehind(rows, k, ttm) ==
    LET kept == SubSeq(rows, 1, IF Len(rows) < Window THEN Len(rows) ELSE Window)
    IN [i \in 1 .. Window + 1 |->
           CASE i = Window + 1 -> ttm
             [] i <= Len(kept) -> kept[Len(kept) - i + 1][k]
             [] OTHER -> NA]

Series(rows, k, ttm) ==
    [i \in 1 .. Window + 1 |->
        CASE i = Window + 1 -> ttm
          [] i <= Window /\ Window - i + 1 <= Len(rows) -> rows[Window - i + 1][k]
          [] OTHER -> NA]

\* The positions where every one of the series has a figure.
CleanAligned(all) == {i \in 1 .. Window + 1 : \A s \in all : s[i] # NA}

StepFourSeries(r, v) ==
    LET years == Series(r.incomeAnnual, "year", 0)
        roe == Series(r.ratios, "roe", r.ratioNow)
        net == Series(r.incomeAnnual, "net", v.net)
        equity == Series(r.sheetsAnnual, "equity", v.sheet.equity)
        exempt == r.type \in {"Bank", "Insurance", "Utility", "REIT"}
    IN [years |-> years, roe |-> roe, roeYears |-> Series(r.ratios, "year", 0), net |-> net,
        equityYears |-> Series(r.sheetsAnnual, "year", 0), scored |-> CleanAligned({roe, equity, net}),
        roicExempt |-> exempt,
        cccExempt |-> exempt \/ \A i \in 1 .. Window : Series(r.sheetsAnnual, "inventory", NA)[i] \in {NA, 0}]

-----------------------------------------------------------------------------
NoView == [built |-> FALSE]

InitView == raw \in Raws /\ view = NoView

NextView ==
    /\ ~view.built
    /\ LET v == BuildView(raw)
       IN view' = [built |-> TRUE, used |-> v, flags |-> DataQuality(raw), tab |-> FinancialsTab(raw), series |-> StepFourSeries(raw, v)]
    /\ UNCHANGED raw

-----------------------------------------------------------------------------
Figures == {NA} \cup (-1000 .. 1000)

\* Every answer is a view with its marks, its totals a figure or missing.
ViewTypeOK ==
    /\ raw \in Raws
    /\ view.built =>
        /\ {view.used.cfo, view.used.net, view.tab.cfo, view.tab.net, view.used.debts.ebitda} \subseteq Figures
        /\ view.used.debts.netInterest = NA \/ view.used.debts.netInterest >= 0
        /\ view.used.reason \in {"none", "debt_remap", "current_assets_remap"}
        /\ \A f \in view.flags : f.rule \in {"placeholder_cf", "scale_break", "partial_balance_sheet", "not_landed"}

Marked(list) == {f.end : f \in {g \in view.flags : g.list = list /\ g.rule \in {"placeholder_cf", "scale_break"}}}
Kept(rows) == {[end |-> r.end, cfo |-> r.cfo] : r \in {x \in ToSet(rows) : x.cfo # NA}}

(***************************************************************************)
(* Marks and figures are worked out by two passes over the cached rows: a  *)
(* cash-flow row with a mark is never read by a scorer, and one without is *)
(* read as FMP served it, unless it ends after the balance sheet in use    *)
(* (clean_cash_flow_statements against _cash_flow_flags).                  *)
(***************************************************************************)
MarkedRowsAreUnread ==
    LET older == {r \in ToSet(raw.cashQuarters) : view.used.reason = "none" \/ r.end <= view.used.sheet.end + 10}
    IN /\ Kept(view.used.cash) =
             {[end |-> r.end, cfo |-> r.cfo] : r \in {x \in older : x.cfo # NA /\ x.end \notin Marked("quarterly")}}
       /\ Kept(view.used.cashAnnual) =
             {[end |-> r.end, cfo |-> r.cfo] :
                 r \in {x \in ToSet(raw.cashAnnual) : x.cfo # NA /\ x.end \notin Marked("annual")}}

\* No row is set aside as a scale error while a fifth of its lines stay within two and
\* a half decades of a neighbour's (EME, MCHP: one tiny line is a real figure).
OneLineIsNoScaleBreak ==
    \A f \in view.flags : f.rule = "scale_break" /\ f.list = "quarterly" /\ raw.cashQuarters[f.index].period # 4 =>
        LET row == raw.cashQuarters[f.index]
            near == {k \in Indexes(row.size) : \E j \in {f.index - 1, f.index + 1} \cap Indexes(raw.cashQuarters) :
                        row.size[k] - raw.cashQuarters[j].size[k] \in -4 .. 4}
        IN 5 * Cardinality(near) <= Len(row.size)

(***************************************************************************)
(* A trailing total covers one year: its quarters follow each other, and   *)
(* when it is not their plain sum the newest was the whole year's and the  *)
(* total stays in proportion to the other three (sum_last_four_quarters).  *)
(***************************************************************************)
TotalsCoverOneYear ==
    /\ view.used.cfo # NA => \A i \in 1 .. 3 : view.used.cash[i].end - view.used.cash[i + 1].end <= 100
    /\ view.used.net # NA =>
        LET q == view.used.income
            three == q[2].net + q[3].net + q[4].net
        IN view.used.net # q[1].net + three =>
               /\ q[1].period = 4 /\ view.used.net = q[1].net
               /\ 13 * three <= 12 * view.used.net /\ 3 * view.used.net <= 7 * three

\* Where the Financials tab's TTM column is not what the scorers read, a mark on the
\* TTM column says so.
DifferencesAreMarked ==
    view.tab.cfo # view.used.cfo \/ view.tab.net # view.used.net => \E f \in view.flags : f.inTtm

\* After a fallback no statement's window ends later than the balance sheet in use.
WindowsEndTogether ==
    view.used.reason # "none" =>
        \A end \in {view.used.ends.income, view.used.ends.cash} : end = NA \/ end <= view.used.sheet.end + 10

\* The lists that end with the same fiscal year line up year by year, however many
\* years each has (_annual_series), so a return is judged beside its own year's equity.
SeriesLineUp ==
    /\ \A pair \in {<<raw.ratios, view.series.roeYears>>, <<raw.sheetsAnnual, view.series.equityYears>>} :
           pair[1][1].year = raw.incomeAnnual[1].year =>
               \A i \in 1 .. Window : pair[2][i] # NA /\ view.series.years[i] # NA => pair[2][i] = view.series.years[i]
    /\ \A i \in view.series.scored : view.series.roe[i] # NA /\ view.series.net[i] # NA

ViewAccountsForRows ==
    view.built =>
        MarkedRowsAreUnread /\ OneLineIsNoScaleBreak /\ TotalsCoverOneYear /\ DifferencesAreMarked
        /\ WindowsEndTogether /\ SeriesLineUp
=============================================================================
