------------------------------- MODULE MCCards -------------------------------
(***************************************************************************)
(* The cards and lists that are computed afresh from what is stored, one   *)
(* computation each.  They share no state, so a behaviour is one           *)
(* computation (part) and all use the same two variables: what was given   *)
(* and the answer.                                                         *)
(*                                                                         *)
(* The figures they are given: of every classification the scorers make    *)
(* there is one on either side of each limit, as far as a property can     *)
(* tell the sides apart.                                                   *)
(***************************************************************************)
EXTENDS Arithmetic, TLC

CONSTANTS
    Sheets, Debts, Servicing, Covers, BreachContexts, DebtWeightSets, Gearings, Cet1s, Npls,  \* of DebtStep
    Funds, EtfAnswers, FAILURE_RATE, MIN_ATTEMPTED, ScreenerDays, ScreenerMishaps,            \* of EtfScreener
    MoatCompanies, MoatJudgements, RUN_MAX_AGE, MoatHours, MoatRunLimit, MoatMishaps          \* of MoatCheck

\* Debt: [CR, DE, DS] weights at the corners of their bounds.
Ratio(cr, de, ds) == [current_ratio |-> cr, debt_to_ebitda |-> de, debt_servicing_ratio |-> ds]
MCDebtWeightSets == {Ratio(25, 45, 30), Ratio(29, 41, 30), Ratio(15, 60, 25)}

Sheet(ca, cl, deferred) == [ca |-> ca, cl |-> cl, deferred |-> deferred]
MCSheets == {
    Sheet(41, 20, 0), Sheet(40, 20, NA), Sheet(20, 20, 25), Sheet(19, 20, 1), Sheet(18, 20, 0), Sheet(18, 20, 3),
    Sheet(15, 20, 5), Sheet(13, 20, 0), Sheet(NA, 20, 0)}

MCDebts == {[debt |-> d, ebitda |-> 10] : d \in {10, 21, 30, 31, 40, 41, 101}} \cup {[debt |-> 5, ebitda |-> -3]}
MCServicing == {[net |-> n, cfo |-> 10] : n \in {0, 2, 3, 4, 5, 12}} \cup {[net |-> 2, cfo |-> 0]}
MCCovers == {[ebit |-> 31, interest |-> 10], [ebit |-> 30, interest |-> 10], [ebit |-> 30, interest |-> 0]}

Context(t, a, q) == [debtTrend |-> t, fcf |-> a, ratioTrend |-> t, cash |-> a, quality |-> q]
MCBreachContexts == {
    Context("favorable", "favorable", "favorable"), Context("favorable", "not_computable", "not_computable"),
    Context("favorable", "unfavorable", "favorable"), Context("unfavorable", "unfavorable", "unfavorable"),
    Context("not_computable", "not_computable", "not_computable")}

-----------------------------------------------------------------------------
\* Growth: estimates a base year and two or so years after it.
Year(at, avg, rate, spread) == [at |-> at, avg |-> avg, rate |-> rate, spread |-> spread]
Basis(base, later) == [base |-> base, later |-> later]
Nothing == Basis("missing", {})

EstimateSets == {
    [eps |-> e, revenue |-> r] :
        e \in {Nothing, Basis("negative", {Year(4, "positive", 0, 50)}),
               Basis("positive", {Year(2, "negative", -1200, 50), Year(1, "positive", 20, 50)}),
               Basis("positive", {Year(4, "negative", -1300, 90)}),
               Basis("positive", {Year(4, "missing", 0, NA), Year(5, "positive", 0, 200), Year(1, "positive", 200, 50)}),
               Basis("positive", {Year(3, "positive", 151, 99), Year(5, "positive", -150, 50)}),
               Basis("positive", {Year(1, "negative", -1200, 50)})},
        r \in {Nothing, Basis("positive", {Year(4, "positive", -1, 0), Year(5, "positive", 70, 100)}),
               Basis("positive", {Year(4, "positive", -1, 99)}),
               Basis("positive", {Year(3, "zero", 0, 50), Year(4, "zero", 0, 50)})}}

Answer(score, verdict) == [score |-> score, verdict |-> verdict]
Unscored(verdict) == Answer(NA, verdict)
Financials == {Answer(100, "Strong Pass"), Answer(70, "Pass"), Answer(55, "Fail"), Unscored("raised")}
Profitability == {Answer(99, "Strong Pass"), Answer(80, "Fail"), Unscored("insufficient_data")}
DebtAnswers == {Answer(100, "Strong Pass"), Answer(74, "Pass with caution"), Answer(0, "Fail"), Unscored("not_supported")}

Weights(financials, growth, profitability, debt, magnitude) ==
    [overall |-> [step1 |-> financials, step2 |-> growth, step4 |-> profitability, step5 |-> debt], magnitude |-> magnitude]
Blends == {Weights(30, 20, 20, 30, 70), Weights(10, 50, 5, 35, 50)}
Multipliers == {100, 90, 70}

-----------------------------------------------------------------------------
\* Valuation.
Companies == {"Standard", "Insurance", "Bank"}

Flow(cfo, capex, cfoTtm, capexTtm) == [cfo |-> cfo, capex |-> capex, cfoTtm |-> cfoTtm, capexTtm |-> capexTtm]
Steady == <<10, 12, 14, 16, 18>>
Spent == <<-3, -3, -3, -3, -3>>
Flows == {
    Flow(Steady, Spent, 20, -3), Flow(Steady, Spent, -20, NA), Flow(Steady, Spent, NA, -3),
    Flow(Steady, <<-3, -3, -3, -3, -30>>, 20, -3), Flow(<<-10, -8, -6, -4, -2>>, Spent, -1, -3),
    Flow(<<14, 12, 10, 9, 9>>, <<-30, -30, -30, -30, -30>>, 20, -3), Flow(<<20, 30>>, <<-5, -5>>, 40, -5)}

Profit(ni, ttm, repeats) == [ni |-> ni, ttm |-> ttm, repeats |-> repeats]
Profits == {
    Profit(<<9, 10, 11, 12, 13>>, 15, FALSE), Profit(<<1, 0, 3, 4, 5>>, 6, FALSE), Profit(<<-10, -9, -8, -7, -6>>, -5, FALSE),
    Profit(<<-10, -1, -1, -1, 2>>, 2, TRUE), Profit(<<9, 2, 11, 1, 8>>, 3, TRUE), Profit(<<9, 10, 11, 12, 13>>, NA, FALSE),
    Profit(<<3, 4>>, 5, FALSE)}

Revenues == {<<0, 10, 20, 40, 80>>, <<50, 50, 60>>, <<7>>}
Books == {[value |-> 60, multiple |-> 110], [value |-> -5, multiple |-> NA]}

Finance(converts, growth, factor, net, sales) ==
    [converts |-> converts, growth |-> growth, factor |-> factor, net |-> net, sales |-> sales]
Finances == {Finance(TRUE, 12, 9, 30, 80), Finance(TRUE, -4, 5, -150, 80), Finance(TRUE, NA, NA, NA, NA), Finance(FALSE, NA, NA, NA, NA)}
Prices == {140, NA}

Custom(saved, method, figure) ==
    [saved |-> saved, method |-> method, figure |-> [num |-> figure, den |-> 1],
     book |-> [value |-> 50, multiple |-> 90], finance |-> Finance(TRUE, 10, 6, -40, 70)]
Customs == {Custom(FALSE, "none", NA), Custom(TRUE, "CF_NORMALIZED", 5), Custom(TRUE, "PRICE_TO_BOOK", NA)}

-----------------------------------------------------------------------------
\* Profitability: years of [roe, equity, income, roic].  The returns of a company
\* whose equity and income never matter, both ratios alike or each its own.
Both(roe, roic) ==
    [i \in DOMAIN roe |-> [roe |-> roe[i], equity |-> 100, income |-> 10, roic |-> roic[i]]]
Same(v) == Both(v, v)
OverEquity(equity, income) ==
    [i \in DOMAIN income |-> [roe |-> -50, equity |-> equity, income |-> income[i], roic |-> 13]]

Excellent == <<16, 18, 18, 20, 20, 21, 22, 25>>
ReturnSets == {
    Same(Excellent), Same(<<16, 0, 18, 20>>), Same(<<0, 18, 20>>), Same(<<0, 0, 0>>), Same(<<3, 4, NA, 5>>), Same(<<40, 30, 20, 19, 18>>),
    Same(<<14, 13, 13, 9, 12>>), Same(<<20, 2, 20, 21, 22, 23, 24, 25, 26>>), Same(<<9, 9, 90, 9>>), Same(<<20, 25, 30, -5>>),
    Both(Excellent, [i \in DOMAIN Excellent |-> -2]), Both([i \in DOMAIN Excellent |-> -2], Excellent),
    Both(<<11, 2, 3, 9>>, <<NA, NA, 6, NA>>), Same(<<12, NA>>),
    OverEquity(-5, <<3, 4, 5, 6>>), OverEquity(-5, <<6, 5, 4, 3>>), OverEquity(-5, <<6, -4, 7, 9, 10, 11>>)}

Sales(revenue, receivables) == [i \in DOMAIN revenue |-> [revenue |-> revenue[i], receivables |-> receivables[i]]]
Proof(sales, days) == [sales |-> sales, days |-> days]
EvidenceSets == {
    Proof(Sales(<<100, 110, 125, 125, 130>>, <<20, 22, 23, 23, 23>>), <<>>),
    Proof(Sales(<<100, 110, 125, 125, 130>>, <<20, 22, 23, 23, 23>>), <<60, 55, 50, 40, 20>>),
    Proof(Sales(<<100, 110, 121, 133>>, <<10, 15, 14, 15>>), <<20, 26, 33, 41>>),
    Proof(Sales(<<100, 110, 121, 133>>, <<10, 18, 13, 14>>), <<20, 20, 70, 70, 72>>),
    Proof(Sales(<<100, 110, 100, 90>>, <<20, 20, 21, 24>>), <<30, 20, 30, 20, 30>>),
    Proof(Sales(<<100, 100, 100, 100, 100, 100>>, <<10, 10, 10, 20, 30, 40>>), <<-5, -4, -3, -40>>),
    Proof(Sales(<<0, 100>>, <<0, 10>>), <<30, 10, -5, -8>>), Proof(Sales(<<0, 100>>, <<NA, 10>>), <<-20, -10, 5, 20, 30>>),
    Proof(Sales(<<100, 103, 106, 109, 112>>, <<10, 11, 12, 11, 12>>), <<40, 42, 39, 38, -500>>),
    Proof(Sales(<<100, 110>>, <<10, 10>>), <<100, 50, 20, 0, -2>>), Proof(Sales(<<100, 110>>, <<10, 12>>), <<4, -6, 5, -5>>)}

Proven(roe, roic, ar, ccc) == [roe |-> roe, roic |-> roic, ar |-> ar, ccc |-> ccc]
ProfitWeightSets == {Proven(25, 35, 20, 20), Proven(15, 25, 30, 30), Proven(60, 15, 25, 0)}

-----------------------------------------------------------------------------
\* Financials: companies, their years, and what the engines score them.
Profile(fund, sector, industry, override) ==
    [fund |-> fund, sector |-> sector, industry |-> industry, override |-> override]
StepProfiles == {
    Profile(FALSE, "Technology", "Software", FALSE), Profile(FALSE, "Utilities", "Regulated", FALSE),
    Profile(FALSE, "Financial Services", "Banks", FALSE), Profile(FALSE, "Financial Services", "Banks", TRUE),
    Profile(FALSE, "Energy", "Producer", FALSE), Profile(FALSE, "Energy", "Services", FALSE),
    Profile(TRUE, "Financial Services", "Insurance", FALSE), Profile(FALSE, "Real Estate", "none", FALSE)}

Ledger(revenue, gross, operating, net, cfo, capex) ==
    [revenue |-> revenue, gross |-> gross, operating |-> operating, net |-> net, cfo |-> cfo, capex |-> capex]
Flat(n, x) == [i \in 1 .. n |-> x]
LedgerSets == {
    Ledger(Flat(8, 100), Flat(8, 40), Flat(8, 20), Flat(8, 12), Flat(8, 15), Flat(8, -5)),
    Ledger(Flat(5, 100), Flat(5, 40), Flat(5, 20), Flat(5, 12), Flat(5, 15), Flat(5, -5)),
    Ledger(<<100, 100, 110, 120, 130>>, Flat(5, 40), <<20, 20, 20, -1, 20>>, <<10, 11, 12, -6, -4>>, Flat(5, 15), Flat(5, -5)),
    Ledger(<<100, 100, 110, 120, 130>>, Flat(5, 40), <<20, -2, 20, -1, 20>>, <<10, 11, 12, 6, 7>>, Flat(5, 15), Flat(5, -25)),
    Ledger(<<100, 100, 100>>, <<NA, NA, 40>>, <<20, 20, -3>>, <<5, 4, -9>>, <<NA, 10, -2>>, <<NA, -1, -1>>),
    Ledger(<<100, 100>>, <<40, 40>>, <<20, 20>>, <<10, NA>>, <<NA, NA>>, <<NA, NA>>),
    Ledger(<<NA, 100>>, <<40, 40>>, <<20, 20>>, <<10, 10>>, <<9, 9>>, <<-1, -1>>),
    Ledger(<<0, 0, 100>>, Flat(3, 40), Flat(3, 6), Flat(3, NA), Flat(3, 9), Flat(3, -1))}

Margin(score, nudge, decline) == [score |-> score, nudge |-> nudge, decline |-> decline]
Opinion(revenue, net, operating, cfo, fcf, gross, op, nm) ==
    [revenue |-> revenue, net |-> net, operating |-> operating, cfo |-> cfo, fcf |-> fcf,
     grossMargin |-> gross, operatingMargin |-> op, netMargin |-> nm]
OpinionSets == {
    Opinion(100, 100, 100, 100, 100, Margin(100, 5, FALSE), Margin(100, 0, FALSE), Margin(97, 5, FALSE)),
    Opinion(100, 79, 100, 100, 100, Margin(30, -5, TRUE), Margin(45, -5, TRUE), Margin(20, 5, TRUE)),
    Opinion(60, 80, 95, 70, 20, Margin(88, 0, FALSE), Margin(61, 4, FALSE), Margin(70, -2, TRUE)),
    Opinion(90, 40, 60, 90, 90, Margin(75, 0, FALSE), Margin(50, 0, FALSE), Margin(55, 0, FALSE))}

Shares(revenue, net, cfo, margins, fcf) == [revenue |-> revenue, net |-> net, cfo |-> cfo, margins |-> margins, fcf |-> fcf]
StepWeightSets == {Shares(35, 20, 30, 10, 5), Shares(20, 40, 40, 0, 0), Shares(50, 10, 10, 25, 5)}

-----------------------------------------------------------------------------
\* Opportunities: nine plain stocks and five funds, and two tickers that vary.
Bars(last, provisional, months, volume) == [last |-> last, provisional |-> provisional, months |-> months, volume |-> volume]
Row(on, stage, weeks, pending, slope, rs, over) ==
    [on |-> on, stage |-> stage, weeks |-> weeks, pending |-> pending, slope |-> slope, rs |-> rs, over |-> over]
Structure(drawdown, higherLow, above, now, then) ==
    [drawdown |-> drawdown, higherLow |-> higherLow, above |-> above, now |-> now, then |-> then]
Plain(name, fund, curated, verdict, returns) ==
    [name |-> name, fund |-> fund, curated |-> curated, named |-> 0, verdict |-> verdict, overall |-> 60, steps |-> 72,
     benchmark |-> FALSE, delisted |-> FALSE, bars |-> Bars("as_of", FALSE, 40, 30), signals |-> {}, monitored |-> FALSE,
     trend |-> Row("as_of", "top", NA, "none", 1, 1, 5), price |-> Structure(5, TRUE, TRUE, 2, 1), returns |-> returns]

Background ==
    {Plain(10 + i, FALSE, 0, IF i % 2 = 0 THEN "Pass" ELSE "Fail", <<i, i, 2 * i>>) : i \in 1 .. 9}
    \cup {Plain(20 + i, TRUE, 0, "none", <<i, i, i>>) : i \in 1 .. 2} \cup {Plain(30, TRUE, 3, "none", <<25, 25, 25>>)}

Rising == Row("as_of", "advance", 20, "none", 1, 1, 14)
Strong == <<20, 20, 60>>
Turned == Structure(30, TRUE, TRUE, -1, -3)
Blue == [kind |-> "blue_up", age |-> 9]

\* A first ticker that may be listed, by what is stored of it.
Firsts ==
    LET one(verdict) == [Plain(1, FALSE, 0, verdict, Strong) EXCEPT !.trend = Rising]
        weak == one("Fail")
        fine == one("Strong Pass")
        turn(t, stage) == [t EXCEPT !.trend = Row("as_of", stage, 3, "none", -1, -1, -8), !.price = Turned]
    IN {weak, fine, [weak EXCEPT !.trend.on = "older"], [fine EXCEPT !.trend.on = "older"], [fine EXCEPT !.trend.on = "none"],
        [weak EXCEPT !.trend.weeks = 52], [weak EXCEPT !.trend.weeks = 53], [weak EXCEPT !.returns = <<31, 1, 90>>],
        [weak EXCEPT !.returns = <<9, 9, 18>>], [weak EXCEPT !.trend.over = 15], [fine EXCEPT !.trend.over = 19, !.price = Turned],
        [fine EXCEPT !.trend.weeks = 8, !.price = Turned], [weak EXCEPT !.trend.weeks = NA], [fine EXCEPT !.trend.rs = NA],
        [turn(weak, "decline") EXCEPT !.signals = {Blue}], [turn(fine, "decline") EXCEPT !.signals = {Blue}],
        [turn(fine, "base") EXCEPT !.signals = {[Blue EXCEPT !.age = 10]}, !.monitored = TRUE], turn(weak, "base"),
        [turn(fine, "base") EXCEPT !.price.now = NA], [turn(weak, "top") EXCEPT !.trend.pending = "advance", !.price.drawdown = 29],
        [turn(fine, "top") EXCEPT !.trend.pending = "advance"]}

\* A second one: a fund, a stock that is let through, or one that is not.
Seconds ==
    LET fund(curated, named) == [Plain(2, TRUE, curated, "none", Strong) EXCEPT !.trend = Rising, !.named = named]
        stock == [Plain(2, FALSE, 0, "Fail", Strong) EXCEPT !.trend = Rising]
    IN {fund(0, 0), fund(2, 0), fund(0, 3), [fund(0, 0) EXCEPT !.returns = <<1, 1, 2>>], [fund(0, 0) EXCEPT !.trend.on = "older"],
        stock, [stock EXCEPT !.returns = <<30, 20, 150>>], [stock EXCEPT !.benchmark = TRUE], [stock EXCEPT !.delisted = TRUE],
        [stock EXCEPT !.bars.last = "none", !.returns = <<NA, NA, NA>>], [stock EXCEPT !.bars.last = "older"],
        [stock EXCEPT !.bars.provisional = TRUE, !.trend.on = "older"], [stock EXCEPT !.bars.months = 11, !.returns[3] = NA],
        [stock EXCEPT !.bars.volume = 24, !.trend.on = "older"], [stock EXCEPT !.bars.volume = NA]}

UniverseSets == {Background \cup {a, b} : a \in Firsts, b \in Seconds}
    \cup {{t \in Background : t.name < 17} \cup {a, b} : a \in Firsts, b \in Seconds}

-----------------------------------------------------------------------------
\* The Scorecard: weeks of eight to twenty names at one or two horizons, one name odd.
Priced(ret, spy, sector) ==
    [status |-> "complete", gap |-> FALSE, version |-> 3, ret |-> ret, bench |-> [spy |-> spy, sector |-> sector],
     excess |-> [spy |-> ret - spy, sector |-> IF sector = NA THEN NA ELSE ret - sector], stop |-> "no", fill |-> NA,
     worst |-> -3, drawdown |-> 4]
Of(t, h, o) == [k \in DOMAIN o \cup {"ticker", "horizon"} |-> CASE k = "ticker" -> t [] k = "horizon" -> h [] OTHER -> o[k]]
Snap(t, list, tier, leveraged, deep, ids) ==
    [ticker |-> t, list |-> list, tier |-> tier, leveraged |-> leveraged, deep |-> deep, ruleIds |-> ids]
InPool(t, h, lev, o) ==
    LET more == [tier |-> "quality", list |-> "momentum", leveraged |-> lev]
        of == Of(t, h, o)
    IN [k \in DOMAIN of \cup DOMAIN more |-> IF k \in DOMAIN more THEN more[k] ELSE of[k]]

Names(i, n) == 10 * i + 1 .. 10 * i + n
Judging(success, notCovered, incomplete) == [success |-> success, notCovered |-> notCovered, incomplete |-> incomplete]

\* Week i with n plain names, whose pool has m.
PlainWeek(i, n, m) ==
    [asOf |-> i, rules |-> 3, weights |-> IF i = 3 THEN 2 ELSE 1,
     listed |-> {Snap(t, "momentum", IF t % 2 = 0 THEN "quality" ELSE "momentum_only", FALSE, t % 5 = 0, {"A"}) : t \in 1 .. n},
     outcomes |-> {Of(t, 5, Priced((3 * i - 4) + (t % 3), 1, 2)) : t \in 1 .. n},
     pool |-> {InPool(50 + t, 5, FALSE, Priced(i + (t % 2), 1, 2)) : t \in 1 .. m},
     flags |-> {}, nights |-> {Judging(TRUE, {}, {})}]

\* An odd name of week 1, as its snapshot row and its outcome rows.
Wild == Priced(900, 1, 2)
OddNames ==
    LET plain == Snap(40, "momentum", "quality", FALSE, FALSE, {"A"})
        with(o) == [snap |-> plain, rows |-> {Of(40, 5, o)}]
    IN {[snap |-> plain, rows |-> {}], with(Wild), with([Wild EXCEPT !.gap = TRUE]), with([Wild EXCEPT !.gap = TRUE, !.status = "censored"]),
        with([Wild EXCEPT !.status = "pending"]), with([Wild EXCEPT !.status = "censored"]), with([Wild EXCEPT !.version = 2]),
        with(Priced(-7, 1, NA)), with([Wild EXCEPT !.stop = "hit", !.fill = -10]), with([Wild EXCEPT !.gap = TRUE, !.version = 2]),
        [snap |-> Snap(40, "momentum", "etf", TRUE, TRUE, {"A", "B1"}), rows |-> {Of(40, 5, Wild), Of(40, 20, Wild)}],
        [snap |-> Snap(40, "momentum", "etf", TRUE, FALSE, {}), rows |-> {Of(40, 5, [Wild EXCEPT !.gap = TRUE])}],
        [snap |-> Snap(40, "reversal", "quality", FALSE, FALSE, {"B1", "B2"}), rows |-> {Of(40, 5, Wild), Of(40, 20, Priced(5, 1, 2))}]}

Weekly(sizes, m) == {PlainWeek(i, sizes[i], m) : i \in DOMAIN sizes}
WithOdd(weeks, odd) ==
    {IF w.asOf = 1 THEN [w EXCEPT !.listed = @ \cup {odd.snap}, !.outcomes = @ \cup odd.rows] ELSE w : w \in weeks}

\* Flags of the last week's names 1 and 5: by two triggers, before or after, priced or not yet.
Raised(t, trigger, date, atMa, rows) ==
    [ticker |-> t, trigger |-> trigger, version |-> 1, date |-> date, atMa |-> atMa, list |-> "momentum", tier |-> "quality", outcomes |-> rows]
FlagSets ==
    LET priced == {Of(5, 5, Priced(2, 1, 2))} IN
    {{}, {Raised(5, "D3", 2, TRUE, priced), Raised(5, "D1", 2, FALSE, {})}, {Raised(5, "D3", 1, FALSE, {}), Raised(5, "D1", 3, FALSE, priced)},
     {Raised(1, "D3", 1, TRUE, {}), [Raised(5, "D3", 1, FALSE, priced) EXCEPT !.version = 9]}, {Raised(40, "D3", 1, FALSE, {}), Raised(77, "D3", 1, FALSE, {})}}
NightSets ==
    {{Judging(TRUE, {}, {<<"D3", 2>>})}, {Judging(TRUE, {<<"D1", 5>>}, {<<"D1", 5>>, <<"D3", 5>>}), Judging(FALSE, {}, {<<"D3", 3>>})}}

Query(weeks, picks, weights) == [weeks |-> weeks, picks |-> picks, rules |-> 3, triggers |-> 1, weights |-> weights]

StoredSets ==
    {Query(WithOdd(Weekly(<<8, 8, 8>>, 7), odd), {<<1, 40>>, <<2, 1>>, <<9, 1>>}, NA) : odd \in OddNames}
    \cup {Query(Weekly(sizes, 0), {}, weights) : sizes \in {<<6, 6, 7>>, <<6, 6, 8>>, <<10, 10>>, <<3, 3, 20, 3>>, <<20, 2, 2>>}, weights \in {NA, 1}}
    \cup {Query({[w EXCEPT !.rules = 2] : w \in WithOdd(Weekly(<<2, 3>>, 0), odd)}, {}, NA) : odd \in OddNames}
    \cup {Query({IF w.asOf = 2 THEN [w EXCEPT !.flags = flags, !.nights = nights] ELSE w : w \in WithOdd(Weekly(<<5, 5>>, 3), odd)}, {}, NA) :
              flags \in FlagSets, nights \in NightSets, odd \in {o \in OddNames : o.snap.leveraged}}
    \cup {Query({IF w.asOf = 1 THEN [w EXCEPT !.flags = flags, !.nights = nights] ELSE w : w \in WithOdd(Weekly(<<5>>, 3), odd)}, {}, NA) :
              flags \in FlagSets, nights \in NightSets, odd \in {o \in OddNames : o.snap.leveraged}}
    \cup {Query(Weekly(<<5, 5, 5, 5>>, 20), {}, NA), Query(Weekly(<<8, 8, 8, 8, 8, 8, 8, 8>>, 8), {}, NA)}

-----------------------------------------------------------------------------
\* Statements: eight quarters and four years, newest first, quarter n ends on day 90 n.
QuarterOf(n) == [end |-> 90 * n, year |-> (n - 1) \div 4, period |-> ((n - 1) % 4) + 1]
YearEnd(y) == [end |-> 360 * (y + 1), year |-> y, period |-> 0]
With(r, more) == [k \in DOMAIN r \cup DOMAIN more |-> IF k \in DOMAIN more THEN more[k] ELSE r[k]]

Earned(net) == [net |-> net, ebitda |-> 20, interest |-> -3, shares |-> 100]
\* A cash-flow row as served: its lines, a skeleton, off by three decades, or in one line only.
Served(kind, cfo) ==
    [skeleton |-> kind = "skeleton", cfo |-> IF kind = "skeleton" THEN 0 ELSE IF kind = "scaled" THEN 1 ELSE cfo,
     size |-> [k \in 1 .. 8 |-> CASE kind = "skeleton" -> NA
                                 [] kind = "scaled" -> 10 + k
                                 [] kind = "one" /\ k = 1 -> 1
                                 [] OTHER -> 16 + k]]

Ok == "fine"
Cashes == {
    <<<<Ok, Ok, Ok, Ok, Ok>>, Ok>>, <<<<"skeleton", Ok, Ok, Ok, Ok>>, Ok>>, <<<<"skeleton", "skeleton", Ok, Ok, Ok>>, Ok>>,
    <<<<Ok, "skeleton", Ok, Ok, Ok>>, Ok>>, <<<<"scaled", Ok, Ok, Ok, Ok>>, Ok>>, <<<<Ok, Ok, "scaled", Ok, Ok>>, Ok>>,
    <<<<"one", Ok, Ok, Ok, "skeleton">>, Ok>>, <<<<Ok, Ok, Ok, Ok, Ok>>, "scaled">>, <<<<"skeleton", Ok, Ok, Ok, Ok>>, "skeleton">>,
    <<<<Ok, Ok, Ok, Ok, "scaled">>, "skeleton">>}

\* Two quarterly balance sheets: whole, debt or current assets not filled in yet, debt repaid.
Standings(end, debt, liabilities, current) ==
    [end |-> end, short |-> NA, long |-> debt, total |-> debt, liabilities |-> liabilities, assets |-> 200,
     currentAssets |-> current, currentLiabilities |-> 30, equity |-> 200 - liabilities]
BalanceOf(end) ==
    LET before == Standings(end - 90, 60, 100, 50) IN
    {<<Standings(end, 60, 100, 50), before>>, <<Standings(end, 5, 98, 50), before>>, <<Standings(end, 60, 100, 10), before>>,
     <<Standings(end, 5, 45, 50), before>>, <<before>>, <<>>}

\* Net income: the newest quarter's, and the year's it belongs to.
Incomes == {<<10, 40>>, <<40, 40>>, <<31, 31>>, <<90, 90>>, <<-10, -10>>}

Statements(last, type, cash, sheets, net, years, ratios) ==
    LET newest(i) == QuarterOf(last - i + 1)
        year(i) == YearEnd((last - 1) \div 4 - i + 1)
    IN [type |-> type, landed |-> DOMAIN sheets # {1},
        incomeAnnual |-> [i \in 1 .. 4 |-> With(year(i), Earned(IF i = 1 THEN net[2] ELSE 40))],
        incomeQuarters |-> [i \in 1 .. 8 |-> With(newest(i), Earned(IF i = 1 THEN net[1] ELSE 10))],
        cashAnnual |-> [i \in 1 .. 4 |-> With(year(i), Served(IF i = 1 THEN cash[2] ELSE Ok, 48))],
        cashQuarters |-> [i \in 1 .. 8 |-> With(newest(i), Served(IF i <= 5 THEN cash[1][i] ELSE Ok, 10 + i))],
        sheets |-> sheets,
        sheetsAnnual |-> [i \in 1 .. years |-> With(year(i), [equity |-> 90 + i, inventory |-> 0])],
        ratios |-> [i \in 1 .. ratios |-> [year |-> year(i).year, roe |-> 10 + i]], ratioNow |-> 12]

Raws ==
    UNION {{Statements(last, "Standard", cash, sheets, net, 4, 4) :
               cash \in Cashes, sheets \in BalanceOf(90 * last), net \in {<<10, 40>>, <<40, 40>>}} : last \in {15, 16}}
    \cup {Statements(16, type, cash, sheets, net, 2, ratios) :
         type \in {"REIT", "Bank"}, cash \in {<<<<Ok, Ok, Ok, Ok, Ok>>, Ok>>}, sheets \in BalanceOf(1440), net \in Incomes, ratios \in {1, 3}}
-----------------------------------------------------------------------------
\* What the engines say of the sessions up to the first night.
SessionPasts == {[d \in 1 .. 4 |-> IF d = 2 THEN "up" ELSE IF d = 3 THEN third ELSE "quiet"] : third \in {"quiet", "sell"}}

\* Closes of five tickers over seven days; 0 is no bar.  One ticker may have
\* a hole, one may be young.
Markets ==
    {[aa |-> <<10, 11, 12, 13, 12, 11, 10>>, bb |-> <<10, 9, 11, 8, 0, 7, 13>>, cc |-> <<10, 10, 10, 10, 10, 10, 10>>,
      dd |-> <<0, 0, 0, 8, 9, 10, 11>>, ee |-> <<20, 19, 18, 17, 16, 15, 14>>]}

BoardSessions == (1 .. 13) \ {7, 12}

\* The first two tie on day 9; the third is young and moves.
BoardCloses ==
    <<<<10, 10, 12, 12, 10, 12, 0, 12, 12, 10, 12, 0, 10>>, <<20, 20, 20, 20, 20, 20, 0, 20, 20, 20, 20, 0, 20>>,
      <<0, 0, 0, 0, 10, 12, 0, 15, 20, 30, 20, 0, 15>>>>

Screened(reached, staged, info, profile, closeFetched) ==
    [reached |-> reached, staged |-> staged, info |-> info, profile |-> profile, closeFetched |-> closeFetched]

MCEtfAnswers ==
    {Screened(TRUE, TRUE, "ok", "named", TRUE), Screened(FALSE, FALSE, "none", "none", FALSE),
     Screened(TRUE, FALSE, "uncounted", "failed", TRUE), Screened(TRUE, TRUE, "stale", "unnamed", TRUE)}

Cached(profile, lender, revenues, closes) ==
    [profile |-> profile, lender |-> lender, closes |-> closes,
     years |-> {[year |-> 2024, revenue |-> revenues[1], net |-> 20, gross |-> 50], [year |-> 2025, revenue |-> revenues[2], net |-> 30, gross |-> 60]}]

MCMoatCompanies ==
    {[V |-> Cached("stock", FALSE, <<100, 120>>, <<12, 15, 10, 30, 15, 20>>), AXP |-> Cached("stock", TRUE, <<0, 100>>, <<20, 30>>),
      SPY |-> Cached("fund", FALSE, <<0, 0>>, <<10, 20>>)]}

Judged(shape, rating, confidence, basis, threats, threat, source, fact) ==
    [shape |-> shape, rating |-> rating, confidence |-> confidence, basis |-> basis, threats |-> threats, threat |-> threat, source |-> source, fact |-> fact,
     ticker |-> "none", version |-> 0, run |-> 0, number |-> 0]

MCMoatJudgements ==
    {Judged(TRUE, "wide", "High", "independent", {"Low", "High"}, "Moderate", "strong", TRUE),
     Judged(TRUE, "wide", "Medium", "company_reported_only", {}, "High", "unproven", FALSE),
     Judged(TRUE, "none_found", "High", "independent", {"Moderate"}, "Moderate", "weak", TRUE),
     Judged(TRUE, "wide", "High", "independent", {}, "Low", "strong", FALSE),
     Judged(FALSE, "wide", "High", "independent", {}, "Low", "strong", TRUE)}

-----------------------------------------------------------------------------
(* Parameters that are sets. *)
MCGearings == {29, 30, 40, 41, 45, 46}
MCCet1s == {NA, 9, 10, 12, 14}
MCNpls == {NA, 0, 1, 3, 5}
ProfitTypes == {"Standard", "Insurance"}
Horizons == {5, 20}
FollowedTables == {{"trend"}, {"zones"}, {"entry", "warren", "scores"}}
Indexes == {{"aa", "bb", "cc", "dd"}}
SectorToEtf == [aa |-> "XLK", bb |-> "XLK", cc |-> "XLE", dd |-> "none", ee |-> "XLE"]
SectorEtfs == {"XLK", "XLE"}
LookbackMonths == {1, 2}
BoardWindows == {0, 1, 3, 6}
Boards == {"momentum", "heatmap"}

-----------------------------------------------------------------------------
VARIABLES part, given, answer, path, weights

D == INSTANCE DebtStep WITH
        debtPath <- path, debtInputs <- given, debtWeights <- weights, debtScore <- answer,
        Balances <- Sheets, Earnings <- Debts, Services <- Servicing, Coverages <- Covers,
        Contexts <- BreachContexts, WeightSets <- DebtWeightSets,
        Gearings <- Gearings, Cet1s <- Cet1s, Npls <- Npls
G == INSTANCE TickerRow WITH
        rowInputs <- given, scoreRow <- answer,
        EstimateSets <- EstimateSets, Financials <- Financials, Profitability <- Profitability,
        DebtAnswers <- DebtAnswers, Blends <- Blends, Multipliers <- Multipliers
V == INSTANCE ValuationMethod WITH
        valued <- given, fairValue <- answer,
        Companies <- Companies, Flows <- Flows, Profits <- Profits, Revenues <- Revenues, Books <- Books,
        Finances <- Finances, Prices <- Prices, Customs <- Customs
P == INSTANCE ProfitabilityStep WITH
        profitInputs <- given, profitCard <- answer,
        Returns <- ReturnSets, Evidence <- EvidenceSets,
        ProfitTypes <- ProfitTypes, ProfitWeights <- ProfitWeightSets
N == INSTANCE FinancialsStep WITH
        stepInputs <- given, stepCard <- answer,
        Profiles <- StepProfiles, Ledgers <- LedgerSets, Opinions <- OpinionSets, StepWeights <- StepWeightSets
O == INSTANCE OpportunityList WITH
        universe <- given, weekly <- answer, Universes <- UniverseSets
S == INSTANCE Scorecard WITH
        stored <- given, card <- answer, Stored <- StoredSets, Horizons <- Horizons
W == INSTANCE StatementView WITH
        raw <- given, view <- answer, Raws <- Raws, Window <- 3
T == INSTANCE SignalRows WITH
        world <- given, kept <- answer,
        Pasts <- SessionPasts, Followed <- FollowedTables,
        LastDay <- 7, Mishaps <- 2, LOOKBACK_DAYS <- 4, Settle <- 2, EVENT_WRITE_WARMUP_DAYS <- 1,
        EVENT_RETENTION_DAYS <- 4, STALE_AFTER_DAYS <- 1, RECONCILE_MIN_DELETES <- 2
B == INSTANCE MarketBreadth WITH
        exchange <- given, board <- answer,
        Markets <- Markets, Indexes <- Indexes, Incoming <- "ee",
        SECTOR_TO_ETF <- SectorToEtf, SectorEtfs <- SectorEtfs,
        ShortWindow <- 2, LongWindow <- 3, HL_WINDOW <- 4, MIN_COVERAGE <- 75, FLOOR_MISSING <- 1,
        GATE_LOG_RETENTION_DAYS <- 1, FirstDay <- 4, LastDay <- 6, Mishaps <- 2
M == INSTANCE BoardSnapshots WITH
        desk <- given, stored <- answer,
        Closes <- BoardCloses, Sessions <- BoardSessions, MONTH <- 3, LOOKBACK_MONTHS <- LookbackMonths, WINDOWS <- BoardWindows,
        MAX_STALE_DAYS <- 2, RETENTION_DAYS <- 3, Boards <- Boards, FirstDay <- 8, LastDay <- 13, Mishaps <- 2
E == INSTANCE EtfScreener WITH
        market <- given, tables <- answer,
        Funds <- Funds, Answers <- EtfAnswers, FAILURE_RATE <- FAILURE_RATE, MIN_ATTEMPTED <- MIN_ATTEMPTED,
        LastDay <- ScreenerDays, Mishaps <- ScreenerMishaps
K == INSTANCE MoatCheck WITH
        bench <- given, checks <- answer,
        Companies <- MoatCompanies, Judgements <- MoatJudgements, RUN_MAX_AGE <- RUN_MAX_AGE,
        LastHour <- MoatHours, Runs <- MoatRunLimit, Mishaps <- MoatMishaps

\* Figures are whole amounts, and the weights such as the Settings page saves.
\* Ratios are compared by cross-multiplying, so no liabilities are negative.
ASSUME DebtAssumption ==
    /\ \A b \in Sheets : b.ca \in Int /\ b.cl \in Nat \cup {NA} /\ b.deferred \in Int
    /\ \A e \in Debts : e.debt \in Int /\ e.ebitda \in Int
    /\ \A s \in Servicing : s.net \in Int /\ s.cfo \in Int
    /\ \A c \in Covers : c.ebit \in Int /\ c.interest \in Int
    /\ \A w \in DebtWeightSets : D!ValidWeights(w)
    /\ Gearings \subseteq Int /\ Cet1s \subseteq Int /\ Npls \subseteq Int

\* There are funds to screen, and more than a day to do it.
ASSUME ScreenerAssumption ==
    /\ IsFiniteSet(Funds) /\ Funds # {}
    /\ ScreenerDays \in Nat \ {0, 1} /\ ScreenerMishaps \in Nat

\* A pass writes words of the criteria; closes are whole and positive.
ASSUME MoatAssumption ==
    /\ MoatHours \in Nat \ {0} /\ MoatMishaps \in Nat
    /\ MoatJudgements \subseteq
           [shape : BOOLEAN, rating : {"none_found", "narrow", "wide"}, confidence : {"Low", "Medium", "High"},
            basis : {"independent", "company_reported_only"}, threats : SUBSET {"Low", "Moderate", "High"},
            threat : {"Low", "Moderate", "High"}, source : {"strong", "moderate", "weak", "absent", "unproven"}, fact : BOOLEAN,
            ticker : {"none"}, version : {0}, run : {0}, number : {0}]
    /\ \A known \in MoatCompanies : \A ticker \in DOMAIN known : known[ticker].closes \in Seq(Nat \ {0})

vars == <<part, given, answer, path, weights>>

Idle == path = "none" /\ weights = [k \in {D!CR, D!DE, D!DS} |-> 0]

Init ==
    \/ part = "debt" /\ D!InitDebt
    \/ part = "row" /\ G!InitRow /\ Idle
    \/ part = "value" /\ V!InitValue /\ Idle
    \/ part = "profit" /\ P!InitProfit /\ Idle
    \/ part = "financials" /\ N!InitStep /\ Idle
    \/ part = "lists" /\ O!InitList /\ Idle
    \/ part = "scorecard" /\ S!InitCard /\ Idle
    \/ part = "view" /\ W!InitView /\ Idle
    \/ part = "signals" /\ T!InitSignals /\ Idle
    \/ part = "breadth" /\ B!InitBreadth /\ Idle
    \/ part = "boards" /\ M!InitBoards /\ Idle
    \/ part = "screener" /\ E!InitScreener /\ Idle
    \/ part = "moat" /\ K!InitMoat /\ Idle

DebtCard == part = "debt" /\ D!NextDebt /\ UNCHANGED part

RowCard == part = "row" /\ G!NextRow /\ UNCHANGED <<part, path, weights>>

ValueCard == part = "value" /\ V!NextValue /\ UNCHANGED <<part, path, weights>>

ProfitCard == part = "profit" /\ P!NextProfit /\ UNCHANGED <<part, path, weights>>

FinancialsCard == part = "financials" /\ N!NextStep /\ UNCHANGED <<part, path, weights>>

WeeklyLists == part = "lists" /\ O!NextList /\ UNCHANGED <<part, path, weights>>

ScorecardAnswer == part = "scorecard" /\ S!NextCard /\ UNCHANGED <<part, path, weights>>

StatementsRead == part = "view" /\ W!NextView /\ UNCHANGED <<part, path, weights>>

SignalNights == part = "signals" /\ T!NextSignals /\ UNCHANGED <<part, path, weights>>

BreadthNights == part = "breadth" /\ B!NextBreadth /\ UNCHANGED <<part, path, weights>>

BoardRuns == part = "boards" /\ M!NextBoards /\ UNCHANGED <<part, path, weights>>

ScreenerRuns == part = "screener" /\ E!NextScreener /\ UNCHANGED <<part, path, weights>>

MoatRuns == part = "moat" /\ K!NextMoat /\ UNCHANGED <<part, path, weights>>

Next == \/ DebtCard \/ RowCard \/ ValueCard \/ ProfitCard \/ FinancialsCard
        \/ WeeklyLists \/ ScorecardAnswer \/ StatementsRead
        \/ SignalNights \/ BreadthNights \/ BoardRuns \/ ScreenerRuns \/ MoatRuns

Spec == Init /\ [][Next]_vars

RowSpec == part = "row" /\ G!InitRow /\ Idle /\ [][RowCard]_vars

-----------------------------------------------------------------------------
BreachesCount == part = "debt" => D!TypeOK /\ D!BreachesCount

(***************************************************************************)
(* "One step's data function failing ... must not blow up this ticker's    *)
(* whole score row" (data/ticker_score.py:39; see TickerRow).              *)
(***************************************************************************)
StepFailureKeepsTheRow == G!StepFailureKeepsTheRow

ScreenerHolds == part = "screener" => E!ScreenerTypeOK /\ E!ScreenerKeepsAnswers

MoatHolds == part = "moat" => K!MoatTypeOK /\ K!MoatChecksHold

CardsHold ==
    /\ part = "row" => G!RowTypeOK /\ G!RowReadsItsChecks
    /\ part = "value" => V!ValueTypeOK /\ V!MethodFitsFigures
    /\ part = "profit" => P!ProfitTypeOK /\ P!ProfitReadsReturns
    /\ part = "financials" => N!StepTypeOK /\ N!FinancialsReadYears
    /\ part = "lists" => O!ListTypeOK /\ O!ListsRestOnTheGate
    /\ part = "scorecard" => S!CardTypeOK /\ S!ScorecardAddsUp
    /\ part = "view" => W!ViewTypeOK /\ W!ViewAccountsForRows
    /\ part = "signals" => T!SignalTypeOK /\ T!SignalsFollowBars
    /\ part = "breadth" => B!BreadthTypeOK /\ B!BreadthCounts
    /\ part = "boards" => M!BoardTypeOK /\ M!BoardsHold
    /\ ScreenerHolds
    /\ MoatHolds
=============================================================================
