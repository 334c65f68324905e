------------------------------ MODULE MoatCheck ------------------------------
(***************************************************************************)
(* The advisory moat check, run by hand: prepare makes a run folder with   *)
(* the criteria and a block of facts, two blind passes each leave a record *)
(* in it, save validates and reconciles the two and appends one row, and   *)
(* finish deletes the folder.  Runs overlap, folders grow old and are      *)
(* swept by the next run, and the criteria may change in between.          *)
(*                                                                         *)
(* A record keeps what the reconciliation reads; shape is whether all the  *)
(* rest of it (keys, enumerations, text fields) is well formed.            *)
(***************************************************************************)
EXTENDS Integers, Sequences, FiniteSets

CONSTANTS
    Companies,     \* what is cached of a ticker: profile, fund flag, years, closes
    Judgements,    \* what a pass may write, its ticker and version left blank
    RUN_MAX_AGE,   \* age at which a run folder is swept
    LastHour,      \* hours of a behaviour
    Runs,          \* runs prepared in a behaviour
    Mishaps        \* departures from a plain run in a behaviour

VARIABLES
    bench,    \* hour, criteria version, funds known, run folders, what is cached
    checks    \* the rows, and what each was saved from

cvars == <<bench, checks>>

NoRecord == [shape |-> FALSE]
CONFIDENCES == <<"Low", "Medium", "High">>
LEVELS == <<"Low", "Moderate", "High">>
Rank(word, words) == CHOOSE i \in DOMAIN words : words[i] = word
Highest(S, words) == CHOOSE x \in S : \A y \in S : Rank(y, words) <= Rank(x, words)
Lowest(S, words) == CHOOSE x \in S : \A y \in S : Rank(x, words) <= Rank(y, words)

-----------------------------------------------------------------------------
(***************************************************************************)
(* The block of facts.                                                     *)
(***************************************************************************)
\* Years with no revenue are left out.
AnnualMargins(company) == {year \in company.years : year.revenue # 0}

\* The deepest fall from the first close, a slip.
FromFirst(closes) ==
    LET falls == {60 - (60 * closes[i]) \div closes[1] : i \in DOMAIN closes}
        deepest == CHOOSE f \in falls : \A g \in falls : g <= f
    IN [peak |-> closes[1], fall |-> deepest]

\* The deepest fall, one pass over the closes with the peak so far.
DescribeChart(closes) ==
    LET seen[i \in 1 .. Len(closes)] ==
            LET before == IF i = 1 THEN [peak |-> closes[1], fall |-> 0] ELSE seen[i - 1]
                peak == IF closes[i] > before.peak THEN closes[i] ELSE before.peak
                fall == 60 - (60 * closes[i]) \div peak
            IN [peak |-> peak, fall |-> IF fall > before.fall THEN fall ELSE before.fall]
    IN seen[Len(closes)]

BlockRefused(company) == company.profile \in {"none", "fund"} \/ AnnualMargins(company) = {} \/ Len(company.closes) < 2

NetMarginOnly(company) == company.lender

BuildBlock(company) ==
    [margins |-> {[year |-> y.year, net |-> (100 * y.net) \div y.revenue, gross |-> IF NetMarginOnly(company) THEN 0 ELSE (100 * y.gross) \div y.revenue] :
                     y \in AnnualMargins(company)},
     chart |-> DescribeChart(company.closes)]

\* Any folder old enough, finished or not.
Sweep(folders) == {f \in folders : bench.hour - f.made <= RUN_MAX_AGE}

\* A refusal has swept already; a failed probe of the guard removes the folder.
Prepare(ticker, probeOk) ==
    /\ bench.runs < Runs
    /\ probeOk \/ bench.mishaps > 0
    /\ LET made == [ticker |-> ticker, made |-> bench.hour, run |-> bench.runs + 1, version |-> bench.version,
                    block |-> BuildBlock(bench.cached[ticker]), passes |-> <<NoRecord, NoRecord>>]
           kept == Sweep(bench.folders)
       IN bench' = [bench EXCEPT !.runs = @ + 1, !.mishaps = IF probeOk THEN @ ELSE @ - 1,
                       !.folders = IF BlockRefused(bench.cached[ticker]) \/ ~probeOk THEN kept ELSE kept \cup {made}]
    /\ UNCHANGED checks

-----------------------------------------------------------------------------
(***************************************************************************)
(* A pass, and what is checked of it.                                      *)
(***************************************************************************)
\* An unproven source carries no fact, any other one does.
WellFormed(record) == record.shape /\ (record.source = "unproven") = ~record.fact

Pass(f, number, judgement) ==
    /\ f.passes[number] = NoRecord
    /\ WellFormed(judgement) \/ bench.mishaps > 0
    /\ LET record == [judgement EXCEPT !.ticker = f.ticker, !.version = f.version, !.run = f.run, !.number = number]
       IN bench' = [bench EXCEPT !.mishaps = IF WellFormed(judgement) THEN @ ELSE @ - 1,
                       !.folders = (@ \ {f}) \cup {[f EXCEPT !.passes[number] = record]}]
    /\ UNCHANGED checks

Valid(record, ticker) == WellFormed(record) /\ record.ticker = ticker /\ record.version = bench.version

\* The record's own word is kept, a slip.
AsClaimed(record) == record

\* Two values are derived, not refused.
Corrected(record) ==
    [record EXCEPT !.threat = IF record.threats = {} THEN "Low" ELSE Highest(record.threats, LEVELS),
                   !.confidence = IF record.basis = "company_reported_only" THEN "Low" ELSE @]

-----------------------------------------------------------------------------
\* The first pass's confidence, a slip.
FirstWins(pass1, pass2) ==
    LET stable == pass1.rating = pass2.rating
    IN [status |-> IF stable THEN "stable" ELSE "inconclusive", rating |-> IF stable THEN pass1.rating ELSE "none",
        confidence |-> pass1.confidence, basis |-> pass1.basis, threat |-> IF stable THEN pass1.threat ELSE "none"]

Reconcile(pass1, pass2) ==
    LET stable == pass1.rating = pass2.rating
    IN [status |-> IF stable THEN "stable" ELSE "inconclusive",
        rating |-> IF stable THEN pass1.rating ELSE "none",
        confidence |-> IF stable THEN Lowest({pass1.confidence, pass2.confidence}, CONFIDENCES) ELSE "Low",
        basis |-> IF "company_reported_only" \in {pass1.basis, pass2.basis} THEN "company_reported_only" ELSE "independent",
        threat |-> IF stable THEN pass1.threat ELSE "none"]

\* The ticker's newest row replaces the older ones, a slip.
OnlyNewest(rows, row) == {r \in rows : r.ticker # row.ticker} \cup {row}
Appended(rows, row) == rows \cup {row}

\* The second pass goes unread, a slip.
FirstIsValid(f, pass2) == Valid(f.passes[1], f.ticker)
BothValid(f, pass2) == Valid(f.passes[1], f.ticker) /\ Valid(pass2, f.ticker)

\* Save for f's ticker its first pass and a second one, its own or, by a slip of
\* the hand, another run's.  Nothing is written when a record is refused.
Save(f, g) ==
    LET pass2 == g.passes[2]
        agreed == Reconcile(Corrected(f.passes[1]), Corrected(pass2))
        row == [id |-> Cardinality(checks.rows) + 1, ticker |-> f.ticker, checkedAt |-> bench.hour, version |-> f.passes[1].version,
                status |-> agreed.status, rating |-> agreed.rating, confidence |-> agreed.confidence, basis |-> agreed.basis,
                threat |-> agreed.threat]
    IN /\ f.passes[1] # NoRecord /\ pass2 # NoRecord
       /\ f = g \/ bench.mishaps > 0
       /\ \A e \in checks.saved : e.pass1 # f.passes[1] \/ e.pass2 # pass2
       /\ bench' = IF f = g THEN bench ELSE [bench EXCEPT !.mishaps = @ - 1]
       /\ checks' = IF f.ticker \notin bench.funds /\ BothValid(f, pass2)
                    THEN [rows |-> Appended(checks.rows, row),
                          saved |-> checks.saved \cup {[row |-> row, pass1 |-> f.passes[1], pass2 |-> pass2]}]
                    ELSE checks

Finish(f) == bench' = [bench EXCEPT !.folders = @ \ {f}] /\ UNCHANGED checks

-----------------------------------------------------------------------------
AnHour == bench.hour < LastHour /\ bench' = [bench EXCEPT !.hour = @ + 1] /\ UNCHANGED checks

\* A new version of the criteria, and of the code that checks against it.
NewCriteria ==
    /\ bench.mishaps > 0
    /\ bench' = [bench EXCEPT !.mishaps = @ - 1, !.version = @ + 1]
    /\ UNCHANGED checks

\* A ticker is opened and found to be a fund.
FoundToBeFund(ticker) ==
    /\ bench.mishaps > 0 /\ ticker \notin bench.funds
    /\ bench' = [bench EXCEPT !.mishaps = @ - 1, !.funds = @ \cup {ticker}]
    /\ UNCHANGED checks

Latest(ticker) ==
    LET mine == {r \in checks.rows : r.ticker = ticker}
    IN CHOOSE r \in mine : \A s \in mine : s.checkedAt < r.checkedAt \/ (s.checkedAt = r.checkedAt /\ s.id <= r.id)

InitMoat ==
    /\ bench \in {[hour |-> 1, version |-> 1, runs |-> 0, mishaps |-> Mishaps, folders |-> {}, funds |-> {}, cached |-> c] : c \in Companies}
    /\ checks = [rows |-> {}, saved |-> {}]

NextMoat ==
    \/ \E ticker \in DOMAIN bench.cached, probeOk \in BOOLEAN : Prepare(ticker, probeOk)
    \/ \E f \in bench.folders, number \in 1 .. 2, judgement \in Judgements : Pass(f, number, judgement)
    \/ \E f, g \in bench.folders : Save(f, g)
    \/ \E f \in bench.folders : Finish(f)
    \/ AnHour \/ NewCriteria
    \/ \E ticker \in DOMAIN bench.cached : FoundToBeFund(ticker)

SpecMoat == InitMoat /\ [][NextMoat]_cvars

-----------------------------------------------------------------------------
MoatTypeOK ==
    /\ bench.hour \in 1 .. LastHour /\ bench.mishaps \in 0 .. Mishaps
    /\ \A r \in checks.rows : r.confidence \in {CONFIDENCES[i] : i \in 1 .. 3} /\ r.threat \in {LEVELS[i] : i \in 1 .. 3} \cup {"none"}

\* A row claims no more than its two passes agree on: a rating and a threat
\* level only when both gave it, no more confidence than either, and low
\* confidence as soon as one rests on the company's word alone.
RowClaimsNoMore ==
    \A e \in checks.saved :
        /\ e.row.rating # "none" => {e.pass1.rating, e.pass2.rating} = {e.row.rating}
        /\ \A p \in {e.pass1, e.pass2} :
               /\ Rank(e.row.confidence, CONFIDENCES) <= Rank(p.confidence, CONFIDENCES)
               /\ p.basis = "company_reported_only" => e.row.confidence = "Low" /\ e.row.basis = p.basis
               /\ p.rating # e.row.rating => e.row.confidence = "Low" /\ e.row.threat = "none"

\* A stable row's threat level is that of the gravest threat its first pass
\* names, whatever level that pass gave the whole.
ThreatIsTheGravest ==
    \A e \in checks.saved : e.row.status = "stable" =>
        /\ \A level \in e.pass1.threats : Rank(level, LEVELS) <= Rank(e.row.threat, LEVELS)
        /\ e.row.threat = "Low" \/ e.row.threat \in e.pass1.threats

\* Both passes of a row are of the row's ticker and one version of the
\* criteria, prepared from facts and citing a fact for every proven source;
\* and rows are never lost, so the page reads the newest of all of them.
RowsRestOnTheirRun ==
    /\ \A e \in checks.saved :
           /\ e.row \in checks.rows
           /\ \A p \in {e.pass1, e.pass2} : p.ticker = e.row.ticker /\ p.version = e.row.version /\ p.shape /\ (p.source # "unproven" => p.fact)
           /\ ~BlockRefused(bench.cached[e.row.ticker])
           /\ Latest(e.row.ticker).checkedAt >= e.row.checkedAt
    /\ \A r, s \in checks.rows : r.id = s.id => r = s

\* The chart's fall in a block is the deepest between any two closes in their
\* order, and a folder was made only for a company with something to judge.
BlocksAreTrue ==
    \A f \in bench.folders :
        LET closes == bench.cached[f.ticker].closes
            falls == UNION {{60 - (60 * closes[j]) \div closes[i] : j \in i .. Len(closes)} : i \in DOMAIN closes}
        IN /\ f.block.chart.fall \in falls /\ \A fall \in falls : fall <= f.block.chart.fall
           /\ f.block.margins # {}

MoatChecksHold == RowClaimsNoMore /\ ThreatIsTheGravest /\ RowsRestOnTheirRun /\ BlocksAreTrue
=============================================================================
