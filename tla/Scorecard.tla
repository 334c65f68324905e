------------------------------- MODULE Scorecard -------------------------------
(***************************************************************************)
(* The Scorecard of the weekly lists (scoring/opportunity_scorecard.py,    *)
(* data/opportunity_scorecard_data.py): the outcome rows of every week put *)
(* into cells, each cell's statistics taken week by week and then across   *)
(* the weeks, the flags and their comparison group, the picks and the      *)
(* audit.  A week carries its snapshot rows, its outcome and pool rows,    *)
(* its flags and the nights judged against it.  Returns are whole          *)
(* percentages; a median across weeks is kept times four.                  *)
(***************************************************************************)
EXTENDS Arithmetic

CONSTANTS
    Stored,       \* the weeks, the picks and the versions asked for
    Horizons      \* HORIZONS

VARIABLES stored, card

Benchmarks == {"spy", "sector"}
Lists == {"momentum", "reversal"}
Tiers == {"quality", "momentum_only", "etf"}
Triggers == <<"D1", "D2", "D3">>
Buckets == {"entry_gap", "pending", "censored", "no_benchmark", "complete"}

-----------------------------------------------------------------------------
(***************************************************************************)
(* One cell: the rows of a group at one horizon against one benchmark.     *)
(***************************************************************************)
\* Mutant: the status is looked at before the entry gap.
StatusFirst(r, b) ==
    CASE r.status # "complete" -> r.status
      [] r.status = "complete" /\ r.excess[b] = NA -> "no_benchmark"
      [] OTHER -> "complete"

Bucket(r, b) ==
    CASE r.gap -> "entry_gap"
      [] ~r.gap /\ r.status # "complete" -> r.status
      [] ~r.gap /\ r.status = "complete" /\ r.excess[b] = NA -> "no_benchmark"
      [] OTHER -> "complete"

WithStopReturn(r) ==
    CASE r.stop = "none" -> NA
      [] r.stop = "hit" /\ r.fill # NA -> r.fill
      [] OTHER -> r.ret

WithStopExcess(r, b) == IF WithStopReturn(r) = NA \/ r.bench[b] = NA THEN NA ELSE WithStopReturn(r) - r.bench[b]

\* Mutant: enough rows are enough.
RowsAlone(rows, weeks) == IF rows < 20 THEN "too_early" ELSE IF rows < 60 \/ weeks < 8 THEN "early" ELSE "ok"

GateState(rows, weeks) ==
    CASE rows < 20 \/ weeks < 3 -> "too_early"
      [] rows >= 20 /\ weeks >= 3 /\ (rows < 60 \/ weeks < 8) -> "early"
      [] OTHER -> "ok"

Weeks(rows) == {r.week : r \in rows}

WeekMedian(rows, w, f(_)) == MedianTwice({r \in rows : r.week = w}, f)

\* The median of the weeks' own medians.
Across(rows, f(_)) == LET one(w) == WeekMedian(rows, w, f) IN MedianTwice(Weeks(rows), one)

NoValues == [shown |-> FALSE]

\* CellAcc.values: what a cell says of its complete rows.
Values(complete, censored, b) ==
    LET excess(r) == r.excess[b]
        bench(r) == r.bench[b]
        ret(r) == r.ret
        stopExcess(r) == WithStopExcess(r, b)
        worst(r) == r.worst
        drawdown(r) == r.drawdown
        stops == {r \in complete : r.stop # "none"}
    IN [shown |-> TRUE, excess |-> Across(complete, excess), beat |-> Cardinality({r \in complete : r.excess[b] > 0}),
        positive |-> Cardinality({w \in Weeks(complete) : WeekMedian(complete, w, excess) > 0}),
        bench |-> Across(complete, bench), ret |-> Across(complete, ret),
        hits |-> Cardinality({r \in stops : r.stop = "hit"}), stops |-> Cardinality(stops),
        withStop |-> Across(complete, WithStopReturn), withStopExcess |-> Across(complete, stopExcess),
        worst |-> Across(complete, worst), drawdown |-> Across(complete, drawdown),
        sensitivity |-> Across(complete \cup censored, excess)]

Cell(rows, b) ==
    LET in == [k \in Buckets |-> {r \in rows : Bucket(r, b) = k}]
        complete == in["complete"]
        state == GateState(Cardinality(complete), Cardinality(Weeks(complete)))
    IN [n |-> [k \in Buckets |-> Cardinality(in[k])], cohorts |-> Cardinality(Weeks(complete)), seen |-> Weeks(rows),
        quality |-> {r.week : r \in {x \in rows : x.tier = "quality"}}, state |-> state,
        values |-> IF state = "too_early" THEN NoValues ELSE Values(complete, in["censored"], b)]

-----------------------------------------------------------------------------
(***************************************************************************)
(* Groups.                                                                 *)
(***************************************************************************)
Groups ==
    [kind : {"list"}, list : Lists, name : {"all"}] \cup [kind : {"tier"}, list : Lists, name : Tiers]
    \cup [kind : {"leveraged"}, list : Lists, name : {"etf"}]
    \cup [kind : {"rule"}, list : {"any"}, name : {"B1", "B2", "B3", "deep_pullback"}]

HasPool(g) == g.kind # "rule"

\* Mutant: a leveraged fund counts in its list and tier.
AnyFund(g, r) ==
    IF g.kind = "rule" THEN g.name \in r.rules
    ELSE r.list = g.list /\ (g.kind = "tier" => r.tier = g.name) /\ (g.kind = "leveraged" => r.leveraged)

Matches(g, r) ==
    IF g.kind = "rule" THEN ~r.leveraged /\ g.name \in r.rules
    ELSE r.list = g.list /\ r.leveraged = (g.kind = "leveraged") /\ (g.kind = "tier" => r.tier = g.name)

\* The weeks that both sides have, by how far the listed names' median is ahead.
PairedDifference(listed, pool, b) ==
    LET excess(r) == r.excess[b]
        counted(S) == {r \in S : Bucket(r, b) = "complete"}
        ahead(w) == WeekMedian(counted(listed), w, excess) - WeekMedian(counted(pool), w, excess)
        both == Weeks(counted(listed)) \cap Weeks(counted(pool))
    IN [median |-> MedianTwice(both, ahead), cohorts |-> Cardinality(both)]

\* Mutant: the pool's figures wait for the pool's own rows only.
PoolAlone(listed, pool) == pool.values

PoolValues(listed, pool) == IF listed.state = "too_early" THEN NoValues ELSE pool.values

GroupCell(g, listed, pool, b, weightsOf) ==
    LET l == Cell(listed, b)
        p == Cell(pool, b)
        d == PairedDifference(listed, pool, b)
    IN [listed |-> l, pool |-> [p EXCEPT !.values = PoolValues(l, p)],
        weights |-> {weightsOf[w] : w \in l.quality \cup p.quality} \ {NA},
        ahead |-> IF l.state # "too_early" /\ p.state # "too_early" THEN d.median ELSE NA, paired |-> d.cohorts]

-----------------------------------------------------------------------------
(***************************************************************************)
(* The rows of a week: its outcomes of one rules version joined to its     *)
(* snapshot rows, and its pool.                                            *)
(***************************************************************************)
Rec(w, o, s) ==
    [week |-> w.asOf, ticker |-> o.ticker, horizon |-> o.horizon, status |-> o.status, gap |-> o.gap, tier |-> s.tier,
     list |-> s.list, leveraged |-> s.leveraged, rules |-> s.rules, ret |-> o.ret, bench |-> o.bench, excess |-> o.excess,
     stop |-> o.stop, fill |-> o.fill, worst |-> o.worst, drawdown |-> o.drawdown]

\* SnapInfo: a listed row's rule cuts and the triggers that can apply to it.
Cuts(s) == (s.ruleIds \cap {"B1", "B2", "B3"}) \cup (IF s.deep THEN {"deep_pullback"} ELSE {})
Info(s) == [ticker |-> s.ticker, list |-> s.list, tier |-> s.tier, leveraged |-> s.leveraged, rules |-> Cuts(s)]
Applicable(s) == IF s.list = "reversal" THEN {"D1", "D2"} ELSE IF s.deep THEN {"D1", "D3"} ELSE {"D3"}

SnapOf(w, t) == CHOOSE s \in w.listed : s.ticker = t
Joined(w) == {o \in w.outcomes : \E s \in w.listed : s.ticker = o.ticker}

\* Mutant: the rules version is not looked at.
AnyVersion(w, rules) == {Rec(w, o, Info(SnapOf(w, o.ticker))) : o \in Joined(w)}

ListedRecs(w, rules) == {Rec(w, o, Info(SnapOf(w, o.ticker))) : o \in {x \in Joined(w) : x.version = rules}}

PoolRecs(w, rules) ==
    {Rec(w, [p EXCEPT !.stop = "none", !.fill = NA, !.worst = NA, !.drawdown = NA],
         [tier |-> p.tier, list |-> p.list, leveraged |-> p.leveraged, rules |-> {}]) : p \in {x \in w.pool : x.version = rules}}

AuditBucket(r) == IF r.leveraged THEN "leveraged" ELSE IF r.gap THEN "entry_gap" ELSE r.status

\* A bucket of /scorecard/outcomes, of every row that was stored.
RowBucket(w, o, rules) ==
    CASE o.version # rules -> "other_version"
      [] o.version = rules /\ (\E s \in w.listed : s.ticker = o.ticker /\ s.leveraged) -> "leveraged"
      [] OTHER -> IF o.gap THEN "entry_gap" ELSE o.status

Asked(s) == {w \in s.weeks : s.weights \in {NA, w.weights}}

\* A week written under other rules counts only by the rows rewritten since.
Kept(s) == {w \in Asked(s) : w.rules = s.rules \/ ListedRecs(w, s.rules) # {}}

Listed(s, h) == {r \in UNION {ListedRecs(w, s.rules) : w \in Kept(s)} : r.horizon = h}
Pool(s, h) == {r \in UNION {PoolRecs(w, s.rules) : w \in Kept(s)} : r.horizon = h}

\* A leveraged group is shown once such a fund was listed.
Shown(s, g) == g.kind = "leveraged" => \E h \in Horizons, r \in UNION {Listed(s, k) : k \in Horizons} : Matches(g, r)

WeightsOf(s) == [a \in {w.asOf : w \in s.weeks} |-> (CHOOSE w \in s.weeks : w.asOf = a).weights]

ListCells(s) ==
    [k \in {g \in Groups : Shown(s, g)} \X Horizons \X Benchmarks |->
        LET of(S) == {r \in S : Matches(k[1], r)}
        IN GroupCell(k[1], of(Listed(s, k[2])), IF HasPool(k[1]) THEN of(Pool(s, k[2])) ELSE {}, k[3], WeightsOf(s))]

-----------------------------------------------------------------------------
(***************************************************************************)
(* Flags.                                                                  *)
(***************************************************************************)
Leveraged(w) == {s.ticker : s \in {x \in w.listed : x.leveraged}}

Flags(s, w) == {f \in w.flags : f.version = s.triggers /\ f.ticker \notin Leveraged(w)}

Eligible(w, t) == {s.ticker : s \in {x \in w.listed : ~x.leveraged /\ t \in Applicable(x)}}

\* The tickers some successful night could not judge, and those it could not cover.
Judged(w, t, k) == UNION {{p[2] : p \in {x \in n[k] : x[1] = t}} : n \in {x \in w.nights : x.success}}

\* Mutant: a name that one night could not judge stays in the comparison.
Forgiving(s, w, t) ==
    LET flagged == {f.ticker : f \in {x \in Flags(s, w) : x.trigger = t}}
        notCovered == (Judged(w, t, "notCovered") \cap Eligible(w, t)) \ flagged
    IN [eligible |-> Eligible(w, t), flagged |-> flagged, notCovered |-> notCovered, incomplete |-> {},
        unflagged |-> (Eligible(w, t) \ flagged) \ notCovered]

CohortCounts(s, w, t) ==
    LET flagged == {f.ticker : f \in {x \in Flags(s, w) : x.trigger = t}}
        notCovered == (Judged(w, t, "notCovered") \cap Eligible(w, t)) \ flagged
        incomplete == ((Judged(w, t, "incomplete") \cap Eligible(w, t)) \ flagged) \ notCovered
    IN [eligible |-> Eligible(w, t), flagged |-> flagged, notCovered |-> notCovered, incomplete |-> incomplete,
        unflagged |-> ((Eligible(w, t) \ flagged) \ notCovered) \ incomplete]

FlagRecs(w, f) ==
    {Rec(w, o, [tier |-> f.tier, list |-> f.list, leveraged |-> FALSE, rules |-> {}]) : o \in f.outcomes}

\* One side's flags: a flag with no row yet at this horizon is unpriced.
Flagged(pairs, h, b) ==
    LET at(p) == {r \in FlagRecs(p[1], p[2]) : r.horizon = h}
    IN [cell |-> Cell(UNION {at(p) : p \in pairs}, b), unpriced |-> Cardinality({p \in pairs : at(p) = {}})]

Earlier(f, g) ==
    LET order(x) == CHOOSE i \in 1 .. 3 : Triggers[i] = x
    IN f.date < g.date \/ (f.date = g.date /\ order(f.trigger) < order(g.trigger))

\* Mutant: every flag of a name counts.
AllFlags(pairs) == pairs

\* The "any flag" view: the earliest flag of a name in a week.
FirstFlags(pairs) ==
    {p \in pairs : ~\E q \in pairs : q[1].asOf = p[1].asOf /\ q[2].ticker = p[2].ticker /\ Earlier(q[2], p[2])}

Window(s) == CHOOSE w \in s.weeks : \A v \in s.weeks : v.asOf <= w.asOf

\* A name on the flags' comparison side is priced from the list.
Unflagged(s, t, h) ==
    UNION {{r \in ListedRecs(w, s.rules) : r.horizon = h /\ ~r.leveraged /\ r.ticker \in CohortCounts(s, w, t).unflagged} :
               w \in Asked(s)}

Pairs(s) == UNION {{<<w, f>> : f \in Flags(s, w)} : w \in Asked(s)}

FlagView(s, t) ==
    LET of == {p \in Pairs(s) : p[2].trigger = t}
        atMa == {p \in of : p[2].atMa}
        open == {w \in Asked(s) : w = Window(s)}
    IN [open |-> Cardinality({p \in of : p[1] \in open}),
        provisional |-> \E w \in open : CohortCounts(s, w, t).unflagged # {},
        cells |-> [k \in Horizons \X Benchmarks |->
            LET f == Flagged(of, k[1], k[2])
                u == Cell(Unflagged(s, t, k[1]), k[2])
            IN [flagged |-> f, unflagged |-> [u EXCEPT !.values = PoolValues(f.cell, u)],
                split |-> IF t = "D3" THEN <<Flagged(atMa, k[1], k[2]), Flagged(of \ atMa, k[1], k[2])>> ELSE <<>>]]]

AnyFlag(s) == [k \in Horizons \X Benchmarks |-> Flagged(FirstFlags(Pairs(s)), k[1], k[2])]

(***************************************************************************)
(* Picks: the priced rows of the names picked from a list, by its date.    *)
(***************************************************************************)
PickedRecs(s) ==
    UNION {{r \in ListedRecs(w, s.rules) : <<w.asOf, r.ticker>> \in s.picks} : w \in s.weeks}

PickCells(s) ==
    [cells |-> [k \in Horizons \X Benchmarks |-> Cell({r \in PickedRecs(s) : r.horizon = k[1]}, k[2])],
     unmatched |-> Cardinality(s.picks) - Cardinality({<<r.week, r.ticker>> : r \in PickedRecs(s)})]

\* What the answer says it left out, of the weeks it kept.
Excluded(s) ==
    [otherRules |-> Cardinality({j \in UNION {{w} \X Joined(w) : w \in Asked(s)} : j[2].version # s.rules}),
     otherPool |-> Cardinality({j \in UNION {{w} \X w.pool : w \in Asked(s)} : j[2].version # s.rules}),
     otherWeights |-> Cardinality(s.weeks \ Asked(s)),
     buckets |-> [k \in Horizons \X {"complete", "pending", "censored", "entry_gap", "leveraged"} |->
                     Cardinality({r \in Listed(s, k[1]) : AuditBucket(r) = k[2]})]]

-----------------------------------------------------------------------------
NoCard == [answered |-> FALSE]

Answer(s) ==
    [answered |-> TRUE, lists |-> ListCells(s), flags |-> [t \in {"D1", "D2", "D3"} |-> FlagView(s, t)],
     any |-> AnyFlag(s), picks |-> PickCells(s), excluded |-> Excluded(s)]

InitCard == stored \in Stored /\ card = NoCard

NextCard == ~card.answered /\ card' = Answer(stored) /\ UNCHANGED stored

-----------------------------------------------------------------------------
\* TypeOK: what the answers look like.
CardTypeOK ==
    card.answered =>
        /\ \A k \in DOMAIN card.lists : card.lists[k].listed.state \in {"too_early", "early", "ok"}
        /\ card.excluded.otherWeights \in 0 .. Cardinality(stored.weeks)

\* The rows a statistic may rest on.
Counted(r, b) == ~r.gap /\ r.status = "complete" /\ r.excess[b] # NA

\* What was stored, without the listed rows no statistic may rest on.
Stripped(s) ==
    [s EXCEPT !.weeks = {[w EXCEPT !.outcomes = {o \in @ : ~o.gap /\ o.status = "complete"}] : w \in @}]

Total(c) == c.n["entry_gap"] + c.n["pending"] + c.n["censored"] + c.n["no_benchmark"] + c.n["complete"]

\* A row that is pending, censored or entered across a gap moves no figure of its cell
\* (but the one named for the censored rows).
OnlyCompleteRowsCount ==
    LET same(v) == [k \in DOMAIN v \ {"sensitivity"} |-> v[k]]
        clean == ListCells(Stripped(stored))
    IN \A k \in DOMAIN clean : same(card.lists[k].listed.values) = same(clean[k].listed.values)

\* Figures appear with twenty counted rows in three weeks, and no week, however many
\* rows it has, pulls the headline past more than half of the weeks.
WeeksWeighAlike ==
    \A k \in DOMAIN card.lists :
        LET c == card.lists[k].listed
            rows == {r \in Listed(stored, k[2]) : Matches(k[1], r) /\ Counted(r, k[3])}
            excess(r) == r.excess[k[3]]
            weekly(w) == 2 * WeekMedian(rows, w, excess)
            side(W) == 2 * Cardinality(W) <= Cardinality(Weeks(rows))
        IN /\ c.values.shown = (Cardinality(rows) >= 20 /\ Cardinality(Weeks(rows)) >= 3)
           /\ c.values.shown => /\ side({w \in Weeks(rows) : weekly(w) > c.values.excess})
                                /\ side({w \in Weeks(rows) : weekly(w) < c.values.excess})
           /\ card.lists[k].pool.values.shown => c.values.shown
           /\ card.lists[k].ahead # NA => c.values.shown /\ card.lists[k].pool.values.shown /\ card.lists[k].paired > 0

\* Each row on a list is in one tier or in the leveraged row, never in both.
TiersSplitLists ==
    \A l \in Lists, h \in Horizons, b \in Benchmarks :
        LET total(kind, name) ==
                LET g == [kind |-> kind, list |-> l, name |-> name]
                IN IF <<g, h, b>> \in DOMAIN card.lists THEN Total(card.lists[<<g, h, b>>].listed) ELSE 0
        IN /\ total("list", "all") = total("tier", "quality") + total("tier", "momentum_only") + total("tier", "etf")
           /\ total("list", "all") + total("leveraged", "etf") = Cardinality({r \in Listed(stored, h) : r.list = l})

\* What the answer counts and what it says it left out is what the audit shows, row for row.
AuditAgrees ==
    LET audit(k) == Cardinality({j \in UNION {{w} \X Joined(w) : w \in Asked(stored)} : RowBucket(j[1], j[2], stored.rules) = k[2] /\ j[2].horizon = k[1]})
    IN \A k \in DOMAIN card.excluded.buckets : card.excluded.buckets[k] = audit(k)

\* A flag's comparison names were judged on every night, and with the flagged, the
\* uncovered and the incomplete names they are the eligible ones; a name with several
\* flags counts once in the "any flag" view.
FlagsAreCounted ==
    /\ \A w \in Asked(stored), t \in {"D1", "D2", "D3"} :
          LET c == CohortCounts(stored, w, t) IN
          /\ c.eligible = (c.flagged \cap c.eligible) \cup c.notCovered \cup c.incomplete \cup c.unflagged
          /\ \A u \in c.unflagged, n \in w.nights : n.success => <<t, u>> \notin n.incomplete \cup n.notCovered
          /\ c.unflagged \cap c.flagged = {}
    /\ \A k \in DOMAIN card.any :
          Total(card.any[k].cell) + card.any[k].unpriced = Cardinality({<<p[1].asOf, p[2].ticker>> : p \in Pairs(stored)})

\* The Scorecard: its figures rest on complete rows, week by week, its groups and its
\* counts add up, and its flags are compared with names that were judged.
ScorecardAddsUp ==
    card.answered => OnlyCompleteRowsCount /\ WeeksWeighAlike /\ TiersSplitLists /\ AuditAgrees /\ FlagsAreCounted
=============================================================================
