----------------------------- MODULE Arithmetic -----------------------------
(***************************************************************************)
(* What the scorers do to figures: whole numbers out of fractions, as      *)
(* their round() gives them, medians, and the pattern of a yearly series,  *)
(* oldest year first and the trailing twelve months last                   *)
(* (scoring/trend.py::classify_trend and                                   *)
(* scoring/series_trend.py::robust_late_direction).  Changes are fractions *)
(* and are compared with their limits by cross-multiplying.                *)
(***************************************************************************)
EXTENDS Integers, FiniteSets, Sequences

\* A figure that is missing: not served by FMP, or not typed in.
NA == -1000000

\* The whole numbers nearest to num / den, two when it is half-way: the code
\* rounds half to even, but the fraction it rounds is a float.
Nearest(num, den) ==
    {s \in {num \div den, num \div den + 1} : 2 * num - den <= 2 * den * s /\ 2 * den * s <= 2 * num + den}

\* The k-th smallest value of S, by v.
Kth(S, v(_), k) ==
    CHOOSE x \in {v(s) : s \in S} : /\ Cardinality({s \in S : v(s) < x}) < k
                                    /\ k <= Cardinality({s \in S : v(s) <= x})

\* Twice the median of the values there are.
MedianTwice(S, v(_)) ==
    LET known == {s \in S : v(s) # NA}
        n == Cardinality(known)
    IN IF n = 0 THEN NA ELSE Kth(known, v, (n + 1) \div 2) + Kth(known, v, n \div 2 + 1)

-----------------------------------------------------------------------------
(* The pattern of a series. *)

Size(x) == IF x < 0 THEN -x ELSE x
Sign(x) == IF x < 0 THEN -1 ELSE IF x = 0 THEN 0 ELSE 1

\* Mutant: a base too small to divide by is taken for none.
ChangeOfSizable(a, b) == IF Size(a) > 1 THEN [num |-> b - a, den |-> Size(a)] ELSE [num |-> Sign(b), den |-> 1]

\* The change from a to b, a fraction of a; from zero it is the sign of b.
Change(a, b) == IF a # 0 THEN [num |-> b - a, den |-> Size(a)] ELSE [num |-> Sign(b), den |-> 1]

ChangeBelow(c, percent) == 100 * c.num < percent * c.den
ChangeAbove(c, percent) == 100 * c.num > percent * c.den

Into(v, i)  == Change(v[i], v[i + 1])
Changes(v)  == 1 .. Len(v) - 1
RealDips(v) == {i \in Changes(v) : ChangeBelow(Into(v, i), -5)}
Fastest(v)  == Len(v) - 1 \* the change into the last twelve months

-----------------------------------------------------------------------------
(***************************************************************************)
(* The average of the last three years, the furthest from their median     *)
(* left out, less that of the first three; six times it.  With three years *)
(* the two windows are one.                                                *)
(***************************************************************************)
LateDirection6(v, protectLast) ==
    LET n == Len(v)
        late == <<v[n - 2], v[n - 1], v[n]>>
        sum == late[1] + late[2] + late[3]
        median == CHOOSE m \in {late[1], late[2], late[3]} :
                      /\ Cardinality({i \in 1 .. 3 : late[i] < m}) <= 1
                      /\ Cardinality({i \in 1 .. 3 : late[i] > m}) <= 1
        off(i) == Size(late[i] - median)
        furthest == CHOOSE i \in 1 .. 3 : \A j \in 1 .. 3 : off(i) > off(j) \/ (off(i) = off(j) /\ i <= j)
        six == IF protectLast /\ furthest = 3 THEN 2 * sum ELSE 3 * (sum - late[furthest])
    IN six - 2 * (v[1] + v[2] + v[3])

(***************************************************************************)
(* Falls in consecutive years are one dip.                                 *)
(***************************************************************************)
\* A peak that is itself a doubling is no base to recover to.
Baseline(v, start) == IF start > 1 /\ ChangeAbove(Into(v, start - 1), 100) THEN v[start - 1] ELSE v[start]

Dips(v) ==
    LET falls == RealDips(v) IN
    {[start |-> p[1], end |-> p[2], baseline |-> Baseline(v, p[1]), trough |-> v[p[2] + 1]] :
        p \in {q \in falls \X falls : /\ q[1] <= q[2]
                                       /\ q[1] - 1 \notin falls /\ q[2] + 1 \notin falls
                                       /\ (q[1] .. q[2]) \subseteq falls}}

BackAtBase(v, dip) == v[Len(v)] >= dip.baseline

\* Old, followed by three years without a fall, and not lower since than it began.
DurablyResolved(v, dip) ==
    LET since == SubSeq(v, dip.end + 1, Len(v)) IN
    /\ Fastest(v) - dip.end >= 4
    /\ \A i \in Fastest(v) - 2 .. Fastest(v) : i \notin RealDips(v)
    /\ LateDirection6(since, TRUE) >= 0

-----------------------------------------------------------------------------
\* Flat from the first year to the last, then a jump the years before do not explain.
FlatThenSpike(v) ==
    LET n == Len(v)
        before == Change(v[1], v[n - 1])
        jump == Into(v, Fastest(v))
        early == v[1] + v[2] + v[3]
    IN /\ Cardinality(RealDips(v)) >= 2
       /\ ChangeBelow(before, 10) /\ ChangeAbove(before, -10) /\ ChangeAbove(jump, 25)
       /\ ~(early # 0 /\ 5 * LateDirection6(v, ~ChangeAbove(jump, 100)) > Size(early))

Clip(num, den) == IF num > den THEN den ELSE num

\* A year that fell by more than 15 %: 15 points down to none at 50 %.
DecliningPoints(c) ==
    IF ~ChangeAbove(c, -50) THEN {0} ELSE Nearest(15 * (50 * c.den + 100 * c.num), 35 * c.den)

\* Not back: 70 points down to 40 at 30 % below the base.
UnevenPoints(v, dip) ==
    LET base == Size(dip.baseline)
        short == dip.baseline - v[Len(v)]
    IN IF base = 0 THEN {40} ELSE Nearest(70 * base - Clip(100 * short, 30 * base), base)

Depth(dip) == Size(dip.baseline - dip.trough)

\* Back: 75 points down to 65 when the deepest dip was as large as the series is now.
ResolvedPoints(v) ==
    LET now == Size(v[Len(v)])
        worst == CHOOSE d \in {Depth(e) : e \in Dips(v)} : \A e \in Dips(v) : d >= Depth(e)
    IN IF now = 0 THEN {65} ELSE Nearest(75 * now - Clip(10 * worst, 10 * now), now)

\* The depth of one dip: the fall itself, of several years against the base.
SmallDip(v, dip) ==
    LET c == IF dip.start = dip.end THEN Into(v, dip.start) ELSE Change(dip.baseline, dip.trough)
    IN (dip.start = dip.end \/ dip.baseline # 0) /\ ~ChangeBelow(c, -10) /\ ~ChangeAbove(c, 10)

OpenDips(v, dips) == {d \in dips : ~BackAtBase(v, d) /\ ~DurablyResolved(v, d)}

\* The pattern of a series with these dips, of which these are not made good.
PatternOf(v, dips, open, back) ==
    LET first == CHOOSE d \in open : \A e \in open : d.start <= e.start
        result(pattern, points) == [pattern |-> pattern, points |-> points]
    IN CASE Len(v) < 2 -> result("insufficient_data", {0})
         [] Len(v) >= 2 /\ ChangeBelow(Into(v, Fastest(v)), -15) -> result("declining", DecliningPoints(Into(v, Fastest(v))))
         [] OTHER ->
            CASE dips = {} -> result("grows_every_year", {100})
              [] dips # {} /\ FlatThenSpike(v) -> result("flat_then_spike", {20})
              [] OTHER ->
                 CASE open # {} -> result("multiple_dips", UnevenPoints(v, first))
                   [] open = {} /\ back /\ Cardinality(dips) = 1 ->
                          IF \A d \in dips : SmallDip(v, d)
                          THEN result("small_dip_recovers", {90}) ELSE result("significant_dip_recovers", {85})
                   [] open = {} /\ back /\ Cardinality(dips) > 1 -> result("multiple_dips_resolved", ResolvedPoints(v))
                   [] OTHER -> result("dip_durably_resolved", ResolvedPoints(v))

ClassifyTrend(v) == PatternOf(v, Dips(v), OpenDips(v, Dips(v)), \A d \in Dips(v) : BackAtBase(v, d))

RecoveryPatterns ==
    {"grows_every_year", "small_dip_recovers", "significant_dip_recovers", "multiple_dips_resolved", "dip_durably_resolved"}

Recovers(v) == ClassifyTrend(v).pattern \in RecoveryPatterns
=============================================================================
