----------------------------- MODULE CardsProofs -----------------------------
(***************************************************************************)
(* What TLC checks of three cards on the inputs MCCards enumerates, proved *)
(* for all: the Debt check, for any figures and any weight set the         *)
(* Settings page saves (there is no hard fail, and the weights do it); the *)
(* nightly ETF refresh and the moat check, for any number of nights, funds *)
(* and runs and whatever the sources and the passes answer.                *)
(***************************************************************************)
EXTENDS MCCards, FiniteSetTheorems, WellFoundedInduction, TLAPS

-----------------------------------------------------------------------------
(* Whole numbers out of fractions. *)

LEMMA DivIs ==
    ASSUME NEW num \in Int, NEW den \in Nat \ {0}
    PROVE num \div den \in Int /\ den * (num \div den) <= num /\ num < den * (num \div den) + den
  OBVIOUS

LEMMA ModIs ==
    ASSUME NEW num \in Int, NEW den \in Nat \ {0}
    PROVE num % den = num - den * (num \div den)
  OBVIOUS

LEMMA NearestIs ==
    ASSUME NEW num \in Int, NEW den \in Nat \ {0}
    PROVE /\ Nearest(num, den) # {}
          /\ \A s \in Nearest(num, den) : s \in Int /\ 2 * num - den <= 2 * den * s /\ 2 * den * s <= 2 * num + den
  <1> DEFINE q == num \div den
  <1>1. q \in Int /\ den * q <= num /\ num < den * q + den BY DivIs
  <1>2. Nearest(num, den) = {s \in {q, q + 1} : 2 * num - den <= 2 * den * s /\ 2 * den * s <= 2 * num + den}
        BY DEF Nearest
  <1> HIDE DEF q
  <1>3. 2 * den * q = 2 * (den * q) /\ 2 * den * (q + 1) = 2 * (den * q) + 2 * den /\ den * q \in Int
        BY <1>1, Z3
  <1>4. \/ 2 * num - den <= 2 * den * q /\ 2 * den * q <= 2 * num + den
        \/ 2 * num - den <= 2 * den * (q + 1) /\ 2 * den * (q + 1) <= 2 * num + den
    <2> DEFINE p == den * q
               u == 2 * den * q
               v == 2 * den * (q + 1)
    <2>1. p \in Int /\ u = 2 * p /\ v = 2 * p + 2 * den /\ p <= num /\ num < p + den BY <1>1, <1>3
    <2> HIDE DEF p, u, v
    <2>2. (2 * num - den <= u /\ u <= 2 * num + den) \/ (2 * num - den <= v /\ v <= 2 * num + den)
          BY ONLY <2>1, num \in Int, den \in Int
    <2> QED BY <2>2 DEF u, v
  <1>5. q \in Nearest(num, den) \/ q + 1 \in Nearest(num, den) BY ONLY <1>2, <1>4, Zenon
  <1>6. \A s \in Nearest(num, den) :
            (s = q \/ s = q + 1) /\ 2 * num - den <= 2 * den * s /\ 2 * den * s <= 2 * num + den
        BY ONLY <1>2, Zenon
  <1>7. \A s \in Nearest(num, den) : s \in Int BY <1>1, <1>6
  <1> QED BY ONLY <1>5, <1>6, <1>7, Zenon

LEMMA Scaled ==
    ASSUME NEW a \in Int, NEW b \in Int, NEW d \in Nat, a <= b
    PROVE d * a \in Int /\ d * b \in Int /\ d * a <= d * b
  BY Z3

\* Under c less a half the nearest number is under c, over it it is c or more.
LEMMA NearestUnder ==
    ASSUME NEW num \in Int, NEW den \in Nat \ {0}, NEW c \in Int, 2 * num < 2 * (den * c) - den,
           NEW s \in Nearest(num, den)
    PROVE s < c
  <1>1. s \in Int /\ 2 * den * s <= 2 * num + den BY NearestIs
  <1>2. SUFFICES ASSUME c <= s PROVE FALSE BY <1>1
  <1>3. den * c <= den * s BY <1>1, <1>2, Scaled
  <1>4. 2 * den * s = 2 * (den * s) /\ den * s \in Int /\ den * c \in Int BY <1>1, Z3
  <1> QED BY <1>1, <1>3, <1>4

LEMMA NearestOver ==
    ASSUME NEW num \in Int, NEW den \in Nat \ {0}, NEW c \in Int, 2 * (den * c) - den < 2 * num,
           NEW s \in Nearest(num, den)
    PROVE c <= s
  <1>1. s \in Int /\ 2 * num - den <= 2 * den * s BY NearestIs
  <1>2. SUFFICES ASSUME s <= c - 1 PROVE FALSE BY <1>1
  <1>3. den * s <= den * (c - 1) BY <1>1, <1>2, Scaled
  <1>4. 2 * den * s = 2 * (den * s) /\ den * (c - 1) = den * c - den /\ den * s \in Int /\ den * c \in Int
        BY <1>1, Z3
  <1> QED BY <1>1, <1>3, <1>4

LEMMA GraduatedIs ==
    ASSUME NEW left \in Int, NEW full \in Nat \ {0}, left <= full
    PROVE D!Graduated(left, full) \in 0 .. 15
  <1> DEFINE q == (15 * left) \div full
             rest == 2 * ((15 * left) % full)
  <1>1. D!Graduated(left, full)
            = IF left <= 0 THEN 0 ELSE IF rest < full \/ (rest = full /\ q % 2 = 0) THEN q ELSE q + 1
        BY DEF D!Graduated
  <1>2. CASE left <= 0 BY <1>1, <1>2
  <1>3. CASE left > 0
    <2>1. q \in Int /\ full * q <= 15 * left /\ 15 * left < full * q + full
      <3>1. 15 * left \in Int OBVIOUS
      <3> QED BY <3>1, DivIs
    <2>2. rest = 2 * (15 * left - full * q)
      <3>1. 15 * left \in Int OBVIOUS
      <3>2. (15 * left) % full = 15 * left - full * q BY <3>1, ModIs
      <3> QED BY <3>2
    <2> HIDE DEF q, rest
    <2>3. q >= 0
      <3> SUFFICES ASSUME q <= -1 PROVE FALSE BY <2>1
      <3>1. full * q <= full * (-1) BY <2>1, Scaled
      <3> QED BY <1>3, <2>1, <3>1
    <2>4. q <= 15
      <3> SUFFICES ASSUME 16 <= q PROVE FALSE BY <2>1
      <3>1. full * 16 <= full * q BY <2>1, Scaled
      <3> QED BY <2>1, <3>1
    <2>5. q = 15 => rest <= 0
      <3> SUFFICES ASSUME q = 15 PROVE rest <= 0 OBVIOUS
      <3> QED BY <2>2
    <2>6. q = 15 => rest < full BY <2>5, <2>2, <2>1
    <2> QED BY <1>1, <1>3, <2>1, <2>3, <2>4, <2>6
  <1> QED BY <1>2, <1>3

-----------------------------------------------------------------------------
(* The ratios one by one. *)

MARGINAL == "marginal_via_breach_context"

\* What a ratio's own scorer returns.
Graded(r) ==
    /\ r.points \in 0 .. 100
    /\ r.breach => r.points <= 15
    /\ r.label = "severe" => r.points <= 15
    /\ r.label # MARGINAL

LEMMA ResultIs ==
    ASSUME NEW label, NEW points \in 0 .. 100, label \notin {"severe", MARGINAL}
    PROVE LET r == D!Result(label, points)
          IN Graded(r) /\ ~r.excluded /\ ~r.breach /\ r.label = label
  BY DEF D!Result, Graded

LEMMA SavedIs ==
    ASSUME NEW label, NEW points \in 0 .. 100, label \notin {"severe", MARGINAL}
    PROVE LET r == D!Saved(D!Result(label, points))
          IN Graded(r) /\ ~r.excluded /\ ~r.breach /\ r.label = label
  BY DEF D!Saved, D!Result, Graded

LEMMA BreachIs ==
    ASSUME NEW label, NEW points \in 0 .. 15, label # MARGINAL
    PROVE LET r == D!Breach(label, points)
          IN Graded(r) /\ ~r.excluded /\ r.breach /\ r.label = label
  BY DEF D!Breach, D!Result, Graded

LEMMA TierIs ==
    ASSUME NEW ca \in Int, NEW cl \in Int
    PROVE \E label \in {"acceptable", "good", "excellent"}, points \in {70, 85, 100} : D!Tier(ca, cl) = D!Result(label, points)
  BY DEF D!Tier, D!AtLeast

LEMMA CurrentRatioIs ==
    ASSUME NEW b, b.ca \in Int, b.cl \in Int, b.deferred \in Int
    PROVE LET r == D!ScoreCurrentRatio(b)
          IN Graded(r) /\ ~r.excluded /\ (r.label = "borderline_fail" => ~D!AtLeast(b.ca, b.cl, 10))
  <1> DEFINE r == D!ScoreCurrentRatio(b)
             adj == D!Adjusted(b)
             raw == D!AtLeast(b.ca, b.cl, 10)
             eased == D!AtLeast(b.ca, adj, 10)
             near == D!AtLeast(b.ca, adj, 7)
  <1>1. adj \in Int BY DEF D!Adjusted
  <1>2. r = CASE raw -> D!Tier(b.ca, b.cl)
              [] ~raw /\ eased -> D!Saved(D!Tier(b.ca, adj))
              [] ~raw /\ ~eased /\ near -> D!Breach("borderline_fail", 0)
              [] OTHER -> D!Breach("severe", 0)
        BY DEF D!ScoreCurrentRatio
  <1> HIDE DEF r, raw, eased, near
  <1>3. CASE raw
    <2>1. r = D!Tier(b.ca, b.cl) BY <1>2, <1>3
    <2>2. PICK label \in {"acceptable", "good", "excellent"}, points \in {70, 85, 100} : r = D!Result(label, points)
          BY <2>1, TierIs
    <2>3. Graded(r) /\ ~r.excluded /\ r.label = label BY <2>2, ResultIs DEF MARGINAL
    <2> QED BY <2>3 DEF r
  <1>4. CASE ~raw /\ eased
    <2>1. r = D!Saved(D!Tier(b.ca, adj)) BY <1>2, <1>4
    <2>2. PICK label \in {"acceptable", "good", "excellent"}, points \in {70, 85, 100} : D!Tier(b.ca, adj) = D!Result(label, points)
          BY <1>1, TierIs
    <2>3. Graded(r) /\ ~r.excluded /\ r.label = label BY <2>1, <2>2, SavedIs DEF MARGINAL
    <2> QED BY <2>3 DEF r
  <1>5. CASE ~raw /\ ~eased /\ near
    <2>1. r = D!Breach("borderline_fail", 0) BY <1>2, <1>5
    <2>2. Graded(r) /\ ~r.excluded BY <2>1, BreachIs DEF MARGINAL
    <2> QED BY <2>2, <1>5 DEF r, raw
  <1>6. CASE ~raw /\ ~eased /\ ~near
    <2>1. r = D!Breach("severe", 0) BY <1>2, <1>6
    <2>2. Graded(r) /\ ~r.excluded /\ r.label = "severe" BY <2>1, BreachIs DEF MARGINAL
    <2> QED BY <2>2 DEF r
  <1> QED BY <1>3, <1>4, <1>5, <1>6

LEMMA DebtToEbitdaIs ==
    ASSUME NEW e, e.debt \in Int, e.ebitda \in Int
    PROVE LET r == D!ScoreDebtToEbitda(e) IN Graded(r) /\ ~r.excluded
  <1> DEFINE r == D!ScoreDebtToEbitda(e)
             left == 10 * e.ebitda - e.debt
  <1>1. r = CASE e.ebitda <= 0 -> D!Breach("negative_ebitda", 0)
              [] e.ebitda > 0 /\ e.debt <= e.ebitda -> D!Result("excellent", 100)
              [] e.ebitda > 0 /\ e.debt > e.ebitda /\ e.debt <= 2 * e.ebitda -> D!Result("good", 85)
              [] e.ebitda > 0 /\ e.debt > 2 * e.ebitda /\ e.debt <= 3 * e.ebitda -> D!Result("acceptable", 70)
              [] e.ebitda > 0 /\ e.debt > 3 * e.ebitda /\ e.debt <= 4 * e.ebitda -> D!Breach("borderline_fail", 0)
              [] OTHER -> D!Breach("severe", D!Graduated(left, 6 * e.ebitda))
        BY DEF D!ScoreDebtToEbitda
  <1> HIDE DEF r
  <1>2. CASE e.ebitda <= 0
    <2>1. r = D!Breach("negative_ebitda", 0) BY <1>1, <1>2
    <2>4. Graded(r) /\ ~r.excluded BY <2>1, BreachIs DEF MARGINAL
    <2> QED BY <2>4 DEF r
  <1>3. CASE e.ebitda > 0 /\ e.debt <= 3 * e.ebitda
    <2>1. \E label \in {"excellent", "good", "acceptable"}, points \in {100, 85, 70} : r = D!Result(label, points) BY <1>1, <1>3
    <2>2. PICK label \in {"excellent", "good", "acceptable"}, points \in {100, 85, 70} : r = D!Result(label, points) BY ONLY <2>1
    <2>3. points \in 0 .. 100 /\ label \notin {"severe", MARGINAL} BY ONLY TRUE DEF MARGINAL
    <2>4. Graded(r) /\ ~r.excluded BY ONLY <2>2, <2>3, ResultIs, Zenon
    <2> QED BY <2>4 DEF r
  <1>4. CASE e.ebitda > 0 /\ e.debt > 3 * e.ebitda /\ e.debt <= 4 * e.ebitda
    <2>1. r = D!Breach("borderline_fail", 0) BY <1>1, <1>4
    <2>4. Graded(r) /\ ~r.excluded BY <2>1, BreachIs DEF MARGINAL
    <2> QED BY <2>4 DEF r
  <1>5. CASE e.ebitda > 0 /\ e.debt > 4 * e.ebitda
    <2> DEFINE points == D!Graduated(left, 6 * e.ebitda)
    <2>1. r = D!Breach("severe", points) BY <1>1, <1>5
    <2>2. left \in Int /\ 6 * e.ebitda \in Nat \ {0} /\ left <= 6 * e.ebitda BY <1>5
    <2>3. points \in 0 .. 15 BY <2>2, GraduatedIs
    <2> HIDE DEF points
    <2>4. Graded(r) /\ ~r.excluded BY <2>1, <2>3, BreachIs DEF MARGINAL
    <2> QED BY <2>4 DEF r
  <1> QED BY <1>2, <1>3, <1>4, <1>5 DEF r

LEMMA DebtServicingIs ==
    ASSUME NEW s, s.net \in Int, s.cfo \in Int, NEW c
    PROVE LET r == D!ScoreDebtServicing(s, c)
          IN Graded(r) /\ (r.excluded => ~D!DsrKnown(s) /\ ~r.breach)
  <1> DEFINE r == D!ScoreDebtServicing(s, c)
             known == D!DsrKnown(s)
             left == 120 * s.cfo - 100 * s.net
             saved == D!IcrSafe(c)
  <1>1. r = CASE ~known -> [D!Result("excluded_negative_cfo", 0) EXCEPT !.excluded = TRUE]
              [] known /\ D!Under(s, 10) -> D!Result("excellent", 100)
              [] known /\ ~D!Under(s, 10) /\ D!Under(s, 20) -> D!Result("good", 85)
              [] known /\ ~D!Under(s, 20) /\ D!Under(s, 30) -> D!Result("approaching_limit", 60)
              [] known /\ ~D!Under(s, 30) /\ D!Under(s, 40) ->
                     IF saved THEN D!Saved(D!Result("borderline_saved_by_icr", 60)) ELSE D!Breach("borderline_fail", 0)
              [] OTHER -> D!Breach("severe", D!Graduated(left, 80 * s.cfo))
        BY DEF D!ScoreDebtServicing
  <1>2. known => s.cfo > 0 BY DEF D!DsrKnown
  <1>3. \A p, q \in Int : known /\ p <= q /\ D!Under(s, p) => D!Under(s, q)
    <2> SUFFICES ASSUME NEW p \in Int, NEW q \in Int, known, p <= q, 100 * s.net < p * s.cfo PROVE 100 * s.net < q * s.cfo
        BY DEF D!Under
    <2>1. s.cfo \in Nat BY <1>2
    <2>2. p * s.cfo = s.cfo * p /\ q * s.cfo = s.cfo * q BY Z3
    <2>3. s.cfo * p <= s.cfo * q /\ s.cfo * p \in Int /\ s.cfo * q \in Int BY <2>1, Scaled
    <2> QED BY <2>2, <2>3
  <1> HIDE DEF r, known
  <1>4. CASE ~known
    <2>1. r = [D!Result("excluded_negative_cfo", 0) EXCEPT !.excluded = TRUE] BY <1>1, <1>4
    <2>2. Graded(r) /\ ~r.breach BY <2>1 DEF Graded, D!Result, MARGINAL
    <2> QED BY <2>2, <1>4 DEF r, known
  <1>5. CASE known /\ D!Under(s, 30)
    <2>1. \E label \in {"excellent", "good", "approaching_limit"}, points \in {100, 85, 60} : r = D!Result(label, points)
          BY <1>1, <1>5, <1>3
    <2>2. PICK label \in {"excellent", "good", "approaching_limit"}, points \in {100, 85, 60} : r = D!Result(label, points)
          BY ONLY <2>1
    <2>3. points \in 0 .. 100 /\ label \notin {"severe", MARGINAL} BY ONLY TRUE DEF MARGINAL
    <2>4. Graded(r) /\ ~r.excluded BY ONLY <2>2, <2>3, ResultIs, Zenon
    <2> QED BY <2>4 DEF r
  <1>6. CASE known /\ ~D!Under(s, 30) /\ D!Under(s, 40)
    <2>1. r = IF saved THEN D!Saved(D!Result("borderline_saved_by_icr", 60)) ELSE D!Breach("borderline_fail", 0)
          BY <1>1, <1>6, <1>3
    <2> HIDE DEF saved
    <2>2. Graded(r) /\ ~r.excluded
      <3>1. CASE saved BY <2>1, <3>1, SavedIs DEF MARGINAL
      <3>2. CASE ~saved BY <2>1, <3>2, BreachIs DEF MARGINAL
      <3> QED BY <3>1, <3>2
    <2> QED BY <2>2 DEF r
  <1>7. CASE known /\ ~D!Under(s, 40)
    <2> DEFINE points == D!Graduated(left, 80 * s.cfo)
    <2>1. ~D!Under(s, 10) /\ ~D!Under(s, 20) /\ ~D!Under(s, 30) BY <1>7, <1>3
    <2>2. r = D!Breach("severe", points) BY <1>1, <1>7, <2>1
    <2>3. left \in Int /\ 80 * s.cfo \in Nat \ {0} /\ left <= 80 * s.cfo BY <1>7, <1>2 DEF D!Under
    <2>4. points \in 0 .. 15 BY <2>3, GraduatedIs
    <2> HIDE DEF points
    <2>5. Graded(r) /\ ~r.excluded BY <2>2, <2>4, BreachIs DEF MARGINAL
    <2> QED BY <2>5 DEF r
  <1> QED BY <1>4, <1>5, <1>6, <1>7

LEMMA SameCount == \A set : D!Cardinality(set) = Cardinality(set)
  BY DEF D!Cardinality, Cardinality

\* More favourable signals than unfavourable ones are worth 50 points or more.
LEMMA MarginalIs ==
    ASSUME NEW signals, NEW n \in Nat, DOMAIN signals = 1 .. n, D!Excused(signals)
    PROVE LET r == D!Marginal(signals)
          IN r.points \in 50 .. 60 /\ r.saved /\ ~r.breach /\ ~r.excluded /\ r.label = MARGINAL
  <1> DEFINE good == D!Count(signals, "favorable")
             bad == D!Count(signals, "unfavorable")
             all == good + bad
             num == 40 * all + 20 * good
             score == D!MarginalScore(signals)
  <1>1. \A status : D!Count(signals, status) \in Nat
    <2> SUFFICES ASSUME NEW status PROVE D!Count(signals, status) \in Nat OBVIOUS
    <2>1. IsFiniteSet(1 .. n) BY FS_Interval
    <2>2. {i \in DOMAIN signals : signals[i] = status} \subseteq 1 .. n OBVIOUS
    <2>3. IsFiniteSet({i \in DOMAIN signals : signals[i] = status}) BY <2>1, <2>2, FS_Subset
    <2>4. Cardinality({i \in DOMAIN signals : signals[i] = status}) \in Nat BY ONLY <2>3, FS_CardinalityType, Zenon
    <2>5. D!Count(signals, status) = Cardinality({i \in DOMAIN signals : signals[i] = status}) BY SameCount DEF D!Count
    <2> QED BY <2>4, <2>5
  <1>2. good \in Nat /\ bad \in Nat /\ good > bad BY <1>1 DEF D!Excused
  <1>3. score = CHOOSE s \in Nearest(num, all) : TRUE BY DEF D!MarginalScore, D!Nearest, Nearest
  <1>4. D!Marginal(signals) = D!Saved(D!Result(MARGINAL, score)) BY DEF D!Marginal, MARGINAL
  <1> HIDE DEF good, bad, score
  <1>5. all \in Nat \ {0} /\ num \in Int BY <1>2
  <1>6. 2 * (all * 50) - all < 2 * num /\ 2 * num < 2 * (all * 61) - all BY <1>2
  <1> HIDE DEF all, num
  <1>7. score \in Nearest(num, all) BY <1>3, <1>5, NearestIs
  <1>8. score \in Int BY <1>5, <1>7, NearestIs
  <1>9. 50 <= score BY <1>5, <1>6, <1>7, NearestOver
  <1>10. score < 61 BY <1>5, <1>6, <1>7, NearestUnder
  <1> QED BY <1>4, <1>8, <1>9, <1>10 DEF D!Saved, D!Result

-----------------------------------------------------------------------------
(* A company's three ratios. *)

\* Figures as DebtAssumption has them.
Figured(f) ==
    /\ f.balance.ca \in Int /\ f.balance.cl \in Int /\ f.balance.deferred \in Int
    /\ f.earnings.debt \in Int /\ f.earnings.ebitda \in Int
    /\ f.service.net \in Int /\ f.service.cfo \in Int

\* A ratio as it is blended: graded, or excused by its context with its gates open.
Excusable(r, gates) ==
    /\ r.points \in 0 .. 100
    /\ ~r.excluded
    /\ r.breach => r.points <= 15
    /\ r.label = "severe" => r.points <= 15
    /\ r.label = MARGINAL => r.points >= 50 /\ gates

LEMMA DebtSignalsAre ==
    ASSUME NEW f PROVE DOMAIN D!DebtSignals(f) = 1 .. 3
  BY DEF D!DebtSignals

LEMMA CurrentSignalsAre ==
    ASSUME NEW f PROVE DOMAIN D!CurrentSignals(f) = 1 .. 4
  BY DEF D!CurrentSignals

LEMMA DebtRatioIs ==
    ASSUME NEW f, Figured(f)
    PROVE Excusable(D!DebtRatio(f), D!LiquidityClean(f) /\ D!ServiceClean(f))
  <1> DEFINE r == D!ScoreDebtToEbitda(f.earnings)
             m == D!Marginal(D!DebtSignals(f))
             excused == /\ r.label = "borderline_fail" /\ D!LiquidityClean(f) /\ D!ServiceClean(f)
                        /\ D!Excused(D!DebtSignals(f))
  <1>1. D!DebtRatio(f) = IF excused THEN m ELSE r BY DEF D!DebtRatio
  <1>2. Graded(r) /\ ~r.excluded BY DebtToEbitdaIs DEF Figured
  <1>3. CASE excused
    <2>1. m.points \in 50 .. 60 /\ m.saved /\ ~m.breach /\ ~m.excluded /\ m.label = MARGINAL
          BY <1>3, DebtSignalsAre, MarginalIs
    <2>2. D!DebtRatio(f) = m BY <1>1, <1>3
    <2>3. D!LiquidityClean(f) /\ D!ServiceClean(f) BY <1>3
    <2> HIDE DEF r, m, excused
    <2> QED BY <2>1, <2>2, <2>3 DEF Excusable, MARGINAL
  <1>4. CASE ~excused
    <2>1. D!DebtRatio(f) = r BY <1>1, <1>4
    <2> HIDE DEF r, m, excused
    <2> QED BY <2>1, <1>2 DEF Excusable, Graded
  <1> QED BY <1>3, <1>4

LEMMA CurrentIs ==
    ASSUME NEW f, Figured(f)
    PROVE Excusable(D!CurrentRatio(f), ~D!LiquidityClean(f) /\ D!ServiceClean(f))
  <1> DEFINE r == D!ScoreCurrentRatio(f.balance)
             m == D!Marginal(D!CurrentSignals(f))
             excused == /\ r.label = "borderline_fail" /\ D!LeverageClean(f) /\ D!ServiceClean(f)
                        /\ D!Excused(D!CurrentSignals(f))
  <1>1. D!CurrentRatio(f) = IF excused THEN m ELSE r BY DEF D!CurrentRatio
  <1>2. Graded(r) /\ ~r.excluded /\ (r.label = "borderline_fail" => ~D!AtLeast(f.balance.ca, f.balance.cl, 10))
        BY CurrentRatioIs DEF Figured
  <1>3. CASE excused
    <2>1. m.points \in 50 .. 60 /\ m.saved /\ ~m.breach /\ ~m.excluded /\ m.label = MARGINAL
          BY <1>3, CurrentSignalsAre, MarginalIs
    <2>2. D!CurrentRatio(f) = m BY <1>1, <1>3
    <2>3. ~D!LiquidityClean(f) /\ D!ServiceClean(f) BY <1>2, <1>3 DEF D!LiquidityClean
    <2> HIDE DEF r, m, excused
    <2> QED BY <2>1, <2>2, <2>3 DEF Excusable, MARGINAL
  <1>4. CASE ~excused
    <2>1. D!CurrentRatio(f) = r BY <1>1, <1>4
    <2> HIDE DEF r, m, excused
    <2> QED BY <2>1, <1>2 DEF Excusable, Graded
  <1> QED BY <1>3, <1>4

LEMMA ServicingIs ==
    ASSUME NEW f, Figured(f)
    PROVE LET r == D!ScoreDebtServicing(f.service, f.coverage)
          IN Graded(r) /\ (r.excluded => ~D!ServiceClean(f) /\ ~r.breach)
  <1> DEFINE r == D!ScoreDebtServicing(f.service, f.coverage)
  <1>1. Graded(r) /\ (r.excluded => ~D!DsrKnown(f.service) /\ ~r.breach) BY DebtServicingIs DEF Figured
  <1>2. D!ServiceClean(f) => D!DsrKnown(f.service) BY DEF D!ServiceClean
  <1> HIDE DEF r
  <1>3. Graded(r) /\ (r.excluded => ~D!ServiceClean(f) /\ ~r.breach) BY <1>1, <1>2
  <1> QED BY <1>3 DEF r

-----------------------------------------------------------------------------
(* The blend. *)

LEMMA Term ==
    ASSUME NEW w \in Nat, NEW p \in Int, NEW lo \in Int, NEW hi \in Int, lo <= p, p <= hi
    PROVE w * p \in Int /\ lo * w <= w * p /\ w * p <= hi * w
  <1>1. w * lo <= w * p /\ w * p <= w * hi /\ w * lo \in Int /\ w * hi \in Int /\ w * p \in Int BY Scaled
  <1>2. w * lo = lo * w /\ w * hi = hi * w BY Z3
  <1> QED BY <1>1, <1>2

\* Points and weight stay in proportion, and far under 69.5 to one when a
\* debt breach, or both of the other two ratios, bring in 15 points at most.
LEMMA BlendIs ==
    ASSUME NEW r, NEW w, D!ValidWeights(w), NEW gates, NEW others,
           Excusable(r[D!CR], others), Excusable(r[D!DE], gates), Graded(r[D!DS])
    PROVE LET num == D!Points(r, w)
              den == D!Weight(r, w)
          IN /\ num \in Int /\ den \in Nat \ {0}
             /\ 0 <= num /\ num <= 100 * den
             /\ r[D!DE].breach => 2 * num < 2 * (den * 70) - den
             /\ r[D!CR].breach /\ r[D!DS].breach /\ ~r[D!DS].excluded => 2 * num < 2 * (den * 70) - den
  <1> DEFINE a == w[D!CR]
             d == w[D!DE]
             s == w[D!DS]
             x == r[D!CR].points
             y == r[D!DE].points
             z == r[D!DS].points
             out == r[D!DS].excluded
             num == D!Points(r, w)
             den == D!Weight(r, w)
             ax == a * x
             dy == d * y
             sz == s * z
  <1>1. a \in 15 .. 30 /\ d \in 35 .. 60 /\ s \in 15 .. 30 /\ d > s /\ s > a /\ a + d + s = 100 BY DEF D!ValidWeights
  <1>2. x \in 0 .. 100 /\ y \in 0 .. 100 /\ z \in 0 .. 100 BY DEF Excusable, Graded
  <1>3. /\ r[D!CR].breach => x <= 15
        /\ r[D!DE].breach => y <= 15
        /\ r[D!DS].breach => z <= 15
        BY DEF Excusable, Graded
  <1>4. num = ax + dy + (IF out THEN 0 ELSE sz) /\ den = a + d + (IF out THEN 0 ELSE s) BY DEF D!Points, D!Weight
  <1> HIDE DEF a, d, s, x, y, z, out, num, den
  <1>5. ax \in Int /\ 0 <= ax /\ ax <= 100 * a /\ (x <= 15 => ax <= 15 * a)
    <2>1. ax \in Int /\ 0 * a <= ax /\ ax <= 100 * a BY <1>1, <1>2, Term
    <2>2. x <= 15 => ax <= 15 * a BY <1>1, <1>2, Term
    <2> QED BY <2>1, <2>2, <1>1
  <1>6. dy \in Int /\ 0 <= dy /\ dy <= 100 * d /\ (y <= 15 => dy <= 15 * d)
    <2>1. dy \in Int /\ 0 * d <= dy /\ dy <= 100 * d BY <1>1, <1>2, Term
    <2>2. y <= 15 => dy <= 15 * d BY <1>1, <1>2, Term
    <2> QED BY <2>1, <2>2, <1>1
  <1>7. sz \in Int /\ 0 <= sz /\ sz <= 100 * s /\ (z <= 15 => sz <= 15 * s)
    <2>1. sz \in Int /\ 0 * s <= sz /\ sz <= 100 * s BY <1>1, <1>2, Term
    <2>2. z <= 15 => sz <= 15 * s BY <1>1, <1>2, Term
    <2> QED BY <2>1, <2>2, <1>1
  <1> HIDE DEF ax, dy, sz
  <1>8. CASE out
    <2>1. num = ax + dy /\ den = a + d BY <1>1, <1>4, <1>5, <1>6, <1>8
    <2>2. num \in Int /\ den \in Nat \ {0} /\ 0 <= num /\ num <= 100 * den BY ONLY <2>1, <1>1, <1>5, <1>6
    <2>3. y <= 15 => 2 * num < 2 * (den * 70) - den BY ONLY <2>1, <1>1, <1>5, <1>6
    <2> QED BY <2>2, <2>3, <1>3, <1>8 DEF num, den, out
  <1>9. CASE ~out
    <2>1. num = ax + dy + sz /\ den = 100 BY <1>1, <1>4, <1>5, <1>6, <1>7, <1>9
    <2>2. num \in Int /\ den \in Nat \ {0} /\ 0 <= num /\ num <= 100 * den BY ONLY <2>1, <1>1, <1>5, <1>6, <1>7
    <2>3. y <= 15 => 2 * num < 2 * (den * 70) - den BY ONLY <2>1, <1>1, <1>5, <1>6, <1>7
    <2>4. x <= 15 /\ z <= 15 => 2 * num < 2 * (den * 70) - den BY ONLY <2>1, <1>1, <1>5, <1>6, <1>7
    <2> QED BY <2>2, <2>3, <2>4, <1>3 DEF num, den
  <1> QED BY <1>8, <1>9

-----------------------------------------------------------------------------
(* The answer to a company's figures. *)

VERDICTS == {"none", "Fail", "Pass with caution", "Pass", "Strong Pass", "insufficient_data", "not_supported"}

\* What ScoreStandard answers when the ratios can be computed.
Blended(r, w, a) ==
    \E score \in Nearest(D!Points(r, w), D!Weight(r, w)) :
        a = [score |-> D!Capped(score, r), verdict |-> D!Verdict(D!Capped(score, r), D!Caution(r))]

StandardAnswer(f, w, a) ==
    \/ Blended(D!Ratios(f), w, a)
    \/ a = [score |-> -1, verdict |-> "insufficient_data"]

LEMMA VerdictIs ==
    ASSUME NEW s \in Int, NEW caution
    PROVE /\ D!Verdict(s, caution) \in VERDICTS
          /\ D!Verdict(s, caution) = "Fail" <=> s < 70
          /\ caution => D!Verdict(s, caution) \in {"Fail", "Pass with caution"}
  BY DEF D!Verdict, VERDICTS

LEMMA ScoredIs == \A s \in 0 .. 100 : s \in -1 .. 100
  OBVIOUS

\* A REIT or a bank has nothing to be cautious of.
LEMMA CleanVerdictIs ==
    ASSUME NEW s \in Int
    PROVE D!Verdict(s, FALSE) \in VERDICTS /\ (D!Verdict(s, FALSE) = "Fail" <=> s < 70)
  BY DEF D!Verdict, VERDICTS

LEMMA CappedIs ==
    ASSUME NEW s \in 0 .. 100, NEW r
    PROVE /\ D!Capped(s, r) \in 0 .. 100 /\ (D!Capped(s, r) < 70 <=> s < 70)
          /\ D!Caution(r) => D!Capped(s, r) <= 74
  BY DEF D!Capped

LEMMA BlendedIs ==
    ASSUME NEW r, NEW w, D!ValidWeights(w), NEW gates, NEW others, NEW a,
           Excusable(r[D!CR], others), Excusable(r[D!DE], gates), Graded(r[D!DS]), Blended(r, w, a)
    PROVE /\ a.score \in 0 .. 100 /\ a.verdict \in VERDICTS
          /\ r[D!DE].breach => a.verdict = "Fail"
          /\ r[D!CR].breach /\ r[D!DS].breach /\ ~r[D!DS].excluded => a.verdict = "Fail"
          /\ D!Caution(r) => a.verdict \in {"Fail", "Pass with caution"} /\ a.score <= 74
  <1> DEFINE num == D!Points(r, w)
             den == D!Weight(r, w)
             caution == D!Caution(r)
             light == r[D!DE].breach
             both == r[D!CR].breach /\ r[D!DS].breach /\ ~r[D!DS].excluded
  <1>1. /\ num \in Int /\ den \in Nat \ {0}
        /\ 0 <= num /\ num <= 100 * den
        /\ light \/ both => 2 * num < 2 * (den * 70) - den
        BY BlendIs
  <1>2. PICK score \in Nearest(num, den) : a = [score |-> D!Capped(score, r), verdict |-> D!Verdict(D!Capped(score, r), caution)]
        BY DEF Blended
  <1> HIDE DEF num, den, caution, light, both
  <1>3. score \in Int BY <1>1, <1>2, NearestIs
  <1>4. score < 101
    <2>1. 2 * num < 2 * (den * 101) - den BY <1>1
    <2> QED BY <1>1, <1>2, <2>1, NearestUnder
  <1>5. 0 <= score
    <2>1. 2 * (den * 0) - den < 2 * num BY <1>1
    <2> QED BY <1>1, <1>2, <2>1, NearestOver
  <1>6. light \/ both => score < 70 BY <1>1, <1>2, NearestUnder
  <1>7. score \in 0 .. 100 BY <1>3, <1>4, <1>5
  <1> DEFINE c == D!Capped(score, r)
  <1>8. c \in 0 .. 100 /\ (c < 70 <=> score < 70) /\ (caution => c <= 74) BY <1>7, CappedIs DEF caution
  <1>9. a.score = c /\ a.verdict = D!Verdict(c, caution) BY <1>2
  <1> HIDE DEF c
  <1>10. /\ a.verdict \in VERDICTS /\ (a.verdict = "Fail" <=> c < 70)
         /\ caution => a.verdict \in {"Fail", "Pass with caution"}
    <2>1. c \in Int BY <1>8
    <2> DEFINE v == D!Verdict(c, caution)
    <2>2. /\ v \in VERDICTS /\ (v = "Fail" <=> c < 70)
          /\ caution => v \in {"Fail", "Pass with caution"}
          BY <2>1, VerdictIs
    <2> HIDE DEF v
    <2>3. a.verdict = v BY <1>9 DEF v
    <2> QED BY ONLY <2>2, <2>3
  <1> QED BY <1>6, <1>8, <1>9, <1>10 DEF light, both, caution

LEMMA RatiosAre ==
    ASSUME NEW f, Figured(f)
    PROVE LET r == D!Ratios(f)
          IN /\ r[D!CR] = D!CurrentRatio(f) /\ Excusable(r[D!CR], ~D!LiquidityClean(f) /\ D!ServiceClean(f))
             /\ r[D!DE] = D!DebtRatio(f) /\ Excusable(r[D!DE], D!LiquidityClean(f) /\ D!ServiceClean(f))
             /\ Graded(r[D!DS]) /\ (r[D!DS].excluded => ~D!ServiceClean(f) /\ ~r[D!DS].breach)
  <1>1. /\ D!Ratios(f)[D!CR] = D!CurrentRatio(f)
        /\ D!Ratios(f)[D!DE] = D!DebtRatio(f)
        /\ D!Ratios(f)[D!DS] = D!ScoreDebtServicing(f.service, f.coverage)
        BY DEF D!Ratios, D!CR, D!DE, D!DS
  <1> QED BY <1>1, CurrentIs, DebtRatioIs, ServicingIs

\* Two of three are the debt breach and another, or the other two.
LEMMA TwoBreaches ==
    ASSUME NEW r, Cardinality({k \in {D!CR, D!DE, D!DS} : r[k].breach}) >= 2
    PROVE r[D!DE].breach \/ (r[D!CR].breach /\ r[D!DS].breach)
  <1> DEFINE failed == {k \in {D!CR, D!DE, D!DS} : r[k].breach}
  <1> SUFFICES ASSUME ~r[D!DE].breach, ~(r[D!CR].breach /\ r[D!DS].breach) PROVE FALSE OBVIOUS
  <1>1. failed \subseteq {D!CR} \/ failed \subseteq {D!DS} OBVIOUS
  <1>2. \A x : failed \subseteq {x} => Cardinality(failed) <= 1
    <2> SUFFICES ASSUME NEW x, failed \subseteq {x} PROVE Cardinality(failed) <= 1 OBVIOUS
    <2> HIDE DEF failed
    <2>1. IsFiniteSet({x}) /\ Cardinality({x}) = 1 BY FS_Singleton
    <2>2. Cardinality(failed) <= Cardinality({x}) BY <2>1, FS_Subset
    <2> QED BY <2>1, <2>2
  <1>3. Cardinality(failed) <= 1 BY <1>1, <1>2
  <1>4. IsFiniteSet({D!CR}) /\ IsFiniteSet({D!DS}) BY FS_Singleton
  <1>5. Cardinality(failed) \in Nat
    <2> HIDE DEF failed
    <2>1. IsFiniteSet(failed) BY <1>1, <1>4, FS_Subset
    <2> QED BY <2>1, FS_CardinalityType
  <1>6. Cardinality(failed) >= 2 OBVIOUS
  <1> HIDE DEF failed
  <1> QED BY <1>3, <1>5, <1>6

-----------------------------------------------------------------------------
(* REITs and banks. *)

\* What ScoreReit and ScoreBank answer.
ReitAnswer(g, a) == a = [score |-> D!GearingPoints(g), verdict |-> D!Verdict(D!GearingPoints(g), FALSE)]

BankAnswer(cet1, npl, a) ==
    \/ a = [score |-> -1, verdict |-> "not_supported"]
    \/ \E score \in Nearest(D!Cet1Points(cet1) + D!NplPoints(npl), 2) :
           a = [score |-> score, verdict |-> D!Verdict(score, FALSE)]

LEMMA ReitIs ==
    ASSUME NEW g \in Int, NEW a, ReitAnswer(g, a)
    PROVE a.score \in 0 .. 100 /\ a.verdict \in VERDICTS /\ (a.verdict = "Fail" <=> g > 45)
  <1> DEFINE s == D!GearingPoints(g)
  <1>1. s \in 0 .. 100 /\ (s < 70 <=> g > 45) BY DEF D!GearingPoints
  <1>2. a.score = s /\ a.verdict = D!Verdict(s, FALSE) BY DEF ReitAnswer
  <1> HIDE DEF s
  <1>3. s \in Int BY <1>1
  <1>4. D!Verdict(s, FALSE) \in VERDICTS /\ (D!Verdict(s, FALSE) = "Fail" <=> s < 70) BY ONLY <1>3, CleanVerdictIs, Zenon
  <1> DEFINE v == D!Verdict(s, FALSE)
  <1>5. a.verdict = v /\ v \in VERDICTS /\ (v = "Fail" <=> g > 45) BY ONLY <1>1, <1>2, <1>4, Zenon
  <1>6. a.score \in 0 .. 100 BY ONLY <1>1, <1>2, Zenon
  <1> HIDE DEF v
  <1> QED BY ONLY <1>5, <1>6, Zenon

LEMMA BankIs ==
    ASSUME NEW cet1 \in Int, NEW npl \in Int, NEW a, BankAnswer(cet1, npl, a)
    PROVE /\ a.score \in -1 .. 100 /\ a.verdict \in VERDICTS
          /\ a.score >= 0 => (a.verdict = "Fail" <=> cet1 < 10 \/ npl >= 5)
  <1> DEFINE x == D!Cet1Points(cet1)
             y == D!NplPoints(npl)
  <1>1. x \in {0, 70, 85, 100} /\ (x = 0 <=> cet1 < 10) BY DEF D!Cet1Points
  <1>2. y \in {0, 70, 85, 100} /\ (y = 0 <=> npl >= 5) BY DEF D!NplPoints
  <1> HIDE DEF x, y
  <1>3. CASE a = [score |-> -1, verdict |-> "not_supported"] BY <1>3 DEF VERDICTS
  <1>4. CASE \E score \in Nearest(x + y, 2) : a = [score |-> score, verdict |-> D!Verdict(score, FALSE)]
    <2>1. PICK s \in Nearest(x + y, 2) : a = [score |-> s, verdict |-> D!Verdict(s, FALSE)] BY <1>4
    <2> DEFINE n == x + y
               v == D!Verdict(s, FALSE)
    <2>2. n \in Int /\ s \in Nearest(n, 2) BY <1>1, <1>2, <2>1
    <2>3. s \in Int /\ 2 * n - 2 <= 4 * s /\ 4 * s <= 2 * n + 2
      <3> HIDE DEF n
      <3>1. s \in Int /\ 2 * n - 2 <= 2 * 2 * s /\ 2 * 2 * s <= 2 * n + 2 BY <2>2, NearestIs
      <3> QED BY <3>1
    <2>4. s \in 0 .. 100 /\ (s < 70 <=> x = 0 \/ y = 0) BY ONLY <2>3, <1>1, <1>2
    <2>5. v \in VERDICTS /\ (v = "Fail" <=> s < 70) BY ONLY <2>3, CleanVerdictIs, Zenon
    <2>6. a.score = s /\ a.verdict = v BY <2>1
    <2> HIDE DEF v, n
    <2>7. s < 70 <=> cet1 < 10 \/ npl >= 5 BY ONLY <2>4, <1>1, <1>2, Zenon
    <2>8. a.score \in -1 .. 100 BY <2>4, <2>6
    <2> QED BY ONLY <2>5, <2>6, <2>7, <2>8, Zenon
  <1> QED BY <1>3, <1>4 DEF BankAnswer, x, y

-----------------------------------------------------------------------------
(* The card. *)

\* The answer of the Debt card is one of its paths' on admissible figures.
DebtInv ==
    part = "debt" =>
        \/ path = "none" /\ answer = [score |-> -1, verdict |-> "none"]
        \/ path = "standard" /\ Figured(given) /\ D!ValidWeights(weights) /\ StandardAnswer(given, weights, answer)
        \/ path = "reit" /\ given.gearing \in Int /\ ReitAnswer(given.gearing, answer)
        \/ path = "bank" /\ given.cet1 \in Int /\ given.npl \in Int /\ BankAnswer(given.cet1, given.npl, answer)

LEMMA InitDebtInv == Init => DebtInv
  <1> SUFFICES ASSUME Init, part = "debt" PROVE path = "none" /\ answer = [score |-> -1, verdict |-> "none"] BY DEF DebtInv
  <1>1. D!InitDebt BY DEF Init
  <1> QED BY <1>1 DEF D!InitDebt, D!NoScore

LEMMA SameNearest == \A num, den : D!Nearest(num, den) = Nearest(num, den)
  BY DEF D!Nearest, Nearest

LEMMA StandardStep == D!ScoreStandard => DebtInv'
  <1> SUFFICES ASSUME D!ScoreStandard
               PROVE path' = "standard" /\ Figured(given') /\ D!ValidWeights(weights') /\ StandardAnswer(given', weights', answer')
      BY DEF DebtInv
  <1>1. PICK b \in Sheets, e \in Debts, s \in Servicing, c \in Covers, x \in BreachContexts, w \in DebtWeightSets :
            LET f == [balance |-> b, earnings |-> e, service |-> s, coverage |-> c, context |-> x] IN
            /\ given' = f
            /\ weights' = w
            /\ IF D!Computable(f)
               THEN LET r == D!Ratios(f) IN
                    \E score \in D!Nearest(D!Points(r, w), D!Weight(r, w)) :
                        answer' = [score |-> D!Capped(score, r), verdict |-> D!Verdict(D!Capped(score, r), D!Caution(r))]
               ELSE answer' = [score |-> -1, verdict |-> "insufficient_data"]
        BY Zenon DEF D!ScoreStandard
  <1> DEFINE f == [balance |-> b, earnings |-> e, service |-> s, coverage |-> c, context |-> x]
  <1>2. path' = "standard" BY DEF D!ScoreStandard
  <1>3. Figured(f)
    <2>1. NA \in Int BY DEF NA
    <2> QED BY <2>1, DebtAssumption DEF Figured
  <1>4. D!ValidWeights(w) BY DebtAssumption
  <1>5. given' = f /\ weights' = w BY <1>1
  <1> HIDE DEF f
  <1>6. StandardAnswer(f, w, answer') BY <1>1, SameNearest, Zenon DEF StandardAnswer, Blended, f
  <1> QED BY <1>2, <1>3, <1>4, <1>5, <1>6

LEMMA ReitStep == D!ScoreReit => DebtInv'
  <1> SUFFICES ASSUME D!ScoreReit PROVE path' = "reit" /\ given'.gearing \in Int /\ ReitAnswer(given'.gearing, answer') BY DEF DebtInv
  <1>1. PICK g \in Gearings : given' = [gearing |-> g] /\ ReitAnswer(g, answer') BY Zenon DEF D!ScoreReit, ReitAnswer
  <1>2. given'.gearing = g /\ g \in Int BY <1>1, DebtAssumption
  <1> QED BY <1>1, <1>2 DEF D!ScoreReit

LEMMA BankStep == D!ScoreBank => DebtInv'
  <1> SUFFICES ASSUME D!ScoreBank
               PROVE path' = "bank" /\ given'.cet1 \in Int /\ given'.npl \in Int /\ BankAnswer(given'.cet1, given'.npl, answer')
      BY DEF DebtInv
  <1>1. PICK cet1 \in Cet1s, npl \in Npls : given' = [cet1 |-> cet1, npl |-> npl] /\ BankAnswer(cet1, npl, answer')
        BY SameNearest, Zenon DEF D!ScoreBank, BankAnswer
  <1>2. given'.cet1 = cet1 /\ given'.npl = npl /\ cet1 \in Int /\ npl \in Int BY <1>1, DebtAssumption
  <1> QED BY <1>1, <1>2 DEF D!ScoreBank

LEMMA NextDebtInv == DebtInv /\ [Next]_vars => DebtInv'
  <1> SUFFICES ASSUME DebtInv, [Next]_vars PROVE DebtInv' OBVIOUS
  <1>1. CASE DebtCard
    <2>1. D!ScoreStandard \/ D!ScoreReit \/ D!ScoreBank BY <1>1 DEF DebtCard, D!NextDebt
    <2> QED BY <2>1, StandardStep, ReitStep, BankStep
  <1>2. CASE Next /\ ~DebtCard
    <2>1. part # "debt" /\ part' = part
          BY <1>2, Zenon DEF Next, RowCard, ValueCard, ProfitCard, FinancialsCard, WeeklyLists, ScorecardAnswer,
             StatementsRead, SignalNights, BreadthNights, BoardRuns, ScreenerRuns, MoatRuns
    <2> QED BY <2>1 DEF DebtInv
  <1>3. CASE UNCHANGED vars BY <1>3 DEF vars, DebtInv
  <1> QED BY <1>1, <1>2, <1>3

\* Every answer is one of the four paths' on figures and weights as assumed.
THEOREM DebtInvHolds == Spec => []DebtInv
  BY InitDebtInv, NextDebtInv, PTL DEF Spec

LEMMA StandardHolds ==
    ASSUME Figured(given), D!ValidWeights(weights), StandardAnswer(given, weights, answer), path = "standard"
    PROVE D!TypeOK /\ D!BreachesCount
  <1> DEFINE r == D!Ratios(given)
             liquid == D!LiquidityClean(given)
             served == D!ServiceClean(given)
  <1>1. /\ r[D!CR] = D!CurrentRatio(given) /\ Excusable(r[D!CR], ~liquid /\ served)
        /\ r[D!DE] = D!DebtRatio(given) /\ Excusable(r[D!DE], liquid /\ served)
        /\ Graded(r[D!DS]) /\ (r[D!DS].excluded => ~served /\ ~r[D!DS].breach)
        BY RatiosAre
  <1>2. Blended(r, weights, answer) \/ answer = [score |-> -1, verdict |-> "insufficient_data"] BY DEF StandardAnswer
  <1> HIDE DEF r, liquid, served
  <1> DEFINE Holds == /\ answer.score \in -1 .. 100 /\ answer.verdict \in VERDICTS
                      /\ answer.score >= 0 =>
                            /\ r[D!DE].breach => answer.verdict = "Fail"
                            /\ r[D!CR].breach /\ r[D!DS].breach /\ ~r[D!DS].excluded => answer.verdict = "Fail"
                            /\ D!Caution(r) => answer.verdict \in {"Fail", "Pass with caution"} /\ answer.score <= 74
  <1>3. Holds
    <2>1. CASE Blended(r, weights, answer)
      <3>1. /\ answer.score \in 0 .. 100 /\ answer.verdict \in VERDICTS
            /\ r[D!DE].breach => answer.verdict = "Fail"
            /\ r[D!CR].breach /\ r[D!DS].breach /\ ~r[D!DS].excluded => answer.verdict = "Fail"
            /\ D!Caution(r) => answer.verdict \in {"Fail", "Pass with caution"} /\ answer.score <= 74
            BY ONLY <1>1, <2>1, D!ValidWeights(weights), BlendedIs, Zenon
      <3>2. answer.score \in -1 .. 100 BY ONLY <3>1, ScoredIs, Zenon
      <3> QED BY ONLY <3>1, <3>2, Zenon
    <2>2. CASE answer = [score |-> -1, verdict |-> "insufficient_data"] BY <2>2 DEF VERDICTS
    <2> QED BY <1>2, <2>1, <2>2
  <1>4. D!TypeOK BY <1>3 DEF D!TypeOK, VERDICTS
  <1> HIDE DEF Holds
  <1>5. D!DebtBreachFails BY ONLY <1>1, <1>3, Zenon DEF Holds, D!DebtBreachFails, D!Scored
  <1>6. D!TwoBreachesFail
    <2> SUFFICES ASSUME D!Scored, D!Cardinality({k \in {D!CR, D!DE, D!DS} : r[k].breach}) >= 2 PROVE answer.verdict = "Fail"
        BY Zenon DEF D!TwoBreachesFail, r
    <2>1. Cardinality({k \in {D!CR, D!DE, D!DS} : r[k].breach}) >= 2 BY SameCount
    <2>2. r[D!DE].breach \/ (r[D!CR].breach /\ r[D!DS].breach) BY ONLY <2>1, TwoBreaches, Zenon
    <2>3. answer.score >= 0 BY DEF D!Scored
    <2> QED BY ONLY <1>1, <1>3, <2>2, <2>3, Zenon DEF Holds
  <1>7. D!BreachShows BY ONLY <1>3, Zenon DEF Holds, D!BreachShows, D!Scored, r
  <1>8. D!NoMutualRescue
    <2>1. r[D!CR].label = MARGINAL => ~liquid /\ served BY ONLY <1>1, Zenon DEF Excusable
    <2>2. r[D!DE].label = MARGINAL => liquid /\ served BY ONLY <1>1, Zenon DEF Excusable
    <2>3. r[D!DS].excluded => ~served BY <1>1
    <2> QED BY ONLY <2>1, <2>2, <2>3, Zenon DEF D!NoMutualRescue, MARGINAL, r
  <1>9. D!ExcusedOutranksSevere
    <2>1. \A k \in {D!CR, D!DE, D!DS} :
              /\ r[k].points \in Int
              /\ r[k].label = MARGINAL => r[k].points >= 50
              /\ r[k].label = "severe" => r[k].points <= 15
          BY <1>1 DEF Excusable, Graded
    <2>2. \A k, m \in {D!CR, D!DE, D!DS} :
              r[k].label = MARGINAL /\ r[m].label = "severe" => r[k].points > r[m].points
          BY ONLY <2>1
    <2> QED BY ONLY <2>2, Zenon DEF D!ExcusedOutranksSevere, MARGINAL, r
  <1>10. D!LimitsDecide BY DEF D!LimitsDecide
  <1> QED BY ONLY <1>4, <1>5, <1>6, <1>7, <1>8, <1>9, <1>10, Zenon DEF D!BreachesCount

\* On the other paths nothing but the limits is at stake.
LEMMA OtherPathsHold ==
    ASSUME path # "standard", D!TypeOK, D!LimitsDecide
    PROVE D!BreachesCount
  BY DEF D!BreachesCount, D!DebtBreachFails, D!TwoBreachesFail, D!BreachShows, D!NoMutualRescue,
         D!ExcusedOutranksSevere, D!Scored

(***************************************************************************)
(* The Debt card has no hard fail, so a breach ends below the pass line by *)
(* the weights alone (docs/specs/debt.md:186).  Whatever the figures, and  *)
(* with any weight set that keeps the bounds and the order of the Settings *)
(* page: an unexcused debt breach fails the check, so do any two breaches, *)
(* a breach that passes is never more than a barely passing score, the two *)
(* contexts never vouch for each other, and a REIT or bank fails exactly   *)
(* past its limits.                                                        *)
(***************************************************************************)
THEOREM BreachesAlwaysCount == Spec => []BreachesCount
  <1>1. DebtInv => BreachesCount
    <2> SUFFICES ASSUME DebtInv, part = "debt" PROVE D!TypeOK /\ D!BreachesCount BY DEF BreachesCount
    <2>1. CASE path = "none" /\ answer = [score |-> -1, verdict |-> "none"]
      <3>1. D!TypeOK /\ D!LimitsDecide BY <2>1 DEF D!TypeOK, D!LimitsDecide
      <3> QED BY <3>1, <2>1, OtherPathsHold
    <2>2. CASE path = "standard" /\ Figured(given) /\ D!ValidWeights(weights) /\ StandardAnswer(given, weights, answer)
          BY <2>2, StandardHolds
    <2>3. CASE path = "reit" /\ given.gearing \in Int /\ ReitAnswer(given.gearing, answer)
      <3>1. answer.score \in 0 .. 100 /\ answer.verdict \in VERDICTS /\ (answer.verdict = "Fail" <=> given.gearing > 45)
            BY ONLY <2>3, ReitIs, Zenon
      <3>2. answer.score \in -1 .. 100 BY ONLY <3>1, ScoredIs, Zenon
      <3>3. D!TypeOK BY ONLY <3>1, <3>2, <2>3, Zenon DEF D!TypeOK, VERDICTS
      <3>4. path # "bank" /\ path # "standard" BY <2>3
      <3>5. (answer.verdict = "Fail") = (given.gearing > 45) BY ONLY <3>1, <2>3
      <3>6. D!LimitsDecide BY ONLY <3>4, <3>5, Zenon DEF D!LimitsDecide
      <3> QED BY ONLY <3>3, <3>4, <3>6, OtherPathsHold, Zenon
    <2>4. CASE path = "bank" /\ given.cet1 \in Int /\ given.npl \in Int /\ BankAnswer(given.cet1, given.npl, answer)
      <3>1. /\ answer.score \in -1 .. 100 /\ answer.verdict \in VERDICTS
            /\ answer.score >= 0 => (answer.verdict = "Fail" <=> given.cet1 < 10 \/ given.npl >= 5)
            BY ONLY <2>4, BankIs, Zenon
      <3>2. D!TypeOK /\ D!LimitsDecide BY ONLY <3>1, <2>4 DEF D!TypeOK, D!LimitsDecide, VERDICTS
      <3> QED BY <3>2, <2>4, OtherPathsHold
    <2> QED BY <2>1, <2>2, <2>3, <2>4 DEF DebtInv
  <1> QED BY <1>1, DebtInvHolds, PTL

-----------------------------------------------------------------------------
(***************************************************************************)
(* The nightly ETF refresh.                                                *)
(***************************************************************************)

LEMMA SameCountE == \A set : E!Cardinality(set) = Cardinality(set)
  BY DEF E!Cardinality, Cardinality

FIELDS == {"price", "stage", "assets", "holdings", "name", "yield", "signal"}
Descriptive == FIELDS \ {"signal"}

\* A row of a fund whose newest bar is of the day held, on a given day.
RowFits(row, held, day) ==
    /\ row \in [FIELDS -> 0 .. ScreenerDays]
    /\ row["price"] <= held /\ row["stage"] <= held /\ row["yield"] <= held
    /\ row["assets"] <= day

Counts(row) == \E x \in Descriptive : row[x] # 0

LEMMA FieldsAre ==
    ASSUME NEW f, NEW a, NEW held, NEW v \in E!Refreshed(f, a, held)
    PROVE /\ \/ v = <<"price", held>> /\ held # 0
             \/ v = <<"stage", held>> /\ held # 0
             \/ v = <<"assets", given.day>>
             \/ (v = <<"holdings", given.day>> \/ v = <<"holdings", 0>>) /\ <<"assets", given.day>> \in E!Refreshed(f, a, held)
             \/ v = <<"yield", held>> /\ held # 0
             \/ v = <<"name", 1>>
             \/ v = <<"name", 2>> /\ a.profile # "failed"
             \/ v = <<"signal", given.signal[f]>>
  <1>1. CASE v \in E!BarFields(a, held) BY <1>1 DEF E!BarFields, E!NULL
  <1>2. CASE v \in E!InfoFields(a)
    <2>1. v = <<"assets", given.day>> \/ v = <<"holdings", given.day>> \/ v = <<"holdings", 0>> BY <1>2 DEF E!InfoFields, E!NULL
    <2>2. <<"assets", given.day>> \in E!InfoFields(a) BY <1>2 DEF E!InfoFields, E!NULL
    <2> QED BY <2>1, <2>2 DEF E!Refreshed
  <1>3. CASE v \in E!ProfileFields(a, held) BY <1>3 DEF E!ProfileFields, E!NULL
  <1>4. CASE v \in E!NameFields(a) BY <1>4 DEF E!NameFields, E!FromProfile, E!FromInfo
  <1>5. CASE v \in E!SignalFields(f) BY <1>5 DEF E!SignalFields
  <1> QED BY <1>1, <1>2, <1>3, <1>4, <1>5 DEF E!Refreshed

LEMMA UpsertIs ==
    ASSUME NEW row, NEW fields, NEW x \in FIELDS
    PROVE \/ E!UpsertRow(row, fields)[x] = row[x] /\ \A v \in fields : v[1] # x
          \/ \E v \in fields : v[1] = x /\ E!UpsertRow(row, fields)[x] = v[2]
  <1>1. x \in E!WRITABLE_FIELDS BY DEF FIELDS, E!WRITABLE_FIELDS, E!SIGNAL_FIELDS
  <1>2. E!UpsertRow(row, fields)[x] = IF \E v \in fields : v[1] = x THEN (CHOOSE v \in fields : v[1] = x)[2] ELSE row[x]
        BY <1>1 DEF E!UpsertRow
  <1> QED BY <1>2

\* A row that is written again: nothing goes back, and no source's failure costs a column.
Improves(new, row, a, signal) ==
    /\ new["price"] >= row["price"] /\ new["stage"] >= row["stage"]
    /\ new["assets"] >= row["assets"] /\ new["yield"] >= row["yield"]
    /\ row["name"] = 1 /\ a.profile = "failed" => new["name"] = 1
    /\ new["signal"] = signal

LEMMA RowUpserted ==
    ASSUME NEW f, NEW a, NEW row, given.day \in 1 .. ScreenerDays, given.signal[f] \in 0 .. given.day,
           NEW old \in 0 .. given.day, NEW held \in old .. given.day, RowFits(row, old, given.day)
    PROVE LET fields == E!Refreshed(f, a, held)
              new == E!UpsertRow(row, fields)
          IN /\ RowFits(new, held, given.day)
             /\ Improves(new, row, a, given.signal[f])
             /\ Counts(row) \/ (\E v \in fields : v[1] \in Descriptive) => Counts(new)
  <1> DEFINE fields == E!Refreshed(f, a, held)
             new == E!UpsertRow(row, fields)
             day == given.day
             sig == given.signal[f]
  <1>1. \A v \in fields :
            \/ v = <<"price", held>> /\ held # 0
            \/ v = <<"stage", held>> /\ held # 0
            \/ v = <<"assets", day>>
            \/ (v = <<"holdings", day>> \/ v = <<"holdings", 0>>) /\ <<"assets", day>> \in fields
            \/ v = <<"yield", held>> /\ held # 0
            \/ v = <<"name", 1>>
            \/ v = <<"name", 2>> /\ a.profile # "failed"
            \/ v = <<"signal", sig>>
        BY FieldsAre
  <1>2. \A x \in FIELDS : \/ new[x] = row[x] /\ \A v \in fields : v[1] # x
                          \/ \E v \in fields : v[1] = x /\ new[x] = v[2]
        BY UpsertIs
  <1>3. <<"signal", sig>> \in fields BY DEF E!Refreshed, E!SignalFields
  <1>4. DOMAIN new = FIELDS /\ new = [x \in FIELDS |-> new[x]]
        BY DEF E!UpsertRow, FIELDS, E!WRITABLE_FIELDS, E!SIGNAL_FIELDS
  <1> HIDE DEF fields, new
  <1>5. new["price"] = row["price"] \/ new["price"] = held
    <2>1. \A v \in fields : v[1] = "price" => v[2] = held BY <1>1
    <2> QED BY <2>1, <1>2 DEF FIELDS
  <1>6. new["stage"] = row["stage"] \/ new["stage"] = held
    <2>1. \A v \in fields : v[1] = "stage" => v[2] = held BY <1>1
    <2> QED BY <2>1, <1>2 DEF FIELDS
  <1>7. new["yield"] = row["yield"] \/ new["yield"] = held
    <2>1. \A v \in fields : v[1] = "yield" => v[2] = held BY <1>1
    <2> QED BY <2>1, <1>2 DEF FIELDS
  <1>8. new["assets"] = row["assets"] \/ new["assets"] = day
    <2>1. \A v \in fields : v[1] = "assets" => v[2] = day BY <1>1
    <2> QED BY <2>1, <1>2 DEF FIELDS
  <1>9. new["name"] = row["name"] \/ new["name"] = 1 \/ (new["name"] = 2 /\ a.profile # "failed")
    <2>1. \A v \in fields : v[1] = "name" => v[2] = 1 \/ (v[2] = 2 /\ a.profile # "failed") BY <1>1
    <2> QED BY <2>1, <1>2 DEF FIELDS
  <1>10. new["signal"] = sig
    <2>1. \A v \in fields : v[1] = "signal" => v[2] = sig BY <1>1
    <2> QED BY <2>1, <1>2, <1>3 DEF FIELDS
  <1>11. new["holdings"] \in {row["holdings"], day, 0}
    <2>1. \A v \in fields : v[1] = "holdings" => v[2] \in {day, 0} BY <1>1
    <2> QED BY <2>1, <1>2 DEF FIELDS
  <1>12. row \in [FIELDS -> 0 .. ScreenerDays] BY DEF RowFits
  <1>13. ScreenerDays \in Nat /\ 2 <= ScreenerDays BY ScreenerAssumption
  <1>14. RowFits(new, held, day)
    <2>1. \A x \in FIELDS : row[x] \in 0 .. ScreenerDays BY <1>12
    <2>2. \A x \in FIELDS : new[x] \in 0 .. ScreenerDays
          BY <2>1, <1>5, <1>6, <1>7, <1>8, <1>9, <1>10, <1>11, <1>13 DEF FIELDS
    <2>3. new \in [FIELDS -> 0 .. ScreenerDays] BY ONLY <2>2, <1>4
    <2>4. /\ row["price"] \in Nat /\ row["stage"] \in Nat /\ row["yield"] \in Nat /\ row["assets"] \in Nat
          /\ row["price"] <= old /\ row["stage"] <= old /\ row["yield"] <= old /\ row["assets"] <= day
          BY <2>1 DEF FIELDS, RowFits
    <2>5. new["price"] <= held /\ new["stage"] <= held /\ new["yield"] <= held /\ new["assets"] <= day
          BY ONLY <2>4, <1>5, <1>6, <1>7, <1>8, old \in 0 .. day, held \in old .. day, <1>13, day \in 1 .. ScreenerDays
    <2> QED BY <2>3, <2>5 DEF RowFits
  <1>15. Improves(new, row, a, sig)
    <2>1. /\ row["price"] \in Nat /\ row["stage"] \in Nat /\ row["yield"] \in Nat /\ row["assets"] \in Nat
          BY <1>12 DEF FIELDS
    <2>2. row["price"] <= old /\ row["stage"] <= old /\ row["yield"] <= old /\ row["assets"] <= day BY DEF RowFits
    <2>3. /\ new["price"] >= row["price"] /\ new["stage"] >= row["stage"]
          /\ new["assets"] >= row["assets"] /\ new["yield"] >= row["yield"]
          BY ONLY <2>1, <2>2, <1>5, <1>6, <1>7, <1>8, old \in 0 .. day, held \in old .. day, <1>13, day \in 1 .. ScreenerDays
    <2> QED BY ONLY <2>3, <1>9, <1>10, Zenon DEF Improves
  <1>16. Counts(row) \/ (\E v \in fields : v[1] \in Descriptive) => Counts(new)
    <2>1. ASSUME NEW v \in fields, v[1] \in Descriptive PROVE Counts(new)
      <3>1. PICK x \in {"price", "stage", "assets", "yield", "name"} :
                /\ \E w \in fields : w[1] = x
                /\ \A w \in fields : w[1] = x => w[2] # 0
            BY <2>1, <1>1, day \in 1 .. ScreenerDays DEF Descriptive, FIELDS
      <3>2. new[x] # 0 BY <3>1, <1>2 DEF FIELDS
      <3> QED BY <3>2 DEF Counts, Descriptive, FIELDS
    <2>2. ASSUME Counts(row), \A v \in fields : v[1] \notin Descriptive PROVE Counts(new)
      <3>1. PICK x \in Descriptive : row[x] # 0 BY <2>2 DEF Counts
      <3>2. new[x] = row[x] BY <2>2, <1>2 DEF Descriptive
      <3> QED BY <3>1, <3>2 DEF Counts
    <2> QED BY <2>1, <2>2
  <1> QED BY <1>14, <1>15, <1>16 DEF new, fields

-----------------------------------------------------------------------------
Desks == [day : 1 .. ScreenerDays, ran : BOOLEAN, universe : SUBSET Funds, held : [Funds -> Nat],
          signal : [Funds -> Nat], mishaps : 0 .. ScreenerMishaps]

DeskHolds ==
    /\ given \in Desks
    /\ given.universe # {}
    /\ \A f \in Funds : given.held[f] <= given.day /\ given.signal[f] <= given.day

\* No column is of a day its source was not read yet.
TablesFit ==
    /\ DOMAIN answer.rows \subseteq Funds
    /\ \A f \in DOMAIN answer.rows : RowFits(answer.rows[f], given.held[f], given.day) /\ Counts(answer.rows[f])
    /\ \A f \in Funds : answer.trend[f] \in 0 .. given.held[f] /\ answer.close[f] \in 0 .. given.day

ScreenerInv == part = "screener" => DeskHolds /\ TablesFit /\ E!ScreenerKeepsAnswers

LEMMA InitScreenerInv == Init => ScreenerInv
  <1> SUFFICES ASSUME Init, part = "screener" PROVE DeskHolds /\ TablesFit /\ E!ScreenerKeepsAnswers BY DEF ScreenerInv
  <1>1. /\ given = [day |-> 1, ran |-> FALSE, universe |-> Funds, held |-> [f \in Funds |-> 0],
                    signal |-> [f \in Funds |-> 0], mishaps |-> ScreenerMishaps]
        /\ answer = [rows |-> [f \in {} |-> E!Blank], trend |-> [f \in Funds |-> 0], close |-> [f \in Funds |-> 0],
                     run |-> [mode |-> "none"]]
        BY DEF Init, E!InitScreener, E!NULL
  <1>2. given \in Desks BY <1>1, ScreenerAssumption DEF Desks
  <1>3. DeskHolds BY <1>1, <1>2, ScreenerAssumption DEF DeskHolds
  <1>4. DOMAIN answer.rows = {} BY <1>1
  <1>5. TablesFit BY <1>1, <1>4 DEF TablesFit
  <1>6. E!ScreenerKeepsAnswers
        BY <1>1, <1>4 DEF E!ScreenerKeepsAnswers, E!ColumnsNeverGoBack, E!OutageKeepsName, E!SignalsFollowTables,
           E!RowsAreLostOnPurpose, E!Ran
  <1> QED BY <1>3, <1>5, <1>6

\* Whoever leaves the tables alone.
LEMMA TablesLeft ==
    ASSUME DeskHolds, TablesFit, E!ScreenerKeepsAnswers, answer' = answer, DeskHolds',
           given.day <= given'.day, given'.held = given.held
    PROVE TablesFit' /\ E!ScreenerKeepsAnswers'
  <1>1. E!ScreenerKeepsAnswers'
        BY DEF E!ScreenerKeepsAnswers, E!ColumnsNeverGoBack, E!OutageKeepsName, E!SignalsFollowTables,
           E!RowsAreLostOnPurpose, E!Ran, E!Before
  <1>2. given.day \in Nat /\ given'.day \in Nat /\ given.held \in [Funds -> Nat] BY ScreenerAssumption DEF DeskHolds, Desks
  <1>3. \A f \in DOMAIN answer.rows : RowFits(answer.rows[f], given.held[f], given'.day)
    <2> TAKE f \in DOMAIN answer.rows
    <2>1. RowFits(answer.rows[f], given.held[f], given.day) BY DEF TablesFit
    <2>2. answer.rows[f]["assets"] \in Nat BY <2>1, ScreenerAssumption DEF RowFits, FIELDS
    <2> QED BY <2>1, <2>2, <1>2 DEF RowFits
  <1>4. \A f \in Funds : answer.close[f] \in 0 .. given'.day BY <1>2 DEF TablesFit
  <1>5. DOMAIN answer.rows \subseteq Funds /\ \A f \in DOMAIN answer.rows : Counts(answer.rows[f]) BY DEF TablesFit
  <1>6. \A f \in Funds : answer.trend[f] \in 0 .. given.held[f] BY DEF TablesFit
  <1>7. TablesFit' BY ONLY <1>3, <1>4, <1>5, <1>6, answer' = answer, given'.held = given.held, Zenon DEF TablesFit
  <1> QED BY <1>1, <1>7

LEMMA AroundStep ==
    ASSUME ScreenerInv, part = "screener", part' = part, E!UniverseChanges \/ E!SignalChanges \/ E!NextDay
    PROVE ScreenerInv'
  <1>1. DeskHolds /\ TablesFit /\ E!ScreenerKeepsAnswers BY DEF ScreenerInv
  <1>2. given \in Desks /\ given.universe # {} /\ \A f \in Funds : given.held[f] <= given.day /\ given.signal[f] <= given.day
        BY <1>1 DEF DeskHolds
  <1>3. answer' = answer BY DEF E!UniverseChanges, E!SignalChanges, E!NextDay
  <1>4. DeskHolds' /\ given.day <= given'.day /\ given'.held = given.held
    <2>1. CASE E!UniverseChanges
      <3>1. PICK f \in Funds : /\ given.universe # {f}
                               /\ given' = [given EXCEPT !.mishaps = given.mishaps - 1,
                                               !.universe = IF f \in given.universe THEN given.universe \ {f} ELSE given.universe \cup {f}]
            BY <2>1 DEF E!UniverseChanges
      <3>2. given.mishaps > 0 BY <2>1 DEF E!UniverseChanges
      <3> DEFINE u == IF f \in given.universe THEN given.universe \ {f} ELSE given.universe \cup {f}
      <3>3. u \in SUBSET Funds /\ u # {} BY <1>2, <3>1 DEF Desks
      <3> HIDE DEF u
      <3>4. given' = [given EXCEPT !.mishaps = given.mishaps - 1, !.universe = u] BY <3>1 DEF u
      <3>5. given.mishaps - 1 \in 0 .. ScreenerMishaps BY <1>2, <3>2, ScreenerAssumption DEF Desks
      <3>6. given' \in Desks BY <1>2, <3>3, <3>4, <3>5 DEF Desks
      <3>7. given'.universe = u /\ given'.held = given.held /\ given'.signal = given.signal /\ given'.day = given.day
            BY <1>2, <3>4 DEF Desks
      <3>8. given.day \in Int BY <1>2, ScreenerAssumption DEF Desks
      <3> QED BY <1>2, <3>3, <3>6, <3>7, <3>8 DEF DeskHolds
    <2>2. CASE E!SignalChanges
      <3>1. PICK f \in Funds : given' = [given EXCEPT !.mishaps = given.mishaps - 1,
                                            !.signal = [given.signal EXCEPT ![f] = IF given.signal[f] = 0 THEN given.day ELSE 0]]
            BY <2>2 DEF E!SignalChanges, E!NULL
      <3>2. given.mishaps > 0 BY <2>2 DEF E!SignalChanges
      <3> DEFINE u == [given.signal EXCEPT ![f] = IF given.signal[f] = 0 THEN given.day ELSE 0]
      <3>8. given.day \in Nat BY <1>2, ScreenerAssumption DEF Desks
      <3>3. u \in [Funds -> Nat] /\ \A g \in Funds : u[g] <= given.day BY <1>2, <3>8 DEF Desks
      <3> HIDE DEF u
      <3>4. given' = [given EXCEPT !.mishaps = given.mishaps - 1, !.signal = u] BY <3>1 DEF u
      <3>5. given.mishaps - 1 \in 0 .. ScreenerMishaps BY <1>2, <3>2, ScreenerAssumption DEF Desks
      <3>6. given' \in Desks BY <1>2, <3>3, <3>4, <3>5 DEF Desks
      <3>7. given'.universe = given.universe /\ given'.held = given.held /\ given'.signal = u /\ given'.day = given.day
            BY <1>2, <3>4 DEF Desks
      <3> QED BY <1>2, <3>3, <3>6, <3>7, <3>8 DEF DeskHolds
    <2>3. CASE E!NextDay
      <3>1. given' = [given EXCEPT !.day = given.day + 1, !.ran = FALSE] /\ given.day < ScreenerDays BY <2>3 DEF E!NextDay
      <3>2. given.day \in Nat /\ given.day + 1 \in 1 .. ScreenerDays BY <1>2, <3>1, ScreenerAssumption DEF Desks
      <3>3. given' \in Desks BY <1>2, <3>1, <3>2 DEF Desks
      <3>4. /\ given'.universe = given.universe /\ given'.held = given.held /\ given'.signal = given.signal
            /\ given'.day = given.day + 1
            BY <1>2, <3>1 DEF Desks
      <3>5. \A f \in Funds : given.held[f] \in Nat /\ given.signal[f] \in Nat BY <1>2 DEF Desks
      <3>6. \A f \in Funds : given.held[f] <= given.day + 1 /\ given.signal[f] <= given.day + 1 BY <1>2, <3>2, <3>5
      <3> QED BY <1>2, <3>2, <3>3, <3>4, <3>6 DEF DeskHolds
    <2> QED BY <2>1, <2>2, <2>3
  <1> QED BY <1>1, <1>3, <1>4, TablesLeft DEF ScreenerInv

LEMMA RefreshStep ==
    ASSUME ScreenerInv, part = "screener", part' = part, E!RefreshEtfScreener
    PROVE ScreenerInv'
  <1>1. PICK mode \in {"live", "cached", "dry"}, targets \in {given.universe} \cup {{f} : f \in Funds},
             answers \in [Funds -> EtfAnswers], batchFailed \in BOOLEAN :
                 /\ ~given.ran
                 /\ mode = "cached" => ~batchFailed /\ \A f \in targets : ~E!Failed(answers[f], FALSE) /\ answers[f].reached
                 /\ \A f \in Funds \ targets : answers[f] = E!AllWell
                 /\ E!Refresh(mode, targets, targets = given.universe, answers, batchFailed)
        BY Zenon DEF E!RefreshEtfScreener
  <1> DEFINE day == given.day
             full == targets = given.universe
             live == mode = "live"
             fetched == mode # "cached" /\ ~batchFailed
             held == [f \in Funds |-> IF f \in targets THEN E!Held(f, answers[f], fetched) ELSE given.held[f]]
             fields == [f \in targets |-> E!Refreshed(f, answers[f], held[f])]
             written == IF mode = "dry" THEN {} ELSE {f \in targets : E!WorthWriting(f, fields[f])}
             failures == E!Cardinality({f \in targets : E!Failed(answers[f], live)})
             old(f) == IF f \in DOMAIN answer.rows THEN answer.rows[f] ELSE E!Blank
             rows == [f \in DOMAIN answer.rows \cup written |->
                         IF f \in written THEN E!UpsertRow(old(f), fields[f]) ELSE answer.rows[f]]
             kept == E!Pruned(rows, full, live, ~batchFailed /\ ~E!Breaches(E!Cardinality(targets), failures))
             trend == [f \in Funds |-> IF live /\ f \in targets THEN E!StoredTrend(f, answers[f], held[f]) ELSE answer.trend[f]]
             close == [f \in Funds |-> IF live /\ f \in targets THEN E!StoredClose(f, answers[f]) ELSE answer.close[f]]
             run == [mode |-> mode, targets |-> targets, answers |-> answers, failures |-> failures, batchFailed |-> batchFailed,
                     signal |-> given.signal, before |-> [rows |-> answer.rows, trend |-> answer.trend, close |-> answer.close]]
             departures == E!Cardinality({f \in targets : answers[f] # E!AllWell}) + (IF live THEN 0 ELSE 1)
                               + (IF full THEN 0 ELSE 1) + (IF batchFailed THEN 1 ELSE 0)
  <1>2. /\ departures <= given.mishaps
        /\ given' = [given EXCEPT !.held = held, !.ran = TRUE, !.mishaps = given.mishaps - departures]
        /\ answer' = [rows |-> kept, trend |-> trend, close |-> close, run |-> run]
        BY <1>1, Zenon DEF E!Refresh
  <1>3. DeskHolds /\ TablesFit /\ E!ScreenerKeepsAnswers BY DEF ScreenerInv
  <1>4. /\ given \in Desks /\ day \in 1 .. ScreenerDays /\ day \in Nat
        /\ \A f \in Funds : given.held[f] \in 0 .. day /\ given.signal[f] \in 0 .. day
    <2>1. given \in Desks /\ \A f \in Funds : given.held[f] <= day /\ given.signal[f] <= day BY <1>3 DEF DeskHolds
    <2>2. day \in 1 .. ScreenerDays /\ day \in Nat BY <2>1, ScreenerAssumption DEF Desks
    <2>3. \A f \in Funds : given.held[f] \in Nat /\ given.signal[f] \in Nat BY <2>1 DEF Desks
    <2> HIDE DEF day
    <2> QED BY <2>1, <2>2, <2>3
  <1>5. targets \subseteq Funds /\ targets # {} BY <1>3 DEF DeskHolds, Desks
  <1>6. \A f \in Funds : held[f] \in given.held[f] .. day /\ held[f] \in 0 .. day
    <2> TAKE f \in Funds
    <2>1. held[f] = day \/ held[f] = given.held[f] BY DEF E!Held
    <2> HIDE DEF day, held
    <2> QED BY <2>1, <1>4
  <1>7. DeskHolds' /\ given'.day = day /\ given'.held = held
    <2>1. IsFiniteSet(targets) BY <1>5, ScreenerAssumption, FS_Subset
    <2>2. IsFiniteSet({f \in targets : answers[f] # E!AllWell}) BY <2>1, FS_Subset
    <2>3. E!Cardinality({f \in targets : answers[f] # E!AllWell}) \in Nat BY <2>2, FS_CardinalityType, SameCountE
    <2>4. departures \in Nat BY <2>3
    <2>5. held \in [Funds -> Nat]
      <3>1. \A f \in Funds : held[f] \in Nat BY <1>6
      <3> QED BY <3>1
    <2>6. given.mishaps \in 0 .. ScreenerMishaps BY <1>4 DEF Desks
    <2> HIDE DEF departures, held, day
    <2>7. given.mishaps - departures \in 0 .. ScreenerMishaps BY <1>2, <2>4, <2>6, ScreenerAssumption
    <2>8. given' \in Desks BY <1>2, <1>4, <2>5, <2>7 DEF Desks
    <2>9. /\ given'.day = given.day /\ given'.held = held /\ given'.universe = given.universe /\ given'.signal = given.signal
          BY <1>2, <1>4 DEF Desks
    <2>10. DeskHolds' BY <2>8, <2>9, <1>3, <1>4, <1>6 DEF DeskHolds, day
    <2> QED BY <2>9, <2>10 DEF day
  <1>8. /\ DOMAIN answer.rows \subseteq Funds
        /\ \A f \in DOMAIN answer.rows : RowFits(answer.rows[f], given.held[f], day) /\ Counts(answer.rows[f])
        /\ \A f \in Funds : answer.trend[f] \in 0 .. given.held[f] /\ answer.close[f] \in 0 .. day
        BY <1>3 DEF TablesFit
  <1>9. ASSUME NEW f \in written
        PROVE /\ f \in targets /\ f \in Funds /\ mode # "dry"
              /\ rows[f] = E!UpsertRow(old(f), E!Refreshed(f, answers[f], held[f]))
              /\ RowFits(rows[f], held[f], day)
              /\ Counts(rows[f])
              /\ rows[f]["signal"] = given.signal[f]
              /\ f \in DOMAIN answer.rows => Improves(rows[f], answer.rows[f], answers[f], given.signal[f])
    <2>1. f \in targets /\ f \in Funds /\ mode # "dry" /\ E!WorthWriting(f, fields[f]) BY <1>9, <1>5
    <2>2. fields[f] = E!Refreshed(f, answers[f], held[f]) BY <2>1
    <2>3. rows[f] = E!UpsertRow(old(f), fields[f]) BY <1>9
    <2>4. RowFits(old(f), given.held[f], day)
      <3>1. CASE f \in DOMAIN answer.rows BY <3>1, <1>8
      <3>2. CASE f \notin DOMAIN answer.rows
        <4>1. E!Blank = [x \in FIELDS |-> 0] BY DEF E!Blank, E!WRITABLE_FIELDS, E!SIGNAL_FIELDS, E!NULL, FIELDS
        <4>2. old(f) = [x \in FIELDS |-> 0] BY <4>1, <3>2
        <4>3. given.held[f] \in Nat /\ day \in Nat BY <1>4, <2>1
        <4> HIDE DEF old, day
        <4>4. RowFits([x \in FIELDS |-> 0], given.held[f], day) BY <4>3, ScreenerAssumption DEF RowFits, FIELDS
        <4> QED BY <4>2, <4>4
      <3> QED BY <3>1, <3>2
    <2>5. Counts(old(f)) \/ \E v \in fields[f] : v[1] \in Descriptive
      <3>1. CASE f \in DOMAIN answer.rows BY <3>1, <1>8
      <3>2. CASE f \notin DOMAIN answer.rows
        <4>1. PICK v \in fields[f] : v[1] # "signal" BY <2>1, <3>2 DEF E!WorthWriting, E!SIGNAL_FIELDS
        <4>2. v \in E!Refreshed(f, answers[f], held[f]) BY <4>1, <2>2
        <4> HIDE DEF fields, held
        <4>3. v[1] \in Descriptive BY <4>1, <4>2, FieldsAre DEF Descriptive, FIELDS
        <4> QED BY <4>1, <4>3
      <3> QED BY <3>1, <3>2
    <2>6. given.held[f] \in 0 .. given.day /\ held[f] \in given.held[f] .. given.day /\ given.signal[f] \in 0 .. given.day
          /\ given.day \in 1 .. ScreenerDays
          BY <1>4, <1>6, <2>1
    <2>7. RowFits(old(f), given.held[f], given.day) BY <2>4
    <2> HIDE DEF fields, held, old, rows
    <2>8. LET new == E!UpsertRow(old(f), E!Refreshed(f, answers[f], held[f]))
          IN /\ RowFits(new, held[f], given.day)
             /\ Improves(new, old(f), answers[f], given.signal[f])
             /\ Counts(old(f)) \/ (\E v \in E!Refreshed(f, answers[f], held[f]) : v[1] \in Descriptive) => Counts(new)
          BY <2>6, <2>7, RowUpserted
    <2>9. /\ RowFits(rows[f], held[f], day) /\ Improves(rows[f], old(f), answers[f], given.signal[f]) /\ Counts(rows[f])
          BY <2>2, <2>3, <2>5, <2>8
    <2>10. rows[f]["signal"] = given.signal[f] BY <2>9 DEF Improves
    <2>11. f \in DOMAIN answer.rows => old(f) = answer.rows[f] BY DEF old
    <2> QED BY <2>1, <2>2, <2>3, <2>9, <2>10, <2>11
  <1>10. ASSUME NEW f \in DOMAIN answer.rows, f \notin written
         PROVE rows[f] = answer.rows[f] /\ RowFits(rows[f], held[f], day) /\ Counts(rows[f])
    <2>1. rows[f] = answer.rows[f] BY <1>10
    <2>2. f \in Funds BY <1>8
    <2>3. RowFits(answer.rows[f], given.held[f], day) /\ Counts(answer.rows[f]) BY <1>8
    <2>4. given.held[f] \in Nat /\ held[f] \in Nat /\ given.held[f] <= held[f] /\ day \in Nat BY <1>4, <1>6, <2>2
    <2>5. answer.rows[f]["price"] \in Nat /\ answer.rows[f]["stage"] \in Nat /\ answer.rows[f]["yield"] \in Nat
          BY <2>3, ScreenerAssumption DEF RowFits, FIELDS
    <2> HIDE DEF held, rows, day
    <2>6. RowFits(answer.rows[f], held[f], day) BY <2>3, <2>4, <2>5 DEF RowFits
    <2> QED BY <2>1, <2>3, <2>6
  <1>11. DOMAIN rows = DOMAIN answer.rows \cup written OBVIOUS
  <1>12. \/ kept = rows
         \/ /\ full /\ live /\ ~batchFailed /\ ~E!Breaches(E!Cardinality(targets), failures)
            /\ kept = [f \in DOMAIN rows \cap given.universe |-> rows[f]]
    <2> HIDE DEF rows, failures
    <2> QED BY DEF E!Pruned, E!Keep
  <1>13. DOMAIN kept \subseteq DOMAIN rows /\ \A f \in DOMAIN kept : kept[f] = rows[f]
    <2> HIDE DEF rows, kept
    <2> QED BY <1>12
  <1>14. written \subseteq targets /\ written \subseteq Funds BY <1>9
  <1>15. mode # "dry" => \A f \in targets : f \in DOMAIN answer.rows => f \in written
         BY DEF E!WorthWriting
  <1>16. \A f \in Funds : /\ trend[f] = answer.trend[f] \/ trend[f] = held[f]
                          /\ close[f] = answer.close[f] \/ close[f] = day
         BY DEF E!StoredTrend, E!StoredClose
  <1>17. failures < E!Cardinality(targets) \/ E!Breaches(E!Cardinality(targets), failures)
    <2>1. IsFiniteSet(targets) BY <1>5, ScreenerAssumption, FS_Subset
    <2>2. IsFiniteSet({f \in targets : E!Failed(answers[f], live)}) BY <2>1, FS_Subset
    <2>3. failures \in Nat BY <2>2, FS_CardinalityType, SameCountE
    <2>4. E!Cardinality(targets) \in Nat /\ E!Cardinality(targets) # 0
          BY <2>1, <1>5, FS_CardinalityType, FS_EmptySet, SameCountE
    <2> HIDE DEF failures
    <2> QED BY <2>3, <2>4 DEF E!Breaches
  <1>18. run.mode = mode /\ run.targets = targets /\ run.answers = answers /\ run.failures = failures
         /\ run.batchFailed = batchFailed /\ run.signal = given.signal /\ run.before.rows = answer.rows
         /\ run.before.trend = answer.trend /\ run.before.close = answer.close
         OBVIOUS
  <1> HIDE DEF rows, kept, written, trend, close, run, failures, held, fields, old, departures, day
  <1>19. /\ answer'.rows = kept /\ answer'.trend = trend /\ answer'.close = close /\ answer'.run = run
         BY <1>2
  <1>20. mode # "none" BY <1>1
  <1>21. TablesFit'
    <2>1. DOMAIN kept \subseteq Funds BY <1>8, <1>11, <1>13, <1>14
    <2>2. ASSUME NEW f \in DOMAIN kept PROVE RowFits(kept[f], held[f], day) /\ Counts(kept[f])
      <3>1. f \in DOMAIN answer.rows \/ f \in written BY <1>11, <1>13
      <3> QED BY <3>1, <1>9, <1>10, <1>13
    <2>3. ASSUME NEW f \in Funds PROVE trend[f] \in 0 .. held[f] /\ close[f] \in 0 .. day
      <3>1. answer.trend[f] \in 0 .. given.held[f] /\ answer.close[f] \in 0 .. day BY <1>8
      <3>2. given.held[f] \in Nat /\ held[f] \in Nat /\ given.held[f] <= held[f] /\ day \in Nat BY <1>4, <1>6
      <3> QED BY <3>1, <3>2, <1>16
    <2> QED BY <2>1, <2>2, <2>3, <1>7, <1>19 DEF TablesFit
  <1>22. ASSUME NEW f \in DOMAIN kept \cap DOMAIN answer.rows
         PROVE \/ f \in written /\ Improves(kept[f], answer.rows[f], answers[f], given.signal[f])
               \/ f \notin written /\ kept[f] = answer.rows[f]
    BY <1>9, <1>10, <1>13
  <1>23. ASSUME NEW f \in DOMAIN answer.rows
         PROVE answer.rows[f]["price"] \in Nat /\ answer.rows[f]["stage"] \in Nat /\ answer.rows[f]["assets"] \in Nat
               /\ answer.rows[f]["yield"] \in Nat
    <2>1. RowFits(answer.rows[f], given.held[f], day) BY <1>8
    <2> QED BY <2>1, ScreenerAssumption DEF RowFits, FIELDS
  <1>24. E!ColumnsNeverGoBack'
    <2>1. ASSUME NEW f \in DOMAIN kept \cap DOMAIN answer.rows, NEW x \in {"price", "stage", "assets", "yield"}
          PROVE kept[f][x] >= answer.rows[f][x]
      <3>1. CASE kept[f] = answer.rows[f] BY <3>1, <1>23, <2>1
      <3>2. CASE Improves(kept[f], answer.rows[f], answers[f], given.signal[f]) BY <3>2, <2>1 DEF Improves
      <3> QED BY <3>1, <3>2, <1>22
    <2>2. ASSUME NEW f \in Funds PROVE trend[f] >= answer.trend[f] /\ close[f] >= answer.close[f]
      <3>1. answer.trend[f] \in 0 .. given.held[f] /\ answer.close[f] \in 0 .. day BY <1>8
      <3>2. given.held[f] \in Nat /\ held[f] \in Nat /\ given.held[f] <= held[f] /\ day \in Nat BY <1>4, <1>6
      <3> QED BY <3>1, <3>2, <1>16
    <2> QED BY <2>1, <2>2, <1>18, <1>19 DEF E!ColumnsNeverGoBack, E!Before
  <1>25. E!OutageKeepsName'
    <2>1. ASSUME NEW f \in DOMAIN kept \cap DOMAIN answer.rows, answer.rows[f].name = 1, answers[f].profile = "failed"
          PROVE kept[f].name = 1
      BY <2>1, <1>22 DEF Improves
    <2> QED BY <2>1, <1>18, <1>19 DEF E!OutageKeepsName, E!Before, E!FromProfile
  <1>26. E!SignalsFollowTables'
    <2>1. ASSUME NEW f \in DOMAIN kept PROVE \E x \in E!WRITABLE_FIELDS \ E!SIGNAL_FIELDS : kept[f][x] # E!NULL
      <3>1. Counts(kept[f]) BY <1>9, <1>10, <1>11, <1>13
      <3> QED BY <3>1 DEF Counts, Descriptive, FIELDS, E!WRITABLE_FIELDS, E!SIGNAL_FIELDS, E!NULL
    <2>2. ASSUME mode # "dry", NEW f \in targets \cap DOMAIN kept PROVE kept[f].signal = given.signal[f]
      <3>1. f \in written BY <2>2, <1>11, <1>13, <1>15
      <3> QED BY <3>1, <1>9, <1>13
    <2> QED BY <2>1, <2>2, <1>18, <1>19 DEF E!SignalsFollowTables
  <1>27. E!RowsAreLostOnPurpose'
    <2>1. ASSUME DOMAIN answer.rows \ DOMAIN kept # {}
          PROVE mode = "live" /\ ~batchFailed /\ failures < E!Cardinality(targets) /\ DOMAIN kept \subseteq targets
      <3>1. kept # rows BY <2>1, <1>11
      <3>2. /\ full /\ live /\ ~batchFailed /\ ~E!Breaches(E!Cardinality(targets), failures)
            /\ kept = [f \in DOMAIN rows \cap given.universe |-> rows[f]]
            BY <3>1, <1>12
      <3>3. DOMAIN kept \subseteq targets BY <3>2
      <3> QED BY <3>2, <3>3, <1>17
    <2> QED BY <2>1, <1>18, <1>19 DEF E!RowsAreLostOnPurpose, E!Before
  <1>28. E!ScreenerKeepsAnswers' BY <1>24, <1>25, <1>26, <1>27 DEF E!ScreenerKeepsAnswers
  <1> QED BY <1>7, <1>21, <1>28 DEF ScreenerInv

LEMMA NextScreenerInv == ScreenerInv /\ [Next]_vars => ScreenerInv'
  <1> SUFFICES ASSUME ScreenerInv, [Next]_vars PROVE ScreenerInv' OBVIOUS
  <1>1. CASE part = "screener" /\ part' = part /\ E!NextScreener
    <2>1. CASE E!RefreshEtfScreener BY <1>1, <2>1, RefreshStep
    <2>2. CASE E!UniverseChanges \/ E!SignalChanges \/ E!NextDay BY <1>1, <2>2, AroundStep
    <2> QED BY <1>1, <2>1, <2>2 DEF E!NextScreener
  <1>2. CASE part # "screener" /\ part' = part BY <1>2 DEF ScreenerInv
  <1>3. CASE UNCHANGED vars
    <2>1. part' = part /\ given' = given /\ answer' = answer BY <1>3 DEF vars
    <2> QED BY <2>1 DEF ScreenerInv, DeskHolds, TablesFit, E!ScreenerKeepsAnswers, E!ColumnsNeverGoBack,
           E!OutageKeepsName, E!SignalsFollowTables, E!RowsAreLostOnPurpose, E!Ran, E!Before
  <1>4. CASE Next
    <2>1. \/ part = "screener" /\ part' = part /\ E!NextScreener
          \/ part # "screener" /\ part' = part
      BY <1>4 DEF Next, DebtCard, RowCard, ValueCard, ProfitCard, FinancialsCard, WeeklyLists, ScorecardAnswer,
         StatementsRead, SignalNights, BreadthNights, BoardRuns, ScreenerRuns, MoatRuns
    <2> QED BY <2>1, <1>1, <1>2
  <1> QED BY <1>3, <1>4

(* The nightly ETF refresh keeps what earlier nights found: a source that    *)
(* fails never costs a column, an outage of the profile never swaps a name,  *)
(* an ended signal is cleared and no signal alone makes a row, and a row is  *)
(* deleted only by a live run over the whole universe that reached most of   *)
(* it - for any funds, answers, threshold and number of days.                *)
THEOREM ScreenerKeepsWhatItFound == Spec => []ScreenerHolds
  <1>1. ScreenerInv => ScreenerHolds
    <2> SUFFICES ASSUME ScreenerInv, part = "screener" PROVE E!ScreenerTypeOK /\ E!ScreenerKeepsAnswers
        BY DEF ScreenerHolds
    <2>1. DeskHolds /\ TablesFit /\ E!ScreenerKeepsAnswers BY DEF ScreenerInv
    <2>2. given.day \in 1 .. ScreenerDays /\ given.mishaps \in 0 .. ScreenerMishaps BY <2>1 DEF DeskHolds, Desks
    <2>3. \A f \in DOMAIN answer.rows : answer.rows[f] \in [E!WRITABLE_FIELDS -> 0 .. ScreenerDays]
          BY <2>1 DEF TablesFit, RowFits, FIELDS, E!WRITABLE_FIELDS, E!SIGNAL_FIELDS
    <2> QED BY <2>1, <2>2, <2>3 DEF E!ScreenerTypeOK
  <1> QED BY <1>1, InitScreenerInv, NextScreenerInv, PTL DEF Spec

-----------------------------------------------------------------------------
(***************************************************************************)
(* The moat check.                                                         *)
(***************************************************************************)

LEMMA SameCountK == \A set : K!Cardinality(set) = Cardinality(set)
  BY DEF K!Cardinality, Cardinality

\* Induction along 0 .. n.
LEMMA Climb ==
    ASSUME NEW n \in Nat, NEW good, 0 \in good,
           \A i \in 1 .. n : i - 1 \in good => i \in good
    PROVE \A i \in 0 .. n : i \in good
  <1> DEFINE bad == (0 .. n) \ good
             Less == OpToRel(<, Nat)
  <1>1. SUFFICES ASSUME bad # {} PROVE FALSE OBVIOUS
  <1>2. PICK m \in bad : \A d \in bad : ~ (d < m)
    <2>1. IsWellFoundedOn(Less, Nat) BY NatLessThanWellFounded
    <2>2. \A p, q \in Nat : p < q => <<p, q>> \in Less BY DEF OpToRel
    <2>3. bad \subseteq Nat OBVIOUS
    <2> HIDE DEF Less, bad
    <2>4. PICK m \in bad : \A d \in bad : ~ (<<d, m>> \in Less) BY <1>1, <2>1, <2>3, WFMin
    <2> QED BY <2>2, <2>3, <2>4, Zenon
  <1>3. m \in 1 .. n /\ m - 1 \in 0 .. n BY <1>2
  <1>4. m - 1 \notin bad BY <1>2, <1>3
  <1> QED BY <1>2, <1>3, <1>4

\* A greater peak, a deeper fall to the same close.
LEMMA Monotone ==
    ASSUME NEW a \in Nat, NEW p \in Nat \ {0}, NEW q \in Nat, p <= q
    PROVE a \div q <= a \div p
  <1> DEFINE x == a \div q
             y == a \div p
  <1>1. x \in Int /\ q * x <= a /\ a < q * x + q BY DivIs
  <1>2. y \in Int /\ p * y <= a /\ a < p * y + p BY DivIs
  <1> HIDE DEF x, y
  <1>3. x >= 0 BY <1>1, Z3
  <1>4. ASSUME y < x PROVE FALSE
    <2>1. p * x <= q * x BY <1>1, <1>3, Z3
    <2>2. p * (y + 1) <= p * x BY <1>1, <1>2, <1>4, Z3
    <2>3. p * (y + 1) = p * y + p BY <1>2, Z3
    <2>4. p * x \in Int /\ q * x \in Int /\ p * y \in Int BY <1>1, <1>2
    <2> QED BY ONLY <1>1, <1>2, <2>1, <2>2, <2>3, <2>4, a \in Nat, p \in Nat, q \in Nat
  <1> QED BY <1>1, <1>2, <1>4 DEF x, y

\* Closes, the falls between any two of them up to the k-th, and one pass over them.
IsCloses(closes) == Len(closes) \in Nat /\ \A i \in 1 .. Len(closes) : closes[i] \in Nat \ {0}
Fall(closes, i, j) == 60 - (60 * closes[j]) \div closes[i]
Walk(closes, seen, i) ==
    LET before == IF i = 1 THEN [peak |-> closes[1], fall |-> 0] ELSE seen[i - 1]
        peak == IF closes[i] > before.peak THEN closes[i] ELSE before.peak
        fall == 60 - (60 * closes[i]) \div peak
    IN [peak |-> peak, fall |-> IF fall > before.fall THEN fall ELSE before.fall]

LEMMA WalkExists ==
    ASSUME NEW closes, NEW n \in Nat
    PROVE \E seen : seen = [i \in 1 .. n |-> Walk(closes, seen, i)]
  <1> DEFINE good == {k \in 0 .. n : \E seen : seen = [i \in 1 .. k |-> Walk(closes, seen, i)]}
  <1>1. 0 \in good
    <2> DEFINE none == [i \in 1 .. 0 |-> 0]
    <2>1. none = [i \in 1 .. 0 |-> Walk(closes, none, i)] OBVIOUS
    <2>2. 0 \in 0 .. n OBVIOUS
    <2> HIDE DEF none
    <2> QED BY <2>1, <2>2
  <1>2. ASSUME NEW k \in 1 .. n, k - 1 \in good PROVE k \in good
    <2>1. PICK old : old = [i \in 1 .. k - 1 |-> Walk(closes, old, i)] BY <1>2
    <2> DEFINE new == [i \in 1 .. k |-> IF i = k THEN Walk(closes, old, k) ELSE old[i]]
    <2>2. ASSUME NEW i \in 1 .. k PROVE new[i] = Walk(closes, new, i)
      <3>1. new[i] = Walk(closes, old, i)
        <4>1. CASE i = k BY <4>1
        <4>2. CASE i # k
          <5>1. i \in 1 .. k - 1 BY <4>2
          <5>2. old[i] = Walk(closes, old, i) BY <2>1, <5>1
          <5> QED BY <4>2, <5>2
        <4> QED BY <4>1, <4>2
      <3>2. i # 1 => new[i - 1] = old[i - 1] OBVIOUS
      <3> HIDE DEF new
      <3> QED BY <3>1, <3>2 DEF Walk
    <2>3. new = [i \in 1 .. k |-> new[i]] OBVIOUS
    <2> HIDE DEF new
    <2>4. new = [i \in 1 .. k |-> Walk(closes, new, i)] BY <2>2, <2>3
    <2>5. k \in 0 .. n OBVIOUS
    <2> QED BY <2>4, <2>5
  <1> HIDE DEF good
  <1>3. \A i \in 0 .. n : i \in good BY ONLY <1>1, <1>2, Climb, n \in Nat
  <1>4. n \in good BY <1>3
  <1> QED BY <1>4 DEF good

\* What one pass has seen up to the k-th close.
SeenUpto(closes, s, k) ==
    /\ \E m \in 1 .. k : s.peak = closes[m] /\ \A i \in 1 .. k : closes[i] <= s.peak
    /\ \E i \in 1 .. k, j \in 1 .. k : i <= j /\ s.fall = Fall(closes, i, j)
    /\ \A i \in 1 .. k, j \in 1 .. k : i <= j => Fall(closes, i, j) <= s.fall

LEMMA FallIsInt ==
    ASSUME NEW closes, IsCloses(closes), NEW i \in 1 .. Len(closes), NEW j \in 1 .. Len(closes)
    PROVE Fall(closes, i, j) \in Int
  <1>1. closes[i] \in Nat \ {0} /\ 60 * closes[j] \in Int BY DEF IsCloses
  <1> HIDE DEF IsCloses
  <1> QED BY <1>1, DivIs DEF Fall

LEMMA FirstSeen ==
    ASSUME NEW closes, IsCloses(closes), 1 <= Len(closes), NEW seen
    PROVE SeenUpto(closes, Walk(closes, seen, 1), 1)
  <1> DEFINE c == closes[1]
  <1>1. c \in Nat \ {0} BY DEF IsCloses
  <1>2. (60 * c) \div c = 60
    <2>1. 60 * c \in Int BY <1>1
    <2> DEFINE x == (60 * c) \div c
    <2>2. x \in Int /\ c * x <= 60 * c /\ 60 * c < c * x + c BY <1>1, <2>1, DivIs
    <2> HIDE DEF c, x
    <2>3. x <= 60 BY <1>1, <2>2, Z3
    <2>4. x >= 60 BY <1>1, <2>2, Z3
    <2> QED BY <2>2, <2>3, <2>4 DEF x
  <1>3. Walk(closes, seen, 1) = [peak |-> c, fall |-> 0]
    <2> HIDE DEF c
    <2>1. ~(c > c) BY <1>1
    <2> QED BY <1>2, <2>1 DEF Walk, c
  <1>4. Fall(closes, 1, 1) = 0 BY <1>2 DEF Fall
  <1> QED BY <1>1, <1>3, <1>4 DEF SeenUpto

LEMMA NextSeen ==
    ASSUME NEW closes, IsCloses(closes), NEW k \in 2 .. Len(closes), NEW seen, SeenUpto(closes, seen[k - 1], k - 1)
    PROVE SeenUpto(closes, Walk(closes, seen, k), k)
  <1> DEFINE b == seen[k - 1]
             c == closes[k]
             peak == IF c > b.peak THEN c ELSE b.peak
             fall == 60 - (60 * c) \div peak
             a == [peak |-> peak, fall |-> IF fall > b.fall THEN fall ELSE b.fall]
  <1>1. Walk(closes, seen, k) = a BY DEF Walk
  <1>2. c \in Nat \ {0} /\ Len(closes) \in Nat /\ \A i \in 1 .. Len(closes) : closes[i] \in Nat \ {0} BY DEF IsCloses
  <1>3. PICK m \in 1 .. k - 1 : b.peak = closes[m] /\ \A i \in 1 .. k - 1 : closes[i] <= b.peak BY DEF SeenUpto
  <1>4. PICK p \in 1 .. k : peak = closes[p] /\ \A i \in 1 .. k : closes[i] <= peak
    <2>1. b.peak \in Nat BY <1>2, <1>3
    <2>2. CASE c > b.peak
      <3>1. \A i \in 1 .. k : closes[i] <= c
        <4>1. \A i \in 1 .. k - 1 : closes[i] \in Nat /\ closes[i] <= b.peak BY <1>2, <1>3
        <4>2. \A i \in 1 .. k : i = k \/ i \in 1 .. k - 1 OBVIOUS
        <4> HIDE DEF b
        <4> QED BY <1>2, <2>1, <2>2, <4>1, <4>2
      <3>2. peak = c /\ k \in 1 .. k BY <2>2
      <3> QED BY <3>1, <3>2
    <2>3. CASE ~(c > b.peak) BY <1>2, <1>3, <2>1, <2>3
    <2> QED BY <2>2, <2>3
  <1>5. fall = Fall(closes, p, k) BY <1>4 DEF Fall
  <1>6. PICK i0 \in 1 .. k - 1, j0 \in 1 .. k - 1 : i0 <= j0 /\ b.fall = Fall(closes, i0, j0) BY DEF SeenUpto
  <1>7. \A i \in 1 .. k - 1, j \in 1 .. k - 1 : i <= j => Fall(closes, i, j) <= b.fall BY DEF SeenUpto
  <1>8. fall \in Int /\ b.fall \in Int
    <2>1. \A i, j \in 1 .. k : Fall(closes, i, j) \in Int BY FallIsInt, <1>2
    <2> HIDE DEF fall, b
    <2> QED BY <2>1, <1>5, <1>6
  <1>9. ASSUME NEW i \in 1 .. k PROVE Fall(closes, i, k) <= fall
    <2>1. closes[i] \in Nat \ {0} /\ closes[i] <= peak /\ peak \in Nat BY <1>2, <1>4
    <2>2. 60 * c \in Nat BY <1>2
    <2> HIDE DEF c, peak
    <2>3. (60 * c) \div peak <= (60 * c) \div closes[i] BY <2>1, <2>2, Monotone
    <2>4. peak \in Nat \ {0} BY <2>1
    <2>5. (60 * c) \div peak \in Int BY <2>2, <2>4, DivIs
    <2>6. (60 * c) \div closes[i] \in Int BY <2>1, <2>2, DivIs
    <2> QED BY <2>3, <2>5, <2>6 DEF Fall, c, fall
  <1> HIDE DEF peak, fall, c, b
  <1>10. \E i \in 1 .. k, j \in 1 .. k : i <= j /\ a.fall = Fall(closes, i, j)
    <2>1. CASE fall > b.fall BY <2>1, <1>5
    <2>2. CASE ~(fall > b.fall) BY <2>2, <1>6
    <2> QED BY <2>1, <2>2
  <1>11. ASSUME NEW i \in 1 .. k, NEW j \in 1 .. k, i <= j PROVE Fall(closes, i, j) <= a.fall
    <2>1. Fall(closes, i, j) \in Int BY FallIsInt, <1>2
    <2>2. CASE j = k BY <2>1, <2>2, <1>8, <1>9
    <2>3. CASE j # k BY <2>1, <2>3, <1>7, <1>8, <1>11
    <2> QED BY <2>2, <2>3
  <1>12. a.peak = peak OBVIOUS
  <1> HIDE DEF a
  <1> QED BY <1>1, <1>4, <1>10, <1>11, <1>12 DEF SeenUpto

LEMMA ChartIs ==
    ASSUME NEW closes, IsCloses(closes), 1 <= Len(closes)
    PROVE SeenUpto(closes, K!DescribeChart(closes), Len(closes))
  <1> DEFINE n == Len(closes)
             seen == CHOOSE s : s = [i \in 1 .. n |-> Walk(closes, s, i)]
  <1>1. K!DescribeChart(closes) = seen[n] BY DEF K!DescribeChart, Walk
  <1>2. n \in Nat /\ n >= 1 BY DEF IsCloses
  <1>3. seen = [i \in 1 .. n |-> Walk(closes, seen, i)]
    <2> HIDE DEF n
    <2>1. \E s : s = [i \in 1 .. n |-> Walk(closes, s, i)] BY <1>2, WalkExists
    <2> QED BY <2>1
  <1> DEFINE good == {k \in 0 .. n : k = 0 \/ SeenUpto(closes, seen[k], k)}
  <1> HIDE DEF seen
  <1>4. ASSUME NEW k \in 1 .. n, k - 1 \in good PROVE k \in good
    <2>1. seen[k] = Walk(closes, seen, k) BY <1>3
    <2>2. CASE k = 1 BY <2>1, <2>2, <1>2, FirstSeen
    <2>3. CASE k # 1
      <3>1. SeenUpto(closes, seen[k - 1], k - 1) /\ k \in 2 .. Len(closes) BY <1>4, <2>3
      <3>2. SeenUpto(closes, seen[k], k) BY <3>1, <2>1, NextSeen
      <3> QED BY <3>2
    <2> QED BY <2>2, <2>3
  <1>5. 0 \in good BY <1>2
  <1>6. \A i \in 0 .. n : i \in good
    <2> HIDE DEF good, n
    <2> QED BY ONLY <1>2, <1>4, <1>5, Climb
  <1>7. n \in good BY <1>2, <1>6
  <1> QED BY <1>1, <1>2, <1>7
-----------------------------------------------------------------------------
(* Two passes and the row they come to. *)

Words == {"Low", "Medium", "High"}
Levels == {"Low", "Moderate", "High"}

LEMMA Ranks ==
    /\ K!Rank("Low", K!CONFIDENCES) = 1 /\ K!Rank("Medium", K!CONFIDENCES) = 2 /\ K!Rank("High", K!CONFIDENCES) = 3
    /\ K!Rank("Low", K!LEVELS) = 1 /\ K!Rank("Moderate", K!LEVELS) = 2 /\ K!Rank("High", K!LEVELS) = 3
  <1>1. DOMAIN K!CONFIDENCES = 1 .. 3 /\ DOMAIN K!LEVELS = 1 .. 3 BY DEF K!CONFIDENCES, K!LEVELS
  <1>2. K!CONFIDENCES[1] = "Low" /\ K!CONFIDENCES[2] = "Medium" /\ K!CONFIDENCES[3] = "High" BY DEF K!CONFIDENCES
  <1>3. K!LEVELS[1] = "Low" /\ K!LEVELS[2] = "Moderate" /\ K!LEVELS[3] = "High" BY DEF K!LEVELS
  <1>4. \A i \in 1 .. 3 : i = 1 \/ i = 2 \/ i = 3 OBVIOUS
  <1>5. K!Rank("Low", K!CONFIDENCES) = 1 BY <1>1, <1>2, <1>4 DEF K!Rank
  <1>6. K!Rank("Medium", K!CONFIDENCES) = 2 BY <1>1, <1>2, <1>4 DEF K!Rank
  <1>7. K!Rank("High", K!CONFIDENCES) = 3 BY <1>1, <1>2, <1>4 DEF K!Rank
  <1>8. K!Rank("Low", K!LEVELS) = 1 BY <1>1, <1>3, <1>4 DEF K!Rank
  <1>9. K!Rank("Moderate", K!LEVELS) = 2 BY <1>1, <1>3, <1>4 DEF K!Rank
  <1>10. K!Rank("High", K!LEVELS) = 3 BY <1>1, <1>3, <1>4 DEF K!Rank
  <1> QED BY <1>5, <1>6, <1>7, <1>8, <1>9, <1>10

LEMMA LowestIs ==
    ASSUME NEW a \in Words, NEW b \in Words
    PROVE LET low == K!Lowest({a, b}, K!CONFIDENCES)
          IN /\ low \in {a, b}
             /\ K!Rank(low, K!CONFIDENCES) <= K!Rank(a, K!CONFIDENCES)
             /\ K!Rank(low, K!CONFIDENCES) <= K!Rank(b, K!CONFIDENCES)
             /\ a = "Low" \/ b = "Low" => low = "Low"
  <1> DEFINE rank(w) == K!Rank(w, K!CONFIDENCES)
             low == K!Lowest({a, b}, K!CONFIDENCES)
  <1>1. rank("Low") = 1 /\ rank("Medium") = 2 /\ rank("High") = 3 BY Ranks
  <1>2. low = CHOOSE x \in {a, b} : \A y \in {a, b} : rank(x) <= rank(y) BY DEF K!Lowest
  <1> HIDE DEF rank, low
  <1>3. \E x \in {a, b} : \A y \in {a, b} : rank(x) <= rank(y) BY <1>1 DEF Words
  <1>4. low \in {a, b} /\ \A y \in {a, b} : rank(low) <= rank(y) BY <1>2, <1>3
  <1>5. a = "Low" \/ b = "Low" => low = "Low" BY <1>1, <1>4 DEF Words
  <1> QED BY <1>4, <1>5 DEF rank, low

LEMMA HighestIs ==
    ASSUME NEW set \in SUBSET Levels, set # {}
    PROVE LET high == K!Highest(set, K!LEVELS)
          IN high \in set /\ \A level \in set : K!Rank(level, K!LEVELS) <= K!Rank(high, K!LEVELS)
  <1> DEFINE rank(w) == K!Rank(w, K!LEVELS)
             high == K!Highest(set, K!LEVELS)
  <1>1. rank("Low") = 1 /\ rank("Moderate") = 2 /\ rank("High") = 3 BY Ranks
  <1>2. high = CHOOSE x \in set : \A y \in set : rank(y) <= rank(x) BY DEF K!Highest
  <1> HIDE DEF rank, high
  <1>3. \A y \in set : rank(y) \in 1 .. 3 BY <1>1 DEF Levels
  <1>4. \E x \in set : \A y \in set : rank(y) <= rank(x)
    <2>1. CASE "High" \in set BY <2>1, <1>1, <1>3
    <2>2. CASE "High" \notin set /\ "Moderate" \in set BY <2>2, <1>1 DEF Levels
    <2>3. CASE "High" \notin set /\ "Moderate" \notin set
      <3>1. \A y \in set : y = "Low" BY <2>3 DEF Levels
      <3>2. PICK x \in set : TRUE OBVIOUS
      <3>3. \A y \in set : rank(y) <= rank(x) BY <3>1, <3>2, <1>1
      <3> QED BY <3>2, <3>3
    <2> QED BY <2>1, <2>2, <2>3
  <1> QED BY <1>2, <1>4 DEF rank, high

IsRecord(p) ==
    /\ "threat" \in DOMAIN p /\ "confidence" \in DOMAIN p
    /\ p.confidence \in Words /\ p.threats \in SUBSET Levels /\ p.fact \in BOOLEAN

\* What a row claims of the passes it was saved from.
ClaimsNoMore(row, pass1, pass2) ==
    /\ row.rating # "none" => {pass1.rating, pass2.rating} = {row.rating}
    /\ \A p \in {pass1, pass2} :
           /\ K!Rank(row.confidence, K!CONFIDENCES) <= K!Rank(p.confidence, K!CONFIDENCES)
           /\ p.basis = "company_reported_only" => row.confidence = "Low" /\ row.basis = p.basis
           /\ p.rating # row.rating => row.confidence = "Low" /\ row.threat = "none"

Gravest(row, pass1) ==
    row.status = "stable" =>
        /\ \A level \in pass1.threats : K!Rank(level, K!LEVELS) <= K!Rank(row.threat, K!LEVELS)
        /\ row.threat = "Low" \/ row.threat \in pass1.threats

LEMMA CorrectedIs ==
    ASSUME NEW p, IsRecord(p)
    PROVE LET c == K!Corrected(p)
          IN /\ c.rating = p.rating /\ c.basis = p.basis
             /\ c.confidence \in Words
             /\ K!Rank(c.confidence, K!CONFIDENCES) <= K!Rank(p.confidence, K!CONFIDENCES)
             /\ p.basis = "company_reported_only" => c.confidence = "Low"
             /\ c.threat \in Levels
             /\ \A level \in p.threats : K!Rank(level, K!LEVELS) <= K!Rank(c.threat, K!LEVELS)
             /\ c.threat = "Low" \/ c.threat \in p.threats
  <1> DEFINE c == K!Corrected(p)
             grave == IF p.threats = {} THEN "Low" ELSE K!Highest(p.threats, K!LEVELS)
             sure == IF p.basis = "company_reported_only" THEN "Low" ELSE p.confidence
  <1>1. c = [p EXCEPT !.threat = grave, !.confidence = sure] BY DEF K!Corrected
  <1>2. p.confidence \in Words /\ p.threats \in SUBSET Levels BY DEF IsRecord
  <1>3. /\ grave \in Levels /\ (grave = "Low" \/ grave \in p.threats)
        /\ \A level \in p.threats : K!Rank(level, K!LEVELS) <= K!Rank(grave, K!LEVELS)
    <2>1. CASE p.threats = {} BY <2>1 DEF Levels
    <2>2. CASE p.threats # {}
      <3>1. grave \in p.threats /\ \A level \in p.threats : K!Rank(level, K!LEVELS) <= K!Rank(grave, K!LEVELS)
            BY <2>2, <1>2, HighestIs
      <3> QED BY <3>1, <1>2
    <2> QED BY <2>1, <2>2
  <1>4. sure \in Words /\ K!Rank(sure, K!CONFIDENCES) <= K!Rank(p.confidence, K!CONFIDENCES)
        /\ (p.basis = "company_reported_only" => sure = "Low")
        BY <1>2, Ranks DEF Words
  <1> HIDE DEF grave, sure
  <1>5. c.threat = grave /\ c.confidence = sure /\ c.rating = p.rating /\ c.basis = p.basis BY <1>1 DEF IsRecord
  <1> HIDE DEF c
  <1>6. /\ c.confidence \in Words /\ K!Rank(c.confidence, K!CONFIDENCES) <= K!Rank(p.confidence, K!CONFIDENCES)
        /\ (p.basis = "company_reported_only" => c.confidence = "Low")
        BY <1>4, <1>5
  <1>7. /\ c.threat \in Levels /\ (c.threat = "Low" \/ c.threat \in p.threats)
        /\ \A level \in p.threats : K!Rank(level, K!LEVELS) <= K!Rank(c.threat, K!LEVELS)
        BY <1>3, <1>5
  <1> QED BY <1>5, <1>6, <1>7 DEF c

LEMMA RankedWords == \A w \in Words : K!Rank(w, K!CONFIDENCES) \in 1 .. 3
  BY Ranks DEF Words

LEMMA Reconciled ==
    ASSUME NEW pass1, NEW pass2, IsRecord(pass1), IsRecord(pass2)
    PROVE LET m == K!Reconcile(K!Corrected(pass1), K!Corrected(pass2))
          IN ClaimsNoMore(m, pass1, pass2) /\ Gravest(m, pass1) /\ m.confidence \in Words /\ m.threat \in Levels \cup {"none"}
  <1> DEFINE a == K!Corrected(pass1)
             b == K!Corrected(pass2)
             m == K!Reconcile(a, b)
             rank(w) == K!Rank(w, K!CONFIDENCES)
  <1>1. /\ a.rating = pass1.rating /\ a.basis = pass1.basis /\ a.confidence \in Words /\ rank(a.confidence) <= rank(pass1.confidence)
        /\ (pass1.basis = "company_reported_only" => a.confidence = "Low") /\ a.threat \in Levels
        BY CorrectedIs
  <1>2. /\ b.rating = pass2.rating /\ b.basis = pass2.basis /\ b.confidence \in Words /\ rank(b.confidence) <= rank(pass2.confidence)
        /\ (pass2.basis = "company_reported_only" => b.confidence = "Low")
        BY CorrectedIs
  <1>3. /\ \A level \in pass1.threats : K!Rank(level, K!LEVELS) <= K!Rank(a.threat, K!LEVELS)
        /\ a.threat = "Low" \/ a.threat \in pass1.threats
        BY CorrectedIs
  <1> DEFINE low == K!Lowest({a.confidence, b.confidence}, K!CONFIDENCES)
  <1>4. /\ low \in Words /\ rank(low) <= rank(a.confidence) /\ rank(low) <= rank(b.confidence)
        /\ (a.confidence = "Low" \/ b.confidence = "Low" => low = "Low")
        BY <1>1, <1>2, LowestIs
  <1>5. /\ m.status = (IF a.rating = b.rating THEN "stable" ELSE "inconclusive")
        /\ m.rating = (IF a.rating = b.rating THEN a.rating ELSE "none")
        /\ m.confidence = (IF a.rating = b.rating THEN low ELSE "Low")
        /\ m.basis = (IF "company_reported_only" \in {a.basis, b.basis} THEN "company_reported_only" ELSE "independent")
        /\ m.threat = (IF a.rating = b.rating THEN a.threat ELSE "none")
        BY DEF K!Reconcile
  <1>6. /\ pass1.confidence \in Words /\ pass2.confidence \in Words BY DEF IsRecord
  <1>7. \A w \in Words : rank(w) \in 1 .. 3 BY RankedWords
  <1>8. rank("Low") = 1 BY Ranks
  <1> HIDE DEF a, b, m, low, rank
  <1>9. m.confidence \in Words /\ m.threat \in Levels \cup {"none"} BY <1>1, <1>4, <1>5 DEF Words
  <1>10. rank(m.confidence) <= rank(pass1.confidence) /\ rank(m.confidence) <= rank(pass2.confidence)
    <2>1. CASE a.rating = b.rating
      <3>1. m.confidence = low BY <1>5, <2>1
      <3>2. /\ rank(low) \in Int /\ rank(a.confidence) \in Int /\ rank(b.confidence) \in Int
            /\ rank(pass1.confidence) \in Int /\ rank(pass2.confidence) \in Int
            BY <1>1, <1>2, <1>4, <1>6, <1>7
      <3> QED BY <3>1, <3>2, <1>1, <1>2, <1>4
    <2>2. CASE a.rating # b.rating
      <3>1. m.confidence = "Low" BY <1>5, <2>2
      <3>2. rank(pass1.confidence) \in 1 .. 3 /\ rank(pass2.confidence) \in 1 .. 3 BY <1>6, <1>7
      <3> QED BY <3>1, <3>2, <1>8
    <2> QED BY <2>1, <2>2
  <1>11. ASSUME NEW p \in {pass1, pass2}
         PROVE /\ p.basis = "company_reported_only" => m.confidence = "Low" /\ m.basis = p.basis
               /\ p.rating # m.rating => m.confidence = "Low" /\ m.threat = "none"
    BY <1>1, <1>2, <1>4, <1>5
  <1>12. m.rating # "none" => {pass1.rating, pass2.rating} = {m.rating} BY <1>1, <1>2, <1>5
  <1>13. ClaimsNoMore(m, pass1, pass2) BY <1>10, <1>11, <1>12 DEF ClaimsNoMore, rank
  <1>14. Gravest(m, pass1) BY <1>3, <1>5 DEF Gravest
  <1> QED BY <1>9, <1>13, <1>14 DEF m, a, b
-----------------------------------------------------------------------------
(* The folders, the rows, and what a row was saved from. *)

FolderFits(f, known) ==
    /\ f = [ticker |-> f.ticker, made |-> f.made, run |-> f.run, version |-> f.version, block |-> f.block, passes |-> f.passes]
    /\ f.passes = [i \in 1 .. 2 |-> f.passes[i]]
    /\ \A i \in 1 .. 2 : f.passes[i] = K!NoRecord \/ IsRecord(f.passes[i])
    /\ f.ticker \in DOMAIN known /\ ~K!BlockRefused(known[f.ticker]) /\ f.block = K!BuildBlock(known[f.ticker])

BenchHolds ==
    /\ given = [hour |-> given.hour, version |-> given.version, runs |-> given.runs, mishaps |-> given.mishaps,
                folders |-> given.folders, funds |-> given.funds, cached |-> given.cached]
    /\ given.hour \in 1 .. MoatHours /\ given.mishaps \in 0 .. MoatMishaps
    /\ given.cached \in MoatCompanies
    /\ \A f \in given.folders : FolderFits(f, given.cached)

IsNewest(r, ticker, rows) ==
    /\ r.ticker = ticker
    /\ \A s \in rows : s.ticker = ticker => s.checkedAt < r.checkedAt \/ (s.checkedAt = r.checkedAt /\ s.id <= r.id)

RowsFit(rows, hour) ==
    /\ IsFiniteSet(rows)
    /\ \A r \in rows : /\ r.id \in 1 .. Cardinality(rows) /\ r.checkedAt \in 1 .. hour
                       /\ r.confidence \in Words /\ r.threat \in Levels \cup {"none"}
    /\ \A r, s \in rows : r.id = s.id => r = s
    /\ \A r \in rows : \E n \in rows : IsNewest(n, r.ticker, rows)

EntryHolds(e, rows, known) ==
    /\ ClaimsNoMore(e.row, e.pass1, e.pass2) /\ Gravest(e.row, e.pass1)
    /\ e.row \in rows
    /\ \A p \in {e.pass1, e.pass2} : p.ticker = e.row.ticker /\ p.version = e.row.version /\ p.shape /\ (p.source # "unproven" => p.fact)
    /\ ~K!BlockRefused(known[e.row.ticker])

MoatInv ==
    part = "moat" =>
        /\ BenchHolds
        /\ RowsFit(answer.rows, given.hour)
        /\ \A e \in answer.saved : EntryHolds(e, answer.rows, given.cached)

LEMMA InitMoatInv == Init => MoatInv
  <1> SUFFICES ASSUME Init, part = "moat"
               PROVE BenchHolds /\ RowsFit(answer.rows, given.hour) /\ \A e \in answer.saved : EntryHolds(e, answer.rows, given.cached)
      BY DEF MoatInv
  <1>1. PICK c \in MoatCompanies :
            given = [hour |-> 1, version |-> 1, runs |-> 0, mishaps |-> MoatMishaps, folders |-> {}, funds |-> {}, cached |-> c]
        BY DEF Init, K!InitMoat
  <1>2. answer = [rows |-> {}, saved |-> {}] BY DEF Init, K!InitMoat
  <1>3. BenchHolds BY <1>1, MoatAssumption DEF BenchHolds
  <1>4. RowsFit({}, given.hour) BY FS_EmptySet DEF RowsFit
  <1> QED BY <1>2, <1>3, <1>4

\* Whatever leaves the rows alone.
LEMMA RowsLeft ==
    ASSUME MoatInv, part = "moat", part' = part, answer' = answer, BenchHolds',
           given'.cached = given.cached, given.hour <= given'.hour
    PROVE MoatInv'
  <1>1. BenchHolds /\ RowsFit(answer.rows, given.hour) /\ \A e \in answer.saved : EntryHolds(e, answer.rows, given.cached) BY DEF MoatInv
  <1>2. given.hour \in Int /\ given'.hour \in Int BY <1>1, MoatAssumption DEF BenchHolds
  <1>3. RowsFit(answer.rows, given'.hour) BY <1>1, <1>2 DEF RowsFit
  <1> QED BY <1>1, <1>3 DEF MoatInv

LEMMA PrepareStep ==
    ASSUME MoatInv, part = "moat", part' = part,
           NEW ticker \in DOMAIN given.cached, NEW probeOk \in BOOLEAN, K!Prepare(ticker, probeOk)
    PROVE MoatInv'
  <1> DEFINE made == [ticker |-> ticker, made |-> given.hour, run |-> given.runs + 1, version |-> given.version,
                      block |-> K!BuildBlock(given.cached[ticker]), passes |-> <<K!NoRecord, K!NoRecord>>]
             kept == K!Sweep(given.folders)
             folders == IF K!BlockRefused(given.cached[ticker]) \/ ~probeOk THEN kept ELSE kept \cup {made}
             mishaps == IF probeOk THEN given.mishaps ELSE given.mishaps - 1
  <1>1. BenchHolds BY DEF MoatInv
  <1>2. /\ given' = [given EXCEPT !.runs = given.runs + 1, !.mishaps = mishaps, !.folders = folders]
        /\ answer' = answer /\ (probeOk \/ given.mishaps > 0)
        BY Zenon DEF K!Prepare
  <1>3. kept \subseteq given.folders BY DEF K!Sweep
  <1>4. ASSUME NEW f \in folders PROVE FolderFits(f, given.cached)
    <2>1. CASE f \in kept BY <2>1, <1>1, <1>3 DEF BenchHolds
    <2>2. CASE f \notin kept
      <3>1. f = made /\ ~K!BlockRefused(given.cached[ticker]) BY <2>2
      <3>2. made.passes = [i \in 1 .. 2 |-> K!NoRecord] OBVIOUS
      <3>3. /\ made.ticker = ticker /\ made.block = K!BuildBlock(given.cached[ticker])
            /\ made = [ticker |-> made.ticker, made |-> made.made, run |-> made.run, version |-> made.version,
                       block |-> made.block, passes |-> made.passes]
            OBVIOUS
      <3> HIDE DEF made
      <3>4. made.passes = [i \in 1 .. 2 |-> made.passes[i]] /\ \A i \in 1 .. 2 : made.passes[i] = K!NoRecord BY <3>2
      <3>5. FolderFits(made, given.cached) BY <3>1, <3>3, <3>4 DEF FolderFits
      <3> QED BY <3>1, <3>5
    <2> QED BY <2>1, <2>2
  <1>5. mishaps \in 0 .. MoatMishaps BY <1>1, <1>2, MoatAssumption DEF BenchHolds
  <1> HIDE DEF folders, mishaps
  <1>6. /\ given' = [hour |-> given.hour, version |-> given.version, runs |-> given.runs + 1, mishaps |-> mishaps,
                     folders |-> folders, funds |-> given.funds, cached |-> given.cached]
        BY <1>1, <1>2 DEF BenchHolds
  <1>7. BenchHolds' BY <1>1, <1>4, <1>5, <1>6 DEF BenchHolds
  <1>8. given.hour \in Int BY <1>1, MoatAssumption DEF BenchHolds
  <1> QED BY <1>2, <1>6, <1>7, <1>8, RowsLeft

LEMMA PassStep ==
    ASSUME MoatInv, part = "moat", part' = part,
           NEW f \in given.folders, NEW number \in 1 .. 2, NEW judgement \in MoatJudgements, K!Pass(f, number, judgement)
    PROVE MoatInv'
  <1> DEFINE record == [judgement EXCEPT !.ticker = f.ticker, !.version = f.version, !.run = f.run, !.number = number]
             filled == [f EXCEPT !.passes[number] = record]
             folders == (given.folders \ {f}) \cup {filled}
             mishaps == IF K!WellFormed(judgement) THEN given.mishaps ELSE given.mishaps - 1
  <1>1. BenchHolds BY DEF MoatInv
  <1>2. /\ given' = [given EXCEPT !.mishaps = mishaps, !.folders = folders]
        /\ answer' = answer /\ (K!WellFormed(judgement) \/ given.mishaps > 0)
        BY Zenon DEF K!Pass
  <1>3. FolderFits(f, given.cached) BY <1>1 DEF BenchHolds
  <1>4. IsRecord(record)
    <2>1. /\ "threat" \in DOMAIN judgement /\ "confidence" \in DOMAIN judgement
          /\ judgement.confidence \in Words /\ judgement.threats \in SUBSET Levels /\ judgement.fact \in BOOLEAN
          BY MoatAssumption DEF Words, Levels
    <2>2. /\ DOMAIN record = DOMAIN judgement
          /\ record.confidence = judgement.confidence /\ record.threats = judgement.threats /\ record.fact = judgement.fact
          OBVIOUS
    <2> HIDE DEF record
    <2> QED BY <2>1, <2>2 DEF IsRecord
  <1> HIDE DEF record
  <1>5. FolderFits(filled, given.cached)
    <2>1. filled = [ticker |-> f.ticker, made |-> f.made, run |-> f.run, version |-> f.version, block |-> f.block,
                    passes |-> [f.passes EXCEPT ![number] = record]]
          BY <1>3 DEF FolderFits
    <2> DEFINE passes == [f.passes EXCEPT ![number] = record]
    <2>2. passes = [i \in 1 .. 2 |-> passes[i]] BY <1>3 DEF FolderFits
    <2>3. ASSUME NEW i \in 1 .. 2 PROVE passes[i] = K!NoRecord \/ IsRecord(passes[i])
      <3>1. passes[i] = IF i = number THEN record ELSE f.passes[i] BY <1>3 DEF FolderFits
      <3> HIDE DEF passes
      <3> QED BY <3>1, <1>3, <1>4 DEF FolderFits
    <2> HIDE DEF passes, filled
    <2>4. filled = [ticker |-> f.ticker, made |-> f.made, run |-> f.run, version |-> f.version, block |-> f.block, passes |-> passes]
          BY <2>1 DEF passes
    <2>5. filled.ticker = f.ticker /\ filled.block = f.block /\ filled.passes = passes
          /\ filled = [ticker |-> filled.ticker, made |-> filled.made, run |-> filled.run, version |-> filled.version,
                       block |-> filled.block, passes |-> filled.passes]
          BY <2>4
    <2> QED BY <2>2, <2>3, <2>5, <1>3 DEF FolderFits
  <1> HIDE DEF filled
  <1>6. \A g \in folders : FolderFits(g, given.cached) BY <1>1, <1>5 DEF BenchHolds
  <1>7. mishaps \in 0 .. MoatMishaps BY <1>1, <1>2, MoatAssumption DEF BenchHolds
  <1> HIDE DEF folders, mishaps
  <1>8. given' = [hour |-> given.hour, version |-> given.version, runs |-> given.runs, mishaps |-> mishaps,
                  folders |-> folders, funds |-> given.funds, cached |-> given.cached]
        BY <1>1, <1>2 DEF BenchHolds
  <1>9. BenchHolds' BY <1>1, <1>6, <1>7, <1>8 DEF BenchHolds
  <1>10. given.hour \in Int BY <1>1, MoatAssumption DEF BenchHolds
  <1> QED BY <1>2, <1>8, <1>9, <1>10, RowsLeft

LEMMA RowAppended ==
    ASSUME NEW rows, NEW hour \in Nat \ {0}, RowsFit(rows, hour),
           NEW row, row.id = Cardinality(rows) + 1, row.checkedAt = hour, row.confidence \in Words, row.threat \in Levels \cup {"none"}
    PROVE RowsFit(rows \cup {row}, hour)
  <1> DEFINE all == rows \cup {row}
             count == Cardinality(rows)
  <1>1. IsFiniteSet(rows) /\ count \in Nat BY FS_CardinalityType DEF RowsFit
  <1>2. \A r \in rows : r.id \in 1 .. count /\ r.checkedAt \in 1 .. hour /\ r.confidence \in Words /\ r.threat \in Levels \cup {"none"}
        BY DEF RowsFit
  <1>3. row.id = count + 1 OBVIOUS
  <1>4. row \notin rows BY <1>1, <1>2, <1>3
  <1>5. IsFiniteSet(all) /\ Cardinality(all) = count + 1 BY <1>1, <1>4, FS_AddElement
  <1> HIDE DEF count
  <1>6. ASSUME NEW r \in all
        PROVE r.id \in 1 .. count + 1 /\ r.checkedAt \in 1 .. hour /\ r.confidence \in Words /\ r.threat \in Levels \cup {"none"}
    <2>1. CASE r \in rows BY <2>1, <1>1, <1>2
    <2>2. CASE r = row BY <2>2, <1>1, <1>3
    <2> QED BY <2>1, <2>2
  <1>7. ASSUME NEW r \in all, NEW s \in all, r.id = s.id PROVE r = s
    <2>1. CASE r \in rows /\ s \in rows BY <2>1, <1>7 DEF RowsFit
    <2>2. CASE r \in rows /\ s = row BY <2>2, <1>1, <1>2, <1>3, <1>7
    <2>3. CASE r = row /\ s \in rows BY <2>3, <1>1, <1>2, <1>3, <1>7
    <2> QED BY <2>1, <2>2, <2>3
  <1>8. ASSUME NEW s \in all PROVE s.checkedAt < hour \/ (s.checkedAt = hour /\ s.id <= count + 1)
    <2>1. s.id \in 1 .. count + 1 /\ s.checkedAt \in 1 .. hour BY <1>6
    <2> QED BY <2>1, <1>1
  <1>9. IsNewest(row, row.ticker, all) BY <1>3, <1>8 DEF IsNewest
  <1>10. ASSUME NEW r \in rows PROVE \E n \in all : IsNewest(n, r.ticker, all)
    <2>1. CASE r.ticker = row.ticker BY <2>1, <1>9
    <2>2. CASE r.ticker # row.ticker
      <3>1. PICK n \in rows : IsNewest(n, r.ticker, rows) BY DEF RowsFit
      <3>2. IsNewest(n, r.ticker, all) BY <3>1, <2>2 DEF IsNewest
      <3> QED BY <3>2
    <2> QED BY <2>1, <2>2
  <1> QED BY <1>5, <1>6, <1>7, <1>9, <1>10 DEF RowsFit

LEMMA SaveStep ==
    ASSUME MoatInv, part = "moat", part' = part,
           NEW f \in given.folders, NEW g \in given.folders, K!Save(f, g)
    PROVE MoatInv'
  <1> DEFINE pass1 == f.passes[1]
             pass2 == g.passes[2]
             agreed == K!Reconcile(K!Corrected(pass1), K!Corrected(pass2))
             row == [id |-> K!Cardinality(answer.rows) + 1, ticker |-> f.ticker, checkedAt |-> given.hour, version |-> pass1.version,
                     status |-> agreed.status, rating |-> agreed.rating, confidence |-> agreed.confidence, basis |-> agreed.basis,
                     threat |-> agreed.threat]
             entry == [row |-> row, pass1 |-> pass1, pass2 |-> pass2]
             known == given.cached
  <1>1. /\ BenchHolds /\ RowsFit(answer.rows, given.hour) /\ \A e \in answer.saved : EntryHolds(e, answer.rows, known) BY DEF MoatInv
  <1>2. /\ pass1 # K!NoRecord /\ pass2 # K!NoRecord /\ (f = g \/ given.mishaps > 0)
        /\ given' = IF f = g THEN given ELSE [given EXCEPT !.mishaps = given.mishaps - 1]
        /\ answer' = IF f.ticker \notin given.funds /\ K!BothValid(f, pass2)
                     THEN [rows |-> K!Appended(answer.rows, row), saved |-> answer.saved \cup {entry}]
                     ELSE answer
        BY Zenon DEF K!Save
  <1>3. FolderFits(f, known) /\ IsRecord(pass1) /\ IsRecord(pass2)
    <2>1. pass1 # K!NoRecord /\ pass2 # K!NoRecord BY <1>2
    <2>2. FolderFits(f, known) /\ FolderFits(g, known) BY <1>1 DEF BenchHolds
    <2> HIDE DEF known
    <2> QED BY <2>1, <2>2 DEF FolderFits
  <1>4. /\ given'.cached = known /\ given'.hour = given.hour /\ BenchHolds'
    <2>1. CASE f = g BY <1>1, <1>2, <2>1 DEF BenchHolds
    <2>2. CASE f # g
      <3>1. given.mishaps - 1 \in 0 .. MoatMishaps BY <1>1, <1>2, <2>2, MoatAssumption DEF BenchHolds
      <3>2. given' = [hour |-> given.hour, version |-> given.version, runs |-> given.runs, mishaps |-> given.mishaps - 1,
                      folders |-> given.folders, funds |-> given.funds, cached |-> known]
            BY <1>1, <1>2, <2>2 DEF BenchHolds
      <3> QED BY <1>1, <3>1, <3>2 DEF BenchHolds
    <2> QED BY <2>1, <2>2
  <1>5. given.hour \in Nat \ {0} BY <1>1, MoatAssumption DEF BenchHolds
  <1>6. CASE f.ticker \notin given.funds /\ K!BothValid(f, pass2)
    <2>1. answer' = [rows |-> answer.rows \cup {row}, saved |-> answer.saved \cup {entry}] BY <1>2, <1>6 DEF K!Appended
    <2>2. \A p \in {pass1, pass2} : p.ticker = f.ticker /\ p.version = given.version /\ p.shape /\ (p.source # "unproven" => p.fact)
      <3>1. K!Valid(pass1, f.ticker) /\ K!Valid(pass2, f.ticker) BY <1>6 DEF K!BothValid
      <3>2. pass1.fact \in BOOLEAN /\ pass2.fact \in BOOLEAN BY <1>3 DEF IsRecord
      <3> HIDE DEF pass1, pass2
      <3> QED BY <3>1, <3>2 DEF K!Valid, K!WellFormed
    <2>3. ClaimsNoMore(agreed, pass1, pass2) /\ Gravest(agreed, pass1) /\ agreed.confidence \in Words /\ agreed.threat \in Levels \cup {"none"}
          BY <1>3, Reconciled
    <2> HIDE DEF agreed, pass1, pass2
    <2>4. /\ row.id = Cardinality(answer.rows) + 1 /\ row.ticker = f.ticker /\ row.checkedAt = given.hour /\ row.version = pass1.version
          /\ row.status = agreed.status /\ row.rating = agreed.rating /\ row.confidence = agreed.confidence
          /\ row.basis = agreed.basis /\ row.threat = agreed.threat
          BY SameCountK
    <2> HIDE DEF row
    <2>5. RowsFit(answer.rows \cup {row}, given.hour) BY <1>1, <1>5, <2>3, <2>4, RowAppended
    <2>6. ClaimsNoMore(row, pass1, pass2) /\ Gravest(row, pass1) BY <2>3, <2>4 DEF ClaimsNoMore, Gravest
    <2>7. ~K!BlockRefused(known[f.ticker]) BY <1>3 DEF FolderFits
    <2>8. entry.row = row /\ entry.pass1 = pass1 /\ entry.pass2 = pass2 OBVIOUS
    <2> HIDE DEF entry
    <2>9. \A p \in {pass1, pass2} : p.ticker = row.ticker /\ p.version = row.version /\ p.shape /\ (p.source # "unproven" => p.fact)
          BY <2>2, <2>4
    <2>10. EntryHolds(entry, answer.rows \cup {row}, known) BY <2>4, <2>6, <2>7, <2>8, <2>9 DEF EntryHolds
    <2>11. \A e \in answer.saved : EntryHolds(e, answer.rows \cup {row}, known) BY <1>1 DEF EntryHolds
    <2>12. answer'.rows = answer.rows \cup {row} /\ answer'.saved = answer.saved \cup {entry} BY <2>1
    <2> QED BY <1>4, <2>5, <2>10, <2>11, <2>12 DEF MoatInv
  <1>7. CASE ~(f.ticker \notin given.funds /\ K!BothValid(f, pass2))
    <2>1. answer' = answer BY <1>2, <1>7
    <2> HIDE DEF known
    <2> QED BY <2>1, <1>4, <1>5, RowsLeft DEF known
  <1> QED BY <1>6, <1>7

LEMMA AroundMoatStep ==
    ASSUME MoatInv, part = "moat", part' = part,
           \/ \E f \in given.folders : K!Finish(f)
           \/ K!AnHour \/ K!NewCriteria
           \/ \E ticker \in DOMAIN given.cached : K!FoundToBeFund(ticker)
    PROVE MoatInv'
  <1>1. BenchHolds BY DEF MoatInv
  <1>2. given.hour \in Nat /\ given.mishaps \in 0 .. MoatMishaps BY <1>1, MoatAssumption DEF BenchHolds
  <1>3. CASE \E f \in given.folders : K!Finish(f)
    <2>1. PICK f \in given.folders : given' = [given EXCEPT !.folders = given.folders \ {f}] /\ answer' = answer
          BY <1>3 DEF K!Finish
    <2>2. given' = [hour |-> given.hour, version |-> given.version, runs |-> given.runs, mishaps |-> given.mishaps,
                    folders |-> given.folders \ {f}, funds |-> given.funds, cached |-> given.cached]
          BY <1>1, <2>1 DEF BenchHolds
    <2>3. BenchHolds' BY <1>1, <2>2 DEF BenchHolds
    <2> QED BY <1>2, <2>1, <2>2, <2>3, RowsLeft
  <1>4. CASE K!AnHour
    <2>1. given.hour < MoatHours /\ answer' = answer BY <1>4 DEF K!AnHour
    <2>2. given' = [hour |-> given.hour + 1, version |-> given.version, runs |-> given.runs, mishaps |-> given.mishaps,
                    folders |-> given.folders, funds |-> given.funds, cached |-> given.cached]
          BY <1>1, <1>4 DEF BenchHolds, K!AnHour
    <2>3. given.hour + 1 \in 1 .. MoatHours BY <1>2, <2>1, MoatAssumption
    <2>4. BenchHolds' BY <1>1, <2>2, <2>3 DEF BenchHolds
    <2>5. given.hour <= given'.hour BY <1>2, <2>2
    <2> QED BY <2>1, <2>2, <2>4, <2>5, RowsLeft
  <1>5. CASE K!NewCriteria
    <2>1. given.mishaps > 0 /\ answer' = answer BY <1>5 DEF K!NewCriteria
    <2>2. given' = [hour |-> given.hour, version |-> given.version + 1, runs |-> given.runs, mishaps |-> given.mishaps - 1,
                    folders |-> given.folders, funds |-> given.funds, cached |-> given.cached]
          BY <1>1, <1>5 DEF BenchHolds, K!NewCriteria
    <2>3. given.mishaps - 1 \in 0 .. MoatMishaps BY <1>2, <2>1, MoatAssumption
    <2>4. BenchHolds' BY <1>1, <2>2, <2>3 DEF BenchHolds
    <2> QED BY <1>2, <2>1, <2>2, <2>4, RowsLeft
  <1>6. CASE \E ticker \in DOMAIN given.cached : K!FoundToBeFund(ticker)
    <2>1. PICK ticker \in DOMAIN given.cached :
              /\ given.mishaps > 0 /\ answer' = answer
              /\ given' = [given EXCEPT !.mishaps = given.mishaps - 1, !.funds = given.funds \cup {ticker}]
          BY <1>6 DEF K!FoundToBeFund
    <2>2. given' = [hour |-> given.hour, version |-> given.version, runs |-> given.runs, mishaps |-> given.mishaps - 1,
                    folders |-> given.folders, funds |-> given.funds \cup {ticker}, cached |-> given.cached]
          BY <1>1, <2>1 DEF BenchHolds
    <2>3. given.mishaps - 1 \in 0 .. MoatMishaps BY <1>2, <2>1, MoatAssumption
    <2>4. BenchHolds' BY <1>1, <2>2, <2>3 DEF BenchHolds
    <2> QED BY <1>2, <2>1, <2>2, <2>4, RowsLeft
  <1> QED BY <1>3, <1>4, <1>5, <1>6

LEMMA NextMoatInv == MoatInv /\ [Next]_vars => MoatInv'
  <1> SUFFICES ASSUME MoatInv, [Next]_vars PROVE MoatInv' OBVIOUS
  <1>1. CASE part = "moat" /\ part' = part /\ K!NextMoat
    <2>1. CASE \E ticker \in DOMAIN given.cached, probeOk \in BOOLEAN : K!Prepare(ticker, probeOk) BY <1>1, <2>1, PrepareStep
    <2>2. CASE \E f \in given.folders, number \in 1 .. 2, judgement \in MoatJudgements : K!Pass(f, number, judgement)
          BY <1>1, <2>2, PassStep
    <2>3. CASE \E f, g \in given.folders : K!Save(f, g) BY <1>1, <2>3, SaveStep
    <2>4. CASE \/ \E f \in given.folders : K!Finish(f)
               \/ K!AnHour \/ K!NewCriteria
               \/ \E ticker \in DOMAIN given.cached : K!FoundToBeFund(ticker)
          BY <1>1, <2>4, AroundMoatStep
    <2> QED BY <1>1, <2>1, <2>2, <2>3, <2>4, Zenon DEF K!NextMoat
  <1>2. CASE part # "moat" /\ part' = part BY <1>2 DEF MoatInv
  <1>3. CASE UNCHANGED vars
    <2>1. part' = part /\ given' = given /\ answer' = answer BY <1>3 DEF vars
    <2> QED BY <2>1 DEF MoatInv, BenchHolds
  <1>4. CASE Next
    <2>1. \/ part = "moat" /\ part' = part /\ K!NextMoat
          \/ part # "moat" /\ part' = part
      BY <1>4 DEF Next, DebtCard, RowCard, ValueCard, ProfitCard, FinancialsCard, WeeklyLists, ScorecardAnswer,
         StatementsRead, SignalNights, BreadthNights, BoardRuns, ScreenerRuns, MoatRuns
    <2> QED BY <2>1, <1>1, <1>2
  <1> QED BY <1>3, <1>4

(* The moat check's rows claim no more than their two passes agree on, the   *)
(* level of threat is that of the gravest one named, both passes are of the  *)
(* row's ticker and criteria, no row is lost, and the fall in a block is the *)
(* deepest between any two closes - for any companies, judgements, age of a  *)
(* folder and number of hours, runs and mishaps.                             *)
THEOREM MoatRowsHold == Spec => []MoatHolds
  <1>1. MoatInv => MoatHolds
    <2> SUFFICES ASSUME MoatInv, part = "moat" PROVE K!MoatTypeOK /\ K!MoatChecksHold BY DEF MoatHolds
    <2>1. BenchHolds /\ RowsFit(answer.rows, given.hour) /\ \A e \in answer.saved : EntryHolds(e, answer.rows, given.cached)
          BY DEF MoatInv
    <2>2. K!MoatTypeOK
      <3>1. \A w \in Words : \E i \in 1 .. 3 : w = K!CONFIDENCES[i]
        <4>1. K!CONFIDENCES[1] = "Low" /\ K!CONFIDENCES[2] = "Medium" /\ K!CONFIDENCES[3] = "High" BY DEF K!CONFIDENCES
        <4> QED BY <4>1 DEF Words
      <3>2. \A w \in Levels : \E i \in 1 .. 3 : w = K!LEVELS[i]
        <4>1. K!LEVELS[1] = "Low" /\ K!LEVELS[2] = "Moderate" /\ K!LEVELS[3] = "High" BY DEF K!LEVELS
        <4> QED BY <4>1 DEF Levels
      <3>3. \A r \in answer.rows : r.confidence \in Words /\ r.threat \in Levels \cup {"none"} BY <2>1 DEF RowsFit
      <3>4. given.hour \in 1 .. MoatHours /\ given.mishaps \in 0 .. MoatMishaps BY <2>1 DEF BenchHolds
      <3> QED BY <3>1, <3>2, <3>3, <3>4 DEF K!MoatTypeOK
    <2>3. K!RowClaimsNoMore BY <2>1 DEF EntryHolds, ClaimsNoMore, K!RowClaimsNoMore
    <2>4. K!ThreatIsTheGravest BY <2>1 DEF EntryHolds, Gravest, K!ThreatIsTheGravest
    <2>5. K!RowsRestOnTheirRun
      <3>1. ASSUME NEW e \in answer.saved PROVE K!Latest(e.row.ticker).checkedAt >= e.row.checkedAt
        <4> DEFINE ticker == e.row.ticker
                   mine == {r \in answer.rows : r.ticker = ticker}
                   latest == K!Latest(ticker)
                   Newer(r, s) == s.checkedAt < r.checkedAt \/ (s.checkedAt = r.checkedAt /\ s.id <= r.id)
        <4>1. latest = CHOOSE r \in mine : \A s \in mine : Newer(r, s) BY DEF K!Latest
        <4>2. e.row \in mine BY <2>1 DEF EntryHolds
        <4>3. PICK n \in answer.rows : IsNewest(n, ticker, answer.rows) BY <2>1, <4>2 DEF RowsFit
        <4>4. n \in mine /\ \A s \in mine : Newer(n, s) BY <4>3 DEF IsNewest
        <4> HIDE DEF Newer, latest, mine
        <4>5. latest \in mine /\ \A s \in mine : Newer(latest, s) BY <4>1, <4>4
        <4>6. Newer(latest, e.row) /\ latest \in answer.rows /\ e.row \in answer.rows BY <4>2, <4>5 DEF mine
        <4>7. latest.checkedAt \in Int /\ e.row.checkedAt \in Int BY <2>1, <4>6 DEF RowsFit
        <4> QED BY <4>6, <4>7 DEF Newer, latest
      <3>2. \A r, s \in answer.rows : r.id = s.id => r = s BY <2>1 DEF RowsFit
      <3> QED BY <2>1, <3>1, <3>2 DEF EntryHolds, K!RowsRestOnTheirRun
    <2>6. K!BlocksAreTrue
      <3> SUFFICES ASSUME NEW f \in given.folders
                   PROVE LET closes == given.cached[f.ticker].closes
                             falls == UNION {{60 - (60 * closes[j]) \div closes[i] : j \in i .. Len(closes)} : i \in DOMAIN closes}
                         IN /\ f.block.chart.fall \in falls /\ \A fall \in falls : fall <= f.block.chart.fall
                            /\ f.block.margins # {}
          BY DEF K!BlocksAreTrue
      <3> DEFINE company == given.cached[f.ticker]
                 closes == company.closes
                 n == Len(closes)
                 chart == K!DescribeChart(closes)
                 falls == UNION {{60 - (60 * closes[j]) \div closes[i] : j \in i .. n} : i \in DOMAIN closes}
      <3>1. /\ f.ticker \in DOMAIN given.cached /\ ~K!BlockRefused(company) /\ f.block = K!BuildBlock(company)
            /\ given.cached \in MoatCompanies
            BY <2>1 DEF BenchHolds, FolderFits
      <3>2. closes \in Seq(Nat \ {0}) BY <3>1, MoatAssumption
      <3>3. n \in Nat /\ DOMAIN closes = 1 .. n /\ IsCloses(closes)
        <4> HIDE DEF closes
        <4> QED BY <3>2 DEF IsCloses, n
      <3>4. ~(n < 2) /\ K!AnnualMargins(company) # {} BY <3>1 DEF K!BlockRefused
      <3>5. f.block.chart = chart /\ f.block.margins # {}
        <4> DEFINE Shown(y) == [year |-> y.year, net |-> (100 * y.net) \div y.revenue,
                                 gross |-> IF K!NetMarginOnly(company) THEN 0 ELSE (100 * y.gross) \div y.revenue]
                   margins == {Shown(y) : y \in K!AnnualMargins(company)}
        <4>1. f.block = [margins |-> margins, chart |-> chart] BY <3>1 DEF K!BuildBlock
        <4> HIDE DEF Shown, chart
        <4>2. margins # {} BY <3>4
        <4> HIDE DEF margins
        <4> QED BY <4>1, <4>2
      <3> HIDE DEF closes, chart
      <3>6. SeenUpto(closes, chart, n) BY <3>3, <3>4, ChartIs DEF n, chart
      <3> HIDE DEF n
      <3>7. chart.fall \in falls
        <4>1. PICK i \in 1 .. n, j \in 1 .. n : i <= j /\ chart.fall = Fall(closes, i, j) BY <3>6 DEF SeenUpto
        <4>2. j \in i .. n /\ i \in DOMAIN closes BY <4>1, <3>3
        <4> QED BY <4>1, <4>2 DEF Fall
      <3>8. ASSUME NEW fall \in falls PROVE fall <= chart.fall
        <4>1. PICK i \in DOMAIN closes : fall \in {60 - (60 * closes[j]) \div closes[i] : j \in i .. n} OBVIOUS
        <4>2. PICK j \in i .. n : fall = 60 - (60 * closes[j]) \div closes[i] BY <4>1
        <4>3. i \in 1 .. n /\ j \in 1 .. n /\ i <= j BY <4>1, <4>2, <3>3
        <4> QED BY <4>2, <4>3, <3>6 DEF SeenUpto, Fall
      <3> QED BY <3>5, <3>7, <3>8 DEF n, closes
    <2> QED BY <2>2, <2>3, <2>4, <2>5, <2>6 DEF K!MoatChecksHold
  <1> QED BY <1>1, InitMoatInv, NextMoatInv, PTL DEF Spec
=============================================================================
