----------------------------- MODULE JobsProofs -----------------------------
(***************************************************************************)
(* What TLC checks of the safety of StatementRecheck and of the four other *)
(* jobs of MCStatementRecheck on small instances, proved for any values of *)
(* the constants that their assumptions admit: any number of tickers,      *)
(* statements, lists, files and days, and any number of mishaps.           *)
(*                                                                         *)
(* The recheck first.  The number of rechecks an episode has paid for is   *)
(* bounded by its nights up to the last of them, not by the days that have *)
(* passed: that is what the induction needs, and why a job that dies       *)
(* between a recheck and its count takes nothing from the bound.           *)
(*                                                                         *)
(* Then the price beside what was reckoned from it (HeaderInv), the        *)
(* backups (BackupInv), the outcome runs (OutcomesInv) and the price       *)
(* targets (TargetsInv).  Each has an inductive invariant and the same     *)
(* three lemmas about it: it holds initially, every step keeps it, and it  *)
(* gives what the part promises.  The last section puts them together.     *)
(***************************************************************************)
EXTENDS MCStatementRecheck, FiniteSetTheorems, WellFoundedInduction, TLAPS

-----------------------------------------------------------------------------
(* Division. *)

\* A larger number contains the divisor as often, and once more if it is larger by the divisor.
LEMMA DivGrows ==
  ASSUME NEW x \in Nat, NEW y \in Nat, NEW c \in Nat \ {0}, NEW k \in {0, 1}, x + k * c <= y
  PROVE  x \div c \in Nat /\ (x \div c) + k <= y \div c
<1> DEFINE q == x \div c
           r == x % c
           p == y \div c
           u == y % c
<1>1. q \in Nat /\ p \in Nat /\ r \in 0 .. c - 1 /\ u \in 0 .. c - 1 /\ x = c * q + r /\ y = c * p + u
  BY Z3
<1>2. SUFFICES ASSUME ~(q + k <= p) PROVE FALSE
  BY <1>1
<1> HIDE DEF q, p, r, u
<1>3. p + 1 <= q + k
  BY <1>1, <1>2
<1>4. c * (p + 1) <= c * (q + k)
  BY <1>1, <1>3, Z3
<1>5. c * (p + 1) = c * p + c /\ c * (q + k) = c * q + k * c
  BY <1>1, Z3
<1> QED
  BY <1>1, <1>4, <1>5

-----------------------------------------------------------------------------
(* What an episode may have paid for. *)

\* One recheck a night at first, then one every ThirdNight nights, up to the end of the window.
Nightly(n) == IF n <= DailyAttempts THEN n ELSE DailyAttempts + ((n - DailyAttempts) \div ThirdNight)

InWindow(n) == IF n <= Window + 1 THEN n ELSE Window + 1

\* The same in the n-th night of an episode (its anchor's night is the first), with what it
\* may pay for as a chronic one.
Budget(n) == Nightly(InWindow(n)) + ((n - 1) \div ChronicDays)

\* More nights are no smaller budget.
LEMMA NightlyGrows ==
  ASSUME NEW m \in Nat \ {0}, NEW n \in Nat, m <= n
  PROVE  Nightly(m) \in Nat \ {0} /\ Nightly(m) <= Nightly(n)
<1> DEFINE D == DailyAttempts
           Q(x) == (x - D) \div ThirdNight
<1>1. D \in Nat \ {0} /\ ThirdNight \in Nat \ {0}
  BY RecheckAssumption
<1>2. m > D => Q(m) \in Nat /\ Q(m) <= Q(n)
  BY <1>1, DivGrows
<1>3. n > D => Q(n) \in Nat
  BY <1>1, DivGrows
<1> HIDE DEF Q
<1>4. Nightly(m) = IF m <= D THEN m ELSE D + Q(m)
  BY DEF Nightly, Q
<1>5. Nightly(n) = IF n <= D THEN n ELSE D + Q(n)
  BY DEF Nightly, Q
<1> QED
  BY <1>1, <1>2, <1>3, <1>4, <1>5

\* Once the daily attempts are used up, ThirdNight nights are worth one recheck.
LEMMA NightlyThird ==
  ASSUME NEW m \in Nat \ {0}, NEW n \in Nat, m + ThirdNight <= n
  PROVE  Nightly(m) + 1 <= Nightly(n)
<1> DEFINE D == DailyAttempts
           Q(x) == (x - D) \div ThirdNight
<1>1. D \in Nat \ {0} /\ ThirdNight \in Nat \ {0}
  BY RecheckAssumption
<1>2. m > D => Q(m) \in Nat /\ Q(m) + 1 <= Q(n)
  BY <1>1, DivGrows
<1>3. n > D => Q(n) \in Nat
  BY <1>1, DivGrows
<1> HIDE DEF Q
<1>4. Nightly(m) = IF m <= D THEN m ELSE D + Q(m)
  BY DEF Nightly, Q
<1>5. Nightly(n) = IF n <= D THEN n ELSE D + Q(n)
  BY DEF Nightly, Q
<1>6. m = D => Q(m) = 0 /\ Q(m) + 1 <= Q(n)
  <2>1. SUFFICES ASSUME m = D PROVE Q(m) = 0 /\ Q(m) + 1 <= Q(n)
    OBVIOUS
  <2>2. 0 \div ThirdNight = 0
    BY <1>1, Z3
  <2>3. 0 \div ThirdNight + 1 <= Q(n)
    BY <1>1, <2>1, DivGrows DEF Q
  <2> QED
    BY <1>1, <2>1, <2>2, <2>3 DEF Q
<1> QED
  BY <1>1, <1>2, <1>3, <1>4, <1>5, <1>6

\* Nights only add to the budget.
LEMMA BudgetGrows ==
  ASSUME NEW m \in Nat \ {0}, NEW n \in Nat, m <= n
  PROVE  Budget(m) \in Nat \ {0} /\ Budget(m) <= Budget(n)
<1>1. InWindow(m) \in Nat \ {0} /\ InWindow(n) \in Nat /\ InWindow(m) <= InWindow(n) /\ ChronicDays \in Nat \ {0}
  BY RecheckAssumption DEF InWindow
<1>2. Nightly(InWindow(m)) \in Nat \ {0} /\ Nightly(InWindow(m)) <= Nightly(InWindow(n))
  BY <1>1, NightlyGrows
<1>3. Nightly(InWindow(n)) \in Nat \ {0}
  BY <1>1, NightlyGrows
<1>4. (m - 1) \div ChronicDays \in Nat /\ (m - 1) \div ChronicDays <= (n - 1) \div ChronicDays
  BY <1>1, DivGrows
<1>5. (n - 1) \div ChronicDays \in Nat
  BY <1>1, DivGrows
<1> QED
  BY <1>2, <1>3, <1>4, <1>5 DEF Budget

\* A recheck that was due is within the budget of the night it is made in: n, after m.
LEMMA BudgetPays ==
  ASSUME NEW m \in Nat \ {0}, NEW n \in Nat, NEW a \in Nat, a <= Budget(m), m < n,
         \/ n <= Window + 1 /\ a < DailyAttempts
         \/ n <= Window + 1 /\ m + ThirdNight <= n
         \/ m + ChronicDays <= n
  PROVE  a + 1 <= Budget(n)
<1> DEFINE w(x) == Nightly(InWindow(x))
           c(x) == (x - 1) \div ChronicDays
<1>1. /\ InWindow(m) \in Nat \ {0} /\ InWindow(n) \in Nat \ {0} /\ InWindow(m) <= InWindow(n)
      /\ n <= Window + 1 => InWindow(m) = m /\ InWindow(n) = n
      /\ ChronicDays \in Nat \ {0} /\ DailyAttempts \in Nat \ {0} /\ ThirdNight \in Nat \ {0} /\ Window \in Nat
  BY RecheckAssumption DEF InWindow
<1>2. w(m) \in Nat \ {0} /\ w(n) \in Nat \ {0} /\ w(m) <= w(n)
  BY <1>1, NightlyGrows
<1>3. c(m) \in Nat /\ c(n) \in Nat /\ c(m) <= c(n)
  BY <1>1, DivGrows
<1>4. a <= w(m) + c(m) /\ Budget(n) = w(n) + c(n)
  BY DEF Budget
<1>5. CASE n <= Window + 1 /\ a < DailyAttempts
  <2>1. n <= DailyAttempts => w(n) = n /\ w(m) = m
    BY <1>1, <1>5 DEF Nightly
  <2>2. n > DailyAttempts => w(n) >= DailyAttempts
    <3>1. SUFFICES ASSUME n > DailyAttempts PROVE w(n) >= DailyAttempts
      OBVIOUS
    <3>2. Nightly(DailyAttempts) = DailyAttempts
      BY <1>1 DEF Nightly
    <3>3. Nightly(DailyAttempts) <= Nightly(n)
      BY <1>1, <3>1, NightlyGrows
    <3> QED
      BY <1>1, <1>5, <3>2, <3>3
  <2> HIDE DEF w, c
  <2> QED
    BY <1>1, <1>2, <1>3, <1>4, <1>5, <2>1, <2>2
<1>6. CASE n <= Window + 1 /\ m + ThirdNight <= n
  <2>1. w(m) + 1 <= w(n)
    BY <1>1, <1>6, NightlyThird
  <2> HIDE DEF w, c
  <2> QED
    BY <1>2, <1>3, <1>4, <2>1
<1>7. CASE m + ChronicDays <= n
  <2>1. c(m) + 1 <= c(n)
    BY <1>1, <1>7, DivGrows
  <2> HIDE DEF w, c
  <2> QED
    BY <1>2, <1>3, <1>4, <2>1
<1> QED
  BY <1>5, <1>6, <1>7

\* No night's budget exceeds the bound the property states.
LEMMA BudgetBound ==
  ASSUME NEW n \in Nat \ {0}
  PROVE  Budget(n) <= MostAttempts + ((n - 1) \div ChronicDays)
<1>1. InWindow(n) \in Nat \ {0} /\ InWindow(n) <= Window + 1 /\ Window + 1 \in Nat /\ ChronicDays \in Nat \ {0}
  BY RecheckAssumption DEF InWindow
<1>2. Nightly(InWindow(n)) \in Nat /\ Nightly(Window + 1) \in Nat /\ Nightly(InWindow(n)) <= Nightly(Window + 1)
  BY <1>1, NightlyGrows
<1>3. Nightly(Window + 1) = MostAttempts
  BY RecheckAssumption DEF Nightly, MostAttempts
<1>4. (n - 1) \div ChronicDays \in Nat
  BY <1>1, DivGrows
<1> QED
  BY <1>2, <1>3, <1>4 DEF Budget

-----------------------------------------------------------------------------
(* The inductive invariant. *)

Statuses == {"active", "healed", "gave_up", "chronic"}
Outcomes == {"blocked", "error", "guard", "ok"}
Episode  == [status : Statuses, anchor : 0 .. MaxDay, attempts : Nat, last : NoDay .. MaxDay]

NextNight     == [pc : {"next"}, calls : 0 .. MaxCalls, due : SUBSET Tickers]
FetchingNight == [pc : {"fetching"}, calls : 0 .. MaxCalls, due : SUBSET Tickers, ticker : Tickers,
                  before : [Kinds -> Row], outcome : UNION {[D -> Outcomes] : D \in SUBSET Kinds},
                  begun : 0 .. MaxCalls]

\* An episode has paid for no more than its nights up to the last recheck allowed.
Paid(e, today) ==
    /\ e.anchor <= today /\ e.last <= today
    /\ e.last = NoDay => e.attempts = 0
    /\ e.last # NoDay => /\ e.anchor <= e.last
                         /\ e.attempts <= e.last - e.anchor + 1
                         /\ e.attempts <= Budget(e.last - e.anchor + 1)

\* What made the episode due when the job selected it: nothing but its own recheck undoes it.
StillDue(e) ==
    \/ e.status = "chronic" /\ (e.last = NoDay \/ day - e.last >= ChronicDays)
    \/ /\ e.status = "active" /\ day <= WindowEnd(e.anchor)
       /\ \/ e.last = NoDay
          \/ e.attempts < DailyAttempts /\ e.last < day
          \/ day - e.last >= ThirdNight

CacheOK ==
    /\ day \in 0 .. MaxDay
    /\ reported \in [Tickers -> Int] /\ filed \in [Tickers -> Int]
    /\ fetched \in [Tickers -> BOOLEAN] /\ chronic \in [Tickers -> BOOLEAN]
    /\ rows \in [Tickers -> [Kinds -> Row]]
    /\ \A t \in Tickers : /\ 0 <= reported[t] /\ reported[t] <= filed[t] /\ filed[t] <= day
                          /\ rows[t]["income"] # "bad"

EpisodesOK ==
    /\ state \in [Tickers -> Episode \cup {NoState}]
    /\ \A t \in Tickers : state[t] # NoState => Paid(state[t], day)

\* The calls of the night: those made, and one for every statement still to come.
NightOK ==
    /\ night \in {Asleep} \cup NextNight \cup FetchingNight
    /\ night # Asleep => \A t \in night.due : StillDue(state[t])
    /\ night.pc = "fetching" =>
          /\ StillDue(state[night.ticker]) /\ night.ticker \notin night.due
          /\ night.calls + Cardinality(Kinds \ DOMAIN night.outcome) <= MaxCalls

IInv == CacheOK /\ EpisodesOK /\ NightOK

\* The invariant is as strong as the type invariant and the bound.
LEMMA InvariantImplies == IInv => TypeOK /\ AttemptsBounded
<1> SUFFICES ASSUME IInv PROVE TypeOK /\ AttemptsBounded
  OBVIOUS
<1> USE DEF IInv
<1>1. day \in 0 .. MaxDay /\ MaxDay \in Nat /\ ChronicDays \in Nat \ {0}
  BY RecheckAssumption DEF CacheOK
<1>2. ASSUME NEW t \in Tickers, state[t] # NoState
      PROVE  /\ state[t].status \in Statuses /\ state[t].anchor \in 0 .. day /\ state[t].last \in NoDay .. day
             /\ state[t].attempts \in 0 .. day + 1
  <2>1. state[t] \in Episode /\ Paid(state[t], day)
    BY <1>2 DEF EpisodesOK
  <2> QED
    BY <1>1, <2>1 DEF Episode, Paid, NoDay
<1>3. ASSUME NEW t \in Tickers, state[t] # NoState
      PROVE  state[t].attempts <= MostAttempts + (day - state[t].anchor) \div ChronicDays
  <2>1. state[t] \in Episode /\ Paid(state[t], day)
    BY <1>3 DEF EpisodesOK
  <2> DEFINE e == state[t]
             n == day - e.anchor + 1
  <2>2. n \in Nat \ {0} /\ (n - 1) = day - e.anchor
    BY <1>1, <2>1 DEF Episode, Paid, NoDay
  <2>3. Budget(n) \in Nat \ {0} /\ Budget(n) <= MostAttempts + ((n - 1) \div ChronicDays)
    BY <2>2, BudgetGrows, BudgetBound
  <2>4. e.attempts <= Budget(n)
    <3>1. CASE e.last = NoDay
      BY <2>1, <2>3, <3>1 DEF Episode, Paid
    <3>2. CASE e.last # NoDay
      <4> DEFINE m == e.last - e.anchor + 1
      <4>1. m \in Nat \ {0} /\ m <= n /\ e.attempts <= Budget(m) /\ e.attempts \in Nat
        BY <1>1, <2>1, <3>2 DEF Episode, Paid, NoDay
      <4>2. Budget(m) \in Nat \ {0} /\ Budget(m) <= Budget(n)
        BY <2>2, <4>1, BudgetGrows
      <4> QED
        BY <2>3, <4>1, <4>2
    <3> QED
      BY <3>1, <3>2
  <2>5. MostAttempts \in Nat
    <3>1. Nightly(Window + 1) \in Nat /\ Nightly(Window + 1) = MostAttempts
      BY RecheckAssumption, NightlyGrows DEF Nightly, MostAttempts
    <3> QED
      BY <3>1
  <2>6. (n - 1) \div ChronicDays \in Nat
    BY <1>1, <2>2, DivGrows
  <2>7. e.attempts \in Nat
    BY <2>1 DEF Episode
  <2> HIDE DEF n, e
  <2>8. e.attempts <= MostAttempts + ((n - 1) \div ChronicDays)
    BY <2>3, <2>4, <2>5, <2>6, <2>7
  <2>9. QED
    BY <2>2, <2>8 DEF e
<1>4. night = Asleep \/ night.calls \in 0 .. MaxCalls
  BY DEF NightOK, NextNight, FetchingNight
<1>5. TypeOK
  BY <1>1, <1>2, <1>4 DEF TypeOK, CacheOK, Statuses
<1> QED
  BY <1>3, <1>5 DEF AttemptsBounded

LEMMA InitHolds == Init => IInv
<1> SUFFICES ASSUME Init PROVE IInv
  OBVIOUS
<1>1. CacheOK
  BY RecheckAssumption DEF Init, CacheOK, Row
<1>2. EpisodesOK
  BY DEF Init, EpisodesOK
<1>3. NightOK
  BY DEF Init, NightOK, Asleep
<1> QED
  BY <1>1, <1>2, <1>3 DEF IInv

-----------------------------------------------------------------------------
(* The steps. *)

\* A merged answer leaves the cache in order.
LEMMA StoreKeepsCache ==
  ASSUME CacheOK, NEW t \in Tickers, NEW k \in Kinds, NEW r \in Answers(k), Store(t, k, r),
         UNCHANGED <<day, reported, chronic>>
  PROVE  CacheOK'
<1>1. r \in Row /\ (k = "income" => r # "bad")
  BY DEF Answers, Row
<1>2. rows' \in [Tickers -> [Kinds -> Row]] /\ \A u \in Tickers : rows'[u]["income"] # "bad"
  <2>1. rows[t] \in [Kinds -> Row] /\ rows[t]["income"] # "bad" /\ "income" \in Kinds
    BY RecheckAssumption DEF CacheOK
  <2> DEFINE new == [rows[t] EXCEPT ![k] = IF r = "old" THEN rows[t][k] ELSE r]
  <2>2. new \in [Kinds -> Row] /\ new["income"] # "bad"
    BY <1>1, <2>1
  <2>3. rows' = [rows EXCEPT ![t] = new]
    BY DEF Store
  <2> HIDE DEF new
  <2> QED
    BY <2>2, <2>3 DEF CacheOK
<1>3. filed' = filed \/ filed' = [filed EXCEPT ![t] = day]
  BY DEF Store
<1>4. filed' \in [Tickers -> Int] /\ \A u \in Tickers : reported[u] <= filed'[u] /\ filed'[u] <= day
  BY <1>3 DEF CacheOK
<1>5. fetched' \in [Tickers -> BOOLEAN]
  BY DEF Store, CacheOK
<1> QED
  BY <1>2, <1>4, <1>5 DEF CacheOK

\* What an evaluation leaves is an episode in order, or none.
LEMMA EvaluationHolds ==
  ASSUME CacheOK, EpisodesOK, NEW t \in Tickers
  PROVE  /\ ApplyEvaluation(t) \in Episode \cup {NoState}
         /\ ApplyEvaluation(t) # NoState => Paid(ApplyEvaluation(t), day)
<1>1. Anchor(t) \in 0 .. MaxDay /\ Anchor(t) <= day /\ day \in 0 .. MaxDay /\ MaxDay \in Nat
  BY RecheckAssumption DEF CacheOK, Anchor
<1>2. NewEpisode(t) \in Episode /\ Paid(NewEpisode(t), day)
  BY <1>1 DEF NewEpisode, Episode, Statuses, Paid, NoDay
<1>3. state[t] = NoState \/ (state[t] \in Episode /\ Paid(state[t], day))
  BY DEF EpisodesOK
<1>4. ASSUME NEW new \in Statuses, state[t] \in Episode, Paid(state[t], day)
      PROVE  [state[t] EXCEPT !.status = new] \in Episode /\ Paid([state[t] EXCEPT !.status = new], day)
  BY <1>4 DEF Episode, Paid
<1>5. state[t] \in Episode => state[t].status \in Statuses /\ state[t] # NoState
  BY DEF Episode, Statuses, NoState
<1>6. CASE state[t] = NoState
  BY <1>2, <1>6 DEF ApplyEvaluation, NoState
<1>7. CASE state[t] \in Episode /\ Paid(state[t], day)
  <2>1. \/ ApplyEvaluation(t) = state[t] \/ ApplyEvaluation(t) = NewEpisode(t)
        \/ \E new \in Statuses : ApplyEvaluation(t) = [state[t] EXCEPT !.status = new]
    <3>1. state[t].status # "none"
      BY <1>5, <1>7 DEF Statuses
    <3>2. CASE ~ Flagged(t)
      BY <3>1, <3>2 DEF ApplyEvaluation, Statuses
    <3>3. CASE Flagged(t) /\ Rearmed(t)
      BY <3>1, <3>3 DEF ApplyEvaluation
    <3>4. CASE Flagged(t) /\ ~ Rearmed(t)
      BY <3>1, <3>4 DEF ApplyEvaluation, Statuses
    <3> QED
      BY <3>2, <3>3, <3>4
  <2> QED
    BY <1>2, <1>4, <1>7, <2>1
<1> QED
  BY <1>3, <1>6, <1>7

\* An episode that is due can pay for the recheck that its attempt counts.
LEMMA AttemptPaid ==
  ASSUME NEW e \in Episode, Paid(e, day), StillDue(e), day \in 0 .. MaxDay
  PROVE  e.attempts + 1 <= day - e.anchor + 1 /\ e.attempts + 1 <= Budget(day - e.anchor + 1)
<1> DEFINE m == e.last - e.anchor + 1
           n == day - e.anchor + 1
<1>1. /\ e.attempts \in Nat /\ e.anchor \in Nat /\ e.last \in Int /\ day \in Nat /\ e.anchor <= day /\ e.last <= day
      /\ Window \in Nat /\ DailyAttempts \in Nat \ {0} /\ ThirdNight \in Nat \ {0} /\ ChronicDays \in Nat \ {0}
  BY RecheckAssumption DEF Episode, Paid, NoDay
<1>2. n \in Nat \ {0}
  BY <1>1
<1>3. Budget(n) \in Nat \ {0}
  BY <1>2, BudgetGrows
<1>4. CASE e.last = NoDay
  BY <1>1, <1>2, <1>3, <1>4 DEF Paid
<1>5. CASE e.last # NoDay
  <2>1. m \in Nat \ {0} /\ e.attempts <= m /\ e.attempts <= Budget(m)
    BY <1>1, <1>5 DEF Paid
  <2>2. \/ n <= Window + 1 /\ e.attempts < DailyAttempts /\ m < n
        \/ n <= Window + 1 /\ m + ThirdNight <= n
        \/ m + ChronicDays <= n
    BY <1>1, <1>5 DEF StillDue, WindowEnd
  <2>3. m < n
    BY <1>1, <1>2, <2>1, <2>2
  <2> HIDE DEF m, n
  <2>4. e.attempts + 1 <= Budget(n)
    BY <1>1, <1>2, <2>1, <2>2, <2>3, BudgetPays
  <2> QED
    BY <1>1, <1>2, <2>1, <2>3, <2>4 DEF n
<1> QED
  BY <1>4, <1>5

\* A step of the cache alone.
LEMMA CacheStep ==
  ASSUME IInv, CacheOK', UNCHANGED <<day, state, night>>
  PROVE  IInv'
<1>1. EpisodesOK'
  BY DEF IInv, EpisodesOK, Paid
<1>2. NightOK'
  BY DEF IInv, NightOK, StillDue
<1> QED
  BY <1>1, <1>2 DEF IInv

\* A step of the job alone.
LEMMA JobStep ==
  ASSUME IInv, NightOK', UNCHANGED <<day, reported, rows, filed, fetched, chronic, state>>
  PROVE  IInv'
BY DEF IInv, CacheOK, EpisodesOK, Paid

\* The outcome of one statement: the call it may have taken was still to come.
LEMMA ToldHolds ==
  ASSUME IInv, NEW k \in Kinds, Pending(k), NEW o \in Outcomes, night' = Told(k, o), UNCHANGED <<day, state>>
  PROVE  NightOK'
<1>1. night \in FetchingNight /\ k \in Kinds \ DOMAIN night.outcome /\ night.pc = "fetching"
  BY DEF IInv, NightOK, Pending, Asleep, NextNight, FetchingNight
<1> DEFINE left == Kinds \ DOMAIN night.outcome
           outcome == [j \in DOMAIN night.outcome \cup {k} |-> IF j = k THEN o ELSE night.outcome[j]]
           calls == IF o = "blocked" THEN night.calls ELSE night.calls + 1
<1>2. night' = [night EXCEPT !.outcome = outcome, !.calls = calls]
  BY DEF Told
<1>3. night.outcome \in UNION {[D -> Outcomes] : D \in SUBSET Kinds}
  BY <1>1 DEF FetchingNight
<1>4. outcome \in UNION {[D -> Outcomes] : D \in SUBSET Kinds}
  <2>1. PICK D \in SUBSET Kinds : night.outcome \in [D -> Outcomes]
    BY <1>3
  <2>2. D \cup {k} \in SUBSET Kinds /\ outcome \in [D \cup {k} -> Outcomes]
    BY <2>1
  <2> QED
    BY <2>2
<1>5. Kinds \ DOMAIN outcome = left \ {k}
  OBVIOUS
<1>6. IsFiniteSet(left) /\ k \in left
  BY <1>1, FS_Subset, RecheckAssumption
<1>7. Cardinality(left \ {k}) = Cardinality(left) - 1 /\ Cardinality(left) \in Nat /\ Cardinality(left \ {k}) \in Nat
  BY <1>6, FS_RemoveElement, FS_CardinalityType
<1>8. night.calls \in 0 .. MaxCalls /\ night.calls + Cardinality(left) <= MaxCalls /\ MaxCalls \in Nat
  BY <1>1, RecheckAssumption DEF FetchingNight, IInv, NightOK
<1> HIDE DEF outcome, left
<1>9. calls \in 0 .. MaxCalls /\ calls + Cardinality(left \ {k}) <= MaxCalls
  BY <1>7, <1>8
<1> HIDE DEF calls
<1>10. /\ night' \in FetchingNight /\ night'.outcome = outcome /\ night'.calls = calls
       /\ night'.due = night.due /\ night'.ticker = night.ticker /\ night'.pc = "fetching"
  BY <1>1, <1>2, <1>4, <1>9 DEF FetchingNight
<1>11. night' # Asleep
  BY <1>10 DEF Asleep
<1>12. night # Asleep
  BY <1>1 DEF Asleep
<1>13. \A t \in night.due : StillDue(state[t])'
  BY <1>12 DEF IInv, NightOK, StillDue
<1>14. StillDue(state[night.ticker])' /\ night.ticker \notin night.due
  BY <1>1, <1>10 DEF IInv, NightOK, StillDue
<1>15. calls + Cardinality(Kinds \ DOMAIN outcome) <= MaxCalls
  BY <1>5, <1>9
<1> QED
  BY <1>10, <1>13, <1>14, <1>15 DEF NightOK

LEMMA ScanHolds == IInv /\ Scan => IInv'
<1> SUFFICES ASSUME IInv, Scan PROVE IInv'
  OBVIOUS
<1> USE DEF IInv
<1>1. CacheOK'
  BY DEF Scan, CacheOK
<1>2. state' = [t \in Tickers |-> ApplyEvaluation(t)] /\ day' = day /\ fetched' = fetched
  BY DEF Scan
<1>3. ASSUME NEW t \in Tickers
      PROVE  ApplyEvaluation(t) \in Episode \cup {NoState} /\ (ApplyEvaluation(t) # NoState => Paid(ApplyEvaluation(t), day))
  BY EvaluationHolds
<1>4. EpisodesOK'
  BY <1>2, <1>3 DEF EpisodesOK, Paid
<1>5. PICK calls \in {0, MaxCalls} :
         night' = [pc |-> "next", calls |-> calls, due |-> {t \in Tickers : IsDue(state'[t], t)}]
  BY DEF Scan
<1>6. night' \in NextNight /\ night'.pc = "next" /\ night'.due = {t \in Tickers : IsDue(state'[t], t)}
  BY <1>5, RecheckAssumption DEF NextNight
<1>7. ASSUME NEW t \in Tickers, IsDue(state'[t], t) PROVE StillDue(state[t])'
  <2>1. state'[t].status = "chronic" \/ state'[t].status = "active"
    BY <1>7 DEF IsDue
  <2>2. state'[t] \in Episode
    BY <1>4, <2>1 DEF EpisodesOK, NoState
  <2> QED
    BY <1>2, <1>7, <2>1, <2>2 DEF IsDue, StillDue, WindowEnd
<1>8. NightOK'
  BY <1>6, <1>7 DEF NightOK
<1> QED
  BY <1>1, <1>4, <1>8

LEMMA RecheckHolds == ASSUME IInv, NEW t \in Tickers, Recheck(t) PROVE IInv'
<1> USE DEF IInv
<1>1. night \in NextNight /\ night.pc = "next" /\ t \in night.due /\ night # Asleep
  BY DEF Recheck, NightOK, Asleep, NextNight, FetchingNight
<1> DEFINE none == [k \in {} |-> "ok"]
<1>2. none \in UNION {[D -> Outcomes] : D \in SUBSET Kinds}
  <2>1. none \in [{} -> Outcomes] /\ {} \in SUBSET Kinds
    OBVIOUS
  <2> QED
    BY <2>1
<1>3. DOMAIN none = {}
  OBVIOUS
<1>4. night' = [pc |-> "fetching", calls |-> night.calls, due |-> night.due \ {t},
                ticker |-> t, before |-> rows[t], outcome |-> none, begun |-> night.calls]
  BY DEF Recheck
<1> HIDE DEF none
<1>5. rows[t] \in [Kinds -> Row]
  BY DEF CacheOK
<1>6. night.calls \in 0 .. MaxCalls /\ night.due \in SUBSET Tickers
  BY <1>1 DEF NextNight
<1>7. /\ night' \in FetchingNight /\ night'.pc = "fetching" /\ night'.calls = night.calls /\ night'.ticker = t
      /\ night'.due = night.due \ {t} /\ night'.outcome = none
  BY <1>2, <1>4, <1>5, <1>6 DEF FetchingNight
<1>8. UNCHANGED <<day, reported, rows, filed, fetched, chronic, state>>
  BY DEF Recheck
<1>9. \A u \in night.due : StillDue(state[u])'
  BY <1>1, <1>8 DEF NightOK, StillDue
<1>10. Kinds \ DOMAIN none = Kinds
  BY <1>3
<1>11. night.calls + Cardinality(Kinds) <= MaxCalls
  BY DEF Recheck, Affordable
<1>12. night.calls + Cardinality(Kinds \ DOMAIN none) <= MaxCalls
  BY <1>10, <1>11
<1>13. NightOK'
  BY <1>1, <1>7, <1>9, <1>12 DEF NightOK
<1> QED
  BY <1>8, <1>13, JobStep

LEMMA AnsweredHolds ==
  ASSUME IInv, NEW k \in Kinds, NEW row \in Row, Answered(k, row)
  PROVE  IInv'
<1> USE DEF IInv
<1>1. Pending(k) /\ row \in Answers(k) /\ UNCHANGED <<day, reported, chronic, state>>
  BY DEF Answered
<1>2. CASE Vetoed(k, row)
  <2>1. night' = Told(k, "guard") /\ UNCHANGED <<rows, filed, fetched>>
    BY <1>2 DEF Answered
  <2>2. NightOK'
    BY <1>1, <2>1, ToldHolds DEF Outcomes
  <2> QED
    BY <1>1, <2>1, <2>2, JobStep
<1>3. CASE ~ Vetoed(k, row)
  <2>1. night' = Told(k, "ok") /\ Store(night.ticker, k, row)
    BY <1>3 DEF Answered
  <2>2. night.ticker \in Tickers
    BY <1>1 DEF Pending, NightOK, Asleep, NextNight, FetchingNight
  <2>3. CacheOK'
    BY <1>1, <2>1, <2>2, StoreKeepsCache
  <2>4. NightOK'
    BY <1>1, <2>1, ToldHolds DEF Outcomes
  <2>5. EpisodesOK'
    BY <1>1 DEF EpisodesOK, Paid
  <2> QED
    BY <2>3, <2>4, <2>5
<1> QED
  BY <1>2, <1>3

\* The attempt of a recheck that FMP answered is one its episode was due.
LEMMA SettleHolds == IInv /\ Settle => IInv'
<1> SUFFICES ASSUME IInv, Settle PROVE IInv'
  OBVIOUS
<1> USE DEF IInv
<1> DEFINE t == night.ticker
           s == ApplyEvaluation(t)
           counted == \A k \in Kinds : night.outcome[k] \in {"ok", "guard"}
           new == IF counted /\ ~ Rearmed(t) THEN [s EXCEPT !.attempts = @ + 1, !.last = day] ELSE s
<1>1. night \in FetchingNight /\ night.pc = "fetching" /\ night # Asleep
  BY DEF Settle, NightOK, Asleep, NextNight, FetchingNight
<1>2. t \in Tickers /\ night.calls \in 0 .. MaxCalls /\ night.due \in SUBSET Tickers
  BY <1>1 DEF FetchingNight
<1>3. StillDue(state[t]) /\ t \notin night.due /\ \A u \in night.due : StillDue(state[u])
  BY <1>1 DEF NightOK
<1>4. /\ state' = [state EXCEPT ![t] = new]
      /\ night' = [pc |-> "next", calls |-> night.calls, due |-> night.due]
      /\ UNCHANGED <<day, reported, rows, filed, fetched, chronic>>
  BY DEF Settle
<1>5. CacheOK'
  BY <1>4 DEF CacheOK
<1>6. s \in Episode \cup {NoState} /\ (s # NoState => Paid(s, day))
  BY <1>2, EvaluationHolds
<1>7. state[t] \in Episode /\ Paid(state[t], day)
  <2>1. state[t] # NoState
    BY <1>3 DEF StillDue, NoState
  <2> QED
    BY <1>2, <2>1 DEF EpisodesOK
<1>8. new \in Episode \cup {NoState} /\ (new # NoState => Paid(new, day))
  <2>1. CASE ~ (counted /\ ~ Rearmed(t))
    BY <1>6, <2>1
  <2>2. CASE counted /\ ~ Rearmed(t)
    <3>1. state[t].status \in Statuses /\ "none" \notin Statuses
      BY <1>7 DEF Episode, Statuses
    <3>2. PICK status \in Statuses : s = [state[t] EXCEPT !.status = status]
      <4>1. CASE ~ Flagged(t)
        <5>1. state[t] = [state[t] EXCEPT !.status = state[t].status]
          BY <1>7 DEF Episode
        <5> QED
          <6>1. s = state[t] \/ s = [state[t] EXCEPT !.status = "healed"]
            BY <3>1, <4>1 DEF ApplyEvaluation, Rearmed
          <6>2. "healed" \in Statuses
            BY DEF Statuses
          <6> HIDE DEF s
          <6> QED
            BY <3>1, <5>1, <6>1, <6>2
      <4>2. CASE Flagged(t)
        <5>1. s = [state[t] EXCEPT !.status = IF Chronic(t) THEN "chronic"
                          ELSE IF @ = "gave_up" \/ day > WindowEnd(state[t].anchor) THEN "gave_up"
                          ELSE "active"]
          BY <2>2, <3>1, <4>2 DEF ApplyEvaluation, Statuses
        <5> QED
          BY <5>1 DEF Statuses
      <4> QED
        BY <4>1, <4>2
    <3>3. /\ state[t].attempts \in Nat /\ state[t].anchor \in 0 .. MaxDay
          /\ state[t].attempts + 1 <= day - state[t].anchor + 1
          /\ state[t].attempts + 1 <= Budget(day - state[t].anchor + 1)
          /\ day \in 0 .. MaxDay /\ MaxDay \in Nat /\ state[t].anchor <= day
      BY <1>3, <1>7, AttemptPaid, RecheckAssumption DEF CacheOK, Episode, Paid
    <3>4. /\ new \in Episode /\ new.attempts = state[t].attempts + 1 /\ new.last = day
          /\ new.anchor = state[t].anchor
      <4>1. s \in Episode /\ s.attempts = state[t].attempts /\ s.anchor = state[t].anchor
        BY <1>7, <3>2 DEF Episode
      <4>2. new = [s EXCEPT !.attempts = @ + 1, !.last = day]
        BY <2>2
      <4> HIDE DEF new, s, counted
      <4> QED
        <5>1. day \in NoDay .. MaxDay /\ s.attempts + 1 \in Nat
          BY <3>3, <4>1 DEF NoDay
        <5>2. [s EXCEPT !.attempts = @ + 1, !.last = day] \in Episode
          BY <4>1, <5>1 DEF Episode
        <5>3. /\ [s EXCEPT !.attempts = @ + 1, !.last = day].attempts = s.attempts + 1
              /\ [s EXCEPT !.attempts = @ + 1, !.last = day].last = day
              /\ [s EXCEPT !.attempts = @ + 1, !.last = day].anchor = s.anchor
          BY <4>1 DEF Episode
        <5> QED
          BY <4>1, <4>2, <5>2, <5>3
    <3> HIDE DEF new, s, counted
    <3> QED
      BY <3>3, <3>4 DEF Paid, NoDay
  <2> QED
    BY <2>1, <2>2
<1> HIDE DEF new, s, counted
<1>9. EpisodesOK'
  BY <1>2, <1>4, <1>8 DEF EpisodesOK, Paid
<1>10. night' \in NextNight /\ night'.pc = "next" /\ night'.due = night.due
  BY <1>2, <1>4 DEF NextNight
<1>11. \A u \in night.due : StillDue(state[u])'
  BY <1>2, <1>3, <1>4 DEF StillDue, EpisodesOK
<1>12. NightOK'
  BY <1>10, <1>11 DEF NightOK
<1> QED
  BY <1>5, <1>9, <1>12

-----------------------------------------------------------------------------
LEMMA NextHolds == IInv /\ [Next]_vars => IInv'
<1> SUFFICES ASSUME IInv, [Next]_vars PROVE IInv'
  OBVIOUS
<1> USE DEF IInv
<1>1. CASE NextDay
  <2>1. CacheOK'
    BY <1>1, RecheckAssumption DEF NextDay, CacheOK
  <2>2. EpisodesOK'
    <3>1. day' = day + 1 /\ state' = state /\ day \in Int
      BY <1>1, RecheckAssumption DEF NextDay, CacheOK
    <3>2. ASSUME NEW t \in Tickers, state[t] # NoState PROVE Paid(state[t], day + 1)
      <4>1. state[t] \in Episode /\ Paid(state[t], day)
        BY <3>2 DEF EpisodesOK
      <4> QED
        BY <3>1, <4>1 DEF Paid, Episode, NoDay
    <3> QED
      BY <3>1, <3>2 DEF EpisodesOK
  <2>3. night' = Asleep
    BY <1>1 DEF NextDay
  <2>4. NightOK'
    BY <2>3 DEF NightOK, Asleep
  <2> QED
    BY <2>1, <2>2, <2>4
<1>2. ASSUME NEW t \in Tickers, NewQuarter(t) PROVE IInv'
  <2>1. CacheOK'
    <3>1. rows' = [rows EXCEPT ![t] = [k \in Kinds |-> "old"]] /\ [k \in Kinds |-> "old"] \in [Kinds -> Row]
      BY <1>2 DEF NewQuarter, Row
    <3>2. rows' \in [Tickers -> [Kinds -> Row]] /\ \A u \in Tickers : rows'[u]["income"] # "bad"
      BY <3>1, RecheckAssumption DEF CacheOK
    <3>3. chronic' \in [Tickers -> BOOLEAN]
      BY <1>2 DEF NewQuarter, CacheOK
    <3> QED
      BY <1>2, <3>2, <3>3, RecheckAssumption DEF NewQuarter, CacheOK
  <2> QED
    BY <1>2, <2>1, CacheStep DEF NewQuarter
<1>3. ASSUME NEW t \in Tickers, NEW k \in Kinds, NEW row \in Row, Fetch(t, k, row) PROVE IInv'
  <2>1. CacheOK'
    BY <1>3, StoreKeepsCache DEF Fetch
  <2> QED
    BY <1>3, <2>1, CacheStep DEF Fetch
<1>4. ASSUME NEW t \in Tickers, Recheck(t) PROVE IInv'
  BY <1>4, RecheckHolds
<1>5. ASSUME NEW k \in Kinds, Fails(k) PROVE IInv'
  <2>1. PICK o \in {"blocked", "error"} : night' = Told(k, o)
    BY <1>5 DEF Fails
  <2>2. NightOK'
    BY <1>5, <2>1, ToldHolds DEF Fails, Outcomes
  <2> QED
    BY <1>5, <2>2, JobStep DEF Fails
<1>6. ASSUME NEW k \in Kinds, NEW row \in Row, Answered(k, row) PROVE IInv'
  BY <1>6, AnsweredHolds
<1>7. CASE Done \/ Kill
  <2>1. night' = Asleep
    BY <1>7 DEF Done, Kill
  <2>2. NightOK'
    BY <2>1 DEF NightOK, Asleep
  <2> QED
    BY <1>7, <2>2, JobStep DEF Done, Kill
<1>8. CASE Abandon
  <2>1. night \in FetchingNight /\ night # Asleep
    BY <1>8 DEF Abandon, NightOK, Asleep, NextNight, FetchingNight
  <2>2. night' = [pc |-> "next", calls |-> night.begun, due |-> night.due]
    BY <1>8 DEF Abandon
  <2>3. night' \in NextNight /\ night'.pc = "next" /\ night'.due = night.due
    BY <2>1, <2>2 DEF FetchingNight, NextNight
  <2>4. \A u \in night.due : StillDue(state[u])'
    BY <1>8, <2>1 DEF Abandon, NightOK, StillDue
  <2>5. NightOK'
    BY <2>3, <2>4 DEF NightOK
  <2> QED
    BY <1>8, <2>5, JobStep DEF Abandon
<1>9. CASE UNCHANGED vars
  BY <1>9, CacheStep DEF vars, CacheOK
<1> QED
  BY <1>1, <1>2, <1>3, <1>4, <1>5, <1>6, <1>7, <1>8, <1>9, ScanHolds, SettleHolds DEF Next

-----------------------------------------------------------------------------
\* The inductive invariant holds in every state.
LEMMA Invariant == Spec => []IInv
<1> QED
  BY InitHolds, NextHolds, PTL DEF Spec

\* The cache, the episodes and the night's job are what they should be; the job never
\* counts more calls than its budget allows (the check before a ticker's first call).
THEOREM TypeCorrect == Spec => []TypeOK
<1> QED
  BY Invariant, InvariantImplies, PTL

\* An episode spends a bounded number of rechecks: the anchor never moves within an
\* episode, and a recheck that is due is one more night away from it.
THEOREM RechecksAreBounded == Spec => []AttemptsBounded
<1> QED
  BY Invariant, InvariantImplies, PTL

\* The recheck never puts a row that trips a rule over one that does not, unless somebody
\* wrote the row since the recheck read it.
THEOREM NeverRegresses == Spec => NoRegression
<1>1. ASSUME IInv, [Next]_vars, NEW t \in Tickers, NEW k \in Kinds, NEW row \in Row,
             Answered(k, row), t = night.ticker, rows[t][k] = night.before[k], rows[t][k] # "bad"
      PROVE  rows'[t][k] # "bad"
  <2>1. CASE Vetoed(k, row)
    BY <1>1, <2>1 DEF Answered
  <2>2. CASE ~ Vetoed(k, row)
    <3>1. row # "bad" /\ Store(t, k, row)
      BY <1>1, <2>2 DEF Answered, Vetoed
    <3>2. rows \in [Tickers -> [Kinds -> Row]]
      BY <1>1 DEF IInv, CacheOK
    <3>3. rows'[t] = [rows[t] EXCEPT ![k] = IF row = "old" THEN rows[t][k] ELSE row] /\ rows[t] \in [Kinds -> Row]
      BY <3>1, <3>2 DEF Store
    <3> QED
      BY <1>1, <3>1, <3>3
  <2> QED
    BY <2>1, <2>2
<1>2. IInv /\ [Next]_vars =>
        [\A t \in Tickers, k \in Kinds, row \in Row :
            Answered(k, row) /\ t = night.ticker /\ rows[t][k] = night.before[k] /\ rows[t][k] # "bad"
            => rows'[t][k] # "bad"]_vars
  BY <1>1
<1> QED
  BY <1>2, Invariant, PTL DEF Spec, NoRegression

-----------------------------------------------------------------------------
(* The price beside what was reckoned from it: TickerHeader. *)

Moments == 0 .. LastMoment
TaskPcs == {"idle", "profile", "quote", "pe", "value", "row", "done", "lost"}
Verdicts == {"none", "undervalued", "fair", "overvalued"}
TaskRow == [mode : H!Modes, pc : TaskPcs, listed : Nat, named : Moments, quote : Moments,
            price : Nat, cap : Nat, pe : Int, verdict : Verdicts, split : BOOLEAN]
HeaderDesk == [moment : 1 .. LastMoment, live : BOOLEAN, company : Companies, job : Moments, task : TaskRow]
HeaderShelf == [quote : Moments, close : Moments, profile : [is : {"none", "known", "empty"}, at : Moments]]

HeaderTyped ==
    /\ world \in HeaderDesk /\ archive \in HeaderShelf
    /\ world.job <= world.moment /\ archive.quote <= world.moment /\ archive.close <= world.moment
    /\ archive.profile.at <= world.moment

\* The company, and the compute's reads so far, agree with the close as long as no job's row
\* landed since it began.
ReadsAgree(t, c, company) ==
    /\ t.listed # 0 => t.listed = c
    /\ t.pc \in {"value", "row"} => t.pe = H!TrailingPe(company, H!RowPrice(c, t.price))
    /\ t.pc = "done" /\ H!Scored(t.mode) =>
          /\ t.price = H!RowPrice(c, t.price)
          /\ t.pe = H!TrailingPe(company, t.price)
          /\ company.fair # 0 /\ c # 0 => t.verdict = H!Verdict(t.price, company.fair)
    /\ t.pc \in {"pe", "value", "row", "done"} /\ c # 0 /\ ~H!CacheOnly(t.mode) => t.price # 0

HeaderInv ==
    /\ HeaderTyped
    /\ ~world.task.split => ReadsAgree(world.task, H!Close, world.company)
    /\ world.task.pc \in {"pe", "value", "row", "done"} /\ H!CacheOnly(world.task.mode) /\ world.task.quote # 0 =>
          /\ world.task.cap # 0
          /\ world.task.cap = world.task.price
    /\ world.task.pc = "row" => H!Scored(world.task.mode)
    /\ world.task.pc = "lost" /\ world.task.mode \in {"page", "nightly"} => archive.profile.is = "empty"

\* The price of a moment is a number; only the moment before the first has none.
LEMMA PriceIs ==
  ASSUME NEW m \in Moments
  PROVE  H!PriceAt(m) \in Nat /\ (m # 0 <=> H!PriceAt(m) # 0)
BY HeaderAssumption DEF H!PriceAt, H!None, Moments

\* A trailing P/E is a number ...
LEMMA PeIs ==
  ASSUME NEW company \in Companies, NEW price \in Nat
  PROVE  H!TrailingPe(company, price) \in Int
<1>1. company.eps \in Int /\ company.ownPe \in Int
  BY HeaderAssumption
<1>2. company.eps > 0 => price \div company.eps \in Int
  BY <1>1
<1> QED
  BY <1>1, <1>2 DEF H!TrailingPe, H!None

\* ... and a verdict is one of the words for it.
LEMMA VerdictIs ==
  ASSUME NEW price, NEW fair
  PROVE  H!Verdict(price, fair) \in Verdicts
BY DEF H!Verdict, Verdicts

\* Scaled from one price to another, the market cap of one share is that price.
LEMMA CapScales ==
  ASSUME NEW price \in Nat \ {0}, NEW close \in Nat
  PROVE  (price * close) \div price = close
OBVIOUS

\* The invariant holds of the page that nobody has opened yet.
LEMMA HeaderStarts == H!InitHeader => HeaderInv
<1> SUFFICES ASSUME H!InitHeader PROVE HeaderInv
  OBVIOUS
<1>1. world.moment = 1 /\ world.live = TRUE /\ world.company \in Companies /\ world.job = 0 /\ world.task = H!Blank("page", "idle", 0)
  BY DEF H!InitHeader, H!None
<1>2. H!Blank("page", "idle", 0) \in TaskRow
  BY HeaderAssumption DEF H!Blank, H!None, TaskRow, H!Modes, TaskPcs, Moments, Verdicts
<1>3. world \in HeaderDesk
  <2>1. 1 \in 1 .. LastMoment /\ 0 \in Moments
    BY HeaderAssumption DEF Moments
  <2>2. world = [moment |-> 1, live |-> TRUE, company |-> world.company, job |-> 0, task |-> H!Blank("page", "idle", 0)]
    BY <1>1 DEF H!InitHeader, H!None
  <2> QED
    BY <1>1, <1>2, <2>1, <2>2, Zenon DEF HeaderDesk
<1>4. archive = [quote |-> 0, close |-> 0, profile |-> [is |-> "none", at |-> 0]]
  BY DEF H!InitHeader, H!None
<1>5. HeaderTyped
  BY <1>1, <1>3, <1>4, HeaderAssumption DEF HeaderTyped, HeaderShelf, Moments
<1> QED
  BY <1>1, <1>4, <1>5 DEF HeaderInv, H!Blank, ReadsAgree, H!None

\* A compute that begins has read nothing but, for a listing, the close.
LEMMA HeaderBegins ==
  ASSUME HeaderInv, NEW mode \in H!Modes, H!Begin(mode)
  PROVE  HeaderInv'
<1> DEFINE t == [mode |-> mode, pc |-> "profile", listed |-> IF mode = "watch" THEN H!Close ELSE 0, named |-> 0, quote |-> 0,
                 price |-> 0, cap |-> 0, pe |-> 0, verdict |-> "none", split |-> FALSE]
<1>1. world' = [world EXCEPT !.task = t] /\ archive' = archive
  BY DEF H!Begin, H!Becomes, H!Blank, H!None
<1>2. H!Close \in Nat
  BY PriceIs DEF HeaderInv, HeaderTyped, HeaderShelf, H!Close
<1>3. t \in TaskRow /\ t.pc = "profile" /\ t.mode = mode /\ t.listed = IF mode = "watch" THEN H!Close ELSE 0
  <2>1. 0 \in Moments /\ "profile" \in TaskPcs /\ "none" \in Verdicts
    BY HeaderAssumption DEF Moments, TaskPcs, Verdicts
  <2> QED
    BY <1>2, <2>1 DEF TaskRow
<1> HIDE DEF t
<1>4. world'.task = t /\ world' \in HeaderDesk /\ world'.moment = world.moment /\ world'.job = world.job /\ world'.company = world.company
  BY <1>1, <1>3 DEF HeaderInv, HeaderTyped, HeaderDesk
<1>5. HeaderTyped'
  BY <1>1, <1>4 DEF HeaderInv, HeaderTyped
<1>6. H!Close' = H!Close
  BY <1>1 DEF H!Close, H!PriceAt
<1> QED
  BY <1>3, <1>4, <1>5, <1>6 DEF HeaderInv, ReadsAgree

\* The profile is known, fetched or remembered as empty; without one the compute is lost.
LEMMA ProfileIsRead ==
  ASSUME HeaderInv, H!ReadProfile
  PROVE  HeaderInv'
<1>1. world \in HeaderDesk /\ archive \in HeaderShelf /\ world.task \in TaskRow /\ world.task.pc = "profile"
  BY DEF HeaderInv, HeaderTyped, HeaderDesk, H!ReadProfile, H!At, H!task
<1>2. PICK profile \in [is : {"none", "known", "empty"}, at : 0 .. world.moment] :
         \/ archive' = [archive EXCEPT !.profile = profile] /\ H!Profiled(profile)
         \/ archive' = archive /\ world' = [world EXCEPT !.task = [world.task EXCEPT !.pc = "quote"]]
  <2>1. archive.profile \in [is : {"none", "known", "empty"}, at : 0 .. world.moment]
    BY <1>1, HeaderAssumption DEF HeaderInv, HeaderTyped, HeaderShelf, HeaderDesk, Moments
  <2>2. \A is \in {"known", "empty"} : [is |-> is, at |-> world.moment] \in [is : {"none", "known", "empty"}, at : 0 .. world.moment]
    BY <1>1, HeaderAssumption DEF HeaderDesk
  <2> QED
    BY <2>1, <2>2 DEF H!ReadProfile, H!Profiled, H!Becomes, H!task
<1>3. world.moment \in 1 .. LastMoment /\ 0 .. world.moment \subseteq Moments
  BY <1>1, HeaderAssumption DEF HeaderDesk, Moments
<1> DEFINE Goes(t) == /\ t.pc \in {"lost", "quote"} /\ t.mode = world.task.mode /\ t.listed = world.task.listed
                      /\ t.split = world.task.split
                      /\ t.pc = "lost" => archive'.profile.is = "empty"
<1>4. PICK t \in TaskRow : world' = [world EXCEPT !.task = t] /\ Goes(t)
  <2>1. CASE archive' = archive /\ world' = [world EXCEPT !.task = [world.task EXCEPT !.pc = "quote"]]
    <3> DEFINE u == [world.task EXCEPT !.pc = "quote"]
    <3>1. u \in TaskRow /\ Goes(u)
      BY <1>1 DEF TaskRow, TaskPcs
    <3> QED
      BY <2>1, <3>1
  <2>2. CASE archive' = [archive EXCEPT !.profile = profile] /\ H!Profiled(profile)
    <3> DEFINE pc == IF profile.is = "empty" /\ ~H!CacheOnly(world.task.mode) THEN "lost" ELSE "quote"
               named == IF profile.is = "known" THEN profile.at ELSE 0
               u == [world.task EXCEPT !.pc = pc, !.named = named]
    <3>1. pc \in {"lost", "quote"} /\ (pc = "lost" => profile.is = "empty") /\ named \in Moments
      BY <1>2, <1>3, HeaderAssumption DEF Moments
    <3>2. world' = [world EXCEPT !.task = u]
      BY <2>2 DEF H!Profiled, H!Becomes, H!task, H!None
    <3> HIDE DEF pc, named
    <3>3. u \in TaskRow /\ u.pc = pc /\ u.mode = world.task.mode /\ u.listed = world.task.listed /\ u.split = world.task.split
      BY <1>1, <3>1 DEF TaskRow, TaskPcs
    <3>4. archive'.profile = profile
      BY <1>1, <2>2 DEF HeaderShelf
    <3> HIDE DEF u
    <3> QED
      BY <3>1, <3>2, <3>3, <3>4
  <2> QED
    BY <2>1, <2>2, <1>2
<1> HIDE DEF Goes
<1>5. world'.task = t /\ world' \in HeaderDesk /\ world'.moment = world.moment /\ world'.job = world.job /\ world'.company = world.company
  BY <1>1, <1>4 DEF HeaderDesk
<1>6. archive'.quote = archive.quote /\ archive'.close = archive.close /\ archive' \in HeaderShelf /\ archive'.profile.at <= world.moment
  BY <1>1, <1>2, <1>3 DEF HeaderShelf, HeaderInv, HeaderTyped
<1>7. HeaderTyped'
  BY <1>5, <1>6 DEF HeaderInv, HeaderTyped
<1>8. H!Close' = H!Close
  BY <1>6 DEF H!Close, H!PriceAt
<1> QED
  BY <1>1, <1>4, <1>5, <1>7, <1>8 DEF HeaderInv, ReadsAgree, Goes

\* A step of the compute that leaves the close and the profile alone.
LEMMA TaskMoves ==
  ASSUME HeaderInv, NEW t \in TaskRow, NEW quote \in 0 .. world.moment,
         world' = [world EXCEPT !.task = t], archive' = [archive EXCEPT !.quote = quote]
  PROVE  /\ HeaderTyped' /\ world'.task = t /\ world'.company = world.company
         /\ archive'.profile = archive.profile /\ H!Close' = H!Close
<1>1. world \in HeaderDesk /\ archive \in HeaderShelf /\ world.moment \in 1 .. LastMoment
  BY DEF HeaderInv, HeaderTyped, HeaderDesk
<1>2. quote \in Moments
  BY <1>1, HeaderAssumption DEF Moments
<1>3. world'.task = t /\ world' \in HeaderDesk /\ world'.moment = world.moment /\ world'.job = world.job /\ world'.company = world.company
  BY <1>1 DEF HeaderDesk
<1>4. /\ archive'.quote = quote /\ archive'.close = archive.close /\ archive'.profile = archive.profile
      /\ archive' \in HeaderShelf
  BY <1>1, <1>2 DEF HeaderShelf
<1>5. quote <= world.moment
  BY <1>1
<1>6. HeaderTyped'
  BY <1>3, <1>4, <1>5 DEF HeaderInv, HeaderTyped
<1>7. H!Close' = H!Close
  BY <1>4 DEF H!Close, H!PriceAt
<1> QED
  BY <1>3, <1>4, <1>6, <1>7

\* What is read of the quote is the cached one or the price of now, and never ahead of now.
LEMMA QuoteIsRead ==
  ASSUME HeaderInv, NEW mode, NEW got, got \in H!GetOrFetch(mode, archive.quote) \/ got \in H!ForceFetch(archive.quote)
  PROVE  /\ got.kept \in 0 .. world.moment /\ got.read \in 0 .. world.moment
         /\ got.read \in Moments
         /\ got \in H!GetOrFetch(mode, archive.quote) /\ H!CacheOnly(mode) => got.kept = got.read
<1>1. world \in HeaderDesk /\ archive \in HeaderShelf /\ archive.quote <= world.moment
  BY DEF HeaderInv, HeaderTyped
<1>2. archive.quote \in 0 .. world.moment /\ world.moment \in 0 .. world.moment /\ 0 \in 0 .. world.moment
  BY <1>1, HeaderAssumption DEF HeaderDesk, HeaderShelf, Moments
<1>3. 0 .. world.moment \subseteq Moments
  BY <1>1, HeaderAssumption DEF HeaderDesk, Moments
<1>4. got = [kept |-> got.kept, read |-> got.read] /\ got.kept \in {archive.quote, world.moment} /\ got.read \in {archive.quote, world.moment, 0}
  BY DEF H!GetOrFetch, H!ForceFetch, H!Called, H!Cached, H!None
<1>5. got \in H!GetOrFetch(mode, archive.quote) /\ H!CacheOnly(mode) => got.kept = got.read
  BY DEF H!GetOrFetch, H!Cached
<1> QED
  BY <1>2, <1>3, <1>4, <1>5

\* The quote is read, with the market cap that is stored beside it ...
LEMMA QuoteMoves ==
  ASSUME HeaderInv, H!ReadQuote
  PROVE  HeaderInv'
<1>1. world \in HeaderDesk /\ archive \in HeaderShelf /\ world.task \in TaskRow /\ world.task.pc = "quote"
  BY DEF HeaderInv, HeaderTyped, HeaderDesk, H!ReadQuote, H!At, H!task
<1> DEFINE mode == world.task.mode
<1>2. PICK got \in IF mode \in {"page", "score"} THEN H!ForceFetch(archive.quote) ELSE H!GetOrFetch(mode, archive.quote) :
        LET overridden == ~H!CacheOnly(mode) /\ (~world.live \/ got.read = 0) /\ H!Close # 0 IN
         /\ archive' = [archive EXCEPT !.quote = got.kept]
         /\ world' = [world EXCEPT !.task = [world.task EXCEPT !.pc = "pe", !.quote = got.read,
                                 !.price = IF overridden THEN H!Close ELSE H!PriceAt(got.read),
                                 !.cap = H!PriceAt(IF got.read # 0 THEN got.read ELSE world.task.named)]]
  BY DEF H!ReadQuote, H!Becomes, H!task, H!None
<1> DEFINE overridden == ~H!CacheOnly(mode) /\ (~world.live \/ got.read = 0) /\ H!Close # 0
           price == IF overridden THEN H!Close ELSE H!PriceAt(got.read)
           cap == H!PriceAt(IF got.read # 0 THEN got.read ELSE world.task.named)
           read == got.read
           t == [world.task EXCEPT !.pc = "pe", !.quote = read, !.price = price, !.cap = cap]
<1>3. got.kept \in 0 .. world.moment /\ read \in Moments
  BY QuoteIsRead, <1>2
<1>4. H!Close \in Nat
  BY PriceIs, <1>1 DEF HeaderShelf, H!Close
<1>5. world.task.named \in Moments
  BY <1>1 DEF TaskRow
<1>6. /\ price \in Nat /\ cap \in Nat
      /\ read # 0 => cap # 0
      /\ H!CacheOnly(mode) /\ read # 0 => cap = price
      /\ H!Close # 0 /\ ~H!CacheOnly(mode) => price # 0
  BY <1>3, <1>4, <1>5, PriceIs
<1>7. world' = [world EXCEPT !.task = t] /\ archive' = [archive EXCEPT !.quote = got.kept]
  BY <1>2
<1> HIDE DEF price, cap, read
<1>8. /\ t \in TaskRow /\ t.pc = "pe" /\ t.quote = read /\ t.price = price /\ t.cap = cap
      /\ t.mode = mode /\ t.listed = world.task.listed /\ t.split = world.task.split
  BY <1>1, <1>3, <1>6 DEF TaskRow, TaskPcs
<1> HIDE DEF t
<1>9. /\ HeaderTyped' /\ world'.task = t /\ world'.company = world.company
      /\ archive'.profile = archive.profile /\ H!Close' = H!Close
  BY TaskMoves, <1>3, <1>7, <1>8
<1>10. ~t.split => ReadsAgree(t, H!Close, world.company)
  BY <1>6, <1>8, <1>1 DEF HeaderInv, ReadsAgree
<1> QED
  BY <1>6, <1>8, <1>9, <1>10 DEF HeaderInv

\* ... the P/E at the price of the row ...
LEMMA PeMoves ==
  ASSUME HeaderInv, H!ReadPe
  PROVE  HeaderInv'
<1>1. world \in HeaderDesk /\ archive \in HeaderShelf /\ world.task \in TaskRow /\ world.task.pc = "pe"
  BY DEF HeaderInv, HeaderTyped, HeaderDesk, H!ReadPe, H!At, H!task
<1> DEFINE pe == H!TrailingPe(world.company, H!RowPrice(H!Close, world.task.price))
           t == [world.task EXCEPT !.pc = "value", !.pe = pe]
<1>2. archive.quote \in 0 .. world.moment /\ archive = [archive EXCEPT !.quote = archive.quote]
  BY <1>1, HeaderAssumption DEF HeaderInv, HeaderTyped, HeaderDesk, HeaderShelf, Moments
<1>3. world' = [world EXCEPT !.task = t] /\ archive' = [archive EXCEPT !.quote = archive.quote]
  BY <1>2 DEF H!ReadPe, H!Becomes, H!task
<1>4. pe \in Int
  <2>1. H!Close \in Nat /\ world.task.price \in Nat /\ world.company \in Companies
    BY PriceIs, <1>1 DEF HeaderShelf, H!Close, TaskRow, HeaderDesk
  <2> QED
    BY <2>1, PeIs DEF H!RowPrice
<1>5. t.pe = pe
  BY <1>1 DEF TaskRow
<1> HIDE DEF pe
<1>6. /\ t \in TaskRow /\ t.pc = "value" /\ t.price = world.task.price /\ t.cap = world.task.cap /\ t.quote = world.task.quote
      /\ t.mode = world.task.mode /\ t.listed = world.task.listed /\ t.split = world.task.split
  BY <1>1, <1>4 DEF TaskRow, TaskPcs
<1> HIDE DEF t
<1>7. /\ HeaderTyped' /\ world'.task = t /\ world'.company = world.company
      /\ archive'.profile = archive.profile /\ H!Close' = H!Close
  BY TaskMoves, <1>2, <1>3, <1>6
<1>8. ~t.split => ReadsAgree(t, H!Close, world.company)
  BY <1>5, <1>6, <1>1 DEF HeaderInv, ReadsAgree, pe
<1> QED
  BY <1>1, <1>6, <1>7, <1>8 DEF HeaderInv

\* ... the verdict ...
LEMMA ValuationMoves ==
  ASSUME HeaderInv, H!ReadValuation
  PROVE  HeaderInv'
<1>1. world \in HeaderDesk /\ archive \in HeaderShelf /\ world.task \in TaskRow /\ world.task.pc = "value"
  BY DEF HeaderInv, HeaderTyped, HeaderDesk, H!ReadValuation, H!At, H!task
<1>2. PICK got \in H!GetOrFetch(world.task.mode, archive.quote) :
         /\ archive' = [archive EXCEPT !.quote = got.kept]
         /\ world' = [world EXCEPT !.task = [world.task EXCEPT !.pc = IF H!Scored(world.task.mode) THEN "row" ELSE "done",
                                 !.verdict = H!Verdict(H!PriceAt(got.read), world.company.fair)]]
  BY DEF H!ReadValuation, H!Becomes, H!task
<1> DEFINE pc == IF H!Scored(world.task.mode) THEN "row" ELSE "done"
           verdict == H!Verdict(H!PriceAt(got.read), world.company.fair)
           t == [world.task EXCEPT !.pc = pc, !.verdict = verdict]
<1>3. got.kept \in 0 .. world.moment
  BY QuoteIsRead, <1>2
<1>4. verdict \in Verdicts /\ pc \in {"row", "done"} /\ (pc = "row" <=> H!Scored(world.task.mode))
  BY VerdictIs
<1>5. world' = [world EXCEPT !.task = t] /\ archive' = [archive EXCEPT !.quote = got.kept]
  BY <1>2
<1> HIDE DEF pc, verdict
<1>6. /\ t \in TaskRow /\ t.pc = pc /\ t.price = world.task.price /\ t.cap = world.task.cap /\ t.quote = world.task.quote
      /\ t.pe = world.task.pe
      /\ t.mode = world.task.mode /\ t.listed = world.task.listed /\ t.split = world.task.split
  BY <1>1, <1>4 DEF TaskRow, TaskPcs
<1> HIDE DEF t
<1>7. /\ HeaderTyped' /\ world'.task = t /\ world'.company = world.company
      /\ archive'.profile = archive.profile /\ H!Close' = H!Close
  BY TaskMoves, <1>3, <1>5, <1>6
<1>8. ~t.split => ReadsAgree(t, H!Close, world.company)
  BY <1>4, <1>6, <1>1 DEF HeaderInv, ReadsAgree
<1> QED
  BY <1>1, <1>4, <1>6, <1>7, <1>8 DEF HeaderInv

\* ... and the row is stored, scaled to the close if there is one.
LEMMA RowMoves ==
  ASSUME HeaderInv, H!WriteRow
  PROVE  HeaderInv'
<1>1. world \in HeaderDesk /\ archive \in HeaderShelf /\ world.task \in TaskRow /\ world.task.pc = "row"
  BY DEF HeaderInv, HeaderTyped, HeaderDesk, H!WriteRow, H!At, H!task
<1>2. H!Scored(world.task.mode) /\ world.task.mode \notin {"page", "nightly"}
  BY <1>1 DEF HeaderInv, H!Scored
<1>3. archive.quote \in 0 .. world.moment /\ archive' = [archive EXCEPT !.quote = archive.quote]
  BY <1>1, HeaderAssumption DEF HeaderInv, HeaderTyped, HeaderDesk, HeaderShelf, Moments, H!WriteRow
<1> DEFINE price == H!RowPrice(H!Close, world.task.price)
           cap == H!RowCap(H!Close, world.task.price, world.task.cap)
           verdict == H!RowVerdict(H!Close, world.company.fair, world.task.verdict)
<1>4. H!Close \in Nat /\ world.task.price \in Nat /\ world.task.cap \in Nat /\ world.company.fair \in Nat
  BY PriceIs, <1>1, HeaderAssumption DEF HeaderShelf, H!Close, TaskRow, HeaderDesk
<1>5. CASE world.task.named = 0
  <2> DEFINE t == [world.task EXCEPT !.pc = "lost"]
  <2>1. world' = [world EXCEPT !.task = t]
    BY <1>5 DEF H!WriteRow, H!Becomes, H!task, H!None
  <2>2. t \in TaskRow /\ t.pc = "lost" /\ t.mode = world.task.mode /\ t.listed = world.task.listed /\ t.split = world.task.split
    BY <1>1 DEF TaskRow, TaskPcs
  <2> HIDE DEF t
  <2>3. /\ HeaderTyped' /\ world'.task = t /\ world'.company = world.company
        /\ archive'.profile = archive.profile /\ H!Close' = H!Close
    BY TaskMoves, <1>3, <2>1, <2>2
  <2> QED
    BY <1>1, <1>2, <2>2, <2>3 DEF HeaderInv, ReadsAgree
<1>6. CASE world.task.named # 0
  <2> DEFINE t == [world.task EXCEPT !.pc = "done", !.price = price, !.cap = cap, !.verdict = verdict]
  <2>1. world' = [world EXCEPT !.task = t]
    BY <1>6 DEF H!WriteRow, H!Becomes, H!task, H!None
  <2>2. /\ price \in Nat /\ (H!Close # 0 => price = H!Close) /\ (H!Close = 0 => price = world.task.price)
        /\ H!RowPrice(H!Close, price) = price
    BY <1>4 DEF H!RowPrice, H!None
  <2>3. cap \in Nat
    <3>1. CASE H!Close = 0 \/ world.task.price = 0
      BY <1>4, <3>1 DEF H!RowCap, H!None
    <3>2. CASE H!Close # 0 /\ world.task.price # 0
      <4>1. cap = (world.task.cap * H!Close) \div world.task.price
        BY <3>2 DEF H!RowCap, H!None
      <4>2. \A a, b \in Nat, c \in Nat \ {0} : (a * b) \div c \in Nat
        <5> TAKE a, b \in Nat, c \in Nat \ {0}
        <5>1. a * b \in Nat
          OBVIOUS
        <5> HIDE <5>1
        <5> DEFINE p == a * b
        <5>2. p \in Nat
          BY <5>1
        <5> HIDE DEF p
        <5>3. p \div c \in Nat
          BY <5>2
        <5> QED
          BY <5>3 DEF p
      <4> QED
        BY <1>4, <3>2, <4>1, <4>2
    <3> QED
      BY <3>1, <3>2
  <2>4. world.task.cap # 0 /\ world.task.cap = world.task.price => cap # 0 /\ cap = price
    <3> SUFFICES ASSUME world.task.cap # 0, world.task.cap = world.task.price PROVE cap # 0 /\ cap = price
      OBVIOUS
    <3>1. CASE H!Close = 0
      BY <3>1, <2>2 DEF H!RowCap, H!None
    <3>2. CASE H!Close # 0
      <4>1. cap = (world.task.price * H!Close) \div world.task.price
        BY <3>2 DEF H!RowCap, H!None
      <4>2. cap = H!Close
        BY <4>1, <1>4, CapScales
      <4> QED
        BY <4>2, <3>2, <2>2
    <3> QED
      BY <3>1, <3>2
  <2>5. /\ verdict \in Verdicts
        /\ world.company.fair # 0 /\ H!Close # 0 => verdict = H!Verdict(price, world.company.fair)
    BY <1>1, <2>2, VerdictIs DEF H!RowVerdict, H!None, TaskRow
  <2> DEFINE pe == H!TrailingPe(world.company, price)
  <2>6. /\ ~world.task.split => world.task.pe = pe /\ (world.task.listed # 0 => world.task.listed = H!Close)
                                /\ (H!Close # 0 /\ ~H!CacheOnly(world.task.mode) => world.task.price # 0)
        /\ H!CacheOnly(world.task.mode) /\ world.task.quote # 0 => world.task.cap # 0 /\ world.task.cap = world.task.price
    BY <1>1 DEF HeaderInv, ReadsAgree
  <2>7. pe = H!TrailingPe(world.company, price)
    OBVIOUS
  <2> HIDE DEF price, cap, verdict, pe
  <2>8. /\ t \in TaskRow /\ t.pc = "done" /\ t.price = price /\ t.cap = cap /\ t.quote = world.task.quote
        /\ t.pe = world.task.pe /\ t.verdict = verdict
        /\ t.mode = world.task.mode /\ t.listed = world.task.listed /\ t.split = world.task.split
    BY <1>1, <2>2, <2>3, <2>5 DEF TaskRow, TaskPcs
  <2> HIDE DEF t
  <2>9. /\ HeaderTyped' /\ world'.task = t /\ world'.company = world.company
        /\ archive'.profile = archive.profile /\ H!Close' = H!Close
    BY TaskMoves, <1>3, <2>1, <2>8
  <2>10. ~t.split => ReadsAgree(t, H!Close, world.company)
    BY <2>2, <2>5, <2>6, <2>7, <2>8 DEF ReadsAgree
  <2> QED
    BY <2>4, <2>6, <2>8, <2>9, <2>10 DEF HeaderInv
<1> QED
  BY <1>5, <1>6

\* A new close, the group switch and the passing of time split a compute that is under way.
LEMMA CloseMoves ==
  ASSUME HeaderInv, H!FetchClose \/ H!UpsertClose \/ H!TimePasses \/ H!SwitchGroup
  PROVE  HeaderInv'
<1>1. world \in HeaderDesk /\ archive \in HeaderShelf /\ world.task \in TaskRow /\ world.moment \in 1 .. LastMoment
  BY DEF HeaderInv, HeaderTyped, HeaderDesk
<1>2. ASSUME H!FetchClose PROVE HeaderInv'
  <2>1. PICK c \in H!Closes(world.moment) : world' = [world EXCEPT !.job = c]
    BY <1>2 DEF H!FetchClose
  <2>2. c \in Moments /\ c <= world.moment
    BY <1>1, <2>1, HeaderAssumption DEF H!Closes, Moments
  <2>3. archive' = archive
    BY <1>2 DEF H!FetchClose
  <2>4. world' \in HeaderDesk /\ world'.task = world.task /\ world'.moment = world.moment /\ world'.company = world.company /\ world'.job = c
    BY <1>1, <2>1, <2>2 DEF HeaderDesk
  <2>5. H!Close' = H!Close
    BY <2>3 DEF H!Close, H!PriceAt
  <2> QED
    BY <2>2, <2>3, <2>4, <2>5 DEF HeaderInv, HeaderTyped, ReadsAgree
<1>3. ASSUME H!UpsertClose PROVE HeaderInv'
  <2> DEFINE t == [world.task EXCEPT !.split = TRUE]
  <2>1. archive' = [archive EXCEPT !.close = world.job]
    BY <1>3 DEF H!UpsertClose
  <2>2. world' = [world EXCEPT !.job = 0, !.task = t]
    BY <1>3 DEF H!UpsertClose, H!None
  <2>3. /\ t \in TaskRow /\ t.split /\ t.pc = world.task.pc /\ t.price = world.task.price /\ t.cap = world.task.cap
        /\ t.quote = world.task.quote /\ t.mode = world.task.mode
    BY <1>1 DEF TaskRow
  <2> HIDE DEF t
  <2>4. 0 \in Moments /\ 0 <= world.moment
    BY <1>1, HeaderAssumption DEF Moments
  <2>5. world' \in HeaderDesk /\ world'.task = t /\ world'.moment = world.moment /\ world'.company = world.company /\ world'.job = 0
    BY <1>1, <2>2, <2>3, <2>4 DEF HeaderDesk
  <2>6. /\ archive' \in HeaderShelf /\ archive'.quote = archive.quote /\ archive'.profile = archive.profile /\ archive'.close = world.job
    BY <1>1, <2>1 DEF HeaderShelf, HeaderDesk
  <2>7. HeaderTyped'
    BY <2>4, <2>5, <2>6 DEF HeaderInv, HeaderTyped
  <2> QED
    BY <2>3, <2>5, <2>6, <2>7 DEF HeaderInv
<1>4. ASSUME H!TimePasses PROVE HeaderInv'
  <2>1. archive' = archive /\ world' = [world EXCEPT !.moment = world.moment + 1] /\ world.moment < LastMoment
    BY <1>4 DEF H!TimePasses
  <2>2. world.moment + 1 \in 1 .. LastMoment
    BY <1>1, <2>1, HeaderAssumption
  <2>3. world' \in HeaderDesk /\ world'.task = world.task /\ world'.moment = world.moment + 1 /\ world'.company = world.company /\ world'.job = world.job
    BY <1>1, <2>1, <2>2 DEF HeaderDesk
  <2>4. H!Close' = H!Close
    BY <2>1 DEF H!Close, H!PriceAt
  <2>5. world.moment \in Int /\ world.job \in Int /\ archive.quote \in Int /\ archive.close \in Int /\ archive.profile.at \in Int
    BY <1>1 DEF HeaderDesk, HeaderShelf, Moments
  <2>6. HeaderTyped'
    BY <2>1, <2>3, <2>5 DEF HeaderInv, HeaderTyped
  <2> QED
    BY <2>1, <2>3, <2>4, <2>6 DEF HeaderInv, ReadsAgree
<1>5. ASSUME H!SwitchGroup PROVE HeaderInv'
  <2>1. archive' = archive /\ world' = [world EXCEPT !.live = ~world.live]
    BY <1>5 DEF H!SwitchGroup
  <2>2. (~world.live) \in BOOLEAN
    BY <1>1 DEF HeaderDesk
  <2>3. world' \in HeaderDesk /\ world'.task = world.task /\ world'.moment = world.moment /\ world'.company = world.company /\ world'.job = world.job
    BY <1>1, <2>1, <2>2 DEF HeaderDesk
  <2>4. H!Close' = H!Close
    BY <2>1 DEF H!Close, H!PriceAt
  <2> QED
    BY <2>1, <2>3, <2>4 DEF HeaderInv, HeaderTyped, ReadsAgree
<1> QED
  BY <1>2, <1>3, <1>4, <1>5

\* Every step keeps the invariant.
LEMMA HeaderSteps == HeaderInv /\ [H!NextHeader]_<<world, archive>> => HeaderInv'
<1> SUFFICES ASSUME HeaderInv, [H!NextHeader]_<<world, archive>> PROVE HeaderInv'
  OBVIOUS
<1>1. CASE UNCHANGED <<world, archive>>
  BY <1>1 DEF HeaderInv, HeaderTyped, ReadsAgree, H!Close, H!PriceAt
<1>2. CASE H!NextHeader
  BY <1>2, HeaderBegins, ProfileIsRead, QuoteMoves, PeMoves, ValuationMoves, RowMoves, CloseMoves DEF H!NextHeader
<1> QED
  BY <1>1, <1>2

\* The invariant gives what TLC checks: what a header shows was reckoned from its price.
LEMMA HeaderGives == HeaderInv => H!HeaderTypeOK /\ H!HeaderHolds
<1> SUFFICES ASSUME HeaderInv PROVE H!HeaderTypeOK /\ H!HeaderHolds
  OBVIOUS
<1>1. world \in HeaderDesk /\ archive \in HeaderShelf /\ world.task \in TaskRow
  BY DEF HeaderInv, HeaderTyped, HeaderDesk
<1>2. H!HeaderTypeOK
  <2>1. archive.profile = [is |-> archive.profile.is, at |-> archive.profile.at] /\ archive.profile.is \in {"none", "known", "empty"}
        /\ archive.profile.at \in 0 .. world.moment
    BY <1>1, HeaderAssumption DEF HeaderInv, HeaderTyped, HeaderDesk, HeaderShelf, Moments
  <2>2. archive.profile \in [is : {"none", "known", "empty"}, at : 0 .. world.moment]
    BY <2>1, Zenon
  <2>3. /\ world.moment \in 1 .. LastMoment /\ world.job \in 0 .. world.moment
        /\ archive.quote \in 0 .. world.moment /\ archive.close \in 0 .. world.moment
    BY <1>1, HeaderAssumption DEF HeaderInv, HeaderTyped, HeaderDesk, HeaderShelf, Moments
  <2>4. /\ world.live \in BOOLEAN /\ world.company \in Companies
        /\ world.task.pc \in TaskPcs /\ world.task.mode \in H!Modes /\ world.task.verdict \in Verdicts
    BY <1>1 DEF HeaderDesk, TaskRow
  <2> QED
    BY <2>2, <2>3, <2>4 DEF H!HeaderTypeOK, H!task, TaskPcs, Verdicts
<1>3. H!Close \in Nat /\ (archive.close # 0 <=> H!Close # 0)
  BY <1>1, PriceIs DEF HeaderShelf, H!Close
<1>4. H!OnePrice
  BY <1>1 DEF HeaderInv, ReadsAgree, H!OnePrice, H!Made, H!At, H!task, H!RowPrice, H!None
<1>5. H!CapOfThePrice
  BY <1>1 DEF HeaderInv, H!CapOfThePrice, H!Made, H!At, H!task, H!None
<1>6. H!VerdictOfThePrice
  BY <1>1, <1>3 DEF HeaderInv, ReadsAgree, H!VerdictOfThePrice, H!Made, H!At, H!task, H!None
<1>7. H!HeaderNeverBlank
  BY <1>1, <1>3 DEF HeaderInv, ReadsAgree, H!HeaderNeverBlank, H!At, H!task, H!None
<1>8. H!OutageIsNotAbsence
  BY <1>1 DEF HeaderInv, H!OutageIsNotAbsence, H!At, H!task
<1> QED
  BY <1>2, <1>4, <1>5, <1>6, <1>7, <1>8 DEF H!HeaderHolds

-----------------------------------------------------------------------------
(* Small sets of numbers. *)

\* A set of numbers has a smallest one ...
LEMMA SmallestOf ==
  ASSUME NEW S \in SUBSET Nat, S # {}
  PROVE  \E m \in S : \A d \in S : m <= d
<1>1. \E m \in S : \A d \in S : ~ (<<d, m>> \in OpToRel(<, Nat))
  BY NatLessThanWellFounded, WFMin, Zenon
<1>2. \E m \in S : \A d \in S : ~ (d < m)
  BY <1>1, Zenon DEF OpToRel
<1> QED
  BY <1>2

\* ... and, if it is bounded, a largest one.
LEMMA LargestOf ==
  ASSUME NEW n \in Nat, NEW S \in SUBSET (0 .. n), S # {}
  PROVE  \E m \in S : \A d \in S : d <= m
<1> DEFINE T == {n - d : d \in S}
<1>1. T \in SUBSET Nat /\ T # {}
  <2>1. ASSUME NEW d \in S PROVE n - d \in Nat
    OBVIOUS
  <2> QED
    BY <2>1
<1>2. PICK e \in T : \A f \in T : e <= f
  BY <1>1, SmallestOf
<1>3. PICK m \in S : e = n - m
  BY <1>2
<1>4. ASSUME NEW d \in S PROVE d <= m
  <2>1. n - d \in T /\ n \in Int /\ m \in Int /\ d \in Int
    OBVIOUS
  <2>2. e <= n - d
    BY <1>2, <2>1
  <2> QED
    BY <1>3, <2>1, <2>2
<1> QED
  BY <1>4

\* A part of a bounded set has no more members than the set.
LEMMA SmallCount ==
  ASSUME NEW n \in Nat, NEW B \in SUBSET (0 .. n), NEW A \in SUBSET B
  PROVE  /\ IsFiniteSet(A) /\ IsFiniteSet(B)
         /\ Cardinality(A) \in Nat /\ Cardinality(B) \in Nat /\ Cardinality(A) <= Cardinality(B)
<1>1. IsFiniteSet(0 .. n)
  BY FS_Interval
<1>2. IsFiniteSet(B)
  BY <1>1, FS_Subset
<1>3. IsFiniteSet(A) /\ Cardinality(A) <= Cardinality(B)
  BY <1>2, FS_Subset
<1> QED
  BY <1>2, <1>3, FS_CardinalityType

\* An instance counts as everybody does.
LEMMA SameCount == \A S : K!Cardinality(S) = Cardinality(S)
BY DEF K!Cardinality, Cardinality

\* A member is one of the newest k iff fewer than k members are newer.
LEMMA NewestIs ==
  ASSUME NEW T, NEW k, NEW x
  PROVE  x \in K!Newest(T, k) <=> x \in T /\ Cardinality(K!Above(T, x)) < k
BY SameCount DEF K!Newest

\* The newest n of a set are no more than n ...
LEMMA NewestAreFew ==
  ASSUME NEW n \in Nat, NEW T \in SUBSET (0 .. n), NEW k \in Nat
  PROVE  Cardinality(K!Newest(T, k)) <= k
<1> DEFINE N == K!Newest(T, k)
<1>1. N \in SUBSET T /\ \A x \in N : Cardinality(K!Above(T, x)) < k
  BY NewestIs
<1>2. CASE N = {}
  BY <1>2, FS_EmptySet
<1>3. CASE N # {}
  <2> HIDE DEF N
  <2>1. N \in SUBSET Nat
    BY <1>1
  <2>2. PICK x \in N : \A y \in N : x <= y
    BY <1>3, <2>1, SmallestOf
  <2> DEFINE above == K!Above(T, x)
  <2>3. N \ {x} \in SUBSET above
    BY <1>1, <2>1, <2>2 DEF K!Above
  <2>4. Cardinality(above) < k /\ above \in SUBSET T
    BY <1>1 DEF K!Above
  <2> HIDE DEF above
  <2>5. /\ IsFiniteSet(N) /\ Cardinality(N) \in Nat /\ Cardinality(above) \in Nat
    BY <1>1, <2>4, SmallCount
  <2>6. above \in SUBSET (0 .. n)
    BY <2>4
  <2>7. Cardinality(N \ {x}) <= Cardinality(above) /\ Cardinality(N \ {x}) \in Nat
    BY <2>3, <2>6, SmallCount
  <2>8. Cardinality(N \ {x}) = Cardinality(N) - 1
    BY <2>5, FS_RemoveElement
  <2> QED
    BY <2>4, <2>5, <2>7, <2>8 DEF N
<1> QED
  BY <1>2, <1>3

\* ... and no fewer, if there are as many.
LEMMA NewestSuffice ==
  ASSUME NEW n \in Nat, NEW T \in SUBSET (0 .. n), NEW k \in Nat, k <= Cardinality(T)
  PROVE  k <= Cardinality(K!Newest(T, k))
<1> DEFINE N == K!Newest(T, k)
<1>1. N \in SUBSET T /\ \A x \in T : x \notin N => ~ (Cardinality(K!Above(T, x)) < k)
  BY NewestIs
<1> HIDE DEF N
<1>2. CASE N = T
  BY <1>2 DEF N
<1>3. CASE N # T
  <2>1. T \ N # {} /\ T \ N \in SUBSET (0 .. n)
    BY <1>1, <1>3
  <2>2. PICK m \in T \ N : \A p \in T \ N : p <= m
    BY <2>1, LargestOf
  <2> DEFINE above == K!Above(T, m)
  <2>3. above \in SUBSET N
    <3> SUFFICES ASSUME NEW y \in T, y > m PROVE y \in N
      BY DEF K!Above
    <3> QED
      BY <2>1, <2>2
  <2>4. ~ (Cardinality(above) < k)
    BY <1>1, <2>2
  <2> HIDE DEF above
  <2>5. N \in SUBSET (0 .. n)
    BY <1>1
  <2>6. Cardinality(above) <= Cardinality(N) /\ Cardinality(above) \in Nat /\ Cardinality(N) \in Nat
    BY <2>3, <2>5, SmallCount
  <2> QED
    BY <2>4, <2>6 DEF N
<1> QED
  BY <1>2, <1>3

-----------------------------------------------------------------------------
(* The tiers of the retention, of any set of files. *)

Newer(E, d) == K!Above(K!Dates(E), d)
LastIn(E, d) == \A e \in Newer(E, d) : K!WeekOf(e) # K!WeekOf(d)
WeeksAfter(E, d) == {e \in Newer(E, d) : LastIn(E, e) /\ Cardinality(Newer(E, e)) >= KEEP_DAILY}

\* What a file must be like to be deleted: GoodCopiesStay's condition.
Prunable(E, f) ==
    /\ Cardinality(Newer(E, K!DayOf(f))) >= KEEP_DAILY
    /\ \/ ~LastIn(E, K!DayOf(f))
       \/ Cardinality(WeeksAfter(E, K!DayOf(f))) >= KEEP_WEEKLY
       \/ \E g \in E : K!DayOf(g) = K!DayOf(f) /\ g > f

\* The dates of bounded names are bounded ...
LEMMA DatesSmall ==
  ASSUME NEW n \in Nat, NEW E \in SUBSET (0 .. n)
  PROVE  K!Dates(E) \in SUBSET (0 .. n)
<1> SUFFICES ASSUME NEW f \in E PROVE K!DayOf(f) \in 0 .. n
  BY DEF K!Dates
<1> QED
  BY DEF K!DayOf

\* ... and a later date is in no earlier week.
LEMMA WeeksGrow ==
  ASSUME NEW x \in Nat, NEW y \in Nat, x <= y
  PROVE  K!WeekOf(x) \in Nat /\ K!WeekOf(y) \in Nat /\ K!WeekOf(x) <= K!WeekOf(y)
<1>1. x \div Week \in Nat /\ (x \div Week) + 0 <= y \div Week
  BY DivGrows, BackupAssumption
<1>2. y \div Week \in Nat
  BY DivGrows, BackupAssumption
<1> QED
  BY <1>1, <1>2 DEF K!WeekOf

\* More files, no fewer newer dates and no fewer newer weeks.
LEMMA NewerGrow ==
  ASSUME NEW n \in Nat, NEW E \in SUBSET (0 .. n), NEW F \in SUBSET E, NEW d \in Nat
  PROVE  /\ Newer(F, d) \subseteq Newer(E, d)
         /\ Cardinality(Newer(F, d)) \in Nat /\ Cardinality(Newer(E, d)) \in Nat
         /\ Cardinality(Newer(F, d)) <= Cardinality(Newer(E, d))
<1>1. Newer(F, d) \in SUBSET Newer(E, d)
  BY DEF Newer, K!Dates, K!Above
<1>2. Newer(E, d) \in SUBSET (0 .. n)
  BY DatesSmall DEF Newer, K!Above
<1> QED
  BY <1>1, <1>2, SmallCount

\* More files, no fewer weeks after a date: a week of the fewer has its last date among the more.
LEMMA WeeksAfterGrow ==
  ASSUME NEW n \in Nat, NEW E \in SUBSET (0 .. n), NEW F \in SUBSET E, NEW d \in Nat
  PROVE  /\ Cardinality(WeeksAfter(F, d)) \in Nat /\ Cardinality(WeeksAfter(E, d)) \in Nat
         /\ Cardinality(WeeksAfter(F, d)) <= Cardinality(WeeksAfter(E, d))
<1> DEFINE A == WeeksAfter(F, d)
           B == WeeksAfter(E, d)
           Stands(y, z) == K!WeekOf(z) = K!WeekOf(y) /\ y <= z
<1>1. K!Dates(E) \in SUBSET (0 .. n) /\ K!Dates(F) \in SUBSET K!Dates(E)
  BY DatesSmall DEF K!Dates
<1>2. A \in SUBSET (0 .. n) /\ B \in SUBSET (0 .. n) /\ A \in SUBSET K!Dates(F)
  BY <1>1 DEF WeeksAfter, Newer, K!Above
<1>3. ASSUME NEW y \in A PROVE \E z \in B : Stands(y, z)
  <2>1. y \in K!Dates(F) /\ y > d /\ LastIn(F, y) /\ Cardinality(Newer(F, y)) >= KEEP_DAILY /\ y \in Nat
    BY <1>1 DEF WeeksAfter, Newer, K!Above
  <2> DEFINE S == {e \in K!Dates(E) : K!WeekOf(e) = K!WeekOf(y)}
  <2>2. S \in SUBSET (0 .. n) /\ y \in S
    BY <1>1, <2>1
  <2>3. PICK z \in S : \A e \in S : e <= z
    BY <2>2, LargestOf
  <2>4. z \in Nat /\ y <= z /\ Stands(y, z) /\ z \in K!Dates(E)
    BY <2>2, <2>3
  <2>5. LastIn(E, z)
    <3> SUFFICES ASSUME NEW e \in Newer(E, z), K!WeekOf(e) = K!WeekOf(z) PROVE FALSE
      BY DEF LastIn
    <3>1. e \in K!Dates(E) /\ e > z /\ K!WeekOf(e) = K!WeekOf(y)
      BY <2>4 DEF Newer, K!Above
    <3>2. e \in S /\ e \in Nat
      BY <1>1, <3>1
    <3> QED
      BY <2>3, <2>4, <3>1, <3>2
  <2>6. Newer(F, y) \in SUBSET Newer(E, z)
    <3> SUFFICES ASSUME NEW e \in Newer(F, y) PROVE e > z /\ e \in K!Dates(E)
      BY DEF Newer, K!Above
    <3>1. e \in K!Dates(E) /\ e \in Nat /\ e > y /\ K!WeekOf(e) # K!WeekOf(y)
      BY <1>1, <2>1 DEF Newer, LastIn, K!Above
    <3>2. CASE e <= z
      <4>1. K!WeekOf(y) \in Nat /\ K!WeekOf(e) \in Nat /\ K!WeekOf(y) <= K!WeekOf(e)
        BY <2>1, <3>1, WeeksGrow
      <4>2. K!WeekOf(e) <= K!WeekOf(z) /\ K!WeekOf(z) \in Nat
        BY <2>4, <3>1, <3>2, WeeksGrow
      <4> QED
        BY <2>4, <3>1, <4>1, <4>2
    <3> QED
      BY <2>4, <3>1, <3>2
  <2>7. Cardinality(Newer(E, z)) >= KEEP_DAILY
    <3>1. Newer(E, z) \in SUBSET (0 .. n)
      BY <1>1 DEF Newer, K!Above
    <3>2. /\ Cardinality(Newer(F, y)) \in Nat /\ Cardinality(Newer(E, z)) \in Nat
          /\ Cardinality(Newer(F, y)) <= Cardinality(Newer(E, z))
      BY <2>6, <3>1, SmallCount
    <3> QED
      BY <2>1, <3>2, BackupAssumption
  <2>8. z > d
    BY <2>1, <2>4
  <2>9. z \in B
    BY <2>4, <2>5, <2>7, <2>8 DEF WeeksAfter, Newer, K!Above
  <2> QED
    BY <2>4, <2>9
<1>4. ASSUME NEW x \in A, NEW y \in A, K!WeekOf(x) = K!WeekOf(y) PROVE x = y
  <2>1. x \in Nat /\ y \in Nat /\ x \in K!Dates(F) /\ y \in K!Dates(F)
    BY <1>1, <1>2
  <2>2. LastIn(F, x) /\ LastIn(F, y)
    BY DEF WeeksAfter
  <2>3. ~ (y > x) /\ ~ (x > y)
    BY <2>1, <2>2, <1>4 DEF LastIn, Newer, K!Above
  <2> QED
    BY <2>1, <2>3
<1> HIDE DEF A, B
<1> DEFINE g == [y \in A |-> CHOOSE z \in B : Stands(y, z)]
<1>5. \A y \in A : g[y] \in B /\ Stands(y, g[y])
  BY <1>3
<1>6. g \in Injection(A, B)
  <2>1. g \in [A -> B]
    BY <1>5
  <2>2. \A x, y \in A : g[x] = g[y] => x = y
    BY <1>4, <1>5
  <2> QED
    BY <2>1, <2>2 DEF Injection, IsInjective
<1>7. IsFiniteSet(B) /\ Cardinality(A) \in Nat /\ Cardinality(B) \in Nat
  BY <1>2, SmallCount
<1>8. Cardinality(A) <= Cardinality(B)
  BY <1>6, <1>7, FS_Injection
<1> QED
  BY <1>7, <1>8 DEF A, B

\* What may be deleted among some files may be deleted among more.
LEMMA PrunableGrows ==
  ASSUME NEW n \in Nat, NEW E \in SUBSET (0 .. n), NEW F \in SUBSET E, NEW f \in 0 .. n, Prunable(F, f)
  PROVE  Prunable(E, f)
<1> DEFINE d == K!DayOf(f)
<1>1. d \in Nat
  BY DEF K!DayOf
<1> HIDE DEF d
<1>2. Newer(F, d) \subseteq Newer(E, d) /\ Cardinality(Newer(F, d)) \in Nat /\ Cardinality(Newer(E, d)) \in Nat
      /\ Cardinality(Newer(F, d)) <= Cardinality(Newer(E, d))
  BY <1>1, NewerGrow
<1>3. /\ Cardinality(WeeksAfter(F, d)) \in Nat /\ Cardinality(WeeksAfter(E, d)) \in Nat
      /\ Cardinality(WeeksAfter(F, d)) <= Cardinality(WeeksAfter(E, d))
  BY <1>1, WeeksAfterGrow
<1>4. Cardinality(Newer(E, d)) >= KEEP_DAILY
  BY <1>2, BackupAssumption DEF Prunable, d
<1>5. \/ ~LastIn(E, d)
      \/ Cardinality(WeeksAfter(E, d)) >= KEEP_WEEKLY
      \/ \E g \in E : K!DayOf(g) = d /\ g > f
  <2>1. \/ ~LastIn(F, d)
        \/ Cardinality(WeeksAfter(F, d)) >= KEEP_WEEKLY
        \/ \E g \in F : K!DayOf(g) = d /\ g > f
    BY DEF Prunable, d
  <2>2. ASSUME ~LastIn(F, d) PROVE ~LastIn(E, d)
    BY <1>2, <2>2 DEF LastIn
  <2>3. ASSUME Cardinality(WeeksAfter(F, d)) >= KEEP_WEEKLY PROVE Cardinality(WeeksAfter(E, d)) >= KEEP_WEEKLY
    BY <1>3, <2>3, BackupAssumption
  <2> QED
    BY <2>1, <2>2, <2>3
<1> QED
  BY <1>4, <1>5 DEF Prunable, d

\* What is not daily has enough newer dates; the newest of the last dates are the weeks after.
LEMMA DailyAre ==
  ASSUME NEW n \in Nat, NEW F \in SUBSET (0 .. n), NEW d \in K!Dates(F)
  PROVE  /\ d \notin K!Daily(F) <=> Cardinality(Newer(F, d)) >= KEEP_DAILY
         /\ d \in K!LastOfWeek(F) <=> LastIn(F, d)
<1>1. K!Dates(F) \in SUBSET (0 .. n) /\ d \in Nat
  BY DatesSmall
<1>2. Cardinality(Newer(F, d)) \in Nat
  BY <1>1, NewerGrow
<1>3. d \in K!Daily(F) <=> Cardinality(Newer(F, d)) < KEEP_DAILY
  <2>1. Newer(F, d) = K!Above(K!Dates(F), d)
    BY DEF Newer
  <2> QED
    BY <2>1, NewestIs DEF K!Daily
<1>4. d \notin K!Daily(F) <=> Cardinality(Newer(F, d)) >= KEEP_DAILY
  BY <1>2, <1>3, BackupAssumption
<1>5. ASSUME d \in K!LastOfWeek(F) PROVE LastIn(F, d)
  <2> SUFFICES ASSUME NEW e \in K!Dates(F), e > d, K!WeekOf(e) = K!WeekOf(d) PROVE FALSE
    BY DEF LastIn, Newer, K!Above
  <2> QED
    BY <1>1, <1>5 DEF K!LastOfWeek
<1>6. ASSUME LastIn(F, d) PROVE d \in K!LastOfWeek(F)
  <2> SUFFICES ASSUME NEW e \in K!Dates(F), K!WeekOf(e) = K!WeekOf(d) PROVE e <= d
    BY DEF K!LastOfWeek
  <2>1. ~ (e > d)
    BY <1>6 DEF LastIn, Newer, K!Above
  <2> QED
    BY <1>1, <2>1
<1> QED
  BY <1>4, <1>5, <1>6

\* select_backups_to_prune picks only what may be deleted.
LEMMA PickedIsPrunable ==
  ASSUME NEW n \in Nat, NEW F \in SUBSET (0 .. n), NEW f \in K!SelectToPrune(F)
  PROVE  f \in F /\ Prunable(F, f)
<1> DEFINE d == K!DayOf(f)
           L == K!LastOfWeek(F) \ K!Daily(F)
<1>1. f \in F /\ d \in K!Dates(F)
  BY DEF K!SelectToPrune, K!Surplus, K!Dates
<1>2. K!Dates(F) \in SUBSET (0 .. n) /\ d \in Nat
  BY <1>1, DatesSmall
<1>3. d \notin K!Daily(F)
  BY DEF K!SelectToPrune, K!Surplus, K!Weekly, K!Newest
<1>4. Cardinality(Newer(F, d)) >= KEEP_DAILY
  BY <1>1, <1>3, DailyAre
<1>5. CASE d \in K!Weekly(F)
  <2>1. \E g \in F : K!DayOf(g) = d /\ g > f
    BY <1>5 DEF K!SelectToPrune, K!Surplus
  <2> QED
    BY <1>1, <1>4, <2>1 DEF Prunable
<1>6. CASE d \notin K!Weekly(F) /\ d \notin K!LastOfWeek(F)
  <2>1. ~LastIn(F, d)
    BY <1>1, <1>6, DailyAre
  <2> QED
    BY <1>1, <1>4, <2>1 DEF Prunable
<1>7. CASE d \notin K!Weekly(F) /\ d \in K!LastOfWeek(F)
  <2>1. ~ (Cardinality(K!Above(L, d)) < KEEP_WEEKLY)
    BY <1>3, <1>7, NewestIs DEF K!Weekly
  <2>2. L \in SUBSET K!Dates(F)
    BY DEF K!LastOfWeek
  <2>3. \A y \in K!Dates(F) : y \in L <=> LastIn(F, y) /\ Cardinality(Newer(F, y)) >= KEEP_DAILY
    BY DailyAre
  <2>4. K!Above(L, d) = WeeksAfter(F, d)
    BY <2>2, <2>3 DEF WeeksAfter, Newer, K!Above
  <2>5. Cardinality(WeeksAfter(F, d)) \in Nat
    BY <1>2, WeeksAfterGrow
  <2>6. Cardinality(WeeksAfter(F, d)) >= KEEP_WEEKLY
    BY <2>1, <2>4, <2>5, BackupAssumption
  <2> QED
    BY <1>1, <1>4, <2>6 DEF Prunable
<1> QED
  BY <1>5, <1>6, <1>7

-----------------------------------------------------------------------------
(* The backups: Backups. *)

JobRow == [at : {"idle", "writing", "written", "pruning"}, name : Nat, seen : SUBSET Nat, doomed : SUBSET Nat]
DiskRow == [files : SUBSET Nat, whole : SUBSET Nat, temps : SUBSET Nat, ever : SUBSET Nat, unpruned : SUBSET Nat,
            sweptOn : Nat, jobs : [Starters -> JobRow]]

\* A name that some run has, or had.
Taken(f) == f < world.next \/ (f = world.next /\ ~world.free)

BackupTyped == world.next \in Nat /\ world.free \in BOOLEAN /\ archive \in DiskRow

NamesAreTaken ==
    /\ \A f \in archive.ever \cup archive.temps : Taken(f)
    /\ \A p \in Starters : archive.jobs[p].at = "writing" =>
          /\ Taken(archive.jobs[p].name) /\ archive.jobs[p].name \notin archive.ever
          /\ \A q \in Starters : q # p /\ archive.jobs[q].at = "writing" => archive.jobs[q].name # archive.jobs[p].name
          /\ K!DayOf(archive.jobs[p].name) = K!DayOf(world.next) => archive.jobs[p].name \in archive.temps
    /\ \A f \in archive.temps : K!DayOf(f) >= archive.sweptOn

JobsAreSane ==
    /\ archive.whole = archive.files /\ archive.files \subseteq archive.ever
    /\ \A p \in Starters :
          /\ archive.jobs[p].doomed \subseteq archive.jobs[p].seen /\ archive.jobs[p].seen \subseteq archive.ever
          /\ archive.jobs[p].at # "pruning" => archive.jobs[p].doomed = {}

DeletedMayBe ==
    /\ \A f \in archive.ever : f \notin archive.files => Prunable(archive.ever, f)
    /\ \A p \in Starters : \A f \in archive.jobs[p].doomed : Prunable(archive.ever, f)

\* Some set of files was pruned to its tiers, and has every file there is but the unpruned;
\* of two prunes one has seen what the other has, and what a prune has not seen is unpruned
\* or was seen, with everything this one saw, by one that ended.
Pruned(S) == archive.files \ archive.unpruned \subseteq S /\ archive.files \cap K!SelectToPrune(S) = {}

PrunesAreNested ==
    /\ \E S \in SUBSET archive.ever : Pruned(S)
    /\ \A p \in Starters : archive.jobs[p].at = "pruning" =>
          /\ archive.files \cap K!SelectToPrune(archive.jobs[p].seen) \subseteq archive.jobs[p].doomed
          /\ \A g \in archive.files \ archive.jobs[p].seen : g \notin archive.unpruned =>
                archive.files \cap archive.jobs[p].seen \cap archive.unpruned = {}
          /\ \A q \in Starters : archive.jobs[q].at = "pruning" =>
                \/ archive.files \cap archive.jobs[p].seen \subseteq archive.jobs[q].seen
                \/ archive.files \cap archive.jobs[q].seen \subseteq archive.jobs[p].seen

BackupInv == BackupTyped /\ NamesAreTaken /\ JobsAreSane /\ DeletedMayBe /\ PrunesAreNested

\* A run that is not under way.
LEMMA NoJobIs == K!NoJob \in JobRow /\ K!NoJob.at = "idle" /\ K!NoJob.doomed = {} /\ K!NoJob.seen = {}
BY DEF K!NoJob, K!Job, JobRow

\* The invariant holds of the empty directory.
LEMMA BackupsStart == K!InitBackups => BackupInv
<1> SUFFICES ASSUME K!InitBackups PROVE BackupInv
  OBVIOUS
<1>1. archive = [files |-> {}, whole |-> {}, temps |-> {}, ever |-> {}, unpruned |-> {}, sweptOn |-> 0, jobs |-> [p \in Starters |-> K!NoJob]]
  BY DEF K!InitBackups
<1>2. world = [next |-> 2, free |-> TRUE, mishaps |-> BackupMishaps]
  BY DEF K!InitBackups
<1>3. archive \in DiskRow
  BY <1>1, NoJobIs DEF DiskRow
<1>4. \A p \in Starters : archive.jobs[p] = K!NoJob
  BY <1>1
<1>5. archive.files = {} /\ archive.whole = {} /\ archive.temps = {} /\ archive.ever = {} /\ archive.unpruned = {}
  BY <1>1
<1>6. PrunesAreNested
  <2>1. Pruned({})
    BY <1>5 DEF Pruned
  <2> QED
    BY <1>4, <1>5, <2>1, NoJobIs DEF PrunesAreNested
<1> QED
  BY <1>2, <1>3, <1>4, <1>5, <1>6, NoJobIs DEF BackupInv, BackupTyped, NamesAreTaken, JobsAreSane, DeletedMayBe

\* A step that leaves the finished files alone, and a run that does not prune, or what it prunes.
LEMMA FilesStay ==
  ASSUME JobsAreSane, DeletedMayBe, PrunesAreNested,
         archive'.files = archive.files, archive'.whole = archive.whole, archive'.ever = archive.ever, archive'.unpruned = archive.unpruned,
         \A q \in Starters : \/ archive'.jobs[q] = archive.jobs[q]
                             \/ archive'.jobs[q].at # "pruning" /\ archive'.jobs[q].doomed = {} /\ archive'.jobs[q].seen = {}
  PROVE  JobsAreSane' /\ DeletedMayBe' /\ PrunesAreNested'
<1>1. JobsAreSane'
  BY DEF JobsAreSane
<1>2. DeletedMayBe'
  BY DEF DeletedMayBe
<1>3. \A S : Pruned(S) => Pruned(S)'
  BY DEF Pruned
<1>4. PrunesAreNested'
  BY <1>3 DEF PrunesAreNested
<1> QED
  BY <1>1, <1>2, <1>4

\* The files of a behaviour are so many.
LEMMA EverSmall ==
  ASSUME BackupInv
  PROVE  /\ archive.ever \in SUBSET (0 .. world.next) /\ archive.files \in SUBSET archive.ever
         /\ \A p \in Starters : archive.jobs[p].seen \in SUBSET archive.ever /\ archive.jobs[p] \in JobRow
<1>1. archive.ever \in SUBSET Nat /\ world.next \in Nat /\ \A p \in Starters : archive.jobs[p] \in JobRow
  BY DEF BackupInv, BackupTyped, DiskRow
<1>2. \A f \in archive.ever : f <= world.next
  BY <1>1 DEF BackupInv, NamesAreTaken, Taken
<1> QED
  BY <1>1, <1>2 DEF BackupInv, JobsAreSane

\* A name is a date and a half of it.
LEMMA DaysAre ==
  ASSUME NEW n \in Nat
  PROVE  /\ K!DayOf(n) \in Nat /\ n % 2 \in {0, 1}
         /\ n % 2 = 0 => K!DayOf(n + 1) = K!DayOf(n) /\ n - (n % 2) + 1 = n + 1
         /\ n % 2 = 1 => n - (n % 2) + 1 = n
         /\ K!DayOf(2 * (K!DayOf(n) + 1)) = K!DayOf(n) + 1 /\ 2 * (K!DayOf(n) + 1) > n
BY DEF K!DayOf

\* A run takes the next free name, sweeps the temp files of other dates, and has its own temp file.
LEMMA BackupBegins ==
  ASSUME BackupInv, NEW p \in Starters, K!Begin(p)
  PROVE  BackupInv'
<1> DEFINE name == world.next
           stale == K!StaleTemps(archive.temps)
<1>1. PICK refused \in BOOLEAN :
         /\ \E m : world' = [next |-> name - (name % 2) + 1, free |-> name % 2 = 0, mishaps |-> m]
         /\ archive' = [archive EXCEPT !.temps = (archive.temps \ stale) \cup (IF refused THEN {} ELSE {name}),
                                       !.sweptOn = K!DayOf(name),
                                       !.jobs = IF refused THEN archive.jobs ELSE [archive.jobs EXCEPT ![p] = K!Job("writing", name, {}, {})]]
  BY DEF K!Begin
<1>2. archive \in DiskRow /\ name \in Nat /\ world.free
  BY DEF BackupInv, BackupTyped, K!Begin
<1> DEFINE temps == (archive.temps \ stale) \cup (IF refused THEN {} ELSE {name})
           jobs == IF refused THEN archive.jobs ELSE [archive.jobs EXCEPT ![p] = K!Job("writing", name, {}, {})]
           j == K!Job("writing", name, {}, {})
<1>3. j \in JobRow /\ j.at = "writing" /\ j.name = name /\ j.seen = {} /\ j.doomed = {}
  BY <1>2 DEF K!Job, JobRow
<1>4. temps \in SUBSET Nat /\ jobs \in [Starters -> JobRow]
  BY <1>2, <1>3 DEF DiskRow
<1>5. \A q \in Starters : jobs[q] = IF q = p /\ ~refused THEN j ELSE archive.jobs[q]
  BY <1>2 DEF DiskRow
<1>6. \A f \in archive.temps : f \in Nat
  BY <1>2 DEF DiskRow
<1>7. stale = {f \in archive.temps : K!DayOf(f) < K!DayOf(name)}
  BY DEF K!StaleTemps
<1> HIDE DEF temps, jobs, j, stale
<1>8. /\ archive' \in DiskRow /\ archive'.files = archive.files /\ archive'.whole = archive.whole /\ archive'.ever = archive.ever
      /\ archive'.unpruned = archive.unpruned /\ archive'.temps = temps /\ archive'.sweptOn = K!DayOf(name) /\ archive'.jobs = jobs
  <2>1. archive' = [archive EXCEPT !.temps = temps, !.sweptOn = K!DayOf(name), !.jobs = jobs]
    BY <1>1 DEF temps, jobs
  <2>2. K!DayOf(name) \in Nat
    BY <1>2, DaysAre
  <2> QED
    BY <1>2, <1>4, <2>1, <2>2 DEF DiskRow
<1>9. /\ world'.next \in Nat /\ world'.free \in BOOLEAN /\ K!DayOf(world'.next) = K!DayOf(name)
      /\ \A f \in Nat : f <= name => f < world'.next \/ (f = world'.next /\ ~world'.free)
  <2> DEFINE next == name - (name % 2) + 1
             even == name % 2 = 0
  <2>0. world'.next = next /\ world'.free = even
    BY <1>1
  <2>1. name % 2 = 0 => world'.next = name + 1 /\ world'.free
    <3>1. name % 2 = 0 => next = name + 1
      BY <1>2, DaysAre
    <3>2. name % 2 = 0 => even
      OBVIOUS
    <3> HIDE DEF next, even
    <3> QED
      BY <2>0, <3>1, <3>2
  <2>2. name % 2 = 1 => world'.next = name /\ ~world'.free
    <3>1. name % 2 = 1 => next = name
      BY <1>2, DaysAre
    <3>2. name % 2 = 1 => ~even
      OBVIOUS
    <3> HIDE DEF next, even
    <3> QED
      BY <2>0, <3>1, <3>2
  <2>3. world'.free \in BOOLEAN
    BY <2>0
  <2>4. CASE name % 2 = 0
    <3>1. K!DayOf(name + 1) = K!DayOf(name)
      BY <1>2, <2>4, DaysAre
    <3>2. world'.next \in Nat /\ \A f \in Nat : f <= name => f < world'.next
      BY <1>2, <2>1, <2>4
    <3> QED
      BY <2>1, <2>3, <2>4, <3>1, <3>2
  <2>5. CASE name % 2 = 1
    <3>1. world'.next \in Nat /\ \A f \in Nat : f <= name => f < world'.next \/ f = world'.next
      BY <1>2, <2>2, <2>5
    <3> QED
      BY <2>2, <2>3, <2>5, <3>1
  <2> QED
    BY <1>2, <2>4, <2>5, DaysAre
<1>10. \A f \in archive.ever \cup archive.temps : f \in Nat /\ f < name
  BY <1>2 DEF BackupInv, NamesAreTaken, Taken, DiskRow
<1>11. \A q \in Starters : archive.jobs[q].at = "writing" => archive.jobs[q].name \in Nat /\ archive.jobs[q].name < name
  BY <1>2 DEF BackupInv, NamesAreTaken, Taken, DiskRow, JobRow
<1>12. NamesAreTaken'
  <2>1. \A f \in archive'.ever \cup archive'.temps : Taken(f)'
    <3> SUFFICES ASSUME NEW f \in archive.ever \cup temps PROVE f < world'.next \/ (f = world'.next /\ ~world'.free)
      BY <1>8 DEF Taken
    <3>1. f \in Nat /\ f <= name
      BY <1>2, <1>10 DEF temps
    <3> QED
      BY <3>1, <1>9
  <2>2. \A f \in archive'.temps : K!DayOf(f) >= archive'.sweptOn
    <3> SUFFICES ASSUME NEW f \in temps PROVE K!DayOf(f) >= K!DayOf(name)
      BY <1>8
    <3>1. CASE f = name
      BY <1>2, <3>1, DaysAre
    <3>2. CASE f \in archive.temps \ stale
      <4>1. ~ (K!DayOf(f) < K!DayOf(name)) /\ f \in Nat
        BY <1>6, <1>7, <3>2
      <4> QED
        BY <1>2, <4>1, DaysAre
    <3> QED
      BY <3>1, <3>2 DEF temps
  <2>3. ASSUME NEW q \in Starters, archive'.jobs[q].at = "writing"
        PROVE  /\ Taken(archive.jobs[q].name)' /\ archive'.jobs[q].name \notin archive'.ever
               /\ \A r \in Starters : r # q /\ archive'.jobs[r].at = "writing" => archive'.jobs[r].name # archive'.jobs[q].name
               /\ K!DayOf(archive'.jobs[q].name) = K!DayOf(world'.next) => archive'.jobs[q].name \in archive'.temps
    <3>1. CASE q = p /\ ~refused
      <4>1. archive'.jobs[q].name = name
        BY <1>3, <1>5, <1>8, <3>1
      <4>2. name \in archive'.temps
        BY <1>8, <3>1 DEF temps
      <4>3. \A r \in Starters : r # q => archive'.jobs[r] = archive.jobs[r]
        BY <1>5, <1>8, <3>1
      <4>4. name \notin archive.ever
        BY <1>2, <1>10
      <4>5. Taken(archive.jobs[q].name)'
        BY <1>2, <1>9, <4>1 DEF Taken
      <4>6. \A r \in Starters : r # q /\ archive'.jobs[r].at = "writing" => archive'.jobs[r].name # name
        BY <1>2, <1>11, <4>3
      <4> QED
        BY <1>8, <4>1, <4>2, <4>4, <4>5, <4>6
    <3>2. CASE ~ (q = p /\ ~refused)
      <4>1. archive'.jobs[q] = archive.jobs[q] /\ archive.jobs[q].at = "writing"
        BY <1>5, <1>8, <2>3, <3>2
      <4> DEFINE f == archive.jobs[q].name
      <4>2. f \in Nat /\ f < name /\ f \notin archive.ever /\ (K!DayOf(f) = K!DayOf(name) => f \in archive.temps)
        BY <1>11, <4>1 DEF BackupInv, NamesAreTaken
      <4>3. \A r \in Starters : r # q /\ archive.jobs[r].at = "writing" => archive.jobs[r].name # f
        BY <4>1 DEF BackupInv, NamesAreTaken
      <4> HIDE DEF f
      <4>4. archive'.jobs[q].name = f
        BY <4>1 DEF f
      <4>5. Taken(archive.jobs[q].name)'
        BY <1>2, <1>9, <4>2, <4>4 DEF Taken
      <4>6. \A r \in Starters : r # q /\ archive'.jobs[r].at = "writing" => archive'.jobs[r].name # f
        BY <1>2, <1>3, <1>5, <1>8, <4>2, <4>3
      <4>7. K!DayOf(f) = K!DayOf(world'.next) => f \in temps
        <5> SUFFICES ASSUME K!DayOf(f) = K!DayOf(name) PROVE f \in temps
          BY <1>9
        <5>1. K!DayOf(f) \in Nat
          BY <4>2, DaysAre
        <5>2. f \in archive.temps /\ f \notin stale
          BY <1>7, <4>2, <5>1
        <5> QED
          BY <5>2 DEF temps
      <4> QED
        BY <1>8, <4>2, <4>4, <4>5, <4>6, <4>7
    <3> QED
      BY <3>1, <3>2
  <2> QED
    BY <2>1, <2>2, <2>3 DEF NamesAreTaken
<1>13. JobsAreSane' /\ DeletedMayBe' /\ PrunesAreNested'
  <2>1. \A q \in Starters : \/ archive'.jobs[q] = archive.jobs[q]
                            \/ archive'.jobs[q].at # "pruning" /\ archive'.jobs[q].doomed = {} /\ archive'.jobs[q].seen = {}
    BY <1>3, <1>5, <1>8
  <2> QED
    BY <1>8, <2>1, FilesStay DEF BackupInv
<1> QED
  BY <1>8, <1>9, <1>12, <1>13 DEF BackupInv, BackupTyped

\* A run's row is replaced; the names and the temp files stay, or the run's own goes.
LEMMA RunMoves ==
  ASSUME BackupInv, NEW p \in Starters, NEW j \in JobRow, j.at # "writing",
         world'.next = world.next, world'.free = world.free,
         archive' \in DiskRow, archive'.sweptOn = archive.sweptOn, archive'.temps \subseteq archive.temps,
         \A f \in archive.temps : f \in archive'.temps \/ (archive.jobs[p].at = "writing" /\ f = archive.jobs[p].name),
         \A f \in archive'.ever : f \in archive.ever \/ (archive.jobs[p].at = "writing" /\ f = archive.jobs[p].name),
         \A q \in Starters : archive'.jobs[q] = IF q = p THEN j ELSE archive.jobs[q]
  PROVE  BackupTyped' /\ NamesAreTaken'
<1>1. BackupTyped'
  BY DEF BackupInv, BackupTyped
<1>2. \A f \in archive'.ever \cup archive'.temps : Taken(f)'
  BY DEF BackupInv, NamesAreTaken, Taken
<1>3. \A f \in archive'.temps : K!DayOf(f) >= archive'.sweptOn
  BY DEF BackupInv, NamesAreTaken
<1>4. ASSUME NEW q \in Starters, archive'.jobs[q].at = "writing"
      PROVE  /\ Taken(archive.jobs[q].name)' /\ archive'.jobs[q].name \notin archive'.ever
             /\ \A r \in Starters : r # q /\ archive'.jobs[r].at = "writing" => archive'.jobs[r].name # archive'.jobs[q].name
             /\ K!DayOf(archive'.jobs[q].name) = K!DayOf(world'.next) => archive'.jobs[q].name \in archive'.temps
  <2>1. q # p /\ archive'.jobs[q] = archive.jobs[q] /\ archive.jobs[q].at = "writing"
    BY <1>4
  <2>2. \A r \in Starters : archive'.jobs[r].at = "writing" => archive'.jobs[r] = archive.jobs[r]
    OBVIOUS
  <2>3. /\ Taken(archive.jobs[q].name) /\ archive.jobs[q].name \notin archive.ever
        /\ \A r \in Starters : r # q /\ archive.jobs[r].at = "writing" => archive.jobs[r].name # archive.jobs[q].name
        /\ K!DayOf(archive.jobs[q].name) = K!DayOf(world.next) => archive.jobs[q].name \in archive.temps
    BY <2>1 DEF BackupInv, NamesAreTaken
  <2>4. archive.jobs[q].name \notin archive'.ever /\ (archive.jobs[q].name \in archive.temps => archive.jobs[q].name \in archive'.temps)
    BY <2>1, <2>3
  <2>5. Taken(archive.jobs[q].name)'
    BY <2>1, <2>3 DEF Taken
  <2> QED
    BY <2>1, <2>2, <2>3, <2>4, <2>5
<1> QED
  BY <1>1, <1>2, <1>3, <1>4 DEF NamesAreTaken

\* A run that stops where it is.
LEMMA RunStops ==
  ASSUME BackupInv, NEW p \in Starters, world'.next = world.next, world'.free = world.free, NEW temps \in SUBSET archive.temps,
         \A f \in archive.temps : f \in temps \/ (archive.jobs[p].at = "writing" /\ f = archive.jobs[p].name),
         archive' = [archive EXCEPT !.temps = temps, !.jobs = [archive.jobs EXCEPT ![p] = K!NoJob]]
  PROVE  BackupInv'
<1>1. archive \in DiskRow /\ archive.whole = archive.files
  BY DEF BackupInv, BackupTyped, JobsAreSane
<1> DEFINE jobs == [archive.jobs EXCEPT ![p] = K!NoJob]
<1>2. jobs \in [Starters -> JobRow] /\ \A q \in Starters : jobs[q] = IF q = p THEN K!NoJob ELSE archive.jobs[q]
  BY <1>1, NoJobIs DEF DiskRow
<1>3. archive' = [archive EXCEPT !.temps = temps, !.jobs = jobs]
  OBVIOUS
<1> HIDE DEF jobs
<1>4. /\ archive' \in DiskRow /\ archive'.files = archive.files /\ archive'.whole = archive.whole /\ archive'.ever = archive.ever
      /\ archive'.unpruned = archive.unpruned /\ archive'.temps = temps /\ archive'.sweptOn = archive.sweptOn /\ archive'.jobs = jobs
  BY <1>1, <1>2, <1>3 DEF DiskRow
<1>5. BackupTyped' /\ NamesAreTaken'
  BY <1>2, <1>4, NoJobIs, RunMoves
<1>6. JobsAreSane' /\ DeletedMayBe' /\ PrunesAreNested'
  <2>1. \A q \in Starters : \/ archive'.jobs[q] = archive.jobs[q]
                            \/ archive'.jobs[q].at # "pruning" /\ archive'.jobs[q].doomed = {} /\ archive'.jobs[q].seen = {}
    BY <1>2, <1>4, NoJobIs
  <2> QED
    BY <1>4, <2>1, FilesStay DEF BackupInv
<1> QED
  BY <1>5, <1>6 DEF BackupInv

\* A run that fails or is killed leaves its temp file at most.
LEMMA BackupStops ==
  ASSUME BackupInv, NEW p \in Starters, K!WriteFails(p) \/ K!Killed(p)
  PROVE  BackupInv'
<1>1. archive \in DiskRow
  BY DEF BackupInv, BackupTyped
<1>2. CASE K!WriteFails(p)
  <2>1. archive' = [archive EXCEPT !.temps = archive.temps \ {archive.jobs[p].name}, !.jobs = [archive.jobs EXCEPT ![p] = K!NoJob]]
    BY <1>2 DEF K!WriteFails
  <2>2. world'.next = world.next /\ world'.free = world.free /\ archive.jobs[p].at = "writing"
    BY <1>2 DEF K!WriteFails
  <2> QED
    BY <2>1, <2>2, RunStops, ZenonT(60)
<1>3. CASE K!Killed(p)
  <2>1. archive' = [archive EXCEPT !.temps = archive.temps, !.jobs = [archive.jobs EXCEPT ![p] = K!NoJob]]
    BY <1>1, <1>3 DEF K!Killed, DiskRow
  <2>2. world'.next = world.next /\ world'.free = world.free
    BY <1>3 DEF K!Killed
  <2> QED
    BY <2>1, <2>2, RunStops
<1> QED
  BY <1>2, <1>3

\* A run publishes its file under the name it took; the file is new and unpruned.
LEMMA BackupWrites ==
  ASSUME BackupInv, NEW p \in Starters, K!Writes(p)
  PROVE  BackupInv'
<1> DEFINE f == archive.jobs[p].name
           j == [archive.jobs[p] EXCEPT !.at = "written"]
           jobs == [archive.jobs EXCEPT ![p] = j]
<1>1. archive \in DiskRow /\ archive.jobs[p] \in JobRow /\ archive.jobs[p].at = "writing" /\ world' = world
  BY DEF BackupInv, BackupTyped, DiskRow, K!Writes
<1>2. CASE ~K!Intact(f)
  <2>1. archive' = [archive EXCEPT !.temps = archive.temps, !.jobs = [archive.jobs EXCEPT ![p] = K!NoJob]]
    BY <1>1, <1>2 DEF K!Writes, DiskRow
  <2> QED
    BY <1>1, <2>1, RunStops
<1>3. CASE K!Intact(f)
  <2>1. f \in archive.temps /\ f \in Nat /\ f \notin archive.ever
    BY <1>1, <1>3 DEF K!Intact, DiskRow, BackupInv, NamesAreTaken
  <2>2. archive' = [archive EXCEPT !.files = archive.files \cup {f}, !.whole = archive.whole \cup (archive.temps \cap {f}),
                                   !.ever = archive.ever \cup {f}, !.unpruned = archive.unpruned \cup {f},
                                   !.temps = archive.temps \ {f}, !.jobs = jobs]
    BY <1>3 DEF K!Writes
  <2>3. /\ j \in JobRow /\ j.at = "written" /\ j.doomed = archive.jobs[p].doomed /\ j.seen = archive.jobs[p].seen
    BY <1>1 DEF JobRow
  <2> HIDE DEF j
  <2>4. jobs \in [Starters -> JobRow] /\ \A q \in Starters : jobs[q] = IF q = p THEN j ELSE archive.jobs[q]
    BY <1>1, <2>3 DEF DiskRow
  <2> DEFINE files == archive.files \cup {f}
             whole == archive.whole \cup (archive.temps \cap {f})
             ever == archive.ever \cup {f}
             unpruned == archive.unpruned \cup {f}
             temps == archive.temps \ {f}
  <2>5. files \in SUBSET Nat /\ whole \in SUBSET Nat /\ ever \in SUBSET Nat /\ unpruned \in SUBSET Nat /\ temps \in SUBSET Nat
    BY <1>1, <2>1 DEF DiskRow
  <2>6. whole = files
    BY <2>1 DEF BackupInv, JobsAreSane
  <2> HIDE DEF jobs, files, whole, ever, unpruned, temps
  <2>7. /\ archive' \in DiskRow /\ archive'.files = files /\ archive'.whole = whole /\ archive'.ever = ever
        /\ archive'.unpruned = unpruned /\ archive'.temps = temps /\ archive'.sweptOn = archive.sweptOn /\ archive'.jobs = jobs
    <3>1. archive' = [archive EXCEPT !.files = files, !.whole = whole, !.ever = ever, !.unpruned = unpruned,
                                     !.temps = temps, !.jobs = jobs]
      BY <2>2 DEF files, whole, ever, unpruned, temps
    <3> QED
      BY <1>1, <2>4, <2>5, <3>1 DEF DiskRow
  <2>8. BackupTyped' /\ NamesAreTaken'
    <3>1. \A q \in Starters : archive'.jobs[q] = IF q = p THEN j ELSE archive.jobs[q]
      BY <2>4, <2>7
    <3>2. archive'.temps \subseteq archive.temps /\ \A g \in archive.temps : g \in archive'.temps \/ g = archive.jobs[p].name
      BY <2>7 DEF temps
    <3>3. \A g \in archive'.ever : g \in archive.ever \/ g = archive.jobs[p].name
      BY <2>7 DEF ever
    <3>4. j.at # "writing"
      BY <2>3
    <3> QED
      BY <1>1, <2>3, <2>7, <3>1, <3>2, <3>3, <3>4, RunMoves
  <2>9. JobsAreSane'
    <3>1. \A q \in Starters : archive'.jobs[q].doomed = archive.jobs[q].doomed /\ archive'.jobs[q].seen = archive.jobs[q].seen
                             /\ (archive'.jobs[q].at # "pruning" => archive.jobs[q].at # "pruning")
      BY <1>1, <2>3, <2>4, <2>7
    <3> QED
      BY <2>6, <2>7, <3>1 DEF BackupInv, JobsAreSane, files, ever
  <2>10. DeletedMayBe'
    <3>1. archive'.ever \in SUBSET (0 .. world.next) /\ archive.ever \in SUBSET archive'.ever
      <4>1. f \in 0 .. world.next
        BY <1>1, <2>1 DEF BackupInv, BackupTyped, NamesAreTaken, Taken
      <4> QED
        BY <2>7, <4>1, EverSmall DEF ever
    <3>2. world.next \in Nat
      BY DEF BackupInv, BackupTyped
    <3>3. \A g \in archive.ever : Prunable(archive.ever, g) => Prunable(archive'.ever, g)
      BY <3>1, <3>2, PrunableGrows
    <3>4. \A q \in Starters : archive'.jobs[q].doomed = archive.jobs[q].doomed /\ archive.jobs[q].doomed \subseteq archive.ever
      BY <1>1, <2>3, <2>4, <2>7 DEF BackupInv, JobsAreSane
    <3>5. \A g \in archive'.ever : g \notin archive'.files => g \in archive.ever /\ g \notin archive.files
      BY <2>7 DEF ever, files
    <3> QED
      BY <3>3, <3>4, <3>5 DEF BackupInv, DeletedMayBe
  <2>11. PrunesAreNested'
    <3>1. PICK S \in SUBSET archive.ever : Pruned(S)
      BY DEF BackupInv, PrunesAreNested
    <3>2. S \in SUBSET archive'.ever
      BY <2>7 DEF ever
    <3>3. Pruned(S)'
      <4>1. K!SelectToPrune(S) \subseteq S
        BY DEF K!SelectToPrune, K!Surplus
      <4>2. archive'.files \ archive'.unpruned \subseteq archive.files \ archive.unpruned
        BY <2>7 DEF files, unpruned
      <4>3. archive'.files \cap K!SelectToPrune(S) \subseteq archive.files \cap K!SelectToPrune(S)
        BY <2>1, <2>7, <4>1 DEF files
      <4> QED
        BY <3>1, <4>2, <4>3 DEF Pruned
    <3>4. ASSUME NEW q \in Starters, archive'.jobs[q].at = "pruning"
          PROVE  q # p /\ archive'.jobs[q] = archive.jobs[q] /\ archive.jobs[q].at = "pruning" /\ f \notin archive.jobs[q].seen
      BY <2>1, <2>3, <2>4, <2>7, <3>4 DEF BackupInv, JobsAreSane
    <3>5. ASSUME NEW q \in Starters, archive'.jobs[q].at = "pruning"
          PROVE  /\ archive'.files \cap K!SelectToPrune(archive'.jobs[q].seen) \subseteq archive'.jobs[q].doomed
                 /\ \A g \in archive'.files \ archive'.jobs[q].seen : g \notin archive'.unpruned =>
                      archive'.files \cap archive'.jobs[q].seen \cap archive'.unpruned = {}
                 /\ \A r \in Starters : archive'.jobs[r].at = "pruning" =>
                      \/ archive'.files \cap archive'.jobs[q].seen \subseteq archive'.jobs[r].seen
                      \/ archive'.files \cap archive'.jobs[r].seen \subseteq archive'.jobs[q].seen
      <4> DEFINE seen == archive.jobs[q].seen
                 pick == K!SelectToPrune(seen)
      <4>1. archive'.jobs[q] = archive.jobs[q] /\ archive.jobs[q].at = "pruning" /\ f \notin seen
        BY <3>4, <3>5
      <4>2. pick \subseteq seen
        BY DEF K!SelectToPrune, K!Surplus
      <4>3. /\ archive.files \cap pick \subseteq archive.jobs[q].doomed
            /\ \A g \in archive.files \ seen : g \notin archive.unpruned => archive.files \cap seen \cap archive.unpruned = {}
            /\ \A r \in Starters : archive.jobs[r].at = "pruning" =>
                  \/ archive.files \cap seen \subseteq archive.jobs[r].seen
                  \/ archive.files \cap archive.jobs[r].seen \subseteq seen
        BY <4>1 DEF BackupInv, PrunesAreNested
      <4> HIDE DEF pick
      <4>4. archive'.files \cap pick \subseteq archive'.jobs[q].doomed
        BY <2>7, <4>1, <4>2, <4>3 DEF files
      <4>5. \A g \in archive'.files \ seen : g \notin archive'.unpruned => archive'.files \cap seen \cap archive'.unpruned = {}
        BY <2>7, <4>1, <4>3 DEF files, unpruned
      <4>6. ASSUME NEW r \in Starters, archive'.jobs[r].at = "pruning"
            PROVE  \/ archive'.files \cap seen \subseteq archive'.jobs[r].seen
                   \/ archive'.files \cap archive'.jobs[r].seen \subseteq seen
        <5>1. archive'.jobs[r] = archive.jobs[r] /\ archive.jobs[r].at = "pruning" /\ f \notin archive.jobs[r].seen
          BY <3>4, <4>6
        <5> QED
          BY <2>7, <4>1, <4>3, <5>1 DEF files
      <4> QED
        BY <4>1, <4>4, <4>5, <4>6 DEF pick
    <3> QED
      BY <3>2, <3>3, <3>5 DEF PrunesAreNested
  <2> QED
    BY <2>8, <2>9, <2>10, <2>11 DEF BackupInv
<1> QED
  BY <1>2, <1>3

\* A prune sees the files there are and dooms what the tiers do not keep.
LEMMA BackupSelects ==
  ASSUME BackupInv, NEW p \in Starters, K!Selects(p)
  PROVE  BackupInv'
<1> DEFINE j == K!Job("pruning", archive.jobs[p].name, archive.files, K!SelectToPrune(archive.files))
           jobs == [archive.jobs EXCEPT ![p] = j]
<1>1. archive \in DiskRow /\ archive.jobs[p] \in JobRow /\ world' = world /\ archive' = [archive EXCEPT !.jobs = jobs]
  BY DEF BackupInv, BackupTyped, DiskRow, K!Selects
<1>2. K!SelectToPrune(archive.files) \subseteq archive.files /\ archive.files \in SUBSET Nat
  BY <1>1 DEF K!SelectToPrune, K!Surplus, DiskRow
<1>3. /\ j \in JobRow /\ j.at = "pruning" /\ j.seen = archive.files /\ j.doomed = K!SelectToPrune(archive.files)
  BY <1>1, <1>2 DEF JobRow, K!Job
<1> HIDE DEF j
<1>4. jobs \in [Starters -> JobRow] /\ \A q \in Starters : jobs[q] = IF q = p THEN j ELSE archive.jobs[q]
  BY <1>1, <1>3 DEF DiskRow
<1> HIDE DEF jobs
<1>5. /\ archive' \in DiskRow /\ archive'.files = archive.files /\ archive'.whole = archive.whole /\ archive'.ever = archive.ever
      /\ archive'.unpruned = archive.unpruned /\ archive'.temps = archive.temps /\ archive'.sweptOn = archive.sweptOn /\ archive'.jobs = jobs
  BY <1>1, <1>4 DEF DiskRow
<1>6. BackupTyped' /\ NamesAreTaken'
  <2>1. j.at # "writing" /\ \A q \in Starters : archive'.jobs[q] = IF q = p THEN j ELSE archive.jobs[q]
    BY <1>3, <1>4, <1>5
  <2> QED
    BY <1>1, <1>3, <1>5, <2>1, RunMoves
<1>7. JobsAreSane'
  BY <1>2, <1>3, <1>4, <1>5 DEF BackupInv, JobsAreSane
<1>8. DeletedMayBe'
  <2>1. ASSUME NEW f \in K!SelectToPrune(archive.files) PROVE Prunable(archive.ever, f)
    <3>1. archive.ever \in SUBSET (0 .. world.next) /\ archive.files \in SUBSET archive.ever /\ world.next \in Nat
      BY EverSmall DEF BackupInv, BackupTyped
    <3>2. archive.files \in SUBSET (0 .. world.next)
      BY <3>1
    <3>3. f \in archive.files /\ Prunable(archive.files, f)
      BY <3>1, <3>2, PickedIsPrunable
    <3>4. f \in 0 .. world.next
      BY <3>2, <3>3
    <3> QED
      BY <3>1, <3>3, <3>4, PrunableGrows
  <2> QED
    BY <1>3, <1>4, <1>5, <2>1 DEF BackupInv, DeletedMayBe
<1>9. PrunesAreNested'
  <2>1. \E S \in SUBSET archive'.ever : Pruned(S)'
    BY <1>5 DEF BackupInv, PrunesAreNested, Pruned
  <2>2. ASSUME NEW q \in Starters, archive'.jobs[q].at = "pruning"
        PROVE  /\ archive'.files \cap K!SelectToPrune(archive'.jobs[q].seen) \subseteq archive'.jobs[q].doomed
               /\ \A g \in archive'.files \ archive'.jobs[q].seen : g \notin archive'.unpruned =>
                    archive'.files \cap archive'.jobs[q].seen \cap archive'.unpruned = {}
               /\ \A r \in Starters : archive'.jobs[r].at = "pruning" =>
                    \/ archive'.files \cap archive'.jobs[q].seen \subseteq archive'.jobs[r].seen
                    \/ archive'.files \cap archive'.jobs[r].seen \subseteq archive'.jobs[q].seen
    <3>1. CASE q = p
      BY <1>3, <1>4, <1>5, <3>1
    <3>2. CASE q # p
      <4>1. archive'.jobs[q] = archive.jobs[q] /\ archive.jobs[q].at = "pruning"
        BY <1>4, <1>5, <2>2, <3>2
      <4>2. \A r \in Starters : archive'.jobs[r] = archive.jobs[r] \/ archive'.jobs[r].seen = archive.files
        BY <1>3, <1>4, <1>5
      <4> QED
        BY <1>5, <4>1, <4>2 DEF BackupInv, PrunesAreNested
    <3> QED
      BY <3>1, <3>2
  <2> QED
    BY <2>1, <2>2 DEF PrunesAreNested
<1> QED
  BY <1>6, <1>7, <1>8, <1>9 DEF BackupInv

\* What a prune unlinks was doomed, and may be deleted among all the files there ever were.
LEMMA BackupUnlinks ==
  ASSUME BackupInv, NEW p \in Starters, K!Unlinks(p)
  PROVE  BackupInv'
<1>1. archive \in DiskRow /\ archive.jobs[p] \in JobRow /\ world' = world
  BY DEF BackupInv, BackupTyped, DiskRow, K!Unlinks
<1>2. PICK f \in archive.jobs[p].doomed :
         IF f \in archive.files
         THEN archive' = [archive EXCEPT !.files = archive.files \ {f}, !.whole = archive.whole \ {f},
                                         !.jobs = [archive.jobs EXCEPT ![p] = [archive.jobs[p] EXCEPT !.doomed = archive.jobs[p].doomed \ {f}]]]
         ELSE archive' = [archive EXCEPT !.jobs = [archive.jobs EXCEPT ![p] = K!NoJob]]
  BY ZenonT(60) DEF K!Unlinks
<1>3. archive.jobs[p].at = "pruning"
  BY <1>2 DEF BackupInv, JobsAreSane
<1>4. CASE f \notin archive.files
  <2>1. archive' = [archive EXCEPT !.temps = archive.temps, !.jobs = [archive.jobs EXCEPT ![p] = K!NoJob]]
    BY <1>1, <1>2, <1>4 DEF DiskRow
  <2> QED
    BY <1>1, <2>1, RunStops
<1>5. CASE f \in archive.files
  <2> DEFINE doomed == archive.jobs[p].doomed \ {f}
             j == [archive.jobs[p] EXCEPT !.doomed = doomed]
             jobs == [archive.jobs EXCEPT ![p] = j]
             files == archive.files \ {f}
             whole == archive.whole \ {f}
  <2>1. doomed \in SUBSET Nat /\ files \in SUBSET Nat /\ whole \in SUBSET Nat /\ whole = files
    BY <1>1 DEF JobRow, DiskRow, BackupInv, JobsAreSane
  <2>2. archive' = [archive EXCEPT !.files = files, !.whole = whole, !.jobs = jobs]
    BY <1>2, <1>5
  <2>3. /\ j \in JobRow /\ j.at = "pruning" /\ j.doomed = doomed /\ j.seen = archive.jobs[p].seen
    BY <1>1, <1>3, <2>1 DEF JobRow
  <2> HIDE DEF j, doomed, files, whole
  <2>4. jobs \in [Starters -> JobRow] /\ \A q \in Starters : jobs[q] = IF q = p THEN j ELSE archive.jobs[q]
    BY <1>1, <2>3 DEF DiskRow
  <2> HIDE DEF jobs
  <2>5. /\ archive' \in DiskRow /\ archive'.files = files /\ archive'.whole = whole /\ archive'.ever = archive.ever
        /\ archive'.unpruned = archive.unpruned /\ archive'.temps = archive.temps /\ archive'.sweptOn = archive.sweptOn /\ archive'.jobs = jobs
    BY <1>1, <2>1, <2>2, <2>4 DEF DiskRow
  <2>6. BackupTyped' /\ NamesAreTaken'
    <3>1. j.at # "writing" /\ \A q \in Starters : archive'.jobs[q] = IF q = p THEN j ELSE archive.jobs[q]
      BY <2>3, <2>4, <2>5
    <3> QED
      BY <1>1, <2>3, <2>5, <3>1, RunMoves
  <2>7. \A q \in Starters : /\ archive'.jobs[q].at = archive.jobs[q].at /\ archive'.jobs[q].seen = archive.jobs[q].seen
                           /\ archive'.jobs[q].doomed \subseteq archive.jobs[q].doomed
                           /\ archive.jobs[q].doomed \ {f} \subseteq archive'.jobs[q].doomed
    BY <1>3, <2>3, <2>4, <2>5 DEF doomed
  <2>8. JobsAreSane'
    <3>1. archive'.whole = archive'.files /\ archive'.files \subseteq archive'.ever
      BY <2>1, <2>5 DEF BackupInv, JobsAreSane, files
    <3>2. \A q \in Starters :
          /\ archive'.jobs[q].doomed \subseteq archive'.jobs[q].seen /\ archive'.jobs[q].seen \subseteq archive'.ever
          /\ archive'.jobs[q].at # "pruning" => archive'.jobs[q].doomed = {}
      BY <2>5, <2>7 DEF BackupInv, JobsAreSane
    <3> QED
      BY <3>1, <3>2 DEF JobsAreSane
  <2>9. DeletedMayBe'
    <3>1. Prunable(archive.ever, f)
      BY <1>2 DEF BackupInv, DeletedMayBe
    <3> QED
      BY <2>5, <2>7, <3>1 DEF BackupInv, DeletedMayBe, files
  <2>10. PrunesAreNested'
    <3>1. \E S \in SUBSET archive'.ever : Pruned(S)'
      BY <2>5 DEF BackupInv, PrunesAreNested, Pruned, files
    <3>2. ASSUME NEW q \in Starters, archive'.jobs[q].at = "pruning"
          PROVE  /\ archive'.files \cap K!SelectToPrune(archive'.jobs[q].seen) \subseteq archive'.jobs[q].doomed
                 /\ \A g \in archive'.files \ archive'.jobs[q].seen : g \notin archive'.unpruned =>
                      archive'.files \cap archive'.jobs[q].seen \cap archive'.unpruned = {}
                 /\ \A r \in Starters : archive'.jobs[r].at = "pruning" =>
                      \/ archive'.files \cap archive'.jobs[q].seen \subseteq archive'.jobs[r].seen
                      \/ archive'.files \cap archive'.jobs[r].seen \subseteq archive'.jobs[q].seen
      <4> DEFINE seen == archive.jobs[q].seen
                 pick == K!SelectToPrune(seen)
      <4>1. archive.jobs[q].at = "pruning" /\ archive'.jobs[q].seen = seen
        BY <2>7, <3>2
      <4>2. /\ archive.files \cap pick \subseteq archive.jobs[q].doomed
            /\ \A g \in archive.files \ seen : g \notin archive.unpruned => archive.files \cap seen \cap archive.unpruned = {}
            /\ \A r \in Starters : archive.jobs[r].at = "pruning" =>
                  \/ archive.files \cap seen \subseteq archive.jobs[r].seen
                  \/ archive.files \cap archive.jobs[r].seen \subseteq seen
        BY <4>1 DEF BackupInv, PrunesAreNested
      <4>3. pick = K!SelectToPrune(archive'.jobs[q].seen)
        BY <4>1
      <4> HIDE DEF pick, seen
      <4>4. archive'.files \cap pick \subseteq archive'.jobs[q].doomed
        BY <2>5, <2>7, <4>2 DEF files
      <4>5. \A g \in archive'.files \ seen : g \notin archive'.unpruned => archive'.files \cap seen \cap archive'.unpruned = {}
        BY <2>5, <4>2 DEF files
      <4>6. \A r \in Starters : archive'.jobs[r].at = "pruning" =>
                    \/ archive'.files \cap seen \subseteq archive'.jobs[r].seen
                    \/ archive'.files \cap archive'.jobs[r].seen \subseteq seen
        BY <2>5, <2>7, <4>2 DEF files
      <4> QED
        BY <4>1, <4>3, <4>4, <4>5, <4>6
    <3> QED
      BY <3>1, <3>2 DEF PrunesAreNested
  <2> QED
    BY <2>6, <2>8, <2>9, <2>10 DEF BackupInv
<1> QED
  BY <1>4, <1>5

\* A prune that ends has pruned what it saw.
LEMMA BackupEnds ==
  ASSUME BackupInv, NEW p \in Starters, K!Ends(p)
  PROVE  BackupInv'
<1> DEFINE unpruned == archive.unpruned \ archive.jobs[p].seen
           jobs == [archive.jobs EXCEPT ![p] = K!NoJob]
<1>1. /\ archive \in DiskRow /\ archive.jobs[p] \in JobRow /\ world' = world /\ archive.jobs[p].at = "pruning" /\ archive.jobs[p].doomed = {}
      /\ archive' = [archive EXCEPT !.unpruned = unpruned, !.jobs = jobs]
  BY DEF BackupInv, BackupTyped, DiskRow, K!Ends
<1>2. unpruned \in SUBSET Nat
  BY <1>1 DEF DiskRow
<1>3. jobs \in [Starters -> JobRow] /\ \A q \in Starters : jobs[q] = IF q = p THEN K!NoJob ELSE archive.jobs[q]
  BY <1>1, NoJobIs DEF DiskRow
<1> HIDE DEF jobs, unpruned
<1>4. /\ archive' \in DiskRow /\ archive'.files = archive.files /\ archive'.whole = archive.whole /\ archive'.ever = archive.ever
      /\ archive'.unpruned = unpruned /\ archive'.temps = archive.temps /\ archive'.sweptOn = archive.sweptOn /\ archive'.jobs = jobs
  BY <1>1, <1>2, <1>3 DEF DiskRow
<1>5. BackupTyped' /\ NamesAreTaken'
  <2>1. \A q \in Starters : archive'.jobs[q] = IF q = p THEN K!NoJob ELSE archive.jobs[q]
    BY <1>3, <1>4
  <2> QED
    BY <1>1, <1>4, <2>1, NoJobIs, RunMoves
<1>6. JobsAreSane' /\ DeletedMayBe'
  BY <1>3, <1>4, NoJobIs DEF BackupInv, JobsAreSane, DeletedMayBe
<1>7. PrunesAreNested'
  <2>0. PICK mine : mine = archive.jobs[p].seen
    OBVIOUS
  <2>1. /\ archive.files \cap K!SelectToPrune(mine) = {} /\ mine \in SUBSET archive.ever
        /\ \A g \in archive.files \ mine : g \notin archive.unpruned => archive.files \cap mine \cap archive.unpruned = {}
    BY <1>1, <2>0 DEF BackupInv, PrunesAreNested, JobsAreSane
  <2>2. \E S \in SUBSET archive'.ever : Pruned(S)'
    <3>1. CASE \A g \in archive.files \ mine : g \in archive.unpruned
      <4>1. archive'.files \ archive'.unpruned \subseteq mine
        BY <1>4, <2>0, <3>1 DEF unpruned
      <4>2. Pruned(mine)'
        BY <1>4, <2>1, <4>1 DEF Pruned
      <4> QED
        BY <1>4, <2>1, <4>2
    <3>2. CASE \E g \in archive.files \ mine : g \notin archive.unpruned
      <4>1. archive.files \cap mine \cap archive.unpruned = {}
        BY <2>1, <3>2
      <4>2. archive'.files \ archive'.unpruned \subseteq archive.files \ archive.unpruned
        BY <1>4, <2>0, <4>1 DEF unpruned
      <4>3. PICK S \in SUBSET archive.ever : Pruned(S)
        BY DEF BackupInv, PrunesAreNested
      <4>4. Pruned(S)'
        BY <1>4, <4>2, <4>3 DEF Pruned
      <4> QED
        BY <1>4, <4>4
    <3> QED
      BY <3>1, <3>2
  <2>3. ASSUME NEW q \in Starters, archive'.jobs[q].at = "pruning"
        PROVE  /\ archive'.files \cap K!SelectToPrune(archive'.jobs[q].seen) \subseteq archive'.jobs[q].doomed
               /\ \A g \in archive'.files \ archive'.jobs[q].seen : g \notin archive'.unpruned =>
                    archive'.files \cap archive'.jobs[q].seen \cap archive'.unpruned = {}
               /\ \A r \in Starters : archive'.jobs[r].at = "pruning" =>
                    \/ archive'.files \cap archive'.jobs[q].seen \subseteq archive'.jobs[r].seen
                    \/ archive'.files \cap archive'.jobs[r].seen \subseteq archive'.jobs[q].seen
    <3> DEFINE seen == archive.jobs[q].seen
               pick == K!SelectToPrune(seen)
    <3>1. archive'.jobs[q] = archive.jobs[q] /\ archive.jobs[q].at = "pruning"
      BY <1>3, <1>4, <2>3, NoJobIs
    <3>2. /\ archive.files \cap pick \subseteq archive.jobs[q].doomed
          /\ \A g \in archive.files \ seen : g \notin archive.unpruned => archive.files \cap seen \cap archive.unpruned = {}
          /\ \A r \in Starters : archive.jobs[r].at = "pruning" =>
                \/ archive.files \cap seen \subseteq archive.jobs[r].seen
                \/ archive.files \cap archive.jobs[r].seen \subseteq seen
      BY <3>1 DEF BackupInv, PrunesAreNested
    <3>3. archive.files \cap seen \subseteq mine \/ archive.files \cap mine \subseteq seen
      BY <1>1, <2>0, <3>2
    <3> HIDE DEF pick
    <3>4. \A g \in archive'.files \ seen : g \notin archive'.unpruned => archive'.files \cap seen \cap archive'.unpruned = {}
      BY <1>4, <2>0, <3>2, <3>3 DEF unpruned
    <3>5. \A r \in Starters : archive'.jobs[r].at = "pruning" => archive'.jobs[r] = archive.jobs[r]
      BY <1>3, <1>4, NoJobIs
    <3>6. archive'.files \cap K!SelectToPrune(archive'.jobs[q].seen) \subseteq archive'.jobs[q].doomed
      BY <1>4, <3>1, <3>2 DEF pick
    <3> QED
      BY <1>4, <3>1, <3>2, <3>4, <3>5, <3>6
  <2> QED
    BY <2>2, <2>3 DEF PrunesAreNested
<1> QED
  BY <1>5, <1>6, <1>7 DEF BackupInv

\* The next night changes the name only.
LEMMA NightComes ==
  ASSUME BackupInv, K!NextNight
  PROVE  BackupInv'
<1>1. archive \in DiskRow /\ archive' = archive /\ world.next \in Nat
  BY DEF BackupInv, BackupTyped, K!NextNight
<1> DEFINE next == 2 * (K!DayOf(world.next) + 1)
<1>2. \E m : world' = [next |-> next, free |-> TRUE, mishaps |-> m]
  BY DEF K!NextNight
<1>3. next \in Nat /\ next > world.next /\ K!DayOf(next) = K!DayOf(world.next) + 1
  BY <1>1, DaysAre
<1> HIDE DEF next
<1>4. world'.next = next /\ world'.free = TRUE
  BY <1>2
<1>5. BackupTyped'
  BY <1>1, <1>3, <1>4 DEF BackupInv, BackupTyped
<1>6. \A f \in Nat : Taken(f) => Taken(f)' /\ f <= world.next
  BY <1>1, <1>3, <1>4 DEF Taken
<1>7. NamesAreTaken'
  <2>1. \A f \in archive.ever \cup archive.temps : Taken(f)'
    BY <1>1, <1>6 DEF BackupInv, NamesAreTaken, DiskRow
  <2>2. ASSUME NEW q \in Starters, archive.jobs[q].at = "writing"
        PROVE  /\ Taken(archive.jobs[q].name)' /\ archive.jobs[q].name \notin archive.ever
               /\ \A r \in Starters : r # q /\ archive.jobs[r].at = "writing" => archive.jobs[r].name # archive.jobs[q].name
               /\ K!DayOf(archive.jobs[q].name) # K!DayOf(world'.next)
    <3>1. /\ Taken(archive.jobs[q].name) /\ archive.jobs[q].name \notin archive.ever
          /\ \A r \in Starters : r # q /\ archive.jobs[r].at = "writing" => archive.jobs[r].name # archive.jobs[q].name
      BY <2>2 DEF BackupInv, NamesAreTaken
    <3>2. archive.jobs[q].name \in Nat
      BY <1>1 DEF DiskRow, JobRow
    <3>3. Taken(archive.jobs[q].name)' /\ archive.jobs[q].name <= world.next
      <4>0. PICK f : f = archive.jobs[q].name
        OBVIOUS
      <4>1. Taken(f)' /\ f <= world.next
        BY <1>6, <3>1, <3>2, <4>0
      <4> QED
        BY <1>1, <4>0, <4>1 DEF Taken
    <3>4. K!DayOf(archive.jobs[q].name) <= K!DayOf(world.next) /\ K!DayOf(world.next) \in Nat /\ K!DayOf(archive.jobs[q].name) \in Nat
      BY <1>1, <3>2, <3>3 DEF K!DayOf
    <3> QED
      BY <1>3, <1>4, <3>1, <3>3, <3>4
  <2> QED
    BY <1>1, <2>1, <2>2 DEF BackupInv, NamesAreTaken, Taken
<1>8. JobsAreSane' /\ DeletedMayBe' /\ PrunesAreNested'
  BY <1>1, FilesStay DEF BackupInv
<1> QED
  BY <1>5, <1>7, <1>8 DEF BackupInv

\* Every step keeps the invariant.
LEMMA BackupSteps == BackupInv /\ [K!NextBackups]_<<world, archive>> => BackupInv'
<1> SUFFICES ASSUME BackupInv, [K!NextBackups]_<<world, archive>> PROVE BackupInv'
  OBVIOUS
<1>1. CASE UNCHANGED <<world, archive>>
  BY <1>1 DEF BackupInv, BackupTyped, NamesAreTaken, JobsAreSane, DeletedMayBe, PrunesAreNested, Pruned, Taken
<1>2. CASE K!NextBackups
  BY <1>2, NightComes, BackupBegins, BackupWrites, BackupStops, BackupSelects, BackupUnlinks, BackupEnds DEF K!NextBackups
<1> QED
  BY <1>1, <1>2

\* A set pruned to its tiers, with every file there is, has the daily dates: a file
\* beyond them is the last one of a weekly date.
LEMMA BeyondTheDaily ==
  ASSUME BackupInv, NEW S \in SUBSET archive.ever, archive.files \subseteq S, archive.files \cap K!SelectToPrune(S) = {},
         NEW f \in archive.files, Cardinality(Newer(archive.ever, K!DayOf(f))) >= KEEP_DAILY
  PROVE  /\ K!DayOf(f) \in K!Weekly(S)
         /\ \A g \in archive.files : K!DayOf(g) = K!DayOf(f) => g <= f
<1> DEFINE d == K!DayOf(f)
           T == Newer(archive.ever, d)
           N == K!Newest(T, KEEP_DAILY)
           n == world.next
<1>1. /\ n \in Nat /\ archive.ever \in SUBSET (0 .. n) /\ S \in SUBSET (0 .. n) /\ archive.files \in SUBSET (0 .. n)
      /\ archive.files \in SUBSET archive.ever
  BY EverSmall DEF BackupInv, BackupTyped
<1>2. f \in S /\ f \in Nat /\ d \in Nat /\ d \in K!Dates(S)
  BY <1>1 DEF K!Dates, K!DayOf
<1>3. K!Dates(archive.ever) \in SUBSET (0 .. n) /\ T \in SUBSET (0 .. n) /\ T \in SUBSET K!Dates(archive.ever)
  BY <1>1, DatesSmall DEF Newer, K!Above
<1>4. KEEP_DAILY <= Cardinality(T) /\ Cardinality(T) \in Nat
  BY <1>1, <1>3, SmallCount, BackupAssumption
<1>5. KEEP_DAILY <= Cardinality(N)
  BY <1>1, <1>3, <1>4, NewestSuffice, BackupAssumption
<1>6. N \in SUBSET Newer(S, d)
  <2> SUFFICES ASSUME NEW x \in N PROVE x \in Newer(S, d)
    OBVIOUS
  <2>1. x \in T /\ Cardinality(K!Above(T, x)) < KEEP_DAILY
    BY NewestIs
  <2>2. x \in K!Dates(archive.ever) /\ x > d /\ x \in Nat
    BY <1>3, <2>1 DEF Newer, K!Above
  <2>3. K!Above(T, x) = Newer(archive.ever, x)
    <3>1. \A y \in K!Dates(archive.ever) : y > x => y > d
      BY <1>2, <1>3, <2>2
    <3> QED
      BY <3>1 DEF Newer, K!Above
  <2>4. PICK g \in archive.ever : K!DayOf(g) = x
    BY <2>2 DEF K!Dates
  <2>5. Cardinality(Newer(archive.ever, x)) \in Nat
    BY <1>1, <2>2, NewerGrow
  <2>6. ~ Prunable(archive.ever, g)
    BY <2>1, <2>3, <2>4, <2>5, BackupAssumption DEF Prunable
  <2>7. g \in archive.files
    BY <2>4, <2>6 DEF BackupInv, DeletedMayBe
  <2>8. x \in K!Dates(S)
    BY <2>4, <2>7 DEF K!Dates
  <2> QED
    BY <2>2, <2>8 DEF Newer, K!Above
<1> HIDE DEF N, T
<1>7. Newer(S, d) \in SUBSET (0 .. n)
  <2>1. K!Dates(S) \in SUBSET (0 .. n)
    BY <1>1, DatesSmall
  <2> QED
    BY <2>1 DEF Newer, K!Above
<1>8. Cardinality(Newer(S, d)) >= KEEP_DAILY
  <2>1. Cardinality(N) <= Cardinality(Newer(S, d)) /\ Cardinality(N) \in Nat /\ Cardinality(Newer(S, d)) \in Nat
    BY <1>1, <1>6, <1>7, SmallCount
  <2> QED
    BY <1>5, <2>1, BackupAssumption
<1>9. d \notin K!Daily(S)
  BY <1>1, <1>2, <1>8, DailyAre
<1>10. f \notin K!SelectToPrune(S)
  OBVIOUS
<1>11. d \in K!Weekly(S)
  BY <1>2, <1>9, <1>10 DEF K!SelectToPrune
<1>12. ASSUME NEW g \in archive.files, K!DayOf(g) = d PROVE g <= f
  <2>1. ~ (g > f) /\ g \in S /\ g \in Nat
    BY <1>1, <1>2, <1>10, <1>11, <1>12 DEF K!SelectToPrune, K!Surplus
  <2> QED
    BY <1>2, <2>1
<1> QED
  BY <1>11, <1>12

\* The invariant gives what TLC checks: the retained copies are whole and no fewer than the tiers promise.
LEMMA BackupGives == BackupInv => K!BackupTypeOK /\ K!BackupsHold
<1> SUFFICES ASSUME BackupInv PROVE K!BackupTypeOK /\ K!BackupsHold
  OBVIOUS
<1> DEFINE n == world.next
           E == archive.ever
<1>1. /\ n \in Nat /\ E \in SUBSET (0 .. n) /\ archive.files \in SUBSET E /\ archive \in DiskRow
  BY EverSmall DEF BackupInv, BackupTyped
<1>2. K!BackupTypeOK
  BY DEF BackupInv, JobsAreSane, K!BackupTypeOK
<1>3. \A d : K!NewerDates(d) = Newer(E, d)
  BY DEF K!NewerDates, Newer
<1>4. \A d : K!IsLast(d) <=> LastIn(E, d)
  BY <1>3 DEF K!IsLast, LastIn
<1>5. ASSUME NEW d PROVE K!NewerWeeks(d) = WeeksAfter(E, d)
  BY <1>3, <1>4, SameCount DEF K!NewerWeeks, WeeksAfter
<1>6. K!GoodCopiesStay
  <2> SUFFICES ASSUME NEW f \in E, f \notin archive.files
               PROVE  /\ K!Cardinality(K!NewerDates(K!DayOf(f))) >= KEEP_DAILY
                      /\ \/ ~K!IsLast(K!DayOf(f))
                         \/ K!Cardinality(K!NewerWeeks(K!DayOf(f))) >= KEEP_WEEKLY
                         \/ \E g \in E : K!DayOf(g) = K!DayOf(f) /\ g > f
    BY DEF K!GoodCopiesStay
  <2>1. Prunable(E, f)
    BY DEF BackupInv, DeletedMayBe
  <2> QED
    BY <1>3, <1>4, <1>5, <2>1, SameCount DEF Prunable
<1>7. K!NameMeansWhole
  BY DEF BackupInv, JobsAreSane, K!NameMeansWhole
<1>8. K!PruneLeavesTiers
  <2> DEFINE X == {f \in archive.files : Cardinality(Newer(E, K!DayOf(f))) >= KEEP_DAILY}
  <2>1. X = {f \in archive.files : K!Cardinality(K!NewerDates(K!DayOf(f))) >= KEEP_DAILY}
    BY <1>3, SameCount
  <2> SUFFICES ASSUME archive.unpruned = {} PROVE Cardinality(X) <= KEEP_WEEKLY
    BY <2>1, SameCount DEF K!PruneLeavesTiers
  <2>2. PICK S \in SUBSET E : archive.files \subseteq S /\ archive.files \cap K!SelectToPrune(S) = {}
    BY DEF BackupInv, PrunesAreNested, Pruned
  <2> DEFINE W == K!Weekly(S)
             days == [f \in X |-> K!DayOf(f)]
  <2>3. S \in SUBSET (0 .. n) /\ X \in SUBSET (0 .. n) /\ X \in SUBSET archive.files
    BY <1>1
  <2>4. \A f \in X : K!DayOf(f) \in W /\ \A g \in archive.files : K!DayOf(g) = K!DayOf(f) => g <= f
    BY <2>2, BeyondTheDaily
  <2>5. days \in Injection(X, W)
    <3>1. days \in [X -> W]
      BY <2>4
    <3>2. ASSUME NEW f \in X, NEW g \in X, days[f] = days[g] PROVE f = g
      <4>1. f <= g /\ g <= f
        BY <2>3, <2>4, <3>2
      <4>2. f \in Nat /\ g \in Nat
        BY <2>3
      <4> QED
        BY <4>1, <4>2
    <3> QED
      BY <3>1, <3>2 DEF Injection, IsInjective
  <2> DEFINE L == K!LastOfWeek(S) \ K!Daily(S)
  <2>6. L \in SUBSET (0 .. n) /\ W \in SUBSET L
    <3>1. K!Dates(S) \in SUBSET (0 .. n) /\ L \in SUBSET K!Dates(S)
      BY <1>1, <2>3, DatesSmall DEF K!LastOfWeek
    <3>2. W \in SUBSET L
      BY NewestIs DEF K!Weekly
    <3> QED
      BY <3>1, <3>2
  <2>7. Cardinality(W) <= KEEP_WEEKLY
    BY <1>1, <2>6, NewestAreFew, BackupAssumption DEF K!Weekly
  <2> HIDE DEF W, X, days, L
  <2>8. IsFiniteSet(W) /\ Cardinality(W) \in Nat /\ Cardinality(X) \in Nat
    <3>1. W \in SUBSET (0 .. n)
      BY <2>6
    <3> QED
      BY <1>1, <2>3, <3>1, SmallCount
  <2>9. Cardinality(X) <= Cardinality(W)
    BY <2>5, <2>8, FS_Injection
  <2> QED
    BY <2>7, <2>8, <2>9, BackupAssumption
<1>9. K!SweepSparesLive
  BY DEF BackupInv, NamesAreTaken, K!SweepSparesLive
<1> QED
  BY <1>2, <1>6, <1>7, <1>8, <1>9 DEF K!BackupsHold

-----------------------------------------------------------------------------
(* The runs of the outcome updater: OutcomeRun. *)

OutRow == [status : {"missing", "pending", "complete"}, at : Nat]
PartRow == [status : {"none", "noop", "success", "partial", "dry_run"}, spy : Nat, failed : SUBSET O!Items]
RunRow == [at : {"idle", "reads", "prices", "ends"}, id : Nat, from : Nat, target : SUBSET Lists, dry : BOOLEAN, seen : Nat,
           part : 1 .. 3, read : [O!Items -> OutRow], work : SUBSET O!Items, spy : Nat, parts : [1 .. 3 -> PartRow], result : PartRow]
FlagRows == UNION {[D -> Nat] : D \in SUBSET Lists}
ShopRow == [spy : Nat \ {0}, night : Nat, lists : SUBSET Lists, flags : FlagRows, mishaps : 0 .. RunMishaps]
EndRow == [status : {"none", "noop", "success", "partial", "dry_run"}, parts : [1 .. 3 -> PartRow], dry : BOOLEAN]
BookRow == [rows : [O!Items -> OutRow], done : SUBSET O!Items, runs : [O!Runs -> RunRow], last : [id : Nat, spy : Nat], begun : Nat,
            partly : BOOLEAN, rebuilt : SUBSET O!Items, ranOn : Nat, ended : EndRow]

\* Nothing is ahead of SPY, and what is missing was never priced.
RowInTime(row, spy) == row.at <= spy /\ (row.status = "missing" => row.at = 0)
RunInTime(run, spy) ==
    /\ run.from <= spy /\ run.seen <= spy /\ run.spy <= spy /\ run.result.spy <= spy
    /\ \A i \in O!Items : RowInTime(run.read[i], spy)
    /\ \A i \in run.work : run.read[i].status # "complete"

\* What a run says, of its parts that are over.
Over(run) == IF run.at = "ends" THEN 3 ELSE run.part - 1
Said(dry) == IF dry THEN {"noop", "dry_run"} ELSE {"noop", "success", "partial"}
Tells(parts, status, dry, m) ==
    /\ \A p \in 1 .. m : parts[p].status \in Said(dry) /\ (~dry => (parts[p].status = "partial" <=> parts[p].failed # {}))
    /\ m > 0 =>
          /\ status \in Said(dry)
          /\ status = "noop" <=> \A p \in 1 .. m : parts[p].status = "noop"
          /\ status = "partial" <=> \E p \in 1 .. m : parts[p].status = "partial"

RunTells(run) == Tells(run.parts, run.result.status, run.dry, Over(run))

\* A row that should have been priced over SPY's last bar, and one that was.
HasItem(i, s) == i[2] \in (IF i[1] = "flags" THEN DOMAIN s.flags ELSE s.lists)
BaseIn(i, s) == IF i[1] = "flags" THEN s.flags[i[2]] ELSE i[2]
Concerned(i, s, b) == HasItem(i, s) /\ BaseIn(i, s) < s.spy /\ i \notin b.rebuilt
Current(i, s, b) == b.rows[i].status = "complete" \/ b.rows[i].at = s.spy
TableCurrent(p, s, b) == \A i \in O!Items : i[1] = O!Tables[p] /\ Concerned(i, s, b) => Current(i, s, b)

\* A scheduled run that began since SPY's last session.
Schedules(run, s) == run.at # "idle" /\ run.target = Lists /\ ~run.dry /\ run.from = s.spy
SeenCurrent(run, s, b) == run.seen = s.spy => b.partly \/ \A p \in 1 .. 3 : TableCurrent(p, s, b)
PartsCurrent(run, s, b) == run.result.status # "partial" => \A p \in 1 .. Over(run) : b.partly \/ TableCurrent(p, s, b)
WorkCurrent(run, s, b) ==
    /\ run.spy = s.spy
    /\ \A i \in O!Items : i[1] = O!Tables[run.part] /\ Concerned(i, s, b) => i \in run.work \/ Current(i, s, b)
    /\ \A i \in run.work : run.read[i].status # "missing" /\ b.rows[i].status = "missing" => i \in b.rebuilt

RunCurrent(run, s, b) ==
    Schedules(run, s) => SeenCurrent(run, s, b) /\ PartsCurrent(run, s, b) /\ (run.at = "prices" => WorkCurrent(run, s, b))

LastCurrent(s, b) == b.last.spy = s.spy => b.partly \/ \A p \in 1 .. 3 : TableCurrent(p, s, b)

RunHolds(run, s, b) == RunInTime(run, s.spy) /\ RunTells(run) /\ RunCurrent(run, s, b)

RunsInv(s, b) ==
    /\ s \in ShopRow /\ b \in BookRow
    /\ b.last.spy <= s.spy /\ LastCurrent(s, b)
    /\ \A i \in O!Items : RowInTime(b.rows[i], s.spy)
    /\ \A i \in b.done : b.rows[i].status = "complete"
    /\ \A r \in O!Runs : RunHolds(b.runs[r], s, b)
    /\ b.ended.status # "none" => Tells(b.ended.parts, b.ended.status, b.ended.dry, 3)

OutcomesInv == RunsInv(world, archive)

-----------------------------------------------------------------------------
(* What may change beside a run. *)

\* The rows of a table are not less current, and a missing one was missing or is rebuilt.
RowsKeep(s, b, s2, b2) ==
    /\ b.partly => b2.partly
    /\ s2.spy = s.spy
    /\ \A i \in O!Items : Concerned(i, s2, b2) => Concerned(i, s, b)
    /\ \A i \in O!Items : Concerned(i, s2, b2) /\ Current(i, s, b) => Current(i, s2, b2)
    /\ \A i \in O!Items : b2.rows[i].status = "missing" => b.rows[i].status = "missing" \/ i \in b2.rebuilt
    /\ b.rebuilt \subseteq b2.rebuilt

\* A table that is current stays current ...
LEMMA TablesKeep ==
  ASSUME NEW s, NEW b, NEW s2, NEW b2, RowsKeep(s, b, s2, b2), NEW p, TableCurrent(p, s, b)
  PROVE  TableCurrent(p, s2, b2)
BY DEF TableCurrent, RowsKeep

\* ... so what a run under way has seen stays true ...
LEMMA RunsKeep ==
  ASSUME NEW s, NEW b, NEW s2, NEW b2, RowsKeep(s, b, s2, b2), NEW run, run.work \subseteq O!Items, RunCurrent(run, s, b)
  PROVE  RunCurrent(run, s2, b2)
<1> SUFFICES ASSUME Schedules(run, s2) PROVE SeenCurrent(run, s2, b2) /\ PartsCurrent(run, s2, b2) /\ (run.at = "prices" => WorkCurrent(run, s2, b2))
  BY DEF RunCurrent
<1>1. Schedules(run, s)
  BY DEF Schedules, RowsKeep
<1>2. SeenCurrent(run, s2, b2)
  BY <1>1, TablesKeep DEF RunCurrent, SeenCurrent, RowsKeep
<1>3. PartsCurrent(run, s2, b2)
  BY <1>1, TablesKeep DEF RunCurrent, PartsCurrent, RowsKeep
<1>4. ASSUME run.at = "prices" PROVE WorkCurrent(run, s2, b2)
  BY <1>1, <1>4 DEF RunCurrent, WorkCurrent, RowsKeep
<1> QED
  BY <1>2, <1>3, <1>4

\* ... and what the last logged run said.
LEMMA LastKeeps ==
  ASSUME NEW s, NEW b, NEW s2, NEW b2, RowsKeep(s, b, s2, b2), b2.last = b.last, LastCurrent(s, b)
  PROVE  LastCurrent(s2, b2)
BY TablesKeep DEF LastCurrent, RowsKeep

\* A step that changes one run and, perhaps, rows and the rest of the book.
BookHolds(s, b) ==
    /\ b.last.spy <= s.spy /\ LastCurrent(s, b)
    /\ \A i \in O!Items : RowInTime(b.rows[i], s.spy)
    /\ \A i \in b.done : b.rows[i].status = "complete"
    /\ b.ended.status # "none" => Tells(b.ended.parts, b.ended.status, b.ended.dry, 3)

\* A step that changes one run.
LEMMA OneRunMoves ==
  ASSUME NEW s, NEW b, RunsInv(s, b), NEW s2 \in ShopRow, NEW b2 \in BookRow, NEW r \in O!Runs,
         RowsKeep(s, b, s2, b2), RunHolds(b2.runs[r], s2, b2),
         \A q \in O!Runs \ {r} : b2.runs[q] = b.runs[q], BookHolds(s2, b2)
  PROVE  RunsInv(s2, b2)
<1>1. ASSUME NEW q \in O!Runs \ {r} PROVE RunHolds(b2.runs[q], s2, b2)
  <2>1. RunHolds(b.runs[q], s, b) /\ b2.runs[q] = b.runs[q] /\ s2.spy = s.spy
    BY DEF RunsInv, RowsKeep
  <2>2. b.runs[q].work \subseteq O!Items
    BY DEF RunsInv, BookRow, RunRow
  <2>3. RunCurrent(b.runs[q], s2, b2)
    BY <2>1, <2>2, RunsKeep DEF RunHolds
  <2> QED
    BY <2>1, <2>3 DEF RunHolds
<1>2. \A q \in O!Runs : RunHolds(b2.runs[q], s2, b2)
  BY <1>1
<1> QED
  BY <1>2 DEF RunsInv, BookHolds

-----------------------------------------------------------------------------
(* The actions. *)

\* A run that has begun has read no row.
LEMMA NothingRead == O!NoRun.read \in [O!Items -> OutRow] /\ \A i \in O!Items : O!NoRun.read[i] = O!Missing
BY DEF O!NoRun, O!Run, O!Missing, OutRow

\* A run that has read nothing yet.
Plain(run, at, from, target, dry, seen) ==
    /\ run \in RunRow /\ run.at = at /\ run.from = from /\ run.target = target /\ run.dry = dry /\ run.seen = seen
    /\ run.work = {} /\ run.spy = 0 /\ run.result = O!NoPart /\ Over(run) = 0
    /\ \A i \in O!Items : run.read[i] = O!Missing

\* A run that begins has no part over ...
LEMMA PlainRun ==
  ASSUME NEW at \in {"idle", "reads"}, NEW id \in Nat, NEW from \in Nat, NEW target \in SUBSET Lists, NEW dry \in BOOLEAN, NEW seen \in Nat,
         NEW run, run = O!Run(at, id, from, target, dry, seen)
  PROVE  Plain(run, at, from, target, dry, seen)
<1>1. run.at = at /\ run.id = id /\ run.from = from /\ run.target = target /\ run.dry = dry /\ run.seen = seen
      /\ run.part = 1 /\ run.work = {} /\ run.spy = 0 /\ run.result = O!NoPart
      /\ run.read = [i \in O!Items |-> O!Missing] /\ run.parts = [p \in 1 .. 3 |-> O!NoPart]
  BY DEF O!Run
<1>2. O!NoPart \in PartRow
  BY DEF O!NoPart, PartRow
<1>3. O!Missing \in OutRow
  BY DEF O!Missing, OutRow
<1>4. [p \in 1 .. 3 |-> O!NoPart] \in [1 .. 3 -> PartRow] /\ [i \in O!Items |-> O!Missing] \in [O!Items -> OutRow]
  BY <1>2, <1>3
<1>5. at \in {"idle", "reads", "prices", "ends"} /\ 1 \in 1 .. 3 /\ {} \in SUBSET O!Items /\ 0 \in Nat
  OBVIOUS
<1>6. run \in RunRow
  BY <1>2, <1>4, <1>5, Zenon DEF O!Run, RunRow
<1>7. Over(run) = 0
  BY <1>1 DEF Over
<1> QED
  BY <1>1, <1>6, <1>7 DEF Plain

\* ... and an idle one says nothing.
LEMMA IdleHolds ==
  ASSUME NEW s \in ShopRow, NEW b
  PROVE  O!NoRun \in RunRow /\ RunHolds(O!NoRun, s, b)
<1> PICK run : run = O!NoRun
  OBVIOUS
<1>1. /\ run \in RunRow /\ run.at = "idle" /\ run.from = 0 /\ run.seen = 0 /\ run.work = {} /\ run.spy = 0
      /\ run.result = O!NoPart /\ Over(run) = 0 /\ \A i \in O!Items : run.read[i] = O!Missing
  <2>1. run = O!Run("idle", 0, 0, {}, FALSE, 0) /\ "idle" \in {"idle", "reads"} /\ {} \in SUBSET Lists /\ 0 \in Nat /\ FALSE \in BOOLEAN
    BY DEF O!NoRun
  <2>2. Plain(run, "idle", 0, {}, FALSE, 0)
    BY <2>1, PlainRun, Zenon
  <2> QED
    BY <2>2 DEF Plain
<1>2. s.spy \in Nat
  BY DEF ShopRow
<1>3. RunInTime(run, s.spy)
  BY <1>1, <1>2 DEF RunInTime, RowInTime, O!NoPart, O!Missing
<1>4. RunTells(run)
  BY <1>1 DEF RunTells, Tells
<1> QED
  BY <1>1, <1>3, <1>4 DEF RunHolds, RunCurrent, Schedules

\* The invariant holds before the first night.
LEMMA OutcomesStart == O!InitOutcomeRun => OutcomesInv
<1> SUFFICES ASSUME O!InitOutcomeRun PROVE OutcomesInv
  OBVIOUS
<1>1. world = [spy |-> 1, night |-> 1, lists |-> {l \in Lists : l <= 1}, flags |-> [l \in {} |-> 0], mishaps |-> RunMishaps]
  BY DEF O!InitOutcomeRun
<1>2. world \in ShopRow /\ world.spy = 1
  <2>1. [l \in {} |-> 0] \in FlagRows
    BY DEF FlagRows
  <2>2. RunMishaps \in 0 .. RunMishaps
    BY OutcomeAssumption
  <2> QED
    BY <1>1, <2>1, <2>2 DEF ShopRow
<1>3. archive.rows = [i \in O!Items |-> O!Missing] /\ archive.done = {} /\ archive.runs = [r \in O!Runs |-> O!NoRun]
      /\ archive.last.spy = 0 /\ archive.ended = O!NoEnd
  BY DEF O!InitOutcomeRun
<1>4. O!NoRun \in RunRow /\ RunHolds(O!NoRun, world, archive)
  BY <1>2, IdleHolds
<1>5. O!NoEnd \in EndRow /\ O!NoEnd.status = "none"
  <2>1. O!NoRun.parts \in [1 .. 3 -> PartRow]
    BY <1>4 DEF RunRow
  <2> QED
    BY <2>1 DEF O!NoEnd, EndRow
<1>6. archive \in BookRow
  <2>1. [i \in O!Items |-> O!Missing] \in [O!Items -> OutRow]
    BY DEF O!Missing, OutRow
  <2>2. [r \in O!Runs |-> O!NoRun] \in [O!Runs -> RunRow]
    BY <1>4
  <2>3. archive = [rows |-> [i \in O!Items |-> O!Missing], done |-> {}, runs |-> [r \in O!Runs |-> O!NoRun], last |-> [id |-> 0, spy |-> 0],
                   begun |-> 0, partly |-> FALSE, rebuilt |-> {}, ranOn |-> 0, ended |-> O!NoEnd]
    BY DEF O!InitOutcomeRun
  <2>4. [id |-> 0, spy |-> 0] \in [id : Nat, spy : Nat] /\ 0 \in Nat /\ FALSE \in BOOLEAN /\ {} \in SUBSET O!Items
    OBVIOUS
  <2> QED
    BY <1>5, <2>1, <2>2, <2>3, <2>4, Zenon DEF BookRow
<1>7. \A r \in O!Runs : RunHolds(archive.runs[r], world, archive)
  BY <1>3, <1>4
<1> QED
  BY <1>2, <1>3, <1>5, <1>6, <1>7 DEF OutcomesInv, RunsInv, LastCurrent, RowInTime, O!Missing

\* A shop in which only the mishaps are fewer.
LEMMA Spends ==
  ASSUME NEW s \in ShopRow, NEW s2, NEW n \in Nat, n <= s.mishaps, s2 = [s EXCEPT !.mishaps = @ - n]
  PROVE  s2 \in ShopRow /\ s2.spy = s.spy /\ s2.lists = s.lists /\ s2.flags = s.flags
<1>1. s.mishaps - n \in 0 .. RunMishaps
  BY OutcomeAssumption DEF ShopRow
<1> QED
  BY <1>1 DEF ShopRow

\* Where neither the lists, the flags, SPY nor the rows change, the same rows are concerned.
LEMMA SameConcern ==
  ASSUME NEW s, NEW b, NEW s2, NEW b2, s2.spy = s.spy, s2.lists = s.lists, s2.flags = s.flags,
         b2.rows = b.rows, b2.rebuilt = b.rebuilt, b.partly => b2.partly
  PROVE  RowsKeep(s, b, s2, b2)
BY DEF RowsKeep, Concerned, Current, HasItem, BaseIn

\* A run begins, of every list or of one, dry or not.
LEMMA Begins ==
  ASSUME OutcomesInv, NEW r \in O!Runs, O!Begin(r)
  PROVE  OutcomesInv'
<1>1. PICK target \in {Lists} \cup {{l} : l \in Lists}, dry \in BOOLEAN :
         LET cost == (IF target = Lists THEN 0 ELSE 1) + (IF dry THEN 1 ELSE 0) + (IF r = "hand" THEN 1 ELSE 0) IN
         /\ O!Pay(cost) /\ O!Spend(cost)
         /\ archive' = [archive EXCEPT
              !.ranOn = IF r = "cron" THEN world.night ELSE @,
              !.begun = @ + 1,
              !.runs[r] = O!Run("reads", archive.begun + 1, world.spy, target, dry, archive.last.spy)]
  BY DEF O!Begin
<1> PICK cost \in Nat : cost = (IF target = Lists THEN 0 ELSE 1) + (IF dry THEN 1 ELSE 0) + (IF r = "hand" THEN 1 ELSE 0)
  OBVIOUS
<1> PICK s, b : s = world /\ b = archive
  OBVIOUS
<1> PICK s2, b2 : s2 = world' /\ b2 = archive'
  OBVIOUS
<1>2. RunsInv(s, b)
  BY DEF OutcomesInv
<1> PICK run : run = O!Run("reads", b.begun + 1, s.spy, target, dry, b.last.spy)
  OBVIOUS
<1> DEFINE ranOn == IF r = "cron" THEN s.night ELSE b.ranOn
<1>3. s2 = [s EXCEPT !.mishaps = @ - cost] /\ cost <= s.mishaps
  BY <1>1 DEF O!Pay, O!Spend
<1>4. b2 = [b EXCEPT !.ranOn = ranOn, !.begun = @ + 1, !.runs = [b.runs EXCEPT ![r] = run]]
  BY <1>1
<1>5. /\ s \in ShopRow /\ b \in BookRow /\ s.spy \in Nat /\ b.begun + 1 \in Nat /\ b.last.spy \in Nat /\ target \in SUBSET Lists
      /\ s.night \in Nat /\ b.ranOn \in Nat /\ b.last.spy <= s.spy
  BY <1>2 DEF RunsInv, ShopRow, BookRow
<1>6. /\ run \in RunRow /\ run.at = "reads" /\ run.from = s.spy /\ run.target = target /\ run.dry = dry /\ run.seen = b.last.spy
      /\ run.work = {} /\ run.spy = 0 /\ run.result = O!NoPart /\ Over(run) = 0
      /\ \A i \in O!Items : run.read[i] = O!Missing
  <2>1. "reads" \in {"idle", "reads"}
    OBVIOUS
  <2>2. Plain(run, "reads", s.spy, target, dry, b.last.spy)
    BY <1>5, <2>1, PlainRun, ZenonT(40)
  <2> QED
    BY <2>2 DEF Plain
<1>7. ranOn \in Nat
  BY <1>5
<1> HIDE DEF ranOn
<1>8. /\ b2 \in BookRow /\ b2.runs = [b.runs EXCEPT ![r] = run] /\ b2.rows = b.rows /\ b2.done = b.done /\ b2.last = b.last
      /\ b2.partly = b.partly /\ b2.rebuilt = b.rebuilt /\ b2.ended = b.ended
  <2>1. [b.runs EXCEPT ![r] = run] \in [O!Runs -> RunRow]
    BY <1>5, <1>6 DEF BookRow
  <2> DEFINE runs == [b.runs EXCEPT ![r] = run]
  <2> HIDE DEF runs
  <2> QED
    BY <1>4, <1>5, <1>7, <2>1 DEF BookRow, runs
<1>9. s2 \in ShopRow /\ s2.spy = s.spy /\ s2.lists = s.lists /\ s2.flags = s.flags
  BY <1>3, <1>5, Spends
<1>10. RowsKeep(s, b, s2, b2)
  BY <1>8, <1>9, SameConcern
<1>11. LastCurrent(s2, b2)
  BY <1>2, <1>8, <1>10, LastKeeps DEF RunsInv
<1>12. b2.runs[r] = run /\ \A q \in O!Runs \ {r} : b2.runs[q] = b.runs[q]
  BY <1>5, <1>8 DEF BookRow
<1>13. RunHolds(run, s2, b2)
  <2>1. RunInTime(run, s2.spy)
    BY <1>5, <1>6, <1>9 DEF RunInTime, RowInTime, O!NoPart, O!Missing
  <2>2. RunTells(run)
    BY <1>6 DEF RunTells, Tells
  <2>3. RunCurrent(run, s2, b2)
    BY <1>6, <1>8, <1>11 DEF RunCurrent, SeenCurrent, PartsCurrent, LastCurrent
  <2> QED
    BY <2>1, <2>2, <2>3 DEF RunHolds
<1>14. RunsInv(s2, b2)
  <2>1. BookHolds(s2, b2)
    BY <1>2, <1>8, <1>9, <1>11 DEF RunsInv, BookHolds
  <2> QED
    BY <1>2, <1>8, <1>9, <1>10, <1>11, <1>12, <1>13, <2>1, OneRunMoves
<1> QED
  BY <1>14 DEF OutcomesInv

\* A step that changes one run and nothing else in the book.
LEMMA RunOnly ==
  ASSUME NEW s, NEW b, RunsInv(s, b), NEW s2 \in ShopRow, s2.spy = s.spy, s2.lists = s.lists, s2.flags = s.flags,
         NEW r \in O!Runs, NEW run \in RunRow, RunHolds(run, s, b), NEW b2, b2 = [b EXCEPT !.runs = [@ EXCEPT ![r] = run]]
  PROVE  RunsInv(s2, b2)
<1>1. b \in BookRow
  BY DEF RunsInv
<1>2. [b.runs EXCEPT ![r] = run] \in [O!Runs -> RunRow]
  BY <1>1 DEF BookRow
<1> DEFINE runs == [b.runs EXCEPT ![r] = run]
<1>3. runs[r] = run /\ \A q \in O!Runs \ {r} : runs[q] = b.runs[q]
  BY <1>1 DEF BookRow
<1> HIDE DEF runs
<1>4. b2 = [b EXCEPT !.runs = runs]
  BY DEF runs
<1>5. /\ b2 \in BookRow /\ b2.runs = runs /\ b2.rows = b.rows /\ b2.done = b.done /\ b2.last = b.last
      /\ b2.partly = b.partly /\ b2.rebuilt = b.rebuilt /\ b2.ended = b.ended
  BY <1>1, <1>2, <1>4 DEF BookRow, runs
<1>6. RowsKeep(s, b, s2, b2)
  BY <1>5, SameConcern
<1>7. LastCurrent(s2, b2)
  BY <1>5, <1>6, LastKeeps DEF RunsInv
<1>8. RunHolds(b2.runs[r], s2, b2)
  <2>1. b2.runs[r] = run /\ run.work \subseteq O!Items
    BY <1>3, <1>5 DEF RunRow
  <2>2. RunCurrent(run, s2, b2)
    BY <1>6, <2>1, RunsKeep DEF RunHolds
  <2> QED
    BY <2>1, <2>2 DEF RunHolds
<1>9. BookHolds(s2, b2)
  BY <1>5, <1>7 DEF RunsInv, BookHolds
<1>10. \A q \in O!Runs \ {r} : b2.runs[q] = b.runs[q]
  BY <1>3, <1>5
<1> QED
  BY <1>5, <1>6, <1>7, <1>8, <1>9, <1>10, OneRunMoves

\* A run logs what its parts said.
LEMMA Ends ==
  ASSUME OutcomesInv, NEW r \in O!Runs, O!End(r)
  PROVE  OutcomesInv'
<1> PICK s, b : s = world /\ b = archive
  OBVIOUS
<1> PICK s2, b2 : s2 = world' /\ b2 = archive'
  OBVIOUS
<1> PICK run : run = b.runs[r]
  OBVIOUS
<1> PICK idle : idle = O!NoRun
  OBVIOUS
<1>1. RunsInv(s, b) /\ s \in ShopRow /\ b \in BookRow /\ run \in RunRow /\ RunHolds(run, s, b) /\ b.last.spy <= s.spy
  <2>1. RunsInv(s, b)
    BY DEF OutcomesInv
  <2> QED
    BY <2>1 DEF RunsInv, BookRow
<1>2. idle \in RunRow /\ RunHolds(idle, s2, b2) /\ s2 = s /\ run.at = "ends"
  BY <1>1, IdleHolds DEF O!End
<1> PICK date : date = IF run.dry THEN 0 ELSE O!StoredDate(run.result)
  OBVIOUS
<1>3. run.result \in PartRow /\ run.parts \in [1 .. 3 -> PartRow] /\ run.id \in Nat /\ run.dry \in BOOLEAN /\ run.from \in Nat
      /\ run.result.spy \in Nat /\ s.spy \in Nat /\ run.result.spy <= s.spy /\ run.from <= s.spy
  BY <1>1 DEF RunRow, PartRow, ShopRow, RunHolds, RunInTime
<1>4. date \in Nat /\ date <= s.spy /\ (date > 0 => ~run.dry /\ run.result.status # "partial")
  BY <1>3 DEF O!StoredDate
<1> PICK last : last = IF date > 0 /\ run.id > b.last.id THEN [id |-> run.id, spy |-> date] ELSE b.last
  OBVIOUS
<1> PICK ended : ended = [status |-> run.result.status, parts |-> run.parts, dry |-> run.dry]
  OBVIOUS
<1> DEFINE straddles == date > 0 /\ (run.target # Lists \/ run.from < s.spy)
           runs == [b.runs EXCEPT ![r] = idle]
<1>5. b2 = [b EXCEPT !.last = last, !.partly = @ \/ straddles, !.ended = ended, !.runs = runs]
  BY DEF O!End
<1>6. last \in [id : Nat, spy : Nat] /\ last.spy <= s.spy /\ (last = b.last \/ date > 0)
  BY <1>1, <1>3, <1>4 DEF BookRow
<1>7. ended \in EndRow /\ ended.status = run.result.status /\ ended.parts = run.parts /\ ended.dry = run.dry
  BY <1>3 DEF EndRow, PartRow
<1>8. runs \in [O!Runs -> RunRow] /\ runs[r] = idle /\ \A q \in O!Runs \ {r} : runs[q] = b.runs[q]
  BY <1>1, <1>2 DEF BookRow
<1>9. b.partly \in BOOLEAN /\ straddles \in BOOLEAN
  BY <1>1 DEF BookRow
<1> DEFINE partly == b.partly \/ straddles
<1>10. partly \in BOOLEAN /\ (b.partly => partly) /\ (~partly => ~b.partly /\ (date > 0 => run.target = Lists /\ run.from = s.spy))
  BY <1>3, <1>9
<1>11. b2 = [b EXCEPT !.last = last, !.partly = partly, !.ended = ended, !.runs = runs]
  BY <1>1, <1>5
<1> HIDE DEF straddles, runs, partly
<1>12. /\ b2 \in BookRow /\ b2.runs = runs /\ b2.rows = b.rows /\ b2.done = b.done /\ b2.last = last
       /\ b2.partly = partly /\ b2.rebuilt = b.rebuilt /\ b2.ended = ended
  BY <1>1, <1>6, <1>7, <1>8, <1>10, <1>11 DEF BookRow
<1>13. RowsKeep(s, b, s2, b2)
  BY <1>2, <1>10, <1>12, SameConcern
<1>14. LastCurrent(s2, b2)
  <2> SUFFICES ASSUME last.spy = s.spy, ~partly PROVE \A p \in 1 .. 3 : TableCurrent(p, s2, b2)
    BY <1>2, <1>12 DEF LastCurrent
  <2>1. CASE last = b.last
    <3>1. \A p \in 1 .. 3 : TableCurrent(p, s, b)
      BY <1>1, <1>10, <2>1 DEF RunsInv, LastCurrent
    <3> QED
      BY <1>13, <3>1, TablesKeep
  <2>2. CASE date > 0
    <3>1. Schedules(run, s) /\ run.result.status # "partial" /\ Over(run) = 3
      BY <1>2, <1>4, <1>10, <2>2 DEF Schedules, Over
    <3>2. \A p \in 1 .. 3 : TableCurrent(p, s, b)
      BY <1>1, <1>10, <3>1 DEF RunHolds, RunCurrent, PartsCurrent
    <3> QED
      BY <1>13, <3>2, TablesKeep
  <2> QED
    BY <1>6, <2>1, <2>2
<1>15. BookHolds(s2, b2)
  <2>1. Tells(run.parts, run.result.status, run.dry, 3)
    BY <1>1, <1>2 DEF RunHolds, RunTells, Over
  <2> QED
    BY <1>1, <1>2, <1>6, <1>7, <1>12, <1>14, <2>1 DEF RunsInv, BookHolds
<1>16. RunHolds(b2.runs[r], s2, b2) /\ \A q \in O!Runs \ {r} : b2.runs[q] = b.runs[q]
  BY <1>2, <1>8, <1>12
<1>17. RunsInv(s2, b2)
  BY <1>1, <1>2, <1>12, <1>13, <1>14, <1>15, <1>16, OneRunMoves
<1> QED
  BY <1>17 DEF OutcomesInv

\* A run that dies is forgotten; what it stored stays.
LEMMA RunDies ==
  ASSUME OutcomesInv, NEW r \in O!Runs, O!Dies(r)
  PROVE  OutcomesInv'
<1> PICK s, b : s = world /\ b = archive
  OBVIOUS
<1> PICK s2, b2 : s2 = world' /\ b2 = archive'
  OBVIOUS
<1> PICK idle : idle = O!NoRun
  OBVIOUS
<1>1. RunsInv(s, b) /\ s \in ShopRow
  BY DEF OutcomesInv, RunsInv
<1>2. PICK cost \in {0, 1} : cost <= s.mishaps /\ s2 = [s EXCEPT !.mishaps = @ - cost]
  <2> PICK cost : cost = LET run == archive.runs[r] IN
                         IF run.at = "prices" /\ ~run.dry /\ O!Seeded(run) \cup O!Deleted(run) # {} THEN 0 ELSE 1
    OBVIOUS
  <2>1. O!Pay(cost) /\ O!Spend(cost)
    BY DEF O!Dies
  <2> QED
    BY <2>1 DEF O!Pay, O!Spend
<1>3. b2 = [b EXCEPT !.runs = [@ EXCEPT ![r] = idle]]
  BY DEF O!Dies
<1>4. idle \in RunRow /\ RunHolds(idle, s, b)
  BY <1>1, IdleHolds
<1>5. s2 \in ShopRow /\ s2.spy = s.spy /\ s2.lists = s.lists /\ s2.flags = s.flags
  <2>1. cost \in Nat
    OBVIOUS
  <2> QED
    BY <1>1, <1>2, <2>1, Spends, Zenon
<1>6. RunsInv(s2, b2)
  BY <1>1, <1>3, <1>4, <1>5, RunOnly
<1> QED
  BY <1>6 DEF OutcomesInv

-----------------------------------------------------------------------------
(* A part that is over. *)

\* What a part may say of itself.
PartSays(piece, dry) == piece \in PartRow /\ piece.status \in Said(dry) /\ (~dry => (piece.status = "partial" <=> piece.failed # {}))

\* The run's result takes the part in.
LEMMA ResultTells ==
  ASSUME NEW run \in RunRow, run.at \in {"reads", "prices"}, RunTells(run), NEW piece, PartSays(piece, run.dry),
         NEW result, result = O!Result(run, piece), NEW parts, parts = [run.parts EXCEPT ![run.part] = piece]
  PROVE  /\ result \in PartRow /\ Tells(parts, result.status, run.dry, run.part)
         /\ result.spy \in {piece.spy, run.result.spy}
         /\ result.status # "partial" => piece.status # "partial" /\ (run.part > 1 => run.result.status # "partial")
<1> PICK k \in 1 .. 3 : k = run.part
  BY DEF RunRow
<1> PICK old \in PartRow : old = run.result
  BY DEF RunRow
<1> PICK dry \in BOOLEAN : dry = run.dry
  BY DEF RunRow
<1>1. /\ run.parts \in [1 .. 3 -> PartRow] /\ Over(run) = k - 1 /\ piece \in PartRow
      /\ Tells(run.parts, old.status, dry, k - 1) /\ piece.status \in Said(dry)
      /\ ~dry => (piece.status = "partial" <=> piece.failed # {})
  BY DEF RunRow, Over, RunTells, PartSays
<1>2. parts \in [1 .. 3 -> PartRow] /\ parts[k] = piece /\ \A p \in 1 .. k - 1 : parts[p] = run.parts[p]
  BY <1>1
<1>3. CASE k = 1
  <2>1. result = piece
    BY <1>3 DEF O!Result
  <2>2. 1 .. k = {1}
    BY <1>3
  <2> QED
    BY <1>1, <1>2, <1>3, <2>1, <2>2 DEF Tells
<1>4. CASE k > 1
  <2>1. k - 1 > 0 /\ k - 1 \in Nat /\ old.status \in Said(dry)
    BY <1>1, <1>4 DEF Tells
  <2> PICK status : status = CASE piece.status = "noop" -> old.status
                  [] piece.status # "noop" /\ old.status = "noop" -> piece.status
                  [] piece.status = "partial" /\ old.status = "success" -> "partial"
                  [] OTHER -> old.status
    OBVIOUS
  <2> PICK spy : spy = IF old.spy = 0 THEN piece.spy ELSE old.spy
    OBVIOUS
  <2>2. result = [status |-> status, spy |-> spy, failed |-> old.failed \cup piece.failed]
    BY <1>4 DEF O!Result, O!Merged
  <2>3. /\ status \in Said(dry) /\ (status = "noop" <=> old.status = "noop" /\ piece.status = "noop")
        /\ status = "partial" <=> old.status = "partial" \/ piece.status = "partial"
    BY <1>1, <2>1 DEF Said
  <2>4. result \in PartRow /\ result.status = status /\ result.spy = spy
    <3>1. status \in {"none", "noop", "success", "partial", "dry_run"}
      BY <2>3 DEF Said
    <3>2. spy \in Nat /\ old.failed \cup piece.failed \in SUBSET O!Items
      BY <1>1 DEF PartRow
    <3> QED
      BY <2>2, <3>1, <3>2 DEF PartRow
  <2>5. 1 .. k = (1 .. k - 1) \cup {k}
    BY <1>4
  <2>6. /\ \A p \in 1 .. k - 1 : run.parts[p].status \in Said(dry) /\ (~dry => (run.parts[p].status = "partial" <=> run.parts[p].failed # {}))
        /\ old.status = "noop" <=> \A p \in 1 .. k - 1 : run.parts[p].status = "noop"
        /\ old.status = "partial" <=> \E p \in 1 .. k - 1 : run.parts[p].status = "partial"
    BY <1>1, <2>1 DEF Tells
  <2>7. \A p \in 1 .. k : parts[p].status \in Said(dry) /\ (~dry => (parts[p].status = "partial" <=> parts[p].failed # {}))
    BY <1>1, <1>2, <2>5, <2>6
  <2>8. status = "noop" <=> \A p \in 1 .. k : parts[p].status = "noop"
    BY <1>2, <2>3, <2>5, <2>6
  <2>9. status = "partial" <=> \E p \in 1 .. k : parts[p].status = "partial"
    BY <1>2, <2>3, <2>5, <2>6
  <2> QED
    BY <1>4, <2>3, <2>4, <2>7, <2>8, <2>9 DEF Tells
<1> QED
  BY <1>3, <1>4

LEMMA PartCloses ==
  ASSUME NEW s \in ShopRow, NEW b, NEW run \in RunRow, run.at \in {"reads", "prices"}, RunHolds(run, s, b),
         NEW piece, PartSays(piece, run.dry), piece.spy <= s.spy, NEW new, new = O!Closes(run, piece),
         Schedules(run, s) /\ piece.status # "partial" => b.partly \/ TableCurrent(run.part, s, b)
  PROVE  new \in RunRow /\ RunHolds(new, s, b)
<1> PICK result : result = O!Result(run, piece)
  OBVIOUS
<1> PICK parts : parts = [run.parts EXCEPT ![run.part] = piece]
  OBVIOUS
<1>1. /\ result \in PartRow /\ Tells(parts, result.status, run.dry, run.part)
      /\ result.spy \in {piece.spy, run.result.spy}
      /\ result.status # "partial" => piece.status # "partial" /\ (run.part > 1 => run.result.status # "partial")
  BY ResultTells, Zenon DEF RunHolds
<1> PICK at, k : at = (IF run.part = 3 THEN "ends" ELSE "reads") /\ k = IF run.part = 3 THEN 3 ELSE run.part + 1
  OBVIOUS
<1> PICK read : read = O!NoRun.read
  OBVIOUS
<1>2. new = [run EXCEPT !.at = at, !.part = k, !.result = result, !.parts = parts, !.read = read, !.work = {}, !.spy = 0]
  BY DEF O!Closes
<1>3. read \in [O!Items -> OutRow] /\ \A i \in O!Items : read[i] = O!Missing
  BY NothingRead
<1>4. parts \in [1 .. 3 -> PartRow] /\ run.part \in 1 .. 3
  BY DEF RunRow, PartSays
<1>5. /\ new \in RunRow /\ new.at = at /\ new.part = k /\ new.result = result /\ new.parts = parts /\ new.read = read /\ new.work = {} /\ new.spy = 0
      /\ new.from = run.from /\ new.target = run.target /\ new.dry = run.dry /\ new.seen = run.seen
  <2>1. at \in {"idle", "reads", "prices", "ends"} /\ k \in 1 .. 3 /\ {} \in SUBSET O!Items /\ 0 \in Nat
    BY <1>4
  <2>2. run.id \in Nat /\ run.from \in Nat /\ run.target \in SUBSET Lists /\ run.dry \in BOOLEAN /\ run.seen \in Nat
    BY DEF RunRow
  <2>3. run = [at |-> run.at, id |-> run.id, from |-> run.from, target |-> run.target, dry |-> run.dry, seen |-> run.seen,
               part |-> run.part, read |-> run.read, work |-> run.work, spy |-> run.spy, parts |-> run.parts, result |-> run.result]
    BY DEF RunRow
  <2>4. new = [at |-> at, id |-> run.id, from |-> run.from, target |-> run.target, dry |-> run.dry, seen |-> run.seen,
               part |-> k, read |-> read, work |-> {}, spy |-> 0, parts |-> parts, result |-> result]
    BY <1>2, <2>3, ZenonT(60)
  <2>5. new \in RunRow
    BY <1>1, <1>3, <1>4, <2>1, <2>2, <2>4 DEF RunRow
  <2> QED
    BY <2>4, <2>5
<1>6. Over(new) = run.part /\ (Over(run) = run.part - 1)
  BY <1>4, <1>5 DEF Over
<1>7. RunInTime(new, s.spy)
  <2>1. s.spy \in Nat
    BY DEF ShopRow
  <2> QED
    BY <1>1, <1>3, <1>5, <2>1 DEF RunHolds, RunInTime, RowInTime, O!Missing
<1>8. RunTells(new)
  BY <1>1, <1>5, <1>6 DEF RunTells
<1>9. RunCurrent(new, s, b)
  <2> SUFFICES ASSUME Schedules(new, s) PROVE SeenCurrent(new, s, b) /\ PartsCurrent(new, s, b) /\ new.at # "prices"
    BY DEF RunCurrent
  <2>1. Schedules(run, s)
    BY <1>5 DEF Schedules
  <2>2. SeenCurrent(run, s, b) /\ PartsCurrent(run, s, b)
    BY <2>1 DEF RunHolds, RunCurrent
  <2>3. SeenCurrent(new, s, b)
    BY <1>5, <2>2 DEF SeenCurrent
  <2>4. PartsCurrent(new, s, b)
    <3> SUFFICES ASSUME result.status # "partial", NEW p \in 1 .. run.part PROVE b.partly \/ TableCurrent(p, s, b)
      BY <1>5, <1>6 DEF PartsCurrent
    <3>1. CASE p = run.part
      BY <1>1, <2>1, <3>1
    <3>2. CASE p < run.part
      <4>1. run.part > 1 /\ p \in 1 .. Over(run)
        BY <1>4, <1>6, <3>2
      <4> QED
        BY <1>1, <2>2, <4>1 DEF PartsCurrent
    <3> QED
      BY <1>4, <3>1, <3>2
  <2> QED
    BY <1>5, <2>3, <2>4
<1> QED
  BY <1>5, <1>7, <1>8, <1>9 DEF RunHolds

\* What a scheduled run's part has to price: what is concerned and not complete.
WorkOf(p, target, stored) == O!Work({i \in O!Tracked(O!Tables[p]) : i[2] \in target}, stored)

IsWork(work, p, target, stored, s, b) ==
    /\ work \subseteq O!Items /\ \A i \in work : stored[i].status # "complete"
    /\ target = Lists => \A i \in O!Items : i[1] = O!Tables[p] /\ Concerned(i, s, b) => i \in work \/ stored[i].status = "complete"

\* The rows a part sets out to price.
LEMMA WorkIs ==
  ASSUME NEW s, NEW b, s = world, NEW p \in 1 .. 3, NEW target, NEW stored, NEW work, work = WorkOf(p, target, stored)
  PROVE  IsWork(work, p, target, stored, s, b)
<1>1. \A i \in O!Items : i[2] \in Lists
  BY DEF O!Items
<1>2. \A i \in O!Items : i[1] = O!Tables[p] /\ Concerned(i, s, b) => i \in O!Tracked(O!Tables[p])
  BY DEF Concerned, HasItem, O!Tracked
<1> QED
  BY <1>1, <1>2 DEF IsWork, WorkOf, O!Work, O!IsFinal, O!Tracked

\* A part has nothing to do, or no bar is new, or it reads the rows it will price.
LEMMA PartReads ==
  ASSUME OutcomesInv, NEW r \in O!Runs, O!ReadsPart(r)
  PROVE  OutcomesInv'
<1> PICK s, b : s = world /\ b = archive
  OBVIOUS
<1> PICK s2, b2 : s2 = world' /\ b2 = archive'
  OBVIOUS
<1> PICK run : run = b.runs[r]
  OBVIOUS
<1>1. RunsInv(s, b) /\ s \in ShopRow /\ b \in BookRow /\ run \in RunRow /\ RunHolds(run, s, b) /\ b.last.spy <= s.spy /\ LastCurrent(s, b)
  <2>1. RunsInv(s, b)
    BY DEF OutcomesInv
  <2> QED
    BY <2>1 DEF RunsInv, BookRow
<1> PICK work : work = WorkOf(run.part, run.target, b.rows)
  OBVIOUS
<1> PICK seen : seen = IF run.part = 3 THEN b.last.spy ELSE run.seen
  OBVIOUS
<1> PICK noop : noop = [status |-> "noop", spy |-> 0, failed |-> {}]
  OBVIOUS
<1> PICK skip : skip = [status |-> "noop", spy |-> s.spy, failed |-> {}]
  OBVIOUS
<1>2. run.at = "reads" /\ s2 = s
  BY DEF O!ReadsPart
<1>10. PICK next : next = CASE work = {} -> O!Closes(run, noop)
                         [] work # {} /\ O!NoNewBar(run.target, seen, work, b.rows, s.spy) -> O!Closes(run, skip)
                         [] OTHER -> [run EXCEPT !.at = "prices", !.read = b.rows, !.work = work, !.spy = s.spy]
  OBVIOUS
<1>3. b2 = [b EXCEPT !.runs = [@ EXCEPT ![r] = next]]
  <2>1. archive' = [archive EXCEPT !.runs[r] = next]
    BY <1>10, Zenon DEF O!ReadsPart, WorkOf
  <2> QED
    BY <2>1
<1>4. /\ run.part \in 1 .. 3 /\ run.dry \in BOOLEAN /\ s.spy \in Nat /\ b.last.spy \in Nat /\ run.seen \in Nat /\ run.seen <= s.spy
      /\ b.rows \in [O!Items -> OutRow]
  BY <1>1 DEF RunRow, ShopRow, BookRow, RunHolds, RunInTime
<1>5. /\ work \subseteq O!Items /\ \A i \in work : b.rows[i].status # "complete"
      /\ run.target = Lists => \A i \in O!Items : i[1] = O!Tables[run.part] /\ Concerned(i, s, b) => i \in work \/ b.rows[i].status = "complete"
  <2>1. s = world /\ work = WorkOf(run.part, run.target, b.rows)
    OBVIOUS
  <2>2. IsWork(work, run.part, run.target, b.rows, s, b)
    BY <1>4, <2>1, WorkIs, Zenon
  <2> QED
    BY <2>2 DEF IsWork
<1>6. \A spy \in {0, s.spy} : PartSays([status |-> "noop", spy |-> spy, failed |-> {}], run.dry)
  BY <1>4 DEF PartSays, PartRow, Said
<1>7. PICK new \in RunRow : RunHolds(new, s, b) /\ b2 = [b EXCEPT !.runs = [@ EXCEPT ![r] = new]]
  <2>1. CASE work = {}
    <3> PICK new : new = next
      OBVIOUS
    <3>0. new = O!Closes(run, noop)
      BY <1>10, <2>1
    <3>1. PartSays(noop, run.dry) /\ noop.spy = 0 /\ 0 <= s.spy
      BY <1>4, <1>6
    <3>2. Schedules(run, s) => TableCurrent(run.part, s, b)
      BY <1>5, <2>1 DEF Schedules, TableCurrent, Current
    <3>3. new \in RunRow /\ RunHolds(new, s, b)
      BY <1>1, <1>2, <3>0, <3>1, <3>2, PartCloses
    <3> QED
      BY <1>3, <3>3
  <2>2. CASE work # {} /\ O!NoNewBar(run.target, seen, work, b.rows, s.spy)
    <3> PICK new : new = next
      OBVIOUS
    <3>0. new = O!Closes(run, skip)
      BY <1>10, <2>2
    <3>1. PartSays(skip, run.dry) /\ skip.spy = s.spy /\ s.spy <= s.spy
      BY <1>4, <1>6
    <3>2. seen = s.spy
      BY <1>1, <1>4, <2>2 DEF O!NoNewBar
    <3>3. Schedules(run, s) => b.partly \/ TableCurrent(run.part, s, b)
      <4>1. run.part = 3 => b.partly \/ TableCurrent(run.part, s, b)
        BY <1>1, <1>4, <3>2 DEF LastCurrent
      <4>2. Schedules(run, s) /\ run.part # 3 => b.partly \/ TableCurrent(run.part, s, b)
        BY <1>1, <1>4, <3>2 DEF RunHolds, RunCurrent, SeenCurrent
      <4> QED
        BY <4>1, <4>2
    <3>4. new \in RunRow /\ RunHolds(new, s, b)
      BY <1>1, <1>2, <3>0, <3>1, <3>3, PartCloses
    <3> QED
      BY <1>3, <3>4
  <2>3. CASE work # {} /\ ~O!NoNewBar(run.target, seen, work, b.rows, s.spy)
    <3> PICK new : new = next
      OBVIOUS
    <3>0. new = [run EXCEPT !.at = "prices", !.read = b.rows, !.work = work, !.spy = s.spy]
      BY <1>10, <2>3
    <3>1. /\ new \in RunRow /\ new.at = "prices" /\ new.read = b.rows /\ new.work = work /\ new.spy = s.spy
          /\ new.from = run.from /\ new.target = run.target /\ new.dry = run.dry /\ new.seen = run.seen
          /\ new.part = run.part /\ new.parts = run.parts /\ new.result = run.result
      <4>1. "prices" \in {"idle", "reads", "prices", "ends"} /\ work \in SUBSET O!Items
        BY <1>5
      <4> QED
        BY <1>1, <1>4, <3>0, <4>1, ZenonT(60) DEF RunRow
    <3>2. Over(new) = Over(run)
      BY <1>2, <3>1 DEF Over
    <3>3. RunInTime(new, s.spy)
      BY <1>1, <1>4, <1>5, <3>1 DEF RunHolds, RunInTime, RunsInv
    <3>4. RunTells(new)
      BY <1>1, <3>1, <3>2 DEF RunHolds, RunTells
    <3>5. RunCurrent(new, s, b)
      <4> SUFFICES ASSUME Schedules(new, s) PROVE SeenCurrent(new, s, b) /\ PartsCurrent(new, s, b) /\ WorkCurrent(new, s, b)
        BY DEF RunCurrent
      <4>1. Schedules(run, s) /\ run.target = Lists
        BY <1>2, <3>1 DEF Schedules
      <4>2. SeenCurrent(new, s, b) /\ PartsCurrent(new, s, b)
        BY <1>1, <3>1, <3>2, <4>1 DEF RunHolds, RunCurrent, SeenCurrent, PartsCurrent
      <4>3. WorkCurrent(new, s, b)
        BY <1>5, <3>1, <4>1 DEF WorkCurrent, Current
      <4> QED
        BY <4>2, <4>3
    <3> QED
      BY <1>3, <3>1, <3>3, <3>4, <3>5 DEF RunHolds
  <2> QED
    BY <2>1, <2>2, <2>3
<1>8. RunsInv(s2, b2)
  BY <1>1, <1>2, <1>7, RunOnly
<1> QED
  BY <1>8 DEF OutcomesInv

-----------------------------------------------------------------------------
(* The rows a part stores. *)

\* A row that is priced is no longer missing and not ahead of SPY; a complete one stays complete.
LEMMA RowIsStored ==
  ASSUME NEW i, NEW now \in OutRow, NEW read \in OutRow, NEW spy \in Nat \ {0}, NEW at \in Nat, at <= spy,
         RowInTime(now, spy), RowInTime(read, spy), read.status # "complete", NEW failed,
         read.status = "missing" <=> now.status = "missing",
         NEW new, new = O!Stored(now, read, O!NewRow(i, read, at, failed))
  PROVE  /\ new \in OutRow /\ RowInTime(new, spy) /\ new.status # "missing"
         /\ now.status = "complete" => new.status = "complete"
         /\ now.at = spy => new.status = "complete" \/ new.at = spy
         /\ i \notin failed /\ at = spy => new.at = spy
<1> PICK row : row = O!NewRow(i, read, at, failed)
  OBVIOUS
<1>1. /\ row \in OutRow /\ row.at <= spy /\ row.status # "missing"
      /\ i \notin failed => row.at = at
      /\ row.status # read.status => row.status = "complete" \/ read.status = "missing"
  <2>1. CASE i \notin failed
    <3> PICK status : status = IF at - O!Base(i) >= Horizon THEN "complete" ELSE "pending"
      OBVIOUS
    <3>1. row = [status |-> status, at |-> at] /\ status \in {"complete", "pending"}
      BY <2>1 DEF O!NewRow, O!Priced
    <3> QED
      BY <2>1, <3>1 DEF OutRow
  <2>2. CASE i \in failed /\ read.status = "missing"
    <3>1. row = [status |-> "pending", at |-> 0]
      BY <2>2 DEF O!NewRow
    <3> QED
      BY <2>2, <3>1 DEF OutRow
  <2>3. CASE i \in failed /\ read.status # "missing"
    <3>1. row = read
      BY <2>3 DEF O!NewRow
    <3> QED
      BY <2>3, <3>1 DEF RowInTime
  <2> QED
    BY <2>1, <2>2, <2>3
<1>2. new = IF row.status = read.status THEN O!Later(now, row) ELSE row
  BY DEF O!Stored
<1>3. CASE row.status = read.status
  <2> PICK later \in Nat : later = (IF row.at > now.at THEN row.at ELSE now.at) /\ later <= spy /\ later >= now.at /\ later >= row.at
    BY <1>1 DEF OutRow, RowInTime
  <2>1. new = [now EXCEPT !.at = later]
    BY <1>2, <1>3 DEF O!Later
  <2>2. new \in OutRow /\ new.status = now.status /\ new.at = later
    BY <2>1 DEF OutRow
  <2>3. row.at \in Nat /\ now.at \in Nat
    BY <1>1 DEF OutRow
  <2> QED
    BY <1>1, <1>3, <2>2, <2>3 DEF RowInTime
<1>4. CASE row.status # read.status
  BY <1>1, <1>2, <1>4 DEF RowInTime
<1> QED
  BY <1>3, <1>4

\* No row goes back.
RowsGrow(stored, s, b) ==
    /\ stored \in [O!Items -> OutRow]
    /\ \A i \in O!Items :
          /\ RowInTime(stored[i], s.spy)
          /\ stored[i].status = "missing" => b.rows[i].status = "missing"
          /\ b.rows[i].status = "complete" => stored[i].status = "complete"
          /\ Current(i, s, b) => stored[i].status = "complete" \/ stored[i].at = s.spy

\* A part stores the rows that were priced and leaves the failed ones as they were.
LEMMA RowsAreStored ==
  ASSUME NEW s, NEW b, RunsInv(s, b), b = archive, NEW run \in RunRow, RunHolds(run, s, b), NEW failed,
         ~run.dry => ~O!Collides(run, failed), NEW stored,
         stored = [i \in O!Items |-> IF i \in run.work \ O!Deleted(run) /\ ~run.dry
                                   THEN O!Stored(b.rows[i], run.read[i], O!NewRow(i, run.read[i], run.spy, failed)) ELSE b.rows[i]]
  PROVE  /\ RowsGrow(stored, s, b)
         /\ ~run.dry => \A i \in run.work \ failed :
               \/ run.read[i].status # "missing" /\ b.rows[i].status = "missing"
               \/ run.spy = s.spy => stored[i].at = s.spy
<1>1. /\ s.spy \in Nat \ {0} /\ b.rows \in [O!Items -> OutRow] /\ run.read \in [O!Items -> OutRow] /\ run.work \in SUBSET O!Items /\ run.spy \in Nat
      /\ run.spy <= s.spy
      /\ \A i \in O!Items : RowInTime(b.rows[i], s.spy) /\ RowInTime(run.read[i], s.spy)
      /\ \A i \in run.work : run.read[i].status # "complete"
  BY DEF RunsInv, ShopRow, BookRow, RunRow, RunHolds, RunInTime
<1>2. \A i \in run.work : i \in O!Deleted(run) <=> run.read[i].status # "missing" /\ b.rows[i].status = "missing"
  BY DEF O!Deleted
<1>3. ~run.dry => \A i \in run.work : ~(run.read[i].status = "missing" /\ b.rows[i].status # "missing")
  BY DEF O!Collides, O!Seeded
<1>4. ASSUME NEW i \in O!Items
      PROVE  /\ stored[i] \in OutRow
             /\ RowInTime(stored[i], s.spy)
             /\ stored[i].status = "missing" => b.rows[i].status = "missing"
             /\ b.rows[i].status = "complete" => stored[i].status = "complete"
             /\ Current(i, s, b) => stored[i].status = "complete" \/ stored[i].at = s.spy
             /\ ~run.dry /\ i \in run.work \ failed =>
                   \/ run.read[i].status # "missing" /\ b.rows[i].status = "missing"
                   \/ run.spy = s.spy => stored[i].at = s.spy
  <2>1. CASE i \in run.work \ O!Deleted(run) /\ ~run.dry
    <3> PICK now \in OutRow, read \in OutRow, spy \in Nat \ {0}, at \in Nat :
            now = b.rows[i] /\ read = run.read[i] /\ spy = s.spy /\ at = run.spy
      BY <1>1
    <3> PICK new : new = stored[i]
      OBVIOUS
    <3>1. new = O!Stored(now, read, O!NewRow(i, read, at, failed))
      BY <2>1
    <3>2. /\ at <= spy /\ RowInTime(now, spy) /\ RowInTime(read, spy) /\ read.status # "complete"
          /\ read.status = "missing" <=> now.status = "missing"
      BY <1>1, <1>2, <1>3, <2>1
    <3>3. /\ new \in OutRow /\ RowInTime(new, spy) /\ new.status # "missing"
          /\ now.status = "complete" => new.status = "complete"
          /\ now.at = spy => new.status = "complete" \/ new.at = spy
          /\ i \notin failed /\ at = spy => new.at = spy
      BY <3>1, <3>2, RowIsStored
    <3> QED
      BY <3>3 DEF Current
  <2>2. CASE ~(i \in run.work \ O!Deleted(run) /\ ~run.dry)
    <3>1. stored[i] = b.rows[i]
      BY <2>2
    <3>2. stored[i] \in OutRow
      BY <1>1, <3>1
    <3> QED
      BY <1>1, <1>2, <2>2, <3>1, <3>2 DEF Current
  <2> QED
    BY <2>1, <2>2
<1>5. stored \in [O!Items -> OutRow]
  <2>1. stored = [i \in O!Items |-> stored[i]]
    OBVIOUS
  <2> QED
    BY <1>4, <2>1
<1> QED
  BY <1>1, <1>4, <1>5 DEF RowsGrow

\* A run that moves beside the rows it stores.
LEMMA RowsMove ==
  ASSUME NEW s, NEW b, RunsInv(s, b), NEW s2 \in ShopRow, s2.spy = s.spy, s2.lists = s.lists, s2.flags = s.flags,
         NEW stored, RowsGrow(stored, s, b),
         NEW r \in O!Runs, NEW run \in RunRow, NEW done, done = b.done \cup {i \in O!Items : stored[i].status = "complete"},
         NEW b2, b2 = [b EXCEPT !.rows = stored, !.runs = [@ EXCEPT ![r] = run], !.done = done],
         RunHolds(run, s2, b2)
  PROVE  RunsInv(s2, b2)
<1>1. b \in BookRow /\ stored \in [O!Items -> OutRow]
  BY DEF RunsInv, RowsGrow
<1> DEFINE runs == [b.runs EXCEPT ![r] = run]
<1>2. runs \in [O!Runs -> RunRow] /\ done \in SUBSET O!Items
  BY <1>1 DEF BookRow
<1>3. runs[r] = run /\ \A q \in O!Runs \ {r} : runs[q] = b.runs[q]
  BY <1>1 DEF BookRow
<1> HIDE DEF runs
<1>4. b2 = [b EXCEPT !.rows = stored, !.runs = runs, !.done = done]
  BY DEF runs
<1>5. /\ b2 \in BookRow /\ b2.runs = runs /\ b2.rows = stored /\ b2.done = done /\ b2.last = b.last
      /\ b2.partly = b.partly /\ b2.rebuilt = b.rebuilt /\ b2.ended = b.ended
  BY <1>1, <1>2, <1>4 DEF BookRow
<1>6. RowsKeep(s, b, s2, b2)
  BY <1>5 DEF RowsKeep, RowsGrow, Concerned, HasItem, BaseIn, Current
<1>7. LastCurrent(s2, b2)
  BY <1>5, <1>6, LastKeeps DEF RunsInv
<1>8. \A i \in b2.done : b2.rows[i].status = "complete"
  BY <1>1, <1>5 DEF RunsInv, RowsGrow, BookRow
<1>9. BookHolds(s2, b2)
  BY <1>5, <1>7, <1>8 DEF RunsInv, RowsGrow, BookHolds
<1>10. RunHolds(b2.runs[r], s2, b2) /\ \A q \in O!Runs \ {r} : b2.runs[q] = b.runs[q]
  BY <1>3, <1>5
<1>11. b2 \in BookRow
  BY <1>5
<1> QED
  BY <1>6, <1>9, <1>10, <1>11, OneRunMoves, ZenonT(60)

LEMMA PartPrices ==
  ASSUME OutcomesInv, NEW r \in O!Runs, O!PricesPart(r)
  PROVE  OutcomesInv'
<1> DEFINE s == world
           b == archive
           s2 == world'
           b2 == archive'
           run == b.runs[r]
           Part(failed) == [status |-> O!PartStatus(run, failed), spy |-> run.spy, failed |-> failed]
           Rows(failed) == [i \in O!Items |-> IF i \in run.work \ O!Deleted(run) /\ ~run.dry
                               THEN O!Stored(b.rows[i], run.read[i], O!NewRow(i, run.read[i], run.spy, failed)) ELSE b.rows[i]]
<1>2. PICK failed \in SUBSET run.work :
         /\ ~run.dry => ~O!Collides(run, failed)
         /\ O!Pay(IF failed = {} THEN 0 ELSE 1) /\ O!Spend(IF failed = {} THEN 0 ELSE 1)
         /\ archive' = [archive EXCEPT !.rows = Rows(failed), !.runs[r] = O!Closes(run, Part(failed)),
                          !.done = @ \cup {i \in O!Items : O!IsFinal(Rows(failed)[i])}]
  BY Zenon DEF O!PricesPart
<1> DEFINE piece == Part(failed)
           stored == Rows(failed)
           new == O!Closes(run, piece)
           done == b.done \cup {i \in O!Items : O!IsFinal(stored[i])}
<1>3. piece = [status |-> O!PartStatus(run, failed), spy |-> run.spy, failed |-> failed]
  OBVIOUS
<1>4. stored = [i \in O!Items |-> IF i \in run.work \ O!Deleted(run) /\ ~run.dry
                                THEN O!Stored(b.rows[i], run.read[i], O!NewRow(i, run.read[i], run.spy, failed)) ELSE b.rows[i]]
  OBVIOUS
<1>5. new = O!Closes(run, piece)
  OBVIOUS
<1> HIDE DEF piece, stored, new, Part, Rows
<1>9. b2 = [b EXCEPT !.rows = stored, !.runs = [b.runs EXCEPT ![r] = new], !.done = done]
  BY <1>2 DEF piece, stored, new
<1>8. done = b.done \cup {i \in O!Items : stored[i].status = "complete"}
  BY DEF O!IsFinal
<1> HIDE DEF done
<1>18. O!Pay(IF failed = {} THEN 0 ELSE 1) /\ O!Spend(IF failed = {} THEN 0 ELSE 1) /\ (~run.dry => ~O!Collides(run, failed))
  BY <1>2
<1>19. RunsInv(s, b) /\ b = archive
  BY DEF OutcomesInv
<1>20. run.at = "prices" /\ run = b.runs[r]
  BY DEF O!PricesPart
<1>21. RunsInv(s2, b2) => OutcomesInv'
  BY DEF OutcomesInv
<1>22. s = world /\ s2 = world'
  OBVIOUS
<1> HIDE DEF s, b, s2, b2, run
<1>1. /\ RunsInv(s, b) /\ s \in ShopRow /\ b \in BookRow /\ run \in RunRow /\ RunHolds(run, s, b)
      /\ run.at = "prices" /\ run.spy <= s.spy /\ run.spy \in Nat /\ run.dry \in BOOLEAN /\ run.work \in SUBSET O!Items /\ run.part \in 1 .. 3
      /\ b.rows \in [O!Items -> OutRow]
  <2>2. b \in BookRow /\ run \in RunRow /\ RunHolds(run, s, b)
    BY <1>19, <1>20 DEF RunsInv, BookRow
  <2> QED
    BY <1>19, <1>20, <2>2 DEF RunsInv, RunHolds, RunInTime, RunRow, BookRow
<1>6. ~run.dry => ~O!Collides(run, failed)
  BY <1>18
<1>7. s2 \in ShopRow /\ s2.spy = s.spy /\ s2.lists = s.lists /\ s2.flags = s.flags
  <2> PICK cost \in Nat : cost = IF failed = {} THEN 0 ELSE 1
    OBVIOUS
  <2>1. O!Pay(cost) /\ O!Spend(cost)
    BY <1>18
  <2>2. cost <= s.mishaps /\ s2 = [s EXCEPT !.mishaps = @ - cost]
    BY <1>22, <2>1 DEF O!Pay, O!Spend
  <2> QED
    BY <1>1, <2>2, Spends, Zenon
<1> DEFINE PricesWork ==
      ~run.dry => \A i \in run.work \ failed :
               \/ run.read[i].status # "missing" /\ b.rows[i].status = "missing"
               \/ run.spy = s.spy => stored[i].at = s.spy
<1>10. RowsGrow(stored, s, b) /\ PricesWork
  BY <1>1, <1>4, <1>6, <1>19, RowsAreStored
<1>11. b2.rows = stored /\ b2.partly = b.partly /\ b2.rebuilt = b.rebuilt
  BY <1>1, <1>9 DEF BookRow
<1>12. RowsKeep(s, b, s2, b2)
  BY <1>7, <1>10, <1>11 DEF RowsKeep, RowsGrow, Concerned, HasItem, BaseIn, Current
<1>13. RunHolds(run, s2, b2)
  <2>1. RunCurrent(run, s2, b2)
    BY <1>1, <1>12, RunsKeep DEF RunHolds
  <2> QED
    BY <1>1, <1>7, <2>1 DEF RunHolds
<1>14. /\ PartSays(piece, run.dry) /\ piece.spy = run.spy
       /\ piece.status # "partial" /\ ~run.dry => failed = {}
  BY <1>1, <1>3 DEF PartSays, PartRow, Said, O!PartStatus
<1>15. Schedules(run, s2) /\ piece.status # "partial" => b2.partly \/ TableCurrent(run.part, s2, b2)
  <2> SUFFICES ASSUME Schedules(run, s2), piece.status # "partial", NEW i \in O!Items, i[1] = O!Tables[run.part], Concerned(i, s2, b2)
               PROVE  Current(i, s2, b2)
    BY DEF TableCurrent
  <2>1. Schedules(run, s) /\ failed = {} /\ ~run.dry
    BY <1>7, <1>14 DEF Schedules
  <2>2. WorkCurrent(run, s, b)
    BY <1>1, <2>1 DEF RunHolds, RunCurrent
  <2>3. Concerned(i, s, b) /\ i \notin b.rebuilt
    BY <1>11, <1>12 DEF RowsKeep, Concerned
  <2>4. i \in run.work => stored[i].at = s.spy
    BY <1>10, <2>1, <2>2, <2>3 DEF WorkCurrent
  <2>5. i \in run.work \/ Current(i, s, b)
    BY <2>2, <2>3 DEF WorkCurrent
  <2> QED
    BY <1>7, <1>11, <1>12, <2>4, <2>5 DEF RowsKeep, Current
<1>16. new \in RunRow /\ RunHolds(new, s2, b2)
  BY <1>1, <1>5, <1>7, <1>13, <1>14, <1>15, PartCloses
<1>17. RunsInv(s2, b2)
  BY <1>1, <1>7, <1>8, <1>9, <1>10, <1>16, RowsMove
<1> QED
  BY <1>17, <1>21

-----------------------------------------------------------------------------
(* What the other jobs do. *)

\* A step that moves no run.
LEMMA ShopMoves ==
  ASSUME NEW s, NEW b, RunsInv(s, b), NEW s2 \in ShopRow, NEW b2 \in BookRow, b2.runs = b.runs, BookHolds(s2, b2),
         s.spy <= s2.spy, s2.spy = s.spy => RowsKeep(s, b, s2, b2)
  PROVE  RunsInv(s2, b2)
<1>1. ASSUME NEW r \in O!Runs PROVE RunHolds(b2.runs[r], s2, b2)
  <2> PICK run : run = b.runs[r]
    OBVIOUS
  <2>1. RunHolds(run, s, b) /\ run \in RunRow
    BY DEF RunsInv, BookRow
  <2>2. /\ s.spy \in Nat /\ s2.spy \in Nat /\ run.from \in Nat /\ run.seen \in Nat /\ run.spy \in Nat /\ run.result.spy \in Nat
        /\ run.read \in [O!Items -> OutRow] /\ run.work \subseteq O!Items
    BY <2>1 DEF RunsInv, ShopRow, RunRow, PartRow
  <2>3. RunInTime(run, s2.spy)
    <3>1. \A i \in O!Items : run.read[i].at \in Nat
      BY <2>2 DEF OutRow
    <3> QED
      BY <2>1, <2>2, <3>1 DEF RunHolds, RunInTime, RowInTime
  <2>4. RunCurrent(run, s2, b2)
    <3>1. CASE s2.spy = s.spy
      BY <2>1, <2>2, <3>1, RunsKeep DEF RunHolds
    <3>2. CASE s2.spy # s.spy
      <4>1. run.from # s2.spy
        BY <2>1, <2>2, <3>2 DEF RunHolds, RunInTime
      <4> QED
        BY <4>1 DEF RunCurrent, Schedules
    <3> QED
      BY <3>1, <3>2
  <2> QED
    BY <2>1, <2>3, <2>4 DEF RunHolds
<1> QED
  BY <1>1 DEF RunsInv, BookHolds

LEMMA SessionComes ==
  ASSUME OutcomesInv, O!NextSession
  PROVE  OutcomesInv'
<1> PICK s, b : s = world /\ b = archive
  OBVIOUS
<1> PICK s2, b2 : s2 = world' /\ b2 = archive'
  OBVIOUS
<1> PICK none : none = O!NoEnd
  OBVIOUS
<1>1. RunsInv(s, b) /\ s \in ShopRow /\ b \in BookRow /\ s.spy \in Nat /\ BookHolds(s, b) /\ s.mishaps \in 0 .. RunMishaps /\ s.lists \in SUBSET Lists
      /\ s.night \in Nat
  BY DEF OutcomesInv, RunsInv, BookHolds, ShopRow
<1>2. PICK cost \in {0, 1} : cost <= s.mishaps /\ s2 = [s EXCEPT !.spy = @ + 1, !.night = @ + 1, !.mishaps = @ - cost,
                                                                !.lists = @ \cup {l \in Lists : l = s.spy + 1}]
  BY DEF O!NextSession, O!Pay
<1>3. b2 = [b EXCEPT !.partly = FALSE, !.rebuilt = {}, !.ended = none]
  BY DEF O!NextSession
<1> DEFINE mishaps == s.mishaps - cost
           eve == s.night + 1
           lists == s.lists \cup {l \in Lists : l = s.spy + 1}
<1>4. mishaps \in 0 .. RunMishaps /\ eve \in Nat /\ lists \in SUBSET Lists /\ s.spy + 1 \in Nat \ {0}
  BY <1>1, <1>2, OutcomeAssumption
<1>10. s2 = [s EXCEPT !.spy = s.spy + 1, !.night = eve, !.mishaps = mishaps, !.lists = lists]
  BY <1>2
<1> HIDE DEF mishaps, eve, lists
<1>5. s2 \in ShopRow /\ s2.spy = s.spy + 1
  BY <1>1, <1>4, <1>10 DEF ShopRow
<1>6. none \in EndRow /\ none.status = "none"
  <2>1. O!NoRun.parts \in [1 .. 3 -> PartRow]
    BY <1>1, IdleHolds DEF RunRow
  <2> QED
    BY <2>1 DEF O!NoEnd, EndRow
<1>7. b2 \in BookRow /\ b2.runs = b.runs /\ b2.rows = b.rows /\ b2.done = b.done /\ b2.last = b.last /\ b2.ended = none
  BY <1>1, <1>3, <1>6 DEF BookRow
<1>8. BookHolds(s2, b2)
  <2>1. b.last.spy \in Nat /\ \A i \in O!Items : b.rows[i].at \in Nat
    BY <1>1 DEF BookRow, OutRow
  <2>2. b.last.spy <= s.spy /\ b2.last.spy # s2.spy
    BY <1>1, <1>5, <1>7, <2>1 DEF BookHolds
  <2> QED
    BY <1>1, <1>5, <1>6, <1>7, <2>1, <2>2 DEF BookHolds, LastCurrent, RowInTime
<1>9. RunsInv(s2, b2)
  BY <1>1, <1>5, <1>7, <1>8, ShopMoves
<1> QED
  BY <1>9 DEF OutcomesInv

\* A night without a session changes no row.
LEMMA NightIsQuiet ==
  ASSUME OutcomesInv, O!QuietNight
  PROVE  OutcomesInv'
<1> PICK s, b : s = world /\ b = archive
  OBVIOUS
<1> PICK s2 : s2 = world' /\ b = archive'
  BY DEF O!QuietNight
<1>1. RunsInv(s, b) /\ s \in ShopRow /\ b \in BookRow /\ BookHolds(s, b)
  BY DEF OutcomesInv, RunsInv, BookHolds
<1>2. s2 = [s EXCEPT !.night = @ + 1, !.mishaps = @ - 1] /\ 1 <= s.mishaps
  BY DEF O!QuietNight, O!Pay
<1> DEFINE mishaps == s.mishaps - 1
           eve == s.night + 1
<1>3. mishaps \in 0 .. RunMishaps /\ eve \in Nat
  BY <1>1, <1>2, OutcomeAssumption DEF ShopRow
<1>9. s2 = [s EXCEPT !.night = eve, !.mishaps = mishaps]
  BY <1>2
<1> HIDE DEF mishaps, eve
<1>4. s2 \in ShopRow /\ s2.spy = s.spy /\ s2.lists = s.lists /\ s2.flags = s.flags
  BY <1>1, <1>3, <1>9 DEF ShopRow
<1>5. RowsKeep(s, b, s2, b)
  BY <1>4, SameConcern
<1>6. BookHolds(s2, b)
  BY <1>1, <1>4, <1>5, LastKeeps DEF BookHolds
<1>7. s.spy <= s2.spy
  BY <1>1, <1>4 DEF ShopRow
<1>8. RunsInv(s2, b)
  BY <1>1, <1>4, <1>5, <1>6, <1>7, ShopMoves
<1> QED
  BY <1>8 DEF OutcomesInv

\* A flag that is raised is based on the last bar, so its row is not yet concerned.
LEMMA FlagIsRaised ==
  ASSUME OutcomesInv, NEW l \in Lists, O!RaisesFlag(l)
  PROVE  OutcomesInv'
<1> PICK s, b : s = world /\ b = archive
  OBVIOUS
<1> PICK s2 : s2 = world' /\ b = archive'
  BY DEF O!RaisesFlag
<1>1. RunsInv(s, b) /\ s \in ShopRow /\ b \in BookRow /\ BookHolds(s, b)
  BY DEF OutcomesInv, RunsInv, BookHolds
<1> DEFINE flags == [k \in DOMAIN s.flags \cup {l} |-> IF k = l THEN s.spy ELSE s.flags[k]]
<1>2. s2 = [s EXCEPT !.flags = flags, !.mishaps = @ - 1] /\ 1 <= s.mishaps /\ l \notin DOMAIN s.flags
  BY DEF O!RaisesFlag, O!Pay
<1>3. s.mishaps - 1 \in 0 .. RunMishaps
  BY <1>1, <1>2, OutcomeAssumption DEF ShopRow
<1>4. flags \in FlagRows /\ DOMAIN flags = DOMAIN s.flags \cup {l} /\ flags[l] = s.spy /\ \A k \in DOMAIN s.flags : flags[k] = s.flags[k]
  <2>1. PICK D \in SUBSET Lists : s.flags \in [D -> Nat]
    BY <1>1 DEF ShopRow, FlagRows
  <2>2. D = DOMAIN s.flags /\ s.spy \in Nat /\ D \cup {l} \in SUBSET Lists
    BY <1>1, <2>1 DEF ShopRow
  <2>3. flags \in [D \cup {l} -> Nat]
    BY <2>1, <2>2
  <2>4. flags \in FlagRows
    BY <2>2, <2>3 DEF FlagRows
  <2> QED
    BY <1>2, <2>2, <2>4
<1> HIDE DEF flags
<1>5. s2 \in ShopRow /\ s2.spy = s.spy /\ s2.lists = s.lists /\ s2.flags = flags
  BY <1>1, <1>2, <1>3, <1>4 DEF ShopRow
<1>6. s.spy \in Nat
  BY <1>1 DEF ShopRow
<1>7. RowsKeep(s, b, s2, b)
  <2>1. ASSUME NEW i \in O!Items, Concerned(i, s2, b) PROVE Concerned(i, s, b)
    <3>1. CASE i[1] = "flags"
      <4>1. i[2] \in DOMAIN flags /\ flags[i[2]] < s.spy
        BY <1>5, <2>1, <3>1 DEF Concerned, HasItem, BaseIn
      <4>2. i[2] # l /\ i[2] \in DOMAIN s.flags
        BY <1>4, <1>6, <4>1
      <4> QED
        BY <1>4, <1>5, <2>1, <3>1, <4>1, <4>2 DEF Concerned, HasItem, BaseIn
    <3>2. CASE i[1] # "flags"
      BY <1>5, <2>1, <3>2 DEF Concerned, HasItem, BaseIn
    <3> QED
      BY <3>1, <3>2
  <2> QED
    BY <1>5, <2>1 DEF RowsKeep, Current
<1>8. BookHolds(s2, b)
  BY <1>1, <1>5, <1>7, LastKeeps DEF BookHolds
<1>9. RunsInv(s2, b)
  BY <1>1, <1>5, <1>6, <1>7, <1>8, ShopMoves
<1> QED
  BY <1>9 DEF OutcomesInv

\* A list that is rebuilt is marked so, and promises nothing more.
LEMMA ListIsRebuilt ==
  ASSUME OutcomesInv, NEW l \in Lists, O!Rebuild(l)
  PROVE  OutcomesInv'
<1> PICK s, b : s = world /\ b = archive
  OBVIOUS
<1> PICK s2, b2 : s2 = world' /\ b2 = archive'
  OBVIOUS
<1> PICK gone : gone = O!Rebuilt(l)
  OBVIOUS
<1>1. RunsInv(s, b) /\ s \in ShopRow /\ b \in BookRow /\ BookHolds(s, b)
  BY DEF OutcomesInv, RunsInv, BookHolds
<1>2. s2 = [s EXCEPT !.mishaps = @ - 1] /\ 1 <= s.mishaps
  BY DEF O!Rebuild, O!Pay, O!Spend
<1> DEFINE stored == [i \in O!Items |-> IF i \in gone THEN O!Missing ELSE b.rows[i]]
           done == b.done \ gone
           rebuilt == b.rebuilt \cup gone
<1>3. b2 = [b EXCEPT !.rows = stored, !.done = done, !.rebuilt = rebuilt]
  BY DEF O!Rebuild
<1>4. gone \in SUBSET O!Items
  BY DEF O!Rebuilt, O!Items, O!Tables
<1>5. stored \in [O!Items -> OutRow] /\ done \in SUBSET O!Items /\ rebuilt \in SUBSET O!Items
  <2>1. O!Missing \in OutRow
    BY DEF O!Missing, OutRow
  <2> QED
    BY <1>1, <1>4, <2>1 DEF BookRow
<1>6. \A i \in O!Items : (i \in gone => stored[i].status = "missing" /\ stored[i].at = 0) /\ (i \notin gone => stored[i] = b.rows[i])
  BY DEF O!Missing
<1>7. done = b.done \ gone /\ rebuilt = b.rebuilt \cup gone /\ b.done \subseteq O!Items
  BY <1>1 DEF BookRow
<1> HIDE DEF stored, done, rebuilt
<1>8. b2 \in BookRow /\ b2.runs = b.runs /\ b2.rows = stored /\ b2.done = done /\ b2.rebuilt = rebuilt /\ b2.last = b.last
      /\ b2.ended = b.ended /\ b2.partly = b.partly
  BY <1>1, <1>3, <1>5 DEF BookRow
<1>9. s2 \in ShopRow /\ s2.spy = s.spy /\ s2.lists = s.lists /\ s2.flags = s.flags /\ s.spy \in Nat
  BY <1>1, <1>2, Spends DEF ShopRow
<1>10. RowsKeep(s, b, s2, b2)
  BY <1>6, <1>7, <1>8, <1>9 DEF RowsKeep, Concerned, HasItem, BaseIn, Current
<1>11. BookHolds(s2, b2)
  <2>1. LastCurrent(s2, b2)
    BY <1>1, <1>8, <1>10, LastKeeps DEF BookHolds
  <2>2. \A i \in O!Items : RowInTime(stored[i], s.spy)
    BY <1>1, <1>6, <1>9 DEF BookHolds, RowInTime
  <2> QED
    BY <1>1, <1>6, <1>7, <1>8, <1>9, <2>1, <2>2 DEF BookHolds
<1>12. RunsInv(s2, b2)
  BY <1>1, <1>8, <1>9, <1>10, <1>11, ShopMoves
<1> QED
  BY <1>12 DEF OutcomesInv

\* Every step keeps the invariant.
LEMMA OutcomesStep == OutcomesInv /\ [O!NextOutcomeRun]_<<world, archive>> => OutcomesInv'
<1> SUFFICES ASSUME OutcomesInv, [O!NextOutcomeRun]_<<world, archive>> PROVE OutcomesInv'
  OBVIOUS
<1>1. CASE O!NextSession
  BY <1>1, SessionComes
<1>2. CASE O!QuietNight
  BY <1>2, NightIsQuiet
<1>3. CASE \E r \in O!Runs : O!Begin(r) \/ O!ReadsPart(r) \/ O!PricesPart(r) \/ O!End(r) \/ O!Dies(r)
  BY <1>3, Begins, PartReads, PartPrices, Ends, RunDies
<1>4. CASE \E l \in Lists : O!RaisesFlag(l) \/ O!Rebuild(l)
  BY <1>4, FlagIsRaised, ListIsRebuilt
<1>5. CASE UNCHANGED <<world, archive>>
  BY <1>5 DEF OutcomesInv
<1> QED
  BY <1>1, <1>2, <1>3, <1>4, <1>5 DEF O!NextOutcomeRun

\* The invariant gives what TLC checks: a run that says it priced the tables has.
LEMMA OutcomesGive == OutcomesInv => O!OutcomeRunTypeOK /\ O!OutcomeRunsHold
<1> SUFFICES ASSUME OutcomesInv PROVE O!OutcomeRunTypeOK /\ O!OutcomeRunsHold
  OBVIOUS
<1>1. world \in ShopRow /\ archive \in BookRow /\ BookHolds(world, archive) /\ world.spy \in Nat /\ archive.last.spy \in Nat
  BY DEF OutcomesInv, RunsInv, BookHolds, ShopRow, BookRow
<1>2. O!OutcomeRunTypeOK
  <2>1. \A i \in O!Items : archive.rows[i] \in OutRow /\ archive.rows[i].at <= world.spy
    BY <1>1 DEF BookRow, BookHolds, RowInTime
  <2>2. \A i \in O!Items : archive.rows[i].status \in {"missing", "pending", "complete"} /\ archive.rows[i].at \in 0 .. world.spy
    BY <1>1, <2>1 DEF OutRow
  <2> QED
    BY <1>1, <2>2 DEF O!OutcomeRunTypeOK, BookHolds, ShopRow
<1>3. O!CompleteStays
  BY <1>1 DEF O!CompleteStays, O!IsFinal, BookHolds
<1>4. O!SkippedTablesAreCurrent
  <2> SUFFICES ASSUME NEW p \in 1 .. 3,
                      O!NoNewBar(Lists, archive.last.spy, O!Work(O!Tracked(O!Tables[p]), archive.rows), archive.rows, world.spy),
                      ~archive.partly,
                      NEW i \in O!Work(O!Tracked(O!Tables[p]), archive.rows) \ archive.rebuilt, O!Base(i) < world.spy
               PROVE  archive.rows[i].at = world.spy
    BY DEF O!SkippedTablesAreCurrent
  <2>1. archive.last.spy = world.spy
    BY <1>1 DEF O!NoNewBar, BookHolds
  <2>2. TableCurrent(p, world, archive)
    BY <1>1, <2>1 DEF BookHolds, LastCurrent
  <2>3. i \in O!Items /\ i[1] = O!Tables[p] /\ Concerned(i, world, archive) /\ archive.rows[i].status # "complete"
    BY DEF O!Work, O!IsFinal, O!Tracked, O!Base, Concerned, HasItem, BaseIn
  <2> QED
    BY <2>2, <2>3 DEF TableCurrent, Current
<1>5. O!StatusTellsParts
  <2> DEFINE e == archive.ended
             statuses == {e.parts[p].status : p \in 1 .. 3}
  <2>1. ASSUME e.status # "none"
        PROVE  /\ \A p \in 1 .. 3 : ~e.dry => (e.parts[p].status = "partial" <=> e.parts[p].failed # {})
               /\ e.status = "noop" <=> \A p \in 1 .. 3 : e.parts[p].status = "noop"
               /\ e.status = "partial" <=> \E p \in 1 .. 3 : e.parts[p].status = "partial"
    BY <1>1, <2>1 DEF BookHolds, Tells
  <2>2. statuses = {"noop"} <=> \A p \in 1 .. 3 : e.parts[p].status = "noop"
    BY 1 \in 1 .. 3
  <2>3. ASSUME e.status # "none" PROVE e.status = "noop" <=> statuses = {"noop"}
    BY <2>1, <2>2, <2>3
  <2>4. ASSUME e.status # "none", ~e.dry PROVE e.status = "partial" <=> \E p \in 1 .. 3 : e.parts[p].failed # {}
    BY <2>1, <2>4
  <2>5. e.status # "none" => (e.status = "noop") = (statuses = {"noop"})
    BY <2>3
  <2>6. e.status # "none" => (~e.dry => ((e.status = "partial") = (\E p \in 1 .. 3 : e.parts[p].failed # {})))
    BY <2>4
  <2> QED
    BY <2>5, <2>6, Zenon DEF O!StatusTellsParts
<1> QED
  BY <1>2, <1>3, <1>4, <1>5 DEF O!OutcomeRunsHold

-----------------------------------------------------------------------------
(* The price target snapshots: PriceTargets. *)

Acts == [firm : STRING, day : Nat \ {0}]
TRow == [target : SUBSET (Nat \cup Acts), how : {"none", "null", "live_consensus", "legacy_all_analysts"},
         from : {"none", "consensus", "news"}, fetched : Nat, live : BOOLEAN]
Telling == {"none", "written", "failed", "no_data"}
TJob == [at : {"idle", "next", "write"}, date : Nat, todo : Seq(P!Followed), exists : BOOLEAN, value : Nat, live : BOOLEAN,
         dead : BOOLEAN, done : [P!Followed -> Telling]]
TFill == [at : {"idle", "write"}, ticker : P!Followed \cup {""}, rows : [P!Days -> TRow]]
TDesk == [half : 2 * FirstDay .. 2 * LastDay + 1, group : BOOLEAN, news : News, mishaps : 0 .. TargetMishaps]
TShelf == [rows : [P!Followed -> [P!Days -> TRow]], cache : [P!Followed -> [at : Nat, value : Nat]], jobs : [P!Jobs -> TJob],
           fill : TFill, lastCron : Nat, ended : [date : Nat, done : [P!Followed -> Telling]]]

Now(w) == w.half \div 2

\* What the analysts have said by a day, and each one's last word.
KnownBy(news, d) == {a \in news : a.firm # "" /\ a.day <= d}
LastWords(news, d) == {a \in KnownBy(news, d) : \A b \in KnownBy(news, d) : b.firm = a.firm => b.day <= a.day}

\* A row is of the day it says, and made as it says.
FromNews(row, d, now, news) ==
    /\ d % Month = 0 /\ d < row.fetched /\ row.fetched <= now /\ FirstDay <= row.fetched
    /\ row.how \in {"null", "legacy_all_analysts"}
    /\ KnownBy(news, d) # {} /\ row.target = LastWords(news, d)

FromConsensus(row, d, now) ==
    /\ d <= now /\ (row.live => \A v \in row.target : v >= d - 1)
    /\ row.how \in {"null", "live_consensus"} /\ (row.how = "null" => row.fetched = LIVE_DAY)

RowTrue(row, d, now, news) ==
    /\ row.from = "none" => row = P!NoRow
    /\ row.from = "consensus" => FromConsensus(row, d, now)
    /\ row.from = "news" => FromNews(row, d, now, news)

TableTrue(history, now, news) ==
    \A d \in P!Days :
        /\ RowTrue(history[d], d, now, news)
        /\ history[d].from = "news" => \A e \in P!Days : e < d /\ e % Month = 0 /\ KnownBy(news, e) # {} => history[e] # P!NoRow

\* A run's day and reading, and what it says of the tickers it is through with.
ToldTrue(done, date, history) == \A t \in P!Followed : done[t] = "written" => date \in P!Days /\ history[t][date].how = "live_consensus"
JobTrue(job, history, now) ==
    /\ job.at # "idle" => job.date \in P!Days /\ job.date <= now /\ ToldTrue(job.done, job.date, history)
    /\ job.at = "write" => job.todo # <<>> /\ (job.live => job.value >= job.date - 1)

\* A backfill has something to insert only where it has inserted nothing.
FillTrue(fill, history, now, news) ==
    fill.at = "write" =>
        /\ fill.ticker \in P!Followed
        /\ TableTrue(fill.rows, now, news[fill.ticker])
        /\ \A d \in P!Days : fill.rows[d].from # "consensus"
        /\ (\E d \in P!Days : fill.rows[d] # P!NoRow) => \A e \in P!Days : history[fill.ticker][e].from # "news"

CacheTrue(c, half) == c.at <= half /\ (c.at > 0 => c.value = 0 \/ c.value = c.at \div 2)

TargetsTrue(w, a) ==
    /\ w \in TDesk /\ a \in TShelf
    /\ \A t \in P!Followed : TableTrue(a.rows[t], Now(w), w.news[t]) /\ CacheTrue(a.cache[t], w.half)
    /\ \A j \in P!Jobs : JobTrue(a.jobs[j], a.rows, Now(w))
    /\ FillTrue(a.fill, a.rows, Now(w), w.news)
    /\ ToldTrue(a.ended.done, a.ended.date, a.rows)

TargetsInv == TargetsTrue(world, archive)

-----------------------------------------------------------------------------
(* Months. *)

\* A number is its quotient and its remainder ...
LEMMA Divided ==
  ASSUME NEW x \in Nat, NEW M \in Nat \ {0}
  PROVE  x \div M \in Nat /\ x % M \in 0 .. M - 1 /\ x = M * (x \div M) + (x % M)
<1> DEFINE q == x \div M
           r == x % M
<1>1. q \in Nat /\ r \in 0 .. M - 1 /\ x = M * q + r
  BY Z3
<1> QED
  BY <1>1

\* ... which are the only ones.
LEMMA QuotientIs ==
  ASSUME NEW M \in Nat \ {0}, NEW q \in Nat, NEW k \in Nat, NEW u \in 0 .. M - 1, M * q = M * k + u
  PROVE  q = k /\ u = 0
<1>1. ~(q < k)
  <2> SUFFICES ASSUME q + 1 <= k PROVE FALSE
    OBVIOUS
  <2>1. M * (q + 1) <= M * k /\ M * (q + 1) = M * q + M
    BY Z3
  <2> QED
    BY <2>1, Z3
<1>2. ~(k < q)
  <2> SUFFICES ASSUME k + 1 <= q PROVE FALSE
    OBVIOUS
  <2>1. M * (k + 1) <= M * q /\ M * (k + 1) = M * k + M
    BY Z3
  <2> QED
    BY <2>1, Z3
<1>3. q = k
  BY <1>1, <1>2
<1> QED
  BY <1>3

\* The multiples of a month are the days without a remainder.
LEMMA Multiples ==
  ASSUME NEW M \in Nat \ {0}
  PROVE  /\ \A q \in Nat : q * M \in Nat /\ (q * M) % M = 0
         /\ \A m \in Nat : m % M = 0 => \E k \in Nat : m = M * k
<1>1. ASSUME NEW q \in Nat PROVE q * M \in Nat /\ (q * M) % M = 0
  <2>1. q * M \in Nat
    BY Z3
  <2> DEFINE y == q * M
             k == y \div M
             u == y % M
  <2>2. k \in Nat /\ u \in 0 .. M - 1 /\ y = M * k + u
    BY <2>1, Divided
  <2> HIDE DEF k, u
  <2>3. M * q = M * k + u
    BY <2>2, Z3
  <2>4. u = 0
    BY <2>2, <2>3, QuotientIs
  <2> QED
    BY <2>1, <2>4 DEF u
<1>2. ASSUME NEW m \in Nat, m % M = 0 PROVE \E k \in Nat : m = M * k
  <2> DEFINE k == m \div M
             u == m % M
  <2>1. k \in Nat /\ m = M * k + u /\ u = 0
    BY <1>2, Divided
  <2> HIDE DEF k, u
  <2>2. m = M * k
    BY <2>1, Z3
  <2> QED
    BY <2>1, <2>2
<1> QED
  BY <1>1, <1>2

\* The end of a month is the first multiple from its day on.
LEMMA MonthEnds ==
  ASSUME NEW d \in Nat
  PROVE  /\ P!MonthEnd(d) \in Nat /\ d <= P!MonthEnd(d) /\ P!MonthEnd(d) < d + Month /\ P!MonthEnd(d) % Month = 0
         /\ \A m \in Nat : m % Month = 0 /\ d <= m => P!MonthEnd(d) <= m
<1> PICK M \in Nat \ {0} : M = Month
  BY TargetAssumption
<1> PICK x \in Nat : x = d + M - 1
  OBVIOUS
<1> PICK q \in Nat, r \in 0 .. M - 1 : q = x \div M /\ x = M * q + r
  BY Divided
<1>2. P!MonthEnd(d) = q * M /\ q * M \in Nat
  <2>1. P!MonthEnd(d) = q * M
    BY DEF P!MonthEnd
  <2> QED
    BY <2>1, Z3
<1>3. (q * M) % M = 0
  BY Multiples
<1>4. ASSUME NEW m \in Nat, m % M = 0, d <= m PROVE q * M <= m
  <2>1. PICK k \in Nat : m = M * k
    BY <1>4, Multiples
  <2>2. SUFFICES ASSUME k + 1 <= q PROVE FALSE
    BY <2>1, Z3
  <2>3. M * (k + 1) <= M * q /\ M * (k + 1) = M * k + M
    BY <2>2, Z3
  <2> QED
    BY <1>4, <2>1, <2>3
<1>5. d <= q * M /\ q * M < d + M
  BY Z3
<1> QED
  BY <1>2, <1>3, <1>4, <1>5

-----------------------------------------------------------------------------
(* Every analyst's last word, carried forward. *)

Forward(news, firm, g) ==
    [d \in 0 .. LastDay |-> IF d = 0 THEN 0 ELSE IF [firm |-> firm, day |-> d] \in news THEN d ELSE g[d - 1]]

\* The last day, up to d, the firm said something.
IsLast(c, news, firm, d) ==
    /\ c \in 0 .. d /\ (c > 0 => [firm |-> firm, day |-> c] \in news)
    /\ \A e \in 1 .. d : [firm |-> firm, day |-> e] \in news => e <= c

\* There is a last day, up to any, on which a firm spoke, or none ...
LEMMA LastExists ==
  ASSUME NEW news, NEW firm, NEW d \in Nat
  PROVE  \E c \in Nat : IsLast(c, news, firm, d)
<1> DEFINE past == {e \in 1 .. d : [firm |-> firm, day |-> e] \in news}
<1>1. CASE past = {}
  BY <1>1 DEF IsLast
<1>2. CASE past # {}
  <2>1. past \in SUBSET (0 .. d)
    OBVIOUS
  <2>2. PICK c \in past : \A e \in past : e <= c
    BY <1>2, <2>1, LargestOf
  <2> QED
    BY <2>2 DEF IsLast
<1> QED
  BY <1>1, <1>2

\* ... it is carried from a day to the next ...
LEMMA LastSteps ==
  ASSUME NEW news, NEW firm
  PROVE  /\ IsLast(0, news, firm, 0)
         /\ \A d \in Nat \ {0} : [firm |-> firm, day |-> d] \in news => IsLast(d, news, firm, d)
         /\ \A d \in Nat \ {0} : \A c : [firm |-> firm, day |-> d] \notin news /\ IsLast(c, news, firm, d - 1) => IsLast(c, news, firm, d)
BY DEF IsLast

\* ... and is only one.
LEMMA LastIsOne ==
  ASSUME NEW news, NEW firm, NEW d \in Nat, NEW c, IsLast(c, news, firm, d), NEW e, IsLast(e, news, firm, d)
  PROVE  c = e
BY DEF IsLast

\* The forward fill carries a firm's last word.
LEMMA CarriedIs ==
  ASSUME NEW news, NEW firm, NEW d \in 0 .. LastDay
  PROVE  IsLast(P!Carried(news, firm)[d], news, firm, d)
<1> DEFINE last(e) == CHOOSE c \in Nat : IsLast(c, news, firm, e)
           f == [e \in 0 .. LastDay |-> last(e)]
<1>1. \A e \in Nat : last(e) \in Nat /\ IsLast(last(e), news, firm, e)
  BY LastExists
<1> HIDE DEF last
<1>2. f = Forward(news, firm, f)
  <2>1. ASSUME NEW e \in 0 .. LastDay PROVE f[e] = Forward(news, firm, f)[e]
    <3>1. f[e] = last(e) /\ IsLast(last(e), news, firm, e)
      BY <1>1, TargetAssumption
    <3>2. CASE e = 0
      <4>1. last(e) = 0
        BY <3>1, <3>2, LastSteps, LastIsOne
      <4> QED
        BY <3>1, <3>2, <4>1 DEF Forward
    <3>3. CASE e # 0 /\ [firm |-> firm, day |-> e] \in news
      <4>1. last(e) = e
        <5> PICK x : x = last(e)
          OBVIOUS
        <5> PICK n \in Nat \ {0} : n = e
          BY <3>3, TargetAssumption
        <5>1. IsLast(x, news, firm, n) /\ IsLast(n, news, firm, n)
          BY <3>1, <3>3, LastSteps
        <5>2. x = n
          BY <5>1, LastIsOne, Zenon
        <5> QED
          BY <5>2
      <4> QED
        BY <3>1, <3>3, <4>1 DEF Forward
    <3>4. CASE e # 0 /\ [firm |-> firm, day |-> e] \notin news
      <4>1. e - 1 \in 0 .. LastDay /\ e - 1 \in Nat /\ e \in Nat \ {0}
        BY <3>4, TargetAssumption
      <4>2. IsLast(last(e - 1), news, firm, e - 1) /\ f[e - 1] = last(e - 1)
        BY <1>1, <4>1
      <4>3. IsLast(last(e - 1), news, firm, e)
        BY <3>4, <4>1, <4>2, LastSteps
      <4>4. last(e) = last(e - 1)
        <5> PICK x, y : x = last(e) /\ y = last(e - 1)
          OBVIOUS
        <5> PICK n \in Nat : n = e
          BY <4>1
        <5>1. IsLast(x, news, firm, n) /\ IsLast(y, news, firm, n)
          BY <3>1, <4>3
        <5>2. x = y
          BY <5>1, LastIsOne, Zenon
        <5> QED
          BY <5>2
      <4> QED
        BY <3>1, <3>4, <4>2, <4>4 DEF Forward
    <3> QED
      BY <3>2, <3>3, <3>4
  <2> HIDE DEF f
  <2>2. DOMAIN f = 0 .. LastDay /\ f = [e \in 0 .. LastDay |-> f[e]]
    BY DEF f
  <2> QED
    BY <2>1, <2>2 DEF Forward
<1> PICK on : on = P!Carried(news, firm)
  OBVIOUS
<1>3. on = Forward(news, firm, on)
  <2>1. on = CHOOSE g : g = Forward(news, firm, g)
    BY Zenon DEF P!Carried, Forward
  <2> HIDE DEF f
  <2> QED
    BY <1>2, <2>1, Zenon
<1>4. \A e \in 0 .. LastDay : IsLast(on[e], news, firm, e)
  <2> DEFINE S == {e \in 0 .. LastDay : ~IsLast(on[e], news, firm, e)}
  <2> SUFFICES ASSUME S # {} PROVE FALSE
    OBVIOUS
  <2>1. S \in SUBSET Nat
    BY TargetAssumption
  <2>2. PICK e \in S : \A x \in S : e <= x
    BY <2>1, SmallestOf
  <2>3. on[e] = IF e = 0 THEN 0 ELSE IF [firm |-> firm, day |-> e] \in news THEN e ELSE on[e - 1]
    BY <1>3 DEF Forward
  <2>4. e # 0 => IsLast(on[e - 1], news, firm, e - 1)
    <3> SUFFICES ASSUME e # 0 PROVE e - 1 \in 0 .. LastDay /\ e - 1 \notin S
      OBVIOUS
    <3> QED
      BY <2>1, <2>2, TargetAssumption
  <2>5. IsLast(on[e], news, firm, e)
    <3>1. e \in Nat
      BY <2>1
    <3> QED
      BY <2>3, <2>4, <3>1, LastSteps
  <2> QED
    BY <2>5
<1> QED
  BY <1>4

\* An action is its firm and its day.
LEMMA ActIs ==
  ASSUME NEW news \in SUBSET Acts, NEW a \in news
  PROVE  a = [firm |-> a.firm, day |-> a.day] /\ a.day \in Nat \ {0} /\ a.firm \in STRING
BY DEF Acts

\* What is carried into a month is every firm's last word.
Words(firms, on, d) == {[firm |-> f, day |-> on[f][d]] : f \in {g \in firms : on[g][d] > 0}}

\* A day's words, forward filled, are the last words of the firms that spoke.
LEMMA WordsAreLast ==
  ASSUME NEW news \in SUBSET Acts, NEW d \in 0 .. LastDay, NEW used, used = P!Usable(news), NEW firms, firms = {a.firm : a \in used},
         NEW on, \A f \in firms : on[f] = P!Carried(used, f)
  PROVE  Words(firms, on, d) = LastWords(news, d)
<1> DEFINE words == {[firm |-> f, day |-> on[f][d]] : f \in {g \in firms : on[g][d] > 0}}
<1>0. Words(firms, on, d) = words
  BY DEF Words
<1>1. \A f \in firms : IsLast(on[f][d], used, f, d) /\ on[f][d] \in Int
  BY CarriedIs, TargetAssumption DEF IsLast
<1>2. \A a \in used : a \in news /\ a.firm # "" /\ a.firm \in firms /\ a = [firm |-> a.firm, day |-> a.day] /\ a.day \in Nat \ {0}
  BY ActIs DEF P!Usable
<1>3. \A a : a \in KnownBy(news, d) <=> a \in used /\ a.day <= d
  BY DEF KnownBy, P!Usable
<1>4. ASSUME NEW a \in words PROVE a \in LastWords(news, d)
  <2>1. PICK f \in firms : a = [firm |-> f, day |-> on[f][d]] /\ on[f][d] > 0
    OBVIOUS
  <2>2. a \in used /\ a.firm = f /\ a.day = on[f][d] /\ a.day <= d
    BY <1>1, <2>1 DEF IsLast
  <2>3. ASSUME NEW b \in KnownBy(news, d), b.firm = a.firm PROVE b.day <= a.day
    <3>1. b \in used /\ b.day <= d /\ b.day \in Nat \ {0} /\ b = [firm |-> f, day |-> b.day]
      BY <1>2, <1>3, <2>2, <2>3
    <3>2. b.day \in 1 .. d
      BY <3>1, TargetAssumption
    <3> QED
      BY <1>1, <2>2, <3>1, <3>2 DEF IsLast
  <2> QED
    BY <1>3, <2>2, <2>3 DEF LastWords
<1>5. ASSUME NEW a \in LastWords(news, d) PROVE a \in words
  <2>1. a \in KnownBy(news, d) /\ a \in used /\ a.day <= d
    BY <1>3 DEF LastWords
  <2> PICK f \in firms, e \in Nat \ {0} : a = [firm |-> f, day |-> e] /\ e <= d
    BY <1>2, <2>1
  <2>2. IsLast(on[f][d], used, f, d) /\ on[f][d] \in Int
    BY <1>1
  <2>3. e <= on[f][d]
    <3>1. e \in 1 .. d
      BY TargetAssumption
    <3> QED
      BY <2>1, <2>2, <3>1 DEF IsLast
  <2>4. on[f][d] > 0
    BY <2>2, <2>3
  <2> PICK c \in Nat : c = on[f][d]
    BY <2>2, <2>4
  <2> PICK b : b = [firm |-> f, day |-> c]
    OBVIOUS
  <2>5. b \in KnownBy(news, d) /\ b.firm = f /\ b.day = c
    BY <1>3, <2>2, <2>4 DEF IsLast
  <2>6. c <= e
    BY <2>5 DEF LastWords
  <2>7. a = [firm |-> f, day |-> on[f][d]]
    BY <2>3, <2>6
  <2> QED
    BY <2>4, <2>7
<1> QED
  BY <1>0, <1>4, <1>5

\* The months of a reconstruction.
MonthsMade(history, news, full) ==
    /\ \A d \in P!Days :
          \/ history[d] = P!NoRow
          \/ /\ history[d] = P!NewsRow(LastWords(news, d))
             /\ d % Month = 0 /\ KnownBy(news, d) # {} /\ d <= full
    /\ \A d \in P!Days : d % Month = 0 /\ KnownBy(news, d) # {} /\ d <= full => history[d] = P!NewsRow(LastWords(news, d))
    /\ history = [d \in P!Days |-> history[d]]

\* The reconstruction has a row for each full month since the first action, of the last words.
LEMMA MonthsAreMade ==
  ASSUME NEW news \in SUBSET Acts, NEW before \in Nat, NEW history, history = P!Reconstructed(news, before)
  PROVE  MonthsMade(history, news, P!LastFullMonth(before))
<1> PICK used : used = P!Usable(news)
  OBVIOUS
<1> PICK firms : firms = {a.firm : a \in used}
  OBVIOUS
<1> PICK days : days = {a.day : a \in used}
  OBVIOUS
<1> PICK least : least = CHOOSE d \in days : \A a \in used : d <= a.day
  OBVIOUS
<1> PICK first : first = P!MonthEnd(least)
  OBVIOUS
<1> PICK on : on = [f \in firms |-> P!Carried(used, f)]
  OBVIOUS
<1> DEFINE words(d) == Words(firms, on, d)
<1>1. history = IF used = {} THEN [d \in P!Days |-> P!NoRow]
             ELSE [d \in P!Days |-> IF d % Month = 0 /\ d >= first /\ d <= P!LastFullMonth(before) THEN P!NewsRow(words(d)) ELSE P!NoRow]
  BY DEF P!Reconstructed, Words
<1>2. \A a \in used : a.day \in Nat /\ a.firm # "" /\ a \in news
  BY ActIs DEF P!Usable
<1>3. \A d \in P!Days : KnownBy(news, d) # {} <=> \E a \in used : a.day <= d
  BY DEF KnownBy, P!Usable
<1>4. used # {} => least \in Nat /\ least \in days /\ \A a \in used : least <= a.day
  <2> SUFFICES ASSUME used # {} PROVE least \in Nat /\ least \in days /\ \A a \in used : least <= a.day
    OBVIOUS
  <2>1. days \in SUBSET Nat /\ days # {}
    BY <1>2
  <2>2. PICK d \in days : \A e \in days : d <= e
    BY <2>1, SmallestOf
  <2>3. \A a \in used : d <= a.day
    BY <2>2
  <2>4. least \in days /\ \A a \in used : least <= a.day
    BY <2>3, Zenon
  <2> QED
    BY <2>1, <2>4
<1>5. ASSUME NEW d \in P!Days PROVE words(d) = LastWords(news, d)
  <2>1. d \in 0 .. LastDay
    BY DEF P!Days
  <2>2. \A f \in firms : on[f] = P!Carried(used, f)
    BY Zenon
  <2> QED
    BY <2>1, <2>2, WordsAreLast, Zenon
<1>6. ASSUME used # {}, NEW d \in P!Days, d % Month = 0
      PROVE  d >= first <=> KnownBy(news, d) # {}
  <2>1. d \in Nat
    BY TargetAssumption DEF P!Days
  <2>2. first \in Nat /\ least <= first /\ (least <= d => first <= d)
    BY <1>4, <1>6, <2>1, MonthEnds
  <2>3. d >= first <=> least <= d
    BY <1>4, <1>6, <2>1, <2>2
  <2>4. PICK a \in used : a.day = least
    BY <1>4, <1>6
  <2>5. ASSUME NEW b \in used, b.day <= d PROVE least <= d
    <3>1. b.day \in Nat /\ least \in Nat /\ least <= b.day
      BY <1>2, <1>4, <1>6, Zenon
    <3> QED
      BY <2>1, <2>5, <3>1
  <2>6. least <= d => a.day <= d
    BY <2>4
  <2>7. KnownBy(news, d) # {} <=> \E b \in used : b.day <= d
    BY <1>3, Zenon
  <2> QED
    BY <2>3, <2>5, <2>6, <2>7, Zenon
<1> HIDE DEF words
<1>7. CASE used = {}
  BY <1>1, <1>3, <1>7 DEF MonthsMade
<1>8. CASE used # {}
  BY <1>1, <1>5, <1>6, <1>8 DEF MonthsMade
<1> QED
  BY <1>7, <1>8

-----------------------------------------------------------------------------
(* What a step leaves true. *)

\* What is known of the world: a day is two half days ...
LEMMA NowIs ==
  ASSUME NEW w \in TDesk
  PROVE  /\ Now(w) \in P!Days /\ Now(w) \in Nat /\ FirstDay <= Now(w) /\ w.half \in Nat /\ 2 * Now(w) <= w.half /\ w.half <= 2 * Now(w) + 1
         /\ w.news \in News /\ w.mishaps \in Nat /\ w.mishaps <= TargetMishaps /\ w.group \in BOOLEAN
         /\ \A t \in P!Followed : w.news[t] \in SUBSET Acts
<1>1. w.half \in 2 * FirstDay .. 2 * LastDay + 1 /\ w.news \in News /\ w.mishaps \in 0 .. TargetMishaps /\ w.group \in BOOLEAN
  BY DEF TDesk
<1>2. FirstDay \in Nat \ {0} /\ LastDay \in Nat /\ TargetMishaps \in Nat
  BY TargetAssumption
<1>3. ASSUME NEW h \in 2 * FirstDay .. 2 * LastDay + 1
      PROVE  h \in Nat /\ h \div 2 \in 0 .. LastDay /\ FirstDay <= h \div 2 /\ 2 * (h \div 2) <= h /\ h <= 2 * (h \div 2) + 1
  BY <1>2
<1>4. /\ Now(w) \in 0 .. LastDay /\ FirstDay <= Now(w) /\ w.half \in Nat /\ 2 * Now(w) <= w.half
      /\ w.half <= 2 * Now(w) + 1
  BY <1>1, <1>3 DEF Now
<1>5. Now(w) \in P!Days /\ Now(w) \in Nat
  BY <1>2, <1>4 DEF P!Days
<1>6. w.mishaps \in Nat /\ w.mishaps <= TargetMishaps
  BY <1>1, <1>2
<1>7. w.news \in [P!Followed -> SUBSET Acts]
  BY <1>1, TargetAssumption DEF Acts
<1>8. \A t \in P!Followed : w.news[t] \in SUBSET Acts
  BY <1>7, Zenon
<1> QED
  BY <1>1, <1>4, <1>5, <1>6, <1>8

\* ... and later half days are no earlier days.
LEMMA NowGrows ==
  ASSUME NEW w \in TDesk, NEW w2 \in TDesk, w.half <= w2.half
  PROVE  Now(w) <= Now(w2)
<1>1. 2 * Now(w) <= w.half /\ w2.half <= 2 * Now(w2) + 1 /\ w.half \in Nat /\ w2.half \in Nat /\ Now(w) \in Nat /\ Now(w2) \in Nat
  BY NowIs
<1> QED
  BY <1>1

\* A table that is true today is true tomorrow.
LEMMA StaysTrue ==
  ASSUME NEW history \in [P!Days -> TRow], NEW n \in Nat, NEW m \in Nat, n <= m, NEW news, TableTrue(history, n, news)
  PROVE  TableTrue(history, m, news)
<1>1. \A d \in P!Days : d \in Nat /\ history[d].fetched \in Nat
  BY TargetAssumption DEF TRow, P!Days
<1>2. ASSUME NEW d \in P!Days PROVE RowTrue(history[d], d, m, news)
  <2>1. RowTrue(history[d], d, n, news)
    BY DEF TableTrue
  <2>2. FromConsensus(history[d], d, n) => FromConsensus(history[d], d, m)
    BY <1>1 DEF FromConsensus
  <2>3. FromNews(history[d], d, n, news) => FromNews(history[d], d, m, news)
    BY <1>1 DEF FromNews
  <2> QED
    BY <2>1, <2>2, <2>3 DEF RowTrue
<1> QED
  BY <1>2, Zenon DEF TableTrue

LiveStays(history, rows2) == \A t \in P!Followed, d \in P!Days : history[t][d].how = "live_consensus" => rows2[t][d].how = "live_consensus"

\* What a run has told stays told while the live rows stay.
LEMMA TellsStill ==
  ASSUME NEW history, NEW rows2, LiveStays(history, rows2), NEW done, NEW date, ToldTrue(done, date, history)
  PROVE  ToldTrue(done, date, rows2)
BY DEF LiveStays, ToldTrue

CachesTrue(cache, half) == \A t \in P!Followed : CacheTrue(cache[t], half)
TablesTrue(history, now, news) == \A t \in P!Followed : TableTrue(history[t], now, news[t])

\* A step of which these parts hold keeps the invariant ...
LEMMA StepIsTrue ==
  ASSUME NEW w, NEW a, TargetsTrue(w, a), NEW w2 \in TDesk, NEW a2 \in TShelf, w2.news = w.news, w.half <= w2.half,
         TablesTrue(a2.rows, Now(w2), w.news), LiveStays(a.rows, a2.rows), CachesTrue(a2.cache, w2.half),
         \A j \in P!Jobs : a2.jobs[j] = a.jobs[j] \/ JobTrue(a2.jobs[j], a2.rows, Now(w2)),
         FillTrue(a2.fill, a2.rows, Now(w2), w.news),
         a2.ended = a.ended \/ ToldTrue(a2.ended.done, a2.ended.date, a2.rows)
  PROVE  TargetsTrue(w2, a2)
<1>1. w \in TDesk /\ a \in TShelf /\ (\A j \in P!Jobs : JobTrue(a.jobs[j], a.rows, Now(w))) /\ ToldTrue(a.ended.done, a.ended.date, a.rows)
  BY DEF TargetsTrue
<1>2. Now(w) <= Now(w2) /\ Now(w) \in Nat /\ Now(w2) \in Nat
  BY <1>1, NowGrows, NowIs
<1>3. ASSUME NEW j \in P!Jobs PROVE JobTrue(a2.jobs[j], a2.rows, Now(w2))
  <2> SUFFICES ASSUME a2.jobs[j] = a.jobs[j] PROVE JobTrue(a2.jobs[j], a2.rows, Now(w2))
    OBVIOUS
  <2> PICK job \in TJob : job = a.jobs[j]
    BY <1>1 DEF TShelf
  <2>1. JobTrue(job, a.rows, Now(w))
    BY <1>1
  <2>2. job.at # "idle" => job.date \in P!Days /\ job.date <= Now(w2) /\ ToldTrue(job.done, job.date, a2.rows)
    <3>1. job.date \in Nat
      BY DEF TJob
    <3> QED
      BY <1>2, <2>1, <3>1, TellsStill DEF JobTrue
  <2>3. JobTrue(job, a2.rows, Now(w2))
    BY <2>1, <2>2 DEF JobTrue
  <2> QED
    BY <2>3
<1>4. ToldTrue(a2.ended.done, a2.ended.date, a2.rows)
  BY <1>1, TellsStill
<1> QED
  BY <1>3, <1>4, Zenon DEF TargetsTrue, TablesTrue, CachesTrue

\* ... the table and the backfill being as they were.
LEMMA StepKeepsTable ==
  ASSUME NEW w, NEW a, TargetsTrue(w, a), NEW w2 \in TDesk, NEW a2 \in TShelf, w2.news = w.news, w.half <= w2.half,
         a2.rows = a.rows, CachesTrue(a2.cache, w2.half),
         \A j \in P!Jobs : a2.jobs[j] = a.jobs[j] \/ JobTrue(a2.jobs[j], a.rows, Now(w2)),
         a2.fill = a.fill \/ FillTrue(a2.fill, a.rows, Now(w2), w.news),
         a2.ended = a.ended \/ ToldTrue(a2.ended.done, a2.ended.date, a.rows)
  PROVE  TargetsTrue(w2, a2)
<1>1. w \in TDesk /\ a \in TShelf /\ FillTrue(a.fill, a.rows, Now(w), w.news) /\ TablesTrue(a.rows, Now(w), w.news)
  BY Zenon DEF TargetsTrue, TablesTrue
<1>2. Now(w) <= Now(w2) /\ Now(w) \in Nat /\ Now(w2) \in Nat
  BY <1>1, NowGrows, NowIs
<1>3. TablesTrue(a2.rows, Now(w2), w.news)
  <2>1. \A t \in P!Followed : a.rows[t] \in [P!Days -> TRow]
    BY <1>1 DEF TShelf
  <2> QED
    BY <1>1, <1>2, <2>1, StaysTrue DEF TablesTrue
<1>4. LiveStays(a.rows, a2.rows)
  BY DEF LiveStays
<1>5. FillTrue(a2.fill, a2.rows, Now(w2), w.news)
  <2>1. a.fill.rows \in [P!Days -> TRow]
    BY <1>1 DEF TShelf, TFill
  <2>2. \A t \in P!Followed : TableTrue(a.fill.rows, Now(w), w.news[t]) => TableTrue(a.fill.rows, Now(w2), w.news[t])
    BY <1>2, <2>1, StaysTrue
  <2> QED
    BY <1>1, <2>2 DEF FillTrue
<1> QED
  BY <1>3, <1>4, <1>5, StepIsTrue

\* What a read of the consensus gives.
LEMMA ReadsAre ==
  ASSUME TargetsInv, NEW t \in P!Followed, NEW days \in Nat, NEW r \in P!Reads(t, days)
  PROVE  /\ r.cost \in {0, 1} /\ r.cache \in [at : Nat, value : Nat] /\ CacheTrue(r.cache, world.half) /\ r.value \in Nat \cup {-1}
         /\ days <= 1 /\ world.group => r.value \in {-1, 0} \/ r.value >= Now(world) - 1
<1> PICK w, a : w = world /\ a = archive
  OBVIOUS
<1> PICK kept : kept = a.cache[t]
  OBVIOUS
<1>1. w \in TDesk /\ kept \in [at : Nat, value : Nat] /\ CacheTrue(kept, w.half)
  <2>1. TargetsTrue(w, a)
    BY DEF TargetsInv
  <2> QED
    BY <2>1 DEF TargetsTrue, TShelf
<1>2. /\ Now(w) \in Nat /\ w.half \in Nat /\ 2 * Now(w) <= w.half /\ w.half <= 2 * Now(w) + 1 /\ P!Today = Now(w) /\ Now(w) = w.half \div 2
      /\ w.group \in BOOLEAN
  BY <1>1, NowIs DEF Now, P!Today
<1>3. \/ P!Fresh(t, days) /\ r = [value |-> kept.value, cache |-> kept, cost |-> 0]
      \/ ~w.group /\ r = [value |-> IF kept.at > 0 THEN kept.value ELSE -1, cache |-> kept, cost |-> 0]
      \/ r = [value |-> Now(w), cache |-> [at |-> w.half, value |-> Now(w)], cost |-> 0]
      \/ r = [value |-> 0, cache |-> [at |-> w.half, value |-> 0], cost |-> 1]
      \/ r = [value |-> -1, cache |-> kept, cost |-> 1]
  BY <1>2 DEF P!Reads
<1>4. CASE P!Fresh(t, days) /\ r = [value |-> kept.value, cache |-> kept, cost |-> 0]
  <2>1. kept.at > 0 /\ w.half - kept.at <= 2 * days
    BY <1>1, <1>2, <1>4 DEF P!Fresh
  <2>2. kept.value = 0 \/ kept.value = kept.at \div 2
    BY <1>1, <2>1 DEF CacheTrue
  <2>3. ASSUME days <= 1, kept.value = kept.at \div 2 PROVE kept.value >= Now(w) - 1
    <3>1. kept.at \in Nat /\ kept.value \in Nat /\ kept.at <= 2 * kept.value + 1
      BY <1>1, <2>3
    <3> QED
      BY <1>2, <2>1, <2>3, <3>1
  <2> QED
    BY <1>1, <1>4, <2>2, <2>3
<1>5. CASE ~w.group /\ r = [value |-> IF kept.at > 0 THEN kept.value ELSE -1, cache |-> kept, cost |-> 0]
  BY <1>1, <1>5
<1>6. CASE r = [value |-> Now(w), cache |-> [at |-> w.half, value |-> Now(w)], cost |-> 0]
  BY <1>2, <1>6 DEF CacheTrue
<1>7. CASE r = [value |-> 0, cache |-> [at |-> w.half, value |-> 0], cost |-> 1]
  BY <1>2, <1>7 DEF CacheTrue
<1>8. CASE r = [value |-> -1, cache |-> kept, cost |-> 1]
  BY <1>1, <1>8
<1> QED
  BY <1>3, <1>4, <1>5, <1>6, <1>7, <1>8

Ended == [date : Nat, done : [P!Followed -> Telling]]
Cached == [P!Followed -> [at : Nat, value : Nat]]
Shelf(history, cache, jobs, fill, last, ended) ==
    [rows |-> history, cache |-> cache, jobs |-> jobs, fill |-> fill, lastCron |-> last, ended |-> ended]

\* A shelf is its parts.
LEMMA ShelfIs ==
  ASSUME NEW a \in TShelf
  PROVE  /\ a = Shelf(a.rows, a.cache, a.jobs, a.fill, a.lastCron, a.ended)
         /\ a.rows \in [P!Followed -> [P!Days -> TRow]] /\ a.cache \in Cached /\ a.jobs \in [P!Jobs -> TJob] /\ a.fill \in TFill
         /\ a.lastCron \in Nat /\ a.ended \in Ended
BY DEF TShelf, Shelf, Cached, Ended

\* The blank rows, runs and backfills.
LEMMA BlanksAre ==
  /\ P!NoRow \in TRow /\ P!NoRow.how = "none" /\ P!NoRow.from = "none"
  /\ P!NoJob \in TJob /\ P!NoJob.at = "idle" /\ P!NoJob.done \in [P!Followed -> Telling] /\ \A t \in P!Followed : P!NoJob.done[t] = "none"
  /\ P!NoFill \in TFill /\ P!NoFill.at = "idle"
  /\ P!NotEnded \in Ended /\ \A date, history : ToldTrue(P!NotEnded.done, date, history)
<1>1. P!NoRow \in TRow /\ P!NoRow.how = "none" /\ P!NoRow.from = "none"
  BY DEF P!NoRow, TRow
<1>2. P!NoJob.done \in [P!Followed -> Telling] /\ \A t \in P!Followed : P!NoJob.done[t] = "none"
  BY DEF P!NoJob, Telling
<1>3. P!NoJob \in TJob /\ P!NoJob.at = "idle"
  BY DEF P!NoJob, TJob, Telling
<1>4. P!NoFill \in TFill /\ P!NoFill.at = "idle"
  BY <1>1 DEF P!NoFill, TFill
<1>5. P!NotEnded \in Ended /\ P!NotEnded.done = P!NoJob.done
  BY <1>2 DEF P!NotEnded, Ended
<1>6. \A date, history : ToldTrue(P!NotEnded.done, date, history)
  BY <1>2, <1>5 DEF ToldTrue
<1> QED
  BY <1>1, <1>2, <1>3, <1>4, <1>5, <1>6

\* One run goes on: the table, the backfill and the other run stay.
JobGoes(w, a, w2, a2, j, new, cache, last, ended) ==
    /\ w2 \in TDesk /\ w2.news = w.news /\ w2.half = w.half
    /\ j \in P!Jobs /\ new \in TJob /\ JobTrue(new, a.rows, Now(w))
    /\ cache \in Cached /\ CachesTrue(cache, w.half) /\ last \in Nat
    /\ ended \in Ended /\ (ended = a.ended \/ ToldTrue(ended.done, ended.date, a.rows))
    /\ a2 = Shelf(a.rows, cache, [a.jobs EXCEPT ![j] = new], a.fill, last, ended)

\* A step of a run that changes no row.
LEMMA JobIsTrue ==
  ASSUME NEW w, NEW a, NEW w2, NEW a2, NEW j, NEW new, NEW cache, NEW last, NEW ended, TargetsTrue(w, a),
         JobGoes(w, a, w2, a2, j, new, cache, last, ended)
  PROVE  TargetsTrue(w2, a2)
<1>0. /\ w2 \in TDesk /\ w2.news = w.news /\ w2.half = w.half
      /\ j \in P!Jobs /\ new \in TJob /\ JobTrue(new, a.rows, Now(w))
      /\ cache \in Cached /\ CachesTrue(cache, w.half) /\ last \in Nat
      /\ ended \in Ended /\ (ended = a.ended \/ ToldTrue(ended.done, ended.date, a.rows))
      /\ a2 = Shelf(a.rows, cache, [a.jobs EXCEPT ![j] = new], a.fill, last, ended)
  BY DEF JobGoes
<1>1. w \in TDesk /\ a \in TShelf
  BY DEF TargetsTrue
<1>2. a.rows \in [P!Followed -> [P!Days -> TRow]] /\ a.jobs \in [P!Jobs -> TJob] /\ a.fill \in TFill
  BY <1>1, ShelfIs
<1>3. /\ a2.rows = a.rows /\ a2.cache = cache /\ a2.jobs = [a.jobs EXCEPT ![j] = new] /\ a2.fill = a.fill /\ a2.ended = ended
      /\ a2 \in TShelf
  BY <1>0, <1>2 DEF Shelf, TShelf, Cached, Ended
<1>4. \A k \in P!Jobs : a2.jobs[k] = a.jobs[k] \/ JobTrue(a2.jobs[k], a.rows, Now(w2))
  <2>1. Now(w2) = Now(w)
    BY <1>0 DEF Now
  <2> QED
    BY <1>0, <1>2, <1>3, <2>1
<1>5. w.half <= w2.half
  BY <1>0, <1>1, NowIs
<1> QED
  BY <1>0, <1>3, <1>4, <1>5, StepKeepsTable

\* What the invariant says of one run.
LEMMA JobIs ==
  ASSUME NEW w, NEW a, TargetsTrue(w, a), NEW j \in P!Jobs, NEW job, job = a.jobs[j]
  PROVE  /\ w \in TDesk /\ a \in TShelf /\ CachesTrue(a.cache, w.half) /\ job \in TJob /\ JobTrue(job, a.rows, Now(w))
         /\ Now(w) \in P!Days /\ Now(w) \in Nat /\ job.date \in Nat /\ job.todo \in Seq(P!Followed) /\ job.done \in [P!Followed -> Telling]
BY NowIs, Zenon DEF TargetsTrue, CachesTrue, TShelf, TJob

Desk(half, group, news, mishaps) == [half |-> half, group |-> group, news |-> news, mishaps |-> mishaps]

\* Spending changes the mishaps only.
LEMMA SpendingIs ==
  ASSUME NEW w \in TDesk, NEW cost \in Nat, cost <= w.mishaps, NEW w2, w2 = [w EXCEPT !.mishaps = @ - cost]
  PROVE  w2 \in TDesk /\ w2.news = w.news /\ w2.half = w.half /\ w2.group = w.group
<1>1. w.mishaps \in 0 .. TargetMishaps /\ TargetMishaps \in Nat
  BY TargetAssumption DEF TDesk
<1>2. w.mishaps - cost \in 0 .. TargetMishaps
  BY <1>1
<1> QED
  BY <1>2 DEF TDesk

IsLiveRow(row, v, how, n, on) ==
    row \in TRow /\ row.target = {v} /\ row.how = how /\ row.from = "consensus" /\ row.fetched = n /\ row.live = on

\* The row a live run writes ...
LEMMA LiveRowIs ==
  ASSUME NEW v \in Nat, NEW how \in {"null", "live_consensus"}, NEW n \in Nat, NEW on \in BOOLEAN,
         NEW row, row = P!LiveRow(v, how, n, on)
  PROVE  IsLiveRow(row, v, how, n, on)
<1>1. row = [target |-> {v}, how |-> how, from |-> "consensus", fetched |-> n, live |-> on]
  BY DEF P!LiveRow
<1>2. {v} \in SUBSET (Nat \cup Acts) /\ how \in {"none", "null", "live_consensus", "legacy_all_analysts"}
  OBVIOUS
<1> QED
  BY <1>1, <1>2 DEF TRow, IsLiveRow

\* ... and the one that was written by hand before the history began.
LEMMA ManualRow ==
  ASSUME NEW row, row = P!LiveRow(LIVE_DAY, "null", LIVE_DAY, TRUE)
  PROVE  row \in TRow /\ row.from = "consensus" /\ \A n : RowTrue(row, LIVE_DAY, FirstDay, n)
<1>1. /\ row = [target |-> {LIVE_DAY}, how |-> "null", from |-> "consensus", fetched |-> LIVE_DAY, live |-> TRUE]
      /\ row.from = "consensus" /\ row.how = "null" /\ row.fetched = LIVE_DAY /\ row.target = {LIVE_DAY} /\ row.live = TRUE
  BY DEF P!LiveRow
<1>2. LIVE_DAY \in Nat /\ FirstDay \in Nat /\ LIVE_DAY <= FirstDay /\ LIVE_DAY >= LIVE_DAY - 1
  BY TargetAssumption
<1>3. row \in TRow /\ row.from = "consensus" /\ row.how = "null" /\ row.fetched = LIVE_DAY /\ row.target = {LIVE_DAY}
  <2>1. {LIVE_DAY} \in SUBSET (Nat \cup Acts) /\ "null" \in {"none", "null", "live_consensus", "legacy_all_analysts"}
    BY <1>2
  <2> QED
    BY <1>1, <1>2, <2>1 DEF TRow
<1>4. FromConsensus(row, LIVE_DAY, FirstDay)
  BY <1>2, <1>3 DEF FromConsensus
<1> QED
  BY <1>3, <1>4 DEF RowTrue

\* The invariant holds of the first night, with or without the row written by hand.
LEMMA TargetsStart == P!InitTargets => TargetsInv
<1> SUFFICES ASSUME P!InitTargets PROVE TargetsInv
  OBVIOUS
<1> PICK w, a : w = world /\ a = archive
  OBVIOUS
<1>1. PICK news \in News : w = [half |-> 2 * FirstDay, group |-> TRUE, news |-> news, mishaps |-> TargetMishaps]
  BY Zenon DEF P!InitTargets
<1>2. PICK manual \in BOOLEAN : a =
        [rows |-> [t \in P!Followed |-> [d \in P!Days |->
                     IF manual /\ t = Order[1] /\ d = LIVE_DAY THEN P!LiveRow(LIVE_DAY, "null", LIVE_DAY, TRUE) ELSE P!NoRow]],
         cache |-> [t \in P!Followed |-> IF manual /\ t = Order[1] THEN [at |-> 2 * LIVE_DAY + 1, value |-> LIVE_DAY]
                                         ELSE [at |-> 0, value |-> 0]],
         jobs |-> [j \in P!Jobs |-> P!NoJob], fill |-> P!NoFill, lastCron |-> 0, ended |-> P!NotEnded]
  BY Zenon DEF P!InitTargets
<1> PICK live : live = P!LiveRow(LIVE_DAY, "null", LIVE_DAY, TRUE)
  OBVIOUS
<1> DEFINE first(t, d) == IF manual /\ t = Order[1] /\ d = LIVE_DAY THEN P!LiveRow(LIVE_DAY, "null", LIVE_DAY, TRUE) ELSE P!NoRow
<1>20. a.rows = [t \in P!Followed |-> [d \in P!Days |-> first(t, d)]]
  BY <1>2
<1> HIDE DEF first
<1>21. \A t \in P!Followed : a.rows[t] = [d \in P!Days |-> first(t, d)]
  BY <1>20
<1>3. w \in TDesk /\ w.half = 2 * FirstDay /\ w.news = news
  BY <1>1, TargetAssumption DEF TDesk
<1>4. Now(w) = FirstDay
  <2>1. Now(w) \in Nat /\ 2 * Now(w) <= w.half /\ w.half <= 2 * Now(w) + 1 /\ FirstDay \in Nat
    BY <1>3, NowIs, TargetAssumption
  <2> QED
    BY <1>3, <2>1
<1>5. live \in TRow /\ live.from = "consensus" /\ \A n : RowTrue(live, LIVE_DAY, FirstDay, n)
  BY ManualRow, Zenon
<1>6. ASSUME NEW t \in P!Followed
      PROVE  a.rows[t] \in [P!Days -> TRow] /\ TableTrue(a.rows[t], FirstDay, news[t])
  <2>1. \A d \in P!Days : a.rows[t][d] = P!NoRow \/ (a.rows[t][d] = live /\ d = LIVE_DAY)
    <3>1. \A d \in P!Days : a.rows[t][d] = first(t, d)
      BY <1>21
    <3> QED
      <4> SUFFICES ASSUME NEW d \in P!Days PROVE a.rows[t][d] = P!NoRow \/ (a.rows[t][d] = live /\ d = LIVE_DAY)
        OBVIOUS
      <4> QED
        <5>1. first(t, d) = P!NoRow \/ (first(t, d) = live /\ d = LIVE_DAY)
          BY Zenon DEF first
        <5>2. a.rows[t][d] = first(t, d)
          BY <3>1
        <5> QED
          BY <5>1, <5>2
  <2>2. a.rows[t] = [d \in P!Days |-> a.rows[t][d]]
    BY <1>21
  <2>3. a.rows[t] \in [P!Days -> TRow]
    BY <1>5, <2>1, <2>2, BlanksAre
  <2>4. \A d \in P!Days : RowTrue(a.rows[t][d], d, FirstDay, news[t]) /\ a.rows[t][d].from # "news"
    BY <1>5, <2>1, BlanksAre DEF RowTrue
  <2> QED
    BY <2>3, <2>4 DEF TableTrue
<1>7. /\ a.cache \in Cached /\ \A t \in P!Followed : CacheTrue(a.cache[t], w.half)
  <2>1. LIVE_DAY \in Nat /\ 2 * LIVE_DAY + 1 \in Nat /\ 2 * LIVE_DAY + 1 <= w.half /\ LIVE_DAY = (2 * LIVE_DAY + 1) \div 2 /\ 0 <= w.half
    BY <1>3, TargetAssumption
  <2>2. \A t \in P!Followed : a.cache[t] = [at |-> 2 * LIVE_DAY + 1, value |-> LIVE_DAY] \/ a.cache[t] = [at |-> 0, value |-> 0]
    BY <1>2
  <2>3. a.cache = [t \in P!Followed |-> a.cache[t]]
    BY <1>2
  <2> QED
    BY <2>1, <2>2, <2>3 DEF Cached, CacheTrue
<1>8. a.jobs = [j \in P!Jobs |-> P!NoJob] /\ a.fill = P!NoFill /\ a.lastCron = 0 /\ a.ended = P!NotEnded
  BY <1>2
<1>9. a \in TShelf
  <2>1. a.rows \in [P!Followed -> [P!Days -> TRow]]
    <3>1. a.rows = [t \in P!Followed |-> a.rows[t]]
      BY <1>2
    <3> QED
      BY <1>6, <3>1
  <2>2. a = Shelf(a.rows, a.cache, a.jobs, a.fill, a.lastCron, a.ended)
    BY <1>2 DEF Shelf
  <2> QED
    BY <1>7, <1>8, <2>1, <2>2, BlanksAre DEF TShelf, Shelf, Cached, Ended
<1>10. TargetsTrue(w, a)
  <2>1. \A j \in P!Jobs : JobTrue(a.jobs[j], a.rows, Now(w))
    BY <1>8, BlanksAre DEF JobTrue
  <2>2. FillTrue(a.fill, a.rows, Now(w), w.news)
    BY <1>8, BlanksAre DEF FillTrue
  <2>3. ToldTrue(a.ended.done, a.ended.date, a.rows)
    BY <1>8, BlanksAre
  <2> QED
    BY <1>3, <1>4, <1>6, <1>7, <1>9, <2>1, <2>2, <2>3 DEF TargetsTrue
<1> QED
  BY <1>10 DEF TargetsInv

-----------------------------------------------------------------------------
(* The nightly run. *)

Job(at, date, todo, exists, value, live, dead, done) ==
    [at |-> at, date |-> date, todo |-> todo, exists |-> exists, value |-> value, live |-> live, dead |-> dead, done |-> done]

\* A run goes on to its next ticker, or stops, and tells what became of this one.
LEMMA OutcomeIs ==
  ASSUME NEW j \in P!Jobs, NEW job \in TJob, job = archive.jobs[j], job.todo # <<>>, job.at # "idle",
         NEW what \in {"written", "failed", "no_data"}, NEW dead \in BOOLEAN, NEW new, new = P!Outcome(j, what, dead),
         NEW history, NEW rows2, NEW now, JobTrue(job, history, now), LiveStays(history, rows2),
         what = "written" => rows2[Head(job.todo)][job.date].how = "live_consensus"
  PROVE  new \in TJob /\ JobTrue(new, rows2, now)
<1> PICK t \in P!Followed : t = Head(job.todo)
  BY DEF TJob
<1> PICK todo \in Seq(P!Followed) : todo = Tail(job.todo)
  <2> PICK q \in Seq(P!Followed) : q = job.todo
    BY DEF TJob
  <2>1. Tail(q) \in Seq(P!Followed)
    OBVIOUS
  <2> QED
    BY <2>1
<1> PICK done : done = [job.done EXCEPT ![t] = what]
  OBVIOUS
<1>1. job.done \in [P!Followed -> Telling] /\ job.date \in P!Days /\ job.date \in Nat /\ job.date <= now /\ ToldTrue(job.done, job.date, history)
  BY DEF JobTrue, TJob
<1>2. done \in [P!Followed -> Telling] /\ \A u \in P!Followed : done[u] = IF u = t THEN what ELSE job.done[u]
  BY <1>1 DEF Telling
<1>3. new = Job("next", job.date, todo, FALSE, 0, TRUE, dead, done)
  BY DEF P!Outcome, TJob, Job
<1>4. new \in TJob /\ new.at = "next" /\ new.date = job.date /\ new.done = done
  BY <1>1, <1>2, <1>3, SMTT(30) DEF Job, TJob
<1>5. ToldTrue(job.done, job.date, rows2)
  BY <1>1, TellsStill
<1>6. ToldTrue(done, job.date, rows2)
  BY <1>1, <1>2, <1>5 DEF ToldTrue
<1> QED
  BY <1>1, <1>4, <1>6 DEF JobTrue

\* A run begins: the live one of the day, or one by hand.
LEMMA SnapshotStarts ==
  ASSUME TargetsInv, NEW j \in P!Jobs, P!Starts(j)
  PROVE  TargetsInv'
<1> PICK w, a : w = world /\ a = archive
  OBVIOUS
<1> PICK w2, a2 : w2 = world' /\ a2 = archive'
  OBVIOUS
<1> PICK cost \in {0, 1} : cost = IF j = "cli" THEN 1 ELSE 0
  OBVIOUS
<1> PICK new : new = [P!NoJob EXCEPT !.at = "next", !.date = Now(w), !.todo = Order]
  OBVIOUS
<1> PICK last : last = IF j = "cron" THEN Now(w) ELSE a.lastCron
  OBVIOUS
<1>0. TargetsTrue(w, a)
  BY DEF TargetsInv
<1>1. w \in TDesk /\ a \in TShelf /\ CachesTrue(a.cache, w.half) /\ Now(w) \in P!Days /\ Now(w) \in Nat
  BY <1>0, JobIs
<1>2. cost <= w.mishaps /\ w2 = [w EXCEPT !.mishaps = @ - cost]
  BY DEF P!Starts, P!Pay, P!Spend
<1>3. a2 = Shelf(a.rows, a.cache, [a.jobs EXCEPT ![j] = new], a.fill, last, a.ended)
  <2>1. [P!NoJob EXCEPT !.at = "next", !.date = P!Today, !.todo = Order] = new
    <3>1. P!Today = Now(w)
      BY DEF P!Today, Now
    <3> QED
      BY <3>1, Zenon
  <2>2. a2 = [a EXCEPT !.lastCron = IF j = "cron" THEN P!Today ELSE @,
                       !.jobs = [@ EXCEPT ![j] = [P!NoJob EXCEPT !.at = "next", !.date = P!Today, !.todo = Order]]]
    BY Zenon DEF P!Starts
  <2>3. P!Today = Now(w)
    BY DEF P!Today, Now
  <2>4. a2 = [a EXCEPT !.lastCron = last, !.jobs = [@ EXCEPT ![j] = new]]
    BY <2>1, <2>2, <2>3
  <2> QED
    BY <1>1, <2>4 DEF Shelf, TShelf
<1>4. new \in TJob /\ new.at = "next" /\ new.date = Now(w) /\ new.done = P!NoJob.done
  <2>1. P!NoJob \in TJob /\ Order \in Seq(P!Followed) /\ "next" \in {"idle", "next", "write"}
    BY BlanksAre, TargetAssumption
  <2> QED
    BY <1>1, <2>1 DEF TJob
<1>5. JobTrue(new, a.rows, Now(w))
  <2>1. \A t \in P!Followed : new.done[t] = "none"
    BY <1>4, BlanksAre
  <2>2. ToldTrue(new.done, new.date, a.rows)
    BY <2>1 DEF ToldTrue
  <2>3. new.date \in P!Days /\ new.date <= Now(w) /\ new.at # "write"
    <3> PICK n \in Nat : n = Now(w)
      BY <1>1
    <3>1. n <= n /\ "next" # "write"
      OBVIOUS
    <3> QED
      BY <1>1, <1>4, <3>1, Zenon
  <2> QED
    BY <2>2, <2>3, Zenon DEF JobTrue
<1>6. last \in Nat /\ a.cache \in Cached /\ a.ended \in Ended
  BY <1>1, ShelfIs
<1>7. w2 \in TDesk /\ w2.news = w.news /\ w2.half = w.half
  BY <1>1, <1>2, SpendingIs
<1>8. TargetsTrue(w2, a2)
  <2>1. JobGoes(w, a, w2, a2, j, new, a.cache, last, a.ended)
    BY <1>1, <1>3, <1>4, <1>5, <1>6, <1>7, Zenon DEF JobGoes
  <2> QED
    BY <1>0, <2>1, JobIsTrue, Zenon
<1> QED
  BY <1>8 DEF TargetsInv

\* What is no older than a day is so for an earlier date too.
LEMMA StillYesterday == \A v, n, d \in Nat : d <= n /\ v >= n - 1 => v >= d - 1
  OBVIOUS

\* A run skips a row it has, or reads the consensus through the cache.
LEMMA SnapshotReads ==
  ASSUME TargetsInv, NEW j \in P!Jobs, P!TakesTicker(j)
  PROVE  TargetsInv'
<1> PICK w, a : w = world /\ a = archive
  OBVIOUS
<1> PICK w2, a2 : w2 = world' /\ a2 = archive'
  OBVIOUS
<1> PICK job : job = a.jobs[j]
  OBVIOUS
<1> PICK t : t = Head(job.todo)
  OBVIOUS
<1>0. TargetsTrue(w, a)
  BY DEF TargetsInv
<1>1. /\ w \in TDesk /\ a \in TShelf /\ CachesTrue(a.cache, w.half) /\ Now(w) \in Nat /\ job \in TJob /\ JobTrue(job, a.rows, Now(w))
      /\ job.date \in Nat /\ job.todo \in Seq(P!Followed) /\ job.done \in [P!Followed -> Telling]
  BY <1>0, JobIs
<1>2. job.at = "next" /\ job.todo # <<>> /\ t \in P!Followed /\ job.date \in P!Days /\ job.date <= Now(w)
  <2>1. job.at = "next" /\ job.todo # <<>>
    BY DEF P!TakesTicker
  <2> QED
    BY <1>1, <2>1 DEF JobTrue
<1>3. a.lastCron \in Nat /\ a.cache \in Cached /\ a.ended \in Ended /\ LiveStays(a.rows, a.rows)
  BY <1>1, ShelfIs DEF LiveStays
<1>4. ASSUME NEW what \in {"failed", "no_data"}, NEW dead \in BOOLEAN
      PROVE  P!Outcome(j, what, dead) \in TJob /\ JobTrue(P!Outcome(j, what, dead), a.rows, Now(w))
  <2> PICK new : new = P!Outcome(j, what, dead)
    OBVIOUS
  <2>1. what \in {"written", "failed", "no_data"} /\ what # "written" /\ job.at # "idle" /\ job = archive.jobs[j]
    BY <1>2
  <2>2. new \in TJob /\ JobTrue(new, a.rows, Now(w))
    BY <1>1, <1>2, <1>3, <2>1, OutcomeIs, Zenon
  <2> QED
    BY <2>2
<1>5. CASE job.dead
  <2>1. w2 = w /\ a2 = [a EXCEPT !.jobs[j] = P!Outcome(j, "failed", TRUE)]
    BY <1>5, Zenon DEF P!TakesTicker
  <2>2. a2 = Shelf(a.rows, a.cache, [a.jobs EXCEPT ![j] = P!Outcome(j, "failed", TRUE)], a.fill, a.lastCron, a.ended)
    BY <1>1, <2>1 DEF Shelf, TShelf
  <2>3. P!Outcome(j, "failed", TRUE) \in TJob /\ JobTrue(P!Outcome(j, "failed", TRUE), a.rows, Now(w))
    BY <1>4
  <2>4. w2 \in TDesk /\ w2.news = w.news /\ w2.half = w.half
    BY <1>1, <2>1
  <2>5. TargetsTrue(w2, a2)
    <3>1. JobGoes(w, a, w2, a2, j, P!Outcome(j, "failed", TRUE), a.cache, a.lastCron, a.ended)
      BY <1>1, <1>3, <2>2, <2>3, <2>4, Zenon DEF JobGoes
    <3> QED
      BY <1>0, <3>1, JobIsTrue, Zenon
  <2> QED
    BY <2>5 DEF TargetsInv
<1>6. CASE ~job.dead
  <2> DEFINE next(r) == CASE r.value = -1 -> P!Outcome(j, "failed", FALSE)
                          [] r.value = 0 -> P!Outcome(j, "no_data", FALSE)
                          [] OTHER -> [job EXCEPT !.at = "write", !.value = r.value, !.live = w.group,
                                                  !.exists = a.rows[t][job.date] # P!NoRow]
  <2>1. PICK r \in P!Reads(t, P!JobWindow) :
            /\ r.cost <= w.mishaps /\ w2 = [w EXCEPT !.mishaps = @ - r.cost]
            /\ a2 = [a EXCEPT !.cache = [@ EXCEPT ![t] = r.cache], !.jobs[j] = next(r)]
    BY <1>6, Zenon DEF P!TakesTicker, P!Pay, P!Spend
  <2>2. /\ r.cost \in {0, 1} /\ r.cache \in [at : Nat, value : Nat] /\ CacheTrue(r.cache, w.half) /\ r.value \in Nat \cup {-1}
        /\ w.group => r.value \in {-1, 0} \/ r.value >= Now(w) - 1
    <3>1. P!JobWindow \in Nat /\ P!JobWindow <= 1
      BY TargetAssumption DEF P!JobWindow
    <3> QED
      BY <1>2, <3>1, ReadsAre
  <2>6. w2 \in TDesk /\ w2.news = w.news /\ w2.half = w.half
    <3>1. r.cost \in Nat
      BY <2>2
    <3> PICK cost \in Nat : cost = r.cost
      BY <3>1
    <3>2. cost <= w.mishaps /\ w2 = [w EXCEPT !.mishaps = @ - cost]
      BY <2>1, Zenon
    <3> QED
      BY <1>1, <3>2, SpendingIs
  <2> PICK cache : cache = [a.cache EXCEPT ![t] = r.cache]
    OBVIOUS
  <2> PICK new : new = next(r)
    OBVIOUS
  <2>3. a2 = Shelf(a.rows, cache, [a.jobs EXCEPT ![j] = new], a.fill, a.lastCron, a.ended)
    <3> HIDE DEF next
    <3> QED
      BY <1>1, <2>1 DEF Shelf, TShelf
  <2>4. cache \in Cached /\ CachesTrue(cache, w.half)
    BY <1>1, <1>3, <2>2 DEF Cached, CachesTrue
  <2>5. new \in TJob /\ JobTrue(new, a.rows, Now(w))
    <3>1. CASE r.value = -1
      <4>1. new = P!Outcome(j, "failed", FALSE)
        BY <3>1
      <4> QED
        BY <1>4, <4>1
    <3>2. CASE r.value = 0
      <4>1. new = P!Outcome(j, "no_data", FALSE)
        BY <3>2
      <4> QED
        BY <1>4, <4>1
    <3>3. CASE r.value # -1 /\ r.value # 0
      <4> PICK exists \in BOOLEAN : exists = (a.rows[t][job.date] # P!NoRow)
        OBVIOUS
      <4>1. new = [job EXCEPT !.at = "write", !.value = r.value, !.live = w.group, !.exists = exists]
        BY <3>3
      <4>2. r.value \in Nat /\ w.group \in BOOLEAN /\ (w.group => r.value >= job.date - 1)
        <5> PICK v : v = r.value
          OBVIOUS
        <5>1. v \in Nat /\ w.group \in BOOLEAN /\ (w.group => v >= Now(w) - 1)
          <6> HIDE DEF next
          <6> QED
            BY <1>1, <2>2, <3>3, NowIs
        <5>2. job.date \in Nat /\ job.date <= Now(w) /\ Now(w) \in Nat
          BY <1>1, <1>2
        <5>3. w.group => v >= job.date - 1
          BY <5>1, <5>2, StillYesterday, Zenon
        <5> QED
          BY <5>1, <5>3
      <4>3. /\ new \in TJob /\ new.at = "write" /\ new.value = r.value /\ new.live = w.group
            /\ new.todo = job.todo /\ new.date = job.date /\ new.done = job.done
        <5>1. "write" \in {"idle", "next", "write"}
          OBVIOUS
        <5> HIDE DEF next
        <5> QED
          BY <1>1, <4>1, <4>2, <5>1 DEF TJob
      <4> QED
        BY <1>1, <1>2, <4>2, <4>3 DEF JobTrue
    <3> QED
      BY <3>1, <3>2, <3>3
  <2>7. TargetsTrue(w2, a2)
    <3> HIDE DEF next
    <3>1. JobGoes(w, a, w2, a2, j, new, cache, a.lastCron, a.ended)
      BY <1>3, <2>3, <2>4, <2>5, <2>6, Zenon DEF JobGoes
    <3> QED
      BY <1>0, <3>1, JobIsTrue, Zenon
  <2> QED
    BY <2>7 DEF TargetsInv
<1> QED
  BY <1>5, <1>6

\* A run ends, or dies.
LEMMA SnapshotEnds ==
  ASSUME TargetsInv, NEW j \in P!Jobs, P!RunEnds(j) \/ P!RunDies(j)
  PROVE  TargetsInv'
<1> PICK w, a : w = world /\ a = archive
  OBVIOUS
<1> PICK w2, a2 : w2 = world' /\ a2 = archive'
  OBVIOUS
<1> PICK job : job = a.jobs[j]
  OBVIOUS
<1>0. TargetsTrue(w, a)
  BY DEF TargetsInv
<1>1. /\ w \in TDesk /\ a \in TShelf /\ CachesTrue(a.cache, w.half) /\ Now(w) \in Nat /\ job \in TJob /\ JobTrue(job, a.rows, Now(w))
      /\ job.date \in Nat /\ job.done \in [P!Followed -> Telling]
  BY <1>0, JobIs
<1>2. a.lastCron \in Nat /\ a.cache \in Cached /\ a.ended \in Ended
  BY <1>1, ShelfIs
<1>3. P!NoJob \in TJob /\ JobTrue(P!NoJob, a.rows, Now(w))
  BY BlanksAre DEF JobTrue
<1>4. CASE P!RunEnds(j)
  <2> PICK ended : ended = [date |-> job.date, done |-> job.done]
    OBVIOUS
  <2>1. w2 = w /\ a2 = [a EXCEPT !.ended = ended, !.jobs[j] = P!NoJob] /\ job.at = "next"
    BY <1>4, Zenon DEF P!RunEnds
  <2>2. a2 = Shelf(a.rows, a.cache, [a.jobs EXCEPT ![j] = P!NoJob], a.fill, a.lastCron, ended)
    BY <1>1, <2>1 DEF Shelf, TShelf
  <2>3. ended \in Ended /\ ToldTrue(ended.done, ended.date, a.rows)
    BY <1>1, <2>1 DEF Ended, JobTrue
  <2>4. w2 \in TDesk /\ w2.news = w.news /\ w2.half = w.half
    BY <1>1, <2>1
  <2>5. JobGoes(w, a, w2, a2, j, P!NoJob, a.cache, a.lastCron, ended)
    BY <1>1, <1>2, <1>3, <2>2, <2>3, <2>4, Zenon DEF JobGoes
  <2> QED
    BY <1>0, <2>5, JobIsTrue, Zenon DEF TargetsInv
<1>5. CASE P!RunDies(j)
  <2>1. 1 <= w.mishaps /\ w2 = [w EXCEPT !.mishaps = @ - 1] /\ a2 = [a EXCEPT !.jobs[j] = P!NoJob]
    BY <1>5, Zenon DEF P!RunDies, P!Pay, P!Spend
  <2>2. a2 = Shelf(a.rows, a.cache, [a.jobs EXCEPT ![j] = P!NoJob], a.fill, a.lastCron, a.ended)
    BY <1>1, <2>1 DEF Shelf, TShelf
  <2>3. w2 \in TDesk /\ w2.news = w.news /\ w2.half = w.half
    BY <1>1, <2>1, SpendingIs
  <2>4. JobGoes(w, a, w2, a2, j, P!NoJob, a.cache, a.lastCron, a.ended)
    BY <1>1, <1>2, <1>3, <2>2, <2>3, Zenon DEF JobGoes
  <2> QED
    BY <1>0, <2>4, JobIsTrue, Zenon DEF TargetsInv
<1> QED
  BY <1>4, <1>5

\* A row of a table replaced by one of the live consensus.
LEMMA RowIsWritten ==
  ASSUME NEW old \in [P!Days -> TRow], NEW now \in Nat, NEW news, TableTrue(old, now, news), NEW date \in P!Days,
         NEW row \in TRow, row.from = "consensus", FromConsensus(row, date, now), NEW new, new = [old EXCEPT ![date] = row]
  PROVE  new \in [P!Days -> TRow] /\ TableTrue(new, now, news)
<1>1. new \in [P!Days -> TRow] /\ new[date] = row /\ \A d \in P!Days \ {date} : new[d] = old[d]
  OBVIOUS
<1>2. row # P!NoRow
  BY BlanksAre
<1>3. RowTrue(row, date, now, news)
  BY DEF RowTrue
<1>4. ASSUME NEW d \in P!Days PROVE RowTrue(new[d], d, now, news)
  BY <1>1, <1>3 DEF TableTrue
<1>5. ASSUME NEW d \in P!Days, new[d].from = "news", NEW e \in P!Days, e < d, e % Month = 0, KnownBy(news, e) # {}
      PROVE  new[e] # P!NoRow
  <2>1. d # date /\ old[d].from = "news"
    BY <1>1, <1>5
  <2>2. old[e] # P!NoRow
    BY <1>5, <2>1 DEF TableTrue
  <2> QED
    BY <1>1, <1>2, <2>2
<1> QED
  BY <1>1, <1>4, <1>5, Zenon DEF TableTrue

LEMMA SnapshotWrites ==
  ASSUME TargetsInv, NEW j \in P!Jobs, P!WritesRow(j)
  PROVE  TargetsInv'
<1> PICK w, a : w = world /\ a = archive
  OBVIOUS
<1> PICK w2, a2 : w2 = world' /\ a2 = archive'
  OBVIOUS
<1> PICK job : job = a.jobs[j]
  OBVIOUS
<1> PICK t : t = Head(job.todo)
  OBVIOUS
<1>0. TargetsTrue(w, a)
  BY DEF TargetsInv
<1>1. /\ w \in TDesk /\ a \in TShelf /\ CachesTrue(a.cache, w.half) /\ Now(w) \in Nat /\ job \in TJob /\ JobTrue(job, a.rows, Now(w))
      /\ job.date \in Nat /\ job.todo \in Seq(P!Followed) /\ job.done \in [P!Followed -> Telling]
  BY <1>0, JobIs
<1>2. job.at = "write" /\ job.todo # <<>> /\ t \in P!Followed /\ job.date \in P!Days /\ job.date <= Now(w)
  <2>1. job.at = "write"
    BY DEF P!WritesRow
  <2> QED
    BY <1>1, <2>1 DEF JobTrue
<1>3. a.lastCron \in Nat /\ a.cache \in Cached /\ a.ended \in Ended /\ a.rows \in [P!Followed -> [P!Days -> TRow]] /\ a.jobs \in [P!Jobs -> TJob]
      /\ a.fill \in TFill /\ LiveStays(a.rows, a.rows)
  BY <1>1, ShelfIs DEF LiveStays
<1>20. PICK row : row = P!LiveRow(job.value, "live_consensus", P!Today, job.live)
  OBVIOUS
<1>21. PICK kept : kept = [a.rows EXCEPT ![t] = [@ EXCEPT ![job.date] = row]]
  OBVIOUS
<1>4. PICK locked \in BOOLEAN, ok \in BOOLEAN :
        /\ (IF locked THEN 1 ELSE 0) <= w.mishaps /\ w2 = [w EXCEPT !.mishaps = @ - (IF locked THEN 1 ELSE 0)]
        /\ a2 = [a EXCEPT !.rows[t][job.date] = IF ok THEN row ELSE @, !.jobs[j] = P!Outcome(j, P!Told(ok), ~ok)]
  <2>1. PICK locked \in BOOLEAN :
        LET ok == ~locked /\ (job.exists \/ a.rows[t][job.date] = P!NoRow)
            cost == IF locked THEN 1 ELSE 0
        IN /\ cost <= w.mishaps /\ w2 = [w EXCEPT !.mishaps = @ - cost]
           /\ a2 = [a EXCEPT !.rows[t][job.date] = IF ok THEN row ELSE @, !.jobs[j] = P!Outcome(j, P!Told(ok), ~ok)]
    BY <1>20, Zenon DEF P!WritesRow, P!Pay, P!Spend
  <2> QED
    BY <2>1
<1>5. w2 \in TDesk /\ w2.news = w.news /\ w2.half = w.half
  <2> PICK cost \in Nat : cost = IF locked THEN 1 ELSE 0
    OBVIOUS
  <2>1. cost <= w.mishaps /\ w2 = [w EXCEPT !.mishaps = @ - cost]
    BY <1>4
  <2> QED
    BY <1>1, <2>1, SpendingIs
<1>22. PICK new : new = P!Outcome(j, P!Told(ok), ~ok)
  OBVIOUS
<1>6. CASE ~ok
  <2>1. a2 = Shelf(a.rows, a.cache, [a.jobs EXCEPT ![j] = new], a.fill, a.lastCron, a.ended)
    <3>1. a2 = [a EXCEPT !.rows[t][job.date] = @, !.jobs[j] = new]
      BY <1>4, <1>6, <1>22, Zenon
    <3>2. [a.rows EXCEPT ![t][job.date] = @] = a.rows
      BY <1>2, <1>3
    <3> PICK history : history = [a.rows EXCEPT ![t][job.date] = @]
      OBVIOUS
    <3>3. a2 = [a EXCEPT !.rows = history, !.jobs[j] = new]
      BY <3>1, Zenon
    <3> QED
      BY <1>1, <3>2, <3>3, ZenonT(60) DEF Shelf, TShelf
  <2>2. new = P!Outcome(j, "failed", TRUE)
    BY <1>6, <1>22 DEF P!Told
  <2>3. new \in TJob /\ JobTrue(new, a.rows, Now(w))
    <3>1. "failed" \in {"written", "failed", "no_data"} /\ TRUE \in BOOLEAN /\ "failed" # "written" /\ job = archive.jobs[j] /\ job.at # "idle"
      BY <1>2
    <3> QED
      BY <1>1, <1>2, <1>3, <2>2, <3>1, OutcomeIs, Zenon
  <2>4. JobGoes(w, a, w2, a2, j, new, a.cache, a.lastCron, a.ended)
    BY <1>1, <1>3, <1>5, <2>1, <2>3, Zenon DEF JobGoes
  <2> QED
    BY <1>0, <2>4, JobIsTrue, Zenon DEF TargetsInv
<1>7. CASE ok
  <2>1. a2 = Shelf(kept, a.cache, [a.jobs EXCEPT ![j] = new], a.fill, a.lastCron, a.ended)
    <3>1. a2 = [a EXCEPT !.rows = kept, !.jobs[j] = new]
      <4>1. a2 = [a EXCEPT !.rows[t][job.date] = row, !.jobs[j] = new]
        BY <1>4, <1>7, <1>22, Zenon
      <4>2. kept = [a.rows EXCEPT ![t][job.date] = row]
        BY <1>21, Zenon
      <4> QED
        BY <4>1, <4>2, Zenon
    <3> QED
      BY <1>1, <3>1 DEF Shelf, TShelf
  <2>2. /\ row \in TRow /\ row.target = {job.value} /\ row.how = "live_consensus" /\ row.from = "consensus" /\ row.live = job.live
        /\ job.value \in Nat /\ (job.live => job.value >= job.date - 1)
    <3>1. job.value \in Nat /\ job.live \in BOOLEAN /\ P!Today \in Nat /\ "live_consensus" \in {"null", "live_consensus"}
      BY <1>1, NowIs DEF TJob, P!Today, Now
    <3>2. job.live => job.value >= job.date - 1
      BY <1>1, <1>2 DEF JobTrue
    <3> PICK v \in Nat, n \in Nat, on \in BOOLEAN, how \in {"null", "live_consensus"} :
            v = job.value /\ n = P!Today /\ on = job.live /\ how = "live_consensus"
      BY <3>1
    <3>3. row = P!LiveRow(v, how, n, on)
      BY <1>20, Zenon
    <3>4. IsLiveRow(row, v, how, n, on)
      BY <3>3, LiveRowIs
    <3> QED
      BY <3>1, <3>2, <3>4 DEF IsLiveRow
  <2>3. FromConsensus(row, job.date, Now(w))
    <3>1. row.how # "null"
      BY <2>2
    <3>2. row.live => \A v \in row.target : v >= job.date - 1
      BY <1>1, <2>2
    <3> QED
      BY <1>2, <2>2, <3>1, <3>2 DEF FromConsensus
  <2>4. ASSUME NEW u \in P!Followed PROVE kept[u] \in [P!Days -> TRow] /\ TableTrue(kept[u], Now(w), w.news[u])
    <3> PICK old \in [P!Days -> TRow] : old = a.rows[u]
      BY <1>3
    <3>1. TableTrue(old, Now(w), w.news[u])
      BY <1>0 DEF TargetsTrue
    <3>2. CASE u = t
      <4>1. kept[u] = [old EXCEPT ![job.date] = row]
        BY <1>2, <1>3, <1>21, <3>2
      <4> QED
        BY <1>1, <1>2, <2>2, <2>3, <3>1, <4>1, RowIsWritten
    <3>3. CASE u # t
      <4>1. kept[u] = old
        BY <1>2, <1>3, <1>21, <3>3
      <4> QED
        BY <3>1, <4>1
    <3> QED
      BY <3>2, <3>3
  <2>5. /\ kept \in [P!Followed -> [P!Days -> TRow]] /\ kept[t][job.date] = row
        /\ \A u \in P!Followed, d \in P!Days : kept[u][d] = a.rows[u][d] \/ kept[u][d] = row
    BY <1>2, <1>3, <1>21, <2>2
  <2>6. LiveStays(a.rows, kept)
    BY <2>2, <2>5 DEF LiveStays
  <2>7. new = P!Outcome(j, "written", FALSE)
    BY <1>7, <1>22 DEF P!Told
  <2>8. new \in TJob /\ JobTrue(new, kept, Now(w))
    <3>1. "written" \in {"written", "failed", "no_data"} /\ FALSE \in BOOLEAN /\ job = archive.jobs[j] /\ job.at # "idle"
      BY <1>2
    <3>2. kept[Head(job.todo)][job.date].how = "live_consensus"
      BY <2>2, <2>5
    <3> QED
      BY <1>1, <1>2, <2>6, <2>7, <3>1, <3>2, OutcomeIs, Zenon
  <2>9. /\ a2 \in TShelf /\ a2.rows = kept /\ a2.cache = a.cache /\ a2.fill = a.fill /\ a2.ended = a.ended
        /\ a2.jobs = [a.jobs EXCEPT ![j] = new]
    BY <1>3, <2>1, <2>5, <2>8 DEF Shelf, TShelf, Cached, Ended
  <2>10. Now(w2) = Now(w) /\ w.half <= w2.half
    BY <1>1, <1>5, NowIs DEF Now
  <2>11. \A k \in P!Jobs : a2.jobs[k] = a.jobs[k] \/ JobTrue(a2.jobs[k], a2.rows, Now(w2))
    BY <1>3, <2>8, <2>9, <2>10
  <2>12. FillTrue(a2.fill, a2.rows, Now(w2), w.news)
    <3>1. FillTrue(a.fill, a.rows, Now(w), w.news)
      BY <1>0 DEF TargetsTrue
    <3>2. \A u \in P!Followed, d \in P!Days : kept[u][d].from = "news" => a.rows[u][d].from = "news"
      BY <2>2, <2>5
    <3> QED
      BY <2>9, <2>10, <3>1, <3>2 DEF FillTrue
  <2>13. TablesTrue(a2.rows, Now(w2), w.news) /\ CachesTrue(a2.cache, w2.half)
    BY <1>1, <1>5, <2>4, <2>9, <2>10 DEF TablesTrue
  <2>14. TargetsTrue(w2, a2)
    BY <1>0, <1>5, <2>6, <2>9, <2>10, <2>11, <2>12, <2>13, StepIsTrue, ZenonT(60)
  <2> QED
    BY <2>14 DEF TargetsInv
<1> QED
  BY <1>6, <1>7

-----------------------------------------------------------------------------
(* The backfill, the tags, and the rest. *)

IsEarliest(before, history) == before \in P!Days /\ \A e \in P!Days : history[e] # P!NoRow => before <= e

\* The earliest row a ticker has, or today.
LEMMA EarliestIs ==
  ASSUME NEW history \in [P!Days -> TRow], NEW now \in P!Days, NEW held, held = P!RowDays(history), NEW before,
         before = IF held = {} THEN now ELSE CHOOSE d \in held : \A e \in held : d <= e
  PROVE  IsEarliest(before, history)
<1>1. held \in SUBSET Nat /\ held \subseteq P!Days /\ \A e \in P!Days : history[e] # P!NoRow <=> e \in held
  BY TargetAssumption DEF P!RowDays, P!Days
<1>2. CASE held = {}
  BY <1>1, <1>2 DEF IsEarliest
<1>3. CASE held # {}
  <2>1. \E d \in held : \A e \in held : d <= e
    BY <1>1, <1>3, SmallestOf
  <2>2. before \in held /\ \A e \in held : before <= e
    BY <1>3, <2>1, Zenon
  <2> QED
    BY <1>1, <2>2 DEF IsEarliest
<1> QED
  BY <1>2, <1>3

\* What a reconstruction of the months before the earliest row gives: nothing but what is
\* missing, and nothing at all where some month is already reconstructed.
Fills(fill, history, now, news) ==
    /\ fill \in [P!Days -> TRow] /\ TableTrue(fill, now, news) /\ \A d \in P!Days : fill[d].from # "consensus"
    /\ (\E d \in P!Days : fill[d] # P!NoRow) => \A e \in P!Days : history[e].from # "news"

\* What a reconstruction up to the earliest row would insert is true.
LEMMA ReconstructionIs ==
  ASSUME NEW history \in [P!Days -> TRow], NEW now \in P!Days, now = P!Today, FirstDay <= now, NEW news \in SUBSET Acts, TableTrue(history, now, news),
         NEW before \in P!Days, before <= now, IsEarliest(before, history),
         NEW told, told = {a \in news : a.day <= now}, NEW fill, fill = P!Reconstructed(told, before)
  PROVE  Fills(fill, history, now, news)
<1>1. told \in SUBSET Acts /\ \A d \in P!Days : d \in Nat /\ history[d].fetched \in Nat
  BY TargetAssumption DEF P!Days, TRow
<1> PICK full : full = P!LastFullMonth(before)
  OBVIOUS
<1>2. full \in Int /\ full < before
  <2> PICK n \in Nat : n = before
    BY <1>1
  <2>1. P!MonthEnd(n) \in Nat /\ P!MonthEnd(n) < n + Month /\ Month \in Nat
    BY MonthEnds, TargetAssumption
  <2>2. full = P!MonthEnd(n) - Month
    BY DEF P!LastFullMonth
  <2> QED
    BY <2>1, <2>2
<1>3. ASSUME NEW d \in P!Days, d <= full PROVE KnownBy(told, d) = KnownBy(news, d) /\ LastWords(told, d) = LastWords(news, d)
  <2>1. \A a \in news : a.day \in Nat
    BY DEF Acts
  <2>2. d <= now
    BY <1>1, <1>2, <1>3
  <2>3. KnownBy(told, d) = KnownBy(news, d)
    <3>1. \A a : a \in told /\ a.day <= d <=> a \in news /\ a.day <= d
      BY <1>1, <2>1, <2>2
    <3>2. \A a : a \in KnownBy(told, d) <=> a \in KnownBy(news, d)
      BY <3>1, Zenon DEF KnownBy
    <3> QED
      BY <3>2, Zenon
  <2> QED
    BY <2>3 DEF LastWords
<1>4. /\ \A d \in P!Days : \/ fill[d] = P!NoRow
                           \/ /\ fill[d] = P!NewsRow(LastWords(told, d))
                              /\ d % Month = 0 /\ KnownBy(told, d) # {} /\ d <= full
      /\ \A d \in P!Days : d % Month = 0 /\ KnownBy(told, d) # {} /\ d <= full => fill[d] = P!NewsRow(LastWords(told, d))
      /\ fill = [d \in P!Days |-> fill[d]]
  <2>1. before \in Nat
    BY <1>1
  <2>2. MonthsMade(fill, told, full)
    BY <1>1, <2>1, MonthsAreMade
  <2> QED
    BY <2>2, Zenon DEF MonthsMade
<1>5. ASSUME NEW words \in SUBSET Acts
      PROVE  /\ P!NewsRow(words) \in TRow /\ P!NewsRow(words).from = "news" /\ P!NewsRow(words).how = "null"
             /\ P!NewsRow(words).target = words /\ P!NewsRow(words).fetched = now /\ P!NewsRow(words) # P!NoRow
  <2> PICK row : row = P!NewsRow(words)
    OBVIOUS
  <2>1. row = [target |-> words, how |-> "null", from |-> "news", fetched |-> now, live |-> TRUE]
    BY DEF P!NewsRow
  <2>2. words \in SUBSET (Nat \cup Acts)
    OBVIOUS
  <2>3. row \in TRow /\ row.from = "news" /\ row.how = "null" /\ row.target = words /\ row.fetched = now
    BY <1>1, <2>1, <2>2 DEF TRow
  <2>4. row # P!NoRow
    BY <2>3, BlanksAre
  <2> QED
    BY <2>3, <2>4
<1>6. \A d : LastWords(told, d) \in SUBSET Acts
  BY <1>1 DEF LastWords, KnownBy
<1>7. ASSUME NEW d \in P!Days, fill[d] # P!NoRow
      PROVE  /\ fill[d] \in TRow /\ fill[d].from = "news" /\ FromNews(fill[d], d, now, news) /\ d <= full /\ d % Month = 0
             /\ KnownBy(news, d) # {}
  <2>1. fill[d] = P!NewsRow(LastWords(told, d)) /\ d % Month = 0 /\ KnownBy(told, d) # {} /\ d <= full
    BY <1>4, <1>7
  <2> PICK row : row = fill[d]
    OBVIOUS
  <2>2. row \in TRow /\ row.from = "news" /\ row.how = "null" /\ row.target = LastWords(told, d) /\ row.fetched = now
    BY <1>5, <1>6, <2>1
  <2>3. row.target = LastWords(news, d) /\ KnownBy(news, d) # {}
    BY <1>3, <2>1, <2>2
  <2>4. d < now
    BY <1>1, <1>2, <2>1
  <2>5. FromNews(row, d, now, news)
    BY <1>1, <2>1, <2>2, <2>3, <2>4 DEF FromNews
  <2> QED
    BY <2>1, <2>2, <2>3, <2>5
<1>8. fill \in [P!Days -> TRow] /\ \A d \in P!Days : fill[d].from # "consensus"
  <2>1. \A d \in P!Days : fill[d] \in TRow /\ fill[d].from # "consensus"
    BY <1>7, BlanksAre
  <2> QED
    BY <1>4, <2>1
<1>9. TableTrue(fill, now, news)
  <2>1. ASSUME NEW d \in P!Days PROVE RowTrue(fill[d], d, now, news)
    <3>1. CASE fill[d] = P!NoRow
      BY <3>1, BlanksAre DEF RowTrue
    <3>2. CASE fill[d] # P!NoRow
      BY <1>7, <3>2 DEF RowTrue
    <3> QED
      BY <3>1, <3>2
  <2>2. ASSUME NEW d \in P!Days, fill[d].from = "news", NEW e \in P!Days, e < d, e % Month = 0, KnownBy(news, e) # {}
        PROVE  fill[e] # P!NoRow
    <3>1. d <= full
      BY <1>7, <2>2, BlanksAre
    <3>2. e <= full
      BY <1>1, <1>2, <2>2, <3>1
    <3>3. KnownBy(told, e) # {}
      BY <1>3, <2>2, <3>2
    <3>4. fill[e] = P!NewsRow(LastWords(told, e))
      BY <1>4, <2>2, <3>2, <3>3
    <3> QED
      BY <1>5, <1>6, <3>4
  <2> QED
    BY <2>1, <2>2, Zenon DEF TableTrue
<1>10. ASSUME NEW d \in P!Days, fill[d] # P!NoRow, NEW e \in P!Days, history[e].from = "news" PROVE FALSE
  <2>1. d <= full /\ d % Month = 0 /\ KnownBy(news, d) # {}
    BY <1>7, <1>10
  <2>2. history[e] # P!NoRow
    BY <1>10, BlanksAre
  <2>3. before <= e /\ d < e
    <3>1. before <= e
      BY <2>2 DEF IsEarliest
    <3> QED
      BY <1>1, <1>2, <2>1, <3>1
  <2>4. history[d] # P!NoRow
    BY <1>10, <2>1, <2>3 DEF TableTrue
  <2>5. before <= d
    BY <2>4 DEF IsEarliest
  <2> QED
    BY <1>1, <1>2, <2>1, <2>5
<1> QED
  BY <1>8, <1>9, <1>10 DEF Fills

\* The same, of a followed ticker of the invariant.
LEMMA BackfillIs ==
  ASSUME TargetsInv, NEW t \in P!Followed,
         NEW fill, fill = P!Reconstructed({a \in world.news[t] : a.day <= P!Today}, P!Earliest(t))
  PROVE  Fills(fill, archive.rows[t], Now(world), world.news[t])
<1> PICK w, a : w = world /\ a = archive
  OBVIOUS
<1>1. TargetsTrue(w, a)
  BY DEF TargetsInv
<1>2. w \in TDesk /\ a \in TShelf /\ TableTrue(a.rows[t], Now(w), w.news[t])
  BY <1>1 DEF TargetsTrue
<1> PICK history \in [P!Days -> TRow] : history = a.rows[t]
  BY <1>2 DEF TShelf
<1> PICK now \in P!Days : now = Now(w)
  BY <1>2, NowIs
<1> PICK news \in SUBSET Acts : news = w.news[t]
  BY <1>2, NowIs
<1>3. now = P!Today /\ FirstDay <= now /\ TableTrue(history, now, news)
  BY <1>2, NowIs DEF P!Today, Now
<1>20. PICK before : before = P!Earliest(t)
  OBVIOUS
<1>4. IsEarliest(before, history)
  <2> PICK held : held = P!RowDays(history)
    OBVIOUS
  <2>1. before = IF held = {} THEN now ELSE CHOOSE d \in held : \A e \in held : d <= e
    BY <1>3, <1>20 DEF P!Earliest
  <2> QED
    BY <2>1, EarliestIs
<1>5. before <= now
  <2>1. \A d \in P!Days : d \in Nat
    BY TargetAssumption DEF P!Days
  <2>2. CASE P!RowDays(history) = {}
    <3>1. before = now
      BY <1>3, <1>20, <2>2 DEF P!Earliest
    <3> QED
      BY <2>1, <3>1
  <2>3. CASE P!RowDays(history) # {}
    <3>1. PICK e \in P!Days : history[e] # P!NoRow
      BY <2>3 DEF P!RowDays
    <3>2. RowTrue(history[e], e, now, news)
      BY <1>3 DEF TableTrue
    <3>3. history[e] \in TRow
      OBVIOUS
    <3>4. e <= now
      <4>1. history[e].from = "consensus" => e <= now
        BY <3>2 DEF RowTrue, FromConsensus
      <4>2. history[e].from = "news" => e < history[e].fetched /\ history[e].fetched <= now /\ history[e].fetched \in Nat
        BY <3>2, <3>3 DEF RowTrue, FromNews, TRow
      <4>3. history[e].from \in {"none", "consensus", "news"} /\ history[e].from # "none"
        BY <3>1, <3>2, <3>3 DEF RowTrue, TRow
      <4> QED
        BY <2>1, <4>1, <4>2, <4>3
    <3> QED
      BY <1>4, <2>1, <3>1, <3>4 DEF IsEarliest
  <2> QED
    BY <2>2, <2>3
<1> PICK told : told = {c \in news : c.day <= now}
  OBVIOUS
<1>6. fill = P!Reconstructed(told, before)
  BY <1>3, <1>20
<1>7. Fills(fill, history, now, news)
  <2>1. before \in P!Days
    BY <1>4 DEF IsEarliest
  <2> QED
    BY <1>3, <1>4, <1>5, <1>6, <2>1, ReconstructionIs
<1> QED
  BY <1>7

\* A backfill reads and reckons ...
LEMMA BackfillStarts ==
  ASSUME TargetsInv, NEW t \in P!Followed, P!BackfillReads(t)
  PROVE  TargetsInv'
<1> PICK w, a : w = world /\ a = archive
  OBVIOUS
<1> PICK w2, a2 : w2 = world' /\ a2 = archive'
  OBVIOUS
<1>0. TargetsTrue(w, a)
  BY DEF TargetsInv
<1>1. w \in TDesk /\ a \in TShelf /\ CachesTrue(a.cache, w.half)
  BY <1>0 DEF TargetsTrue, CachesTrue
<1>20. PICK history : history = P!Reconstructed({c \in w.news[t] : c.day <= P!Today}, P!Earliest(t))
  OBVIOUS
<1>21. PICK fill : fill = [at |-> "write", ticker |-> t, rows |-> history]
  OBVIOUS
<1>2. 1 <= w.mishaps /\ w2 = [w EXCEPT !.mishaps = @ - 1] /\ a2 = [a EXCEPT !.fill = fill]
  BY <1>20, <1>21, Zenon DEF P!BackfillReads, P!Pay, P!Spend
<1>3. Fills(history, a.rows[t], Now(w), w.news[t])
  BY <1>20, BackfillIs
<1>4. fill \in TFill /\ FillTrue(fill, a.rows, Now(w), w.news)
  BY <1>3, <1>21 DEF Fills, TFill, FillTrue
<1>5. w2 \in TDesk /\ w2.news = w.news /\ w2.half = w.half /\ Now(w2) = Now(w) /\ w.half <= w2.half
  <2>1. w2 \in TDesk /\ w2.news = w.news /\ w2.half = w.half
    BY <1>1, <1>2, SpendingIs
  <2> QED
    BY <1>1, <2>1, NowIs DEF Now
<1>6. /\ a2 \in TShelf /\ a2.rows = a.rows /\ a2.cache = a.cache /\ a2.jobs = a.jobs /\ a2.fill = fill /\ a2.ended = a.ended
  BY <1>1, <1>2, <1>4 DEF TShelf
<1>7. TargetsTrue(w2, a2)
  BY <1>0, <1>1, <1>4, <1>5, <1>6, StepKeepsTable
<1> QED
  BY <1>7 DEF TargetsInv

\* ... and inserts what is not there, if there is anything to insert.
LEMMA BackfillEnds ==
  ASSUME TargetsInv, P!BackfillWrites
  PROVE  TargetsInv'
<1> PICK w, a : w = world /\ a = archive
  OBVIOUS
<1> PICK w2, a2 : w2 = world' /\ a2 = archive'
  OBVIOUS
<1> PICK t : t = a.fill.ticker
  OBVIOUS
<1> PICK fill : fill = a.fill.rows
  OBVIOUS
<1> PICK made : made = P!RowDays(fill)
  OBVIOUS
<1>0. TargetsTrue(w, a)
  BY DEF TargetsInv
<1>1. /\ w \in TDesk /\ a \in TShelf /\ CachesTrue(a.cache, w.half) /\ TablesTrue(a.rows, Now(w), w.news)
      /\ FillTrue(a.fill, a.rows, Now(w), w.news)
  BY <1>0, Zenon DEF TargetsTrue, CachesTrue, TablesTrue
<1>2. a.rows \in [P!Followed -> [P!Days -> TRow]] /\ fill \in [P!Days -> TRow] /\ w.half <= w.half
  <2>1. a.rows \in [P!Followed -> [P!Days -> TRow]] /\ a.fill \in TFill
    BY <1>1, ShelfIs
  <2>2. a.fill.rows \in [P!Days -> TRow]
    BY <2>1 DEF TFill
  <2>3. w.half \in Nat
    BY <1>1, NowIs
  <2> QED
    BY <2>1, <2>2, <2>3
<1>3. /\ t \in P!Followed /\ TableTrue(fill, Now(w), w.news[t]) /\ \A d \in P!Days : fill[d].from # "consensus"
      /\ (\E d \in P!Days : fill[d] # P!NoRow) => \A e \in P!Days : a.rows[t][e].from # "news"
  <2>1. a.fill.at = "write"
    BY DEF P!BackfillWrites
  <2> QED
    BY <1>1, <2>1, Zenon DEF FillTrue
<1>20. PICK merged : merged = [d \in P!Days |-> IF d \in made THEN fill[d] ELSE a.rows[t][d]]
  OBVIOUS
<1>21. PICK history : history = IF \E d \in made : a.rows[t][d] # P!NoRow THEN a.rows ELSE [a.rows EXCEPT ![t] = merged]
  OBVIOUS
<1>4. w2 = w /\ a2 = [a EXCEPT !.fill = P!NoFill, !.rows = history]
  BY <1>20, <1>21, Zenon DEF P!BackfillWrites
<1>5. /\ \A d \in P!Days : d \in made <=> fill[d] # P!NoRow
      /\ made \subseteq P!Days
  BY DEF P!RowDays
<1>6. /\ history \in [P!Followed -> [P!Days -> TRow]] /\ TablesTrue(history, Now(w), w.news) /\ LiveStays(a.rows, history)
  <2>1. CASE \E d \in made : a.rows[t][d] # P!NoRow
    BY <1>1, <1>2, <1>21, <2>1 DEF LiveStays
  <2>2. CASE \A d \in made : a.rows[t][d] = P!NoRow
    <3>1. history = [a.rows EXCEPT ![t] = merged]
      BY <1>21, <2>2
    <3>2. merged \in [P!Days -> TRow] /\ \A d \in P!Days : merged[d] = IF d \in made THEN fill[d] ELSE a.rows[t][d]
      BY <1>2, <1>3, <1>20
    <3>3. history \in [P!Followed -> [P!Days -> TRow]] /\ history[t] = merged /\ \A u \in P!Followed \ {t} : history[u] = a.rows[u]
      BY <1>2, <1>3, <3>1, <3>2
    <3>4. TableTrue(a.rows[t], Now(w), w.news[t])
      BY <1>1, <1>3 DEF TablesTrue
    <3>5. TableTrue(merged, Now(w), w.news[t])
      <4>1. ASSUME NEW d \in P!Days PROVE RowTrue(merged[d], d, Now(w), w.news[t])
        BY <1>3, <3>2, <3>4, <4>1 DEF TableTrue
      <4>2. ASSUME NEW d \in P!Days, merged[d].from = "news", NEW e \in P!Days, e < d, e % Month = 0, KnownBy(w.news[t], e) # {}
            PROVE  merged[e] # P!NoRow
        <5>1. CASE d \in made
          <6>1. fill[e] # P!NoRow
            BY <1>3, <3>2, <4>2, <5>1 DEF TableTrue
          <6> QED
            BY <1>5, <3>2, <6>1
        <5>2. CASE d \notin made
          <6>1. a.rows[t][d].from = "news"
            BY <3>2, <4>2, <5>2
          <6>2. a.rows[t][e] # P!NoRow
            BY <3>4, <4>2, <6>1 DEF TableTrue
          <6> QED
            BY <1>5, <3>2, <6>2
        <5> QED
          BY <5>1, <5>2
      <4> QED
        BY <4>1, <4>2, Zenon DEF TableTrue
    <3>6. TablesTrue(history, Now(w), w.news)
      BY <1>1, <3>3, <3>5 DEF TablesTrue
    <3>7. LiveStays(a.rows, history)
      <4>1. \A d \in made : a.rows[t][d].how = "none"
        BY <2>2, BlanksAre
      <4> QED
        BY <3>2, <3>3, <4>1 DEF LiveStays
    <3> QED
      BY <3>3, <3>6, <3>7
  <2> QED
    BY <2>1, <2>2
<1>7. /\ a2 \in TShelf /\ a2.rows = history /\ a2.cache = a.cache /\ a2.jobs = a.jobs /\ a2.fill = P!NoFill /\ a2.ended = a.ended
  BY <1>1, <1>4, <1>6, BlanksAre DEF TShelf
<1>8. FillTrue(a2.fill, a2.rows, Now(w2), w.news)
  BY <1>7, BlanksAre DEF FillTrue
<1>9. TargetsTrue(w2, a2)
  <2>1. /\ w2 \in TDesk /\ w2.news = w.news /\ w.half <= w2.half /\ TablesTrue(a2.rows, Now(w2), w.news) /\ LiveStays(a.rows, a2.rows)
        /\ CachesTrue(a2.cache, w2.half) /\ \A j \in P!Jobs : a2.jobs[j] = a.jobs[j]
    BY <1>1, <1>2, <1>4, <1>6, <1>7
  <2> QED
    BY <1>0, <1>7, <1>8, <2>1, StepIsTrue
<1> QED
  BY <1>9 DEF TargetsInv

\* What the tagging does to a row.
LEMMA TagIs ==
  ASSUME NEW row \in TRow, NEW d \in P!Days, NEW now \in Nat, NEW news, RowTrue(row, d, now, news), NEW tagged, tagged = P!Tagged(row)
  PROVE  /\ tagged \in TRow /\ RowTrue(tagged, d, now, news) /\ tagged.from = row.from /\ (tagged = P!NoRow <=> row = P!NoRow)
         /\ row.how = "live_consensus" => tagged.how = "live_consensus"
<1>0. FirstDay \in Nat /\ LIVE_DAY \in Nat /\ LIVE_DAY < FirstDay /\ LEGACY_DAY # LIVE_DAY /\ row.fetched \in Nat
  BY TargetAssumption DEF TRow
<1>1. CASE tagged = row
  BY <1>1
<1>2. CASE tagged # row
  <2>1. PICK how \in {"legacy_all_analysts", "live_consensus"} :
          /\ tagged = [row EXCEPT !.how = how] /\ row.how = "null"
          /\ row.fetched = IF how = "legacy_all_analysts" THEN LEGACY_DAY ELSE LIVE_DAY
    <3>1. row.how = "null"
      BY <1>2 DEF P!Tagged
    <3>2. CASE row.fetched = LEGACY_DAY
      BY <3>1, <3>2 DEF P!Tagged
    <3>3. CASE row.fetched # LEGACY_DAY /\ row.fetched = LIVE_DAY
      BY <3>1, <3>3 DEF P!Tagged
    <3>4. CASE row.fetched # LEGACY_DAY /\ row.fetched # LIVE_DAY
      BY <1>2, <3>4 DEF P!Tagged
    <3> QED
      BY <3>2, <3>3, <3>4
  <2>2. /\ tagged \in TRow /\ tagged.how = how /\ tagged.from = row.from /\ tagged.target = row.target /\ tagged.live = row.live
        /\ tagged.fetched = row.fetched
    <3>1. how \in {"none", "null", "live_consensus", "legacy_all_analysts"}
      OBVIOUS
    <3> QED
      BY <2>1, <3>1 DEF TRow
  <2>3. row.from # "none" /\ row # P!NoRow /\ tagged # P!NoRow
    BY <2>1, <2>2, BlanksAre DEF RowTrue
  <2>4. row.from = "consensus" => FromConsensus(tagged, d, now)
    BY <1>0, <2>1, <2>2 DEF RowTrue, FromConsensus
  <2>5. row.from = "news" => FromNews(tagged, d, now, news)
    <3> SUFFICES ASSUME row.from = "news" PROVE FromNews(tagged, d, now, news)
      OBVIOUS
    <3>1. FromNews(row, d, now, news)
      BY DEF RowTrue
    <3>2. how = "legacy_all_analysts"
      BY <1>0, <2>1, <3>1 DEF FromNews
    <3> QED
      BY <2>2, <3>1, <3>2 DEF FromNews
  <2>6. RowTrue(tagged, d, now, news)
    BY <2>2, <2>3, <2>4, <2>5 DEF RowTrue
  <2> QED
    BY <2>1, <2>2, <2>3, <2>6
<1> QED
  BY <1>1, <1>2

\* The tagging migration keeps the invariant.
LEMMA TagsGoOn ==
  ASSUME TargetsInv, P!TagsRows
  PROVE  TargetsInv'
<1> PICK w, a : w = world /\ a = archive
  OBVIOUS
<1> PICK w2, a2 : w2 = world' /\ a2 = archive'
  OBVIOUS
<1>0. TargetsTrue(w, a)
  BY DEF TargetsInv
<1>1. /\ w \in TDesk /\ a \in TShelf /\ CachesTrue(a.cache, w.half) /\ TablesTrue(a.rows, Now(w), w.news)
      /\ FillTrue(a.fill, a.rows, Now(w), w.news) /\ Now(w) \in Nat
  BY <1>0, NowIs, Zenon DEF TargetsTrue, CachesTrue, TablesTrue
<1>2. a.rows \in [P!Followed -> [P!Days -> TRow]] /\ w.half <= w.half
  BY <1>1, ShelfIs, NowIs
<1>20. PICK history : history = [t \in P!Followed |-> [d \in P!Days |-> P!Tagged(a.rows[t][d])]]
  OBVIOUS
<1>3. w2 = w /\ a2 = [a EXCEPT !.rows = history]
  BY <1>20, Zenon DEF P!TagsRows
<1>4. ASSUME NEW t \in P!Followed, NEW d \in P!Days
      PROVE  /\ history[t][d] \in TRow /\ RowTrue(history[t][d], d, Now(w), w.news[t]) /\ history[t][d].from = a.rows[t][d].from
             /\ (history[t][d] = P!NoRow <=> a.rows[t][d] = P!NoRow)
             /\ a.rows[t][d].how = "live_consensus" => history[t][d].how = "live_consensus"
  <2>1. history[t][d] = P!Tagged(a.rows[t][d])
    BY <1>20
  <2> PICK row \in TRow : row = a.rows[t][d]
    BY <1>2
  <2>2. RowTrue(row, d, Now(w), w.news[t])
    BY <1>1 DEF TablesTrue, TableTrue
  <2> QED
    BY <1>1, <2>1, <2>2, TagIs
<1>5. history \in [P!Followed -> [P!Days -> TRow]]
  BY <1>4, <1>20
<1>6. TablesTrue(history, Now(w), w.news)
  <2> SUFFICES ASSUME NEW t \in P!Followed PROVE TableTrue(history[t], Now(w), w.news[t])
    BY DEF TablesTrue
  <2>1. TableTrue(a.rows[t], Now(w), w.news[t])
    BY <1>1 DEF TablesTrue
  <2> QED
    BY <1>4, <2>1 DEF TableTrue
<1>7. LiveStays(a.rows, history)
  BY <1>4 DEF LiveStays
<1>8. FillTrue(a.fill, history, Now(w), w.news)
  BY <1>1, <1>4 DEF FillTrue
<1>9. /\ a2 \in TShelf /\ a2.rows = history /\ a2.cache = a.cache /\ a2.jobs = a.jobs /\ a2.fill = a.fill /\ a2.ended = a.ended
  BY <1>1, <1>3, <1>5 DEF TShelf
<1>10. TargetsTrue(w2, a2)
  BY <1>0, <1>1, <1>2, <1>3, <1>6, <1>7, <1>8, <1>9, StepIsTrue, ZenonT(60)
<1> QED
  BY <1>10 DEF TargetsInv

\* Time, the group switch and the tab keep the invariant.
LEMMA TargetTimeGoesOn ==
  ASSUME TargetsInv, P!NextHalf \/ P!SwitchesGroup \/ \E t \in P!Followed : P!OpensTab(t)
  PROVE  TargetsInv'
<1> PICK w, a : w = world /\ a = archive
  OBVIOUS
<1> PICK w2, a2 : w2 = world' /\ a2 = archive'
  OBVIOUS
<1>0. TargetsTrue(w, a)
  BY DEF TargetsInv
<1>1. /\ w \in TDesk /\ a \in TShelf /\ CachesTrue(a.cache, w.half) /\ w.half \in Nat /\ w.mishaps \in Nat /\ w.mishaps <= TargetMishaps
      /\ TargetMishaps \in Nat /\ LastDay \in Nat /\ FirstDay \in Nat
  BY <1>0, NowIs, TargetAssumption DEF TargetsTrue, CachesTrue
<1>2. a.cache \in Cached /\ \A t \in P!Followed : a.cache[t].at \in Nat
  BY <1>1, ShelfIs DEF Cached
<1>3. CASE P!NextHalf
  <2>1. PICK cost \in Nat : /\ w.half < 2 * LastDay + 1 /\ cost <= w.mishaps
                            /\ w2 = [w EXCEPT !.half = @ + 1, !.mishaps = @ - cost] /\ a2 = [a EXCEPT !.ended = P!NotEnded]
    <3> PICK cost : cost = (IF \E j \in P!Jobs : archive.jobs[j].at # "idle" THEN 1 ELSE 0)
                           + (IF world.half % 2 = 0 /\ archive.lastCron < P!Today THEN 1 ELSE 0)
      OBVIOUS
    <3>1. cost \in Nat
      OBVIOUS
    <3>2. /\ w.half < 2 * LastDay + 1 /\ cost <= w.mishaps
          /\ w2 = [w EXCEPT !.half = @ + 1, !.mishaps = @ - cost] /\ a2 = [a EXCEPT !.ended = P!NotEnded]
      BY <1>3, Zenon DEF P!NextHalf, P!Pay
    <3> QED
      BY <3>1, <3>2
  <2>2. w2 \in TDesk /\ w2.news = w.news /\ w2.half = w.half + 1
    <3>1. w.half + 1 \in 2 * FirstDay .. 2 * LastDay + 1 /\ w.mishaps - cost \in 0 .. TargetMishaps
      BY <1>1, <2>1 DEF TDesk
    <3> QED
      BY <1>1, <2>1, <3>1 DEF TDesk
  <2>3. /\ a2 \in TShelf /\ a2.rows = a.rows /\ a2.cache = a.cache /\ a2.jobs = a.jobs /\ a2.fill = a.fill /\ a2.ended = P!NotEnded
    BY <1>1, <2>1, BlanksAre DEF TShelf, Ended
  <2>4. CachesTrue(a2.cache, w2.half) /\ w.half <= w2.half
    BY <1>1, <1>2, <2>2, <2>3 DEF CachesTrue, CacheTrue
  <2>5. ToldTrue(a2.ended.done, a2.ended.date, a.rows)
    BY <2>3, BlanksAre
  <2>6. TargetsTrue(w2, a2)
    BY <1>0, <2>2, <2>3, <2>4, <2>5, StepKeepsTable
  <2> QED
    BY <2>6 DEF TargetsInv
<1>4. CASE P!SwitchesGroup
  <2>1. 1 <= w.mishaps /\ w2 = [w EXCEPT !.group = ~@, !.mishaps = @ - 1] /\ a2 = a
    BY <1>4, Zenon DEF P!SwitchesGroup, P!Pay
  <2>2. w2 \in TDesk /\ w2.news = w.news /\ w2.half = w.half
    <3>1. w.mishaps - 1 \in 0 .. TargetMishaps
      BY <1>1, <2>1
    <3> QED
      BY <1>1, <2>1, <3>1 DEF TDesk
  <2>3. w.half <= w2.half /\ CachesTrue(a2.cache, w2.half) /\ a2 \in TShelf
    BY <1>1, <2>1, <2>2
  <2>4. TargetsTrue(w2, a2)
    BY <1>0, <2>1, <2>2, <2>3, StepKeepsTable
  <2> QED
    BY <2>4 DEF TargetsInv
<1>5. CASE \E t \in P!Followed : P!OpensTab(t)
  <2>1. PICK t \in P!Followed : P!OpensTab(t)
    BY <1>5
  <2>2. PICK r \in P!Reads(t, TAB_STALENESS_DAYS) :
            /\ 1 + r.cost <= w.mishaps /\ w2 = [w EXCEPT !.mishaps = @ - (1 + r.cost)]
            /\ a2 = [a EXCEPT !.cache = [@ EXCEPT ![t] = r.cache]]
    BY <2>1, Zenon DEF P!OpensTab, P!Pay, P!Spend
  <2>3. r.cost \in {0, 1} /\ r.cache \in [at : Nat, value : Nat] /\ CacheTrue(r.cache, w.half)
    BY ReadsAre, TargetAssumption
  <2> PICK cost \in Nat : cost = 1 + r.cost
    BY <2>3
  <2>4. w2 \in TDesk /\ w2.news = w.news /\ w2.half = w.half
    <3>1. cost <= w.mishaps /\ w2 = [w EXCEPT !.mishaps = @ - cost]
      BY <2>2
    <3> QED
      BY <1>1, <3>1, SpendingIs
  <2>5. PICK cache : cache = [a.cache EXCEPT ![t] = r.cache]
    OBVIOUS
  <2>6. cache \in Cached /\ CachesTrue(cache, w.half)
    BY <1>1, <1>2, <2>3, <2>5 DEF Cached, CachesTrue
  <2>7. a2 = [a EXCEPT !.cache = cache]
    BY <2>2, <2>5
  <2>8. /\ a2 \in TShelf /\ a2.rows = a.rows /\ a2.cache = cache /\ a2.jobs = a.jobs /\ a2.fill = a.fill /\ a2.ended = a.ended
    BY <1>1, <2>6, <2>7 DEF TShelf, Cached
  <2>9. CachesTrue(a2.cache, w2.half) /\ w.half <= w2.half
    BY <1>1, <2>4, <2>6, <2>8
  <2>10. TargetsTrue(w2, a2)
    BY <1>0, <2>4, <2>8, <2>9, StepKeepsTable
  <2> QED
    BY <2>10 DEF TargetsInv
<1> QED
  BY <1>3, <1>4, <1>5

\* Every step keeps the invariant.
LEMMA TargetsStep == TargetsInv /\ [P!NextTargets]_<<world, archive>> => TargetsInv'
<1> SUFFICES ASSUME TargetsInv, [P!NextTargets]_<<world, archive>> PROVE TargetsInv'
  OBVIOUS
<1>1. CASE UNCHANGED <<world, archive>>
  BY <1>1 DEF TargetsInv
<1>2. ASSUME NEW j \in P!Jobs, P!Starts(j) \/ P!TakesTicker(j) \/ P!WritesRow(j) \/ P!RunEnds(j) \/ P!RunDies(j) PROVE TargetsInv'
  BY <1>2, SnapshotStarts, SnapshotReads, SnapshotWrites, SnapshotEnds, Zenon
<1>3. CASE P!NextTargets
  BY <1>2, <1>3, BackfillStarts, BackfillEnds, TagsGoOn, TargetTimeGoesOn, Zenon DEF P!NextTargets
<1> QED
  BY <1>1, <1>3

-----------------------------------------------------------------------------
(* The tab. *)

IsNearest(n, history, when) ==
    \/ n = 0
    \/ /\ n \in P!Days /\ history[n] # P!NoRow /\ P!Away(n, when) <= SNAPSHOT_TOLERANCE_DAYS
       /\ \A e \in P!Days : history[e] # P!NoRow => P!Away(n, when) < P!Away(e, when) \/ (P!Away(n, when) = P!Away(e, when) /\ n <= e)

\* The nearest row of a day, within the tolerance, the earlier of two ...
LEMMA NearestIs ==
  ASSUME NEW history, NEW when \in Nat, NEW n, n = P!NearestByDate(history, when)
  PROVE  IsNearest(n, history, when)
<1> DEFINE away(d) == P!Away(d, when)
<1>0. SNAPSHOT_TOLERANCE_DAYS \in Nat /\ \A d \in P!Days : d \in Nat
  BY TargetAssumption DEF P!Days
<1>1. \A d \in P!Days : away(d) \in Nat
  BY <1>0 DEF P!Away
<1> DEFINE near == {d \in P!RowDays(history) : away(d) <= SNAPSHOT_TOLERANCE_DAYS}
<1>3. n = IF near = {} THEN 0 ELSE CHOOSE d \in near : \A e \in near : away(d) < away(e) \/ (away(d) = away(e) /\ d <= e)
  BY Zenon DEF P!NearestByDate
<1> HIDE DEF away
<1>2. near \subseteq P!Days /\ \A d \in P!Days : d \in near <=> history[d] # P!NoRow /\ away(d) <= SNAPSHOT_TOLERANCE_DAYS
  BY DEF P!RowDays
<1> HIDE DEF near
<1>4. CASE near = {}
  BY <1>3, <1>4 DEF IsNearest
<1>5. CASE near # {}
  <2> DEFINE ways == {away(d) : d \in near}
  <2>1. ways \in SUBSET Nat /\ ways # {}
    BY <1>1, <1>2, <1>5
  <2>2. PICK m \in ways : \A x \in ways : m <= x
    BY <2>1, SmallestOf
  <2> DEFINE best == {d \in near : away(d) = m}
  <2>3. best \in SUBSET Nat /\ best # {}
    BY <1>0, <1>2, <2>2
  <2>4. PICK k \in best : \A d \in best : k <= d
    BY <2>3, SmallestOf
  <2>5. ASSUME NEW e \in near PROVE away(k) < away(e) \/ (away(k) = away(e) /\ k <= e)
    <3>1. away(e) \in ways /\ away(k) = m /\ away(e) \in Nat /\ m \in Nat
      BY <1>1, <1>2, <2>1
    <3>2. m <= away(e)
      BY <2>2, <3>1
    <3>3. away(e) = m => k <= e
      BY <2>4
    <3> QED
      BY <3>1, <3>2, <3>3
  <2>6. n \in near /\ \A e \in near : away(n) < away(e) \/ (away(n) = away(e) /\ n <= e)
    <3>1. \E d \in near : \A e \in near : away(d) < away(e) \/ (away(d) = away(e) /\ d <= e)
      BY <2>5
    <3> HIDE DEF ways, best
    <3> QED
      BY <1>3, <1>5, <3>1, Zenon
  <2>7. ASSUME NEW e \in P!Days, history[e] # P!NoRow PROVE away(n) < away(e) \/ (away(n) = away(e) /\ n <= e)
    BY <1>0, <1>1, <1>2, <2>6, <2>7
  <2> QED
    BY <1>2, <2>6, <2>7 DEF IsNearest, away
<1> QED
  BY <1>4, <1>5

\* ... is no earlier for a later day.
LEMMA NearestForward ==
  ASSUME NEW history, NEW d \in Nat, NEW e \in Nat, d < e, NEW n, NEW k, n = P!NearestByDate(history, d), k = P!NearestByDate(history, e), n > 0, k > 0
  PROVE  n <= k
<1>1. IsNearest(n, history, d) /\ IsNearest(k, history, e)
  BY NearestIs
<1>2. n \in P!Days /\ k \in P!Days /\ n \in Nat /\ k \in Nat /\ history[n] # P!NoRow /\ history[k] # P!NoRow
  BY <1>1, TargetAssumption DEF IsNearest, P!Days
<1>3. P!Away(n, d) < P!Away(k, d) \/ (P!Away(n, d) = P!Away(k, d) /\ n <= k)
  BY <1>1, <1>2 DEF IsNearest
<1>4. P!Away(k, e) < P!Away(n, e) \/ (P!Away(k, e) = P!Away(n, e) /\ k <= n)
  BY <1>1, <1>2 DEF IsNearest
<1> QED
  BY <1>2, <1>3, <1>4 DEF P!Away

\* The price of a day is that of the last day, up to it, that has one ...
LEMMA TargetPriceIs ==
  ASSUME NEW when \in Nat, NEW p, p = P!PriceOnOrBefore(when)
  PROVE  p \in Nat /\ p <= when /\ (p = 0 \/ p \in PriceDays) /\ \A e \in PriceDays : e <= when => e <= p
<1> DEFINE held == {d \in PriceDays : d <= when}
<1>0. \A d \in PriceDays : d \in Nat
  BY TargetAssumption
<1>1. held \in SUBSET (0 .. when) /\ held \subseteq PriceDays /\ \A e \in PriceDays : e <= when => e \in held
  BY <1>0
<1>2. p = IF held = {} THEN 0 ELSE CHOOSE d \in held : \A e \in held : e <= d
  BY Zenon DEF P!PriceOnOrBefore
<1> HIDE DEF held
<1>3. CASE held = {}
  BY <1>1, <1>2, <1>3
<1>4. CASE held # {}
  <2>1. \E d \in held : \A e \in held : e <= d
    BY <1>1, <1>4, LargestOf
  <2>2. p \in held /\ \A e \in held : e <= p
    BY <1>2, <1>4, <2>1, Zenon
  <2> QED
    BY <1>1, <2>2
<1> QED
  BY <1>3, <1>4

\* ... and is no earlier for a later day.
LEMMA PriceForward ==
  ASSUME NEW d \in Nat, NEW e \in Nat, d < e
  PROVE  P!PriceOnOrBefore(d) <= P!PriceOnOrBefore(e)
<1> PICK p, q : p = P!PriceOnOrBefore(d) /\ q = P!PriceOnOrBefore(e)
  OBVIOUS
<1>1. p \in Nat /\ p <= d /\ (p = 0 \/ p \in PriceDays)
  BY TargetPriceIs
<1>2. q \in Nat /\ \A x \in PriceDays : x <= e => x <= q
  BY TargetPriceIs
<1>3. p <= e
  BY <1>1
<1>4. p <= q
  BY <1>1, <1>2, <1>3
<1> QED
  BY <1>4

\* So the lines of the chart and the arrows of the card run forward.
LEMMA LinesRunForward == TargetsInv => P!LineRunsForward
<1> SUFFICES ASSUME TargetsInv, NEW t \in P!Followed
             PROVE  LET line == P!HistoryPoints(archive.rows[t])
                        ago == [m \in 1 .. 2 |-> P!TargetAgo(archive.rows[t], m)]
                    IN /\ \A d \in DOMAIN line :
                             /\ line[d].snapshot > 0 => P!Away(line[d].snapshot, d) <= SNAPSHOT_TOLERANCE_DAYS
                             /\ line[d].price <= d
                       /\ \A d, e \in DOMAIN line :
                             d < e /\ line[d].snapshot > 0 /\ line[e].snapshot > 0
                                 => line[d].snapshot <= line[e].snapshot /\ line[d].price <= line[e].price
                       /\ ago[1] > 0 /\ ago[2] > 0 => ago[2] <= ago[1]
  BY Zenon DEF P!LineRunsForward
<1> PICK history : history = archive.rows[t]
  OBVIOUS
<1>20. PICK line : line = P!HistoryPoints(history)
  OBVIOUS
<1>21. PICK ago : ago = [m \in 1 .. 2 |-> P!TargetAgo(history, m)]
  OBVIOUS
<1> DEFINE months == {d \in 1 .. P!Today : d % Month = 1}
           shown(d) == P!NearestByDate(history, d)
           any(d) == \E e \in months : e <= d /\ shown(e) > 0
<1>1. P!Today \in Nat /\ Month \in Nat \ {0} /\ months \subseteq Nat
  <2>1. world \in TDesk
    BY DEF TargetsInv, TargetsTrue
  <2> QED
    BY <2>1, NowIs, TargetAssumption DEF Now, P!Today
<1>2. DOMAIN line = months /\ \A d \in months : line[d].snapshot = shown(d) /\ line[d].price = IF any(d) THEN P!PriceOnOrBefore(d) ELSE 0
  <2>1. line = [d \in months |-> [snapshot |-> [x \in months |-> shown(x)][d],
                                  price |-> IF \E e \in months : e <= d /\ [x \in months |-> shown(x)][e] > 0 THEN P!PriceOnOrBefore(d) ELSE 0]]
    BY <1>20, Zenon DEF P!HistoryPoints
  <2> PICK snap : snap = [x \in months |-> shown(x)]
    OBVIOUS
  <2> PICK days : days = months
    OBVIOUS
  <2>2. \A d \in days : snap[d] = shown(d)
    OBVIOUS
  <2>3. line = [d \in days |-> [snapshot |-> snap[d], price |-> IF \E e \in days : e <= d /\ snap[e] > 0 THEN P!PriceOnOrBefore(d) ELSE 0]]
    BY <2>1, Zenon
  <2> HIDE DEF shown, months
  <2>4. DOMAIN line = days /\ \A d \in days : /\ line[d].snapshot = snap[d]
                                              /\ line[d].price = IF \E e \in days : e <= d /\ snap[e] > 0 THEN P!PriceOnOrBefore(d) ELSE 0
    BY <2>3
  <2>5. \A d : any(d) <=> \E e \in days : e <= d /\ snap[e] > 0
    BY <2>2
  <2> HIDE DEF any
  <2> QED
    BY <2>2, <2>4, <2>5
<1>3. ASSUME NEW d \in months
      PROVE  /\ d \in Nat /\ IsNearest(shown(d), history, d) /\ line[d].price <= d
             /\ shown(d) > 0 => line[d].price = P!PriceOnOrBefore(d)
  <2>1. d \in Nat
    BY <1>1
  <2>2. P!PriceOnOrBefore(d) <= d
    BY <2>1, TargetPriceIs
  <2>3. shown(d) > 0 => any(d)
    BY <2>1
  <2>4. IsNearest(shown(d), history, d)
    BY <2>1, NearestIs
  <2> HIDE DEF shown, any, months
  <2> QED
    BY <1>2, <1>3, <2>1, <2>2, <2>3, <2>4
<1>4. ASSUME NEW d \in months, shown(d) > 0 PROVE P!Away(shown(d), d) <= SNAPSHOT_TOLERANCE_DAYS
  <2> HIDE DEF shown
  <2> QED
    BY <1>3, <1>4 DEF IsNearest
<1>5. ASSUME NEW d \in months, NEW e \in months, d < e, shown(d) > 0, shown(e) > 0
      PROVE  shown(d) <= shown(e) /\ line[d].price <= line[e].price
  <2>1. d \in Nat /\ e \in Nat
    BY <1>1
  <2>2. shown(d) <= shown(e)
    BY <1>5, <2>1, NearestForward
  <2>3. P!PriceOnOrBefore(d) <= P!PriceOnOrBefore(e)
    BY <1>5, <2>1, PriceForward
  <2> HIDE DEF shown, months
  <2> QED
    BY <1>3, <1>5, <2>2, <2>3
<1>6. ago[1] > 0 /\ ago[2] > 0 => ago[2] <= ago[1]
  <2> SUFFICES ASSUME ago[1] > 0, ago[2] > 0 PROVE ago[2] <= ago[1]
    OBVIOUS
  <2>1. ago[1] = P!TargetAgo(history, 1) /\ ago[2] = P!TargetAgo(history, 2)
    BY <1>21
  <2> PICK d, e : d = P!Today - 2 * Month /\ e = P!Today - 1 * Month
    OBVIOUS
  <2>2. P!Today > 1 * Month /\ P!Today > 2 * Month
    BY <2>1 DEF P!TargetAgo
  <2>3. d \in Nat /\ e \in Nat /\ d < e
    BY <1>1, <2>2
  <2>4. ago[1] = P!NearestByDate(history, e) /\ ago[2] = P!NearestByDate(history, d)
    BY <2>1, <2>2 DEF P!TargetAgo
  <2> QED
    BY <2>3, <2>4, NearestForward
<1> HIDE DEF months, shown
<1> QED
  BY <1>2, <1>3, <1>4, <1>5, <1>6, <1>20, <1>21

\* The invariant gives what TLC checks: a row says truly whose words it has, and of which day.
LEMMA TargetsGive == TargetsInv => P!TargetsTypeOK /\ P!TargetsHold
<1> SUFFICES ASSUME TargetsInv PROVE P!TargetsTypeOK /\ P!TargetsHold
  OBVIOUS
<1> PICK w, a : w = world /\ a = archive
  OBVIOUS
<1>1. TargetsTrue(w, a)
  BY DEF TargetsInv
<1>2. /\ w \in TDesk /\ a \in TShelf /\ a.rows \in [P!Followed -> [P!Days -> TRow]]
      /\ \A t \in P!Followed : TableTrue(a.rows[t], Now(w), w.news[t])
  BY <1>1, ShelfIs DEF TargetsTrue
<1>3. P!TargetsTypeOK
  BY <1>2 DEF P!TargetsTypeOK, TDesk, TRow
<1>4. ASSUME NEW t \in P!Followed, NEW d \in P!Days
      PROVE  a.rows[t][d] \in TRow /\ RowTrue(a.rows[t][d], d, Now(w), w.news[t])
  BY <1>2 DEF TableTrue
<1>5. P!LiveRowIsRecent
  BY <1>4 DEF P!LiveRowIsRecent, RowTrue, FromConsensus
<1>6. P!TagsAreTrue
  <2> SUFFICES ASSUME NEW t \in P!Followed, NEW d \in P!Days, NEW row, row = a.rows[t][d]
               PROVE  (row.how = "legacy_all_analysts" => row.from = "news") /\ (row.how = "live_consensus" => row.from = "consensus")
    BY DEF P!TagsAreTrue
  <2>1. row \in TRow /\ RowTrue(row, d, Now(w), w.news[t])
    BY <1>4
  <2>2. row.from \in {"none", "consensus", "news"}
    BY <2>1 DEF TRow
  <2> QED
    BY <2>1, <2>2, BlanksAre DEF RowTrue, FromConsensus, FromNews
<1>7. P!ReconstructionIsWhole
  <2> SUFFICES ASSUME NEW t \in P!Followed
               PROVE  LET made == {d \in P!Days : archive.rows[t][d].from = "news"} IN
                      /\ \A d \in made :
                            LET known == {c \in world.news[t] : c.firm # "" /\ c.day <= d} IN
                            /\ d % Month = 0 /\ d < archive.rows[t][d].fetched
                            /\ archive.rows[t][d].target = {c \in known : \A b \in known : b.firm = c.firm => b.day <= c.day}
                            /\ \A e \in P!Days : e < d /\ e % Month = 0 /\ (\E c \in world.news[t] : c.firm # "" /\ c.day <= e)
                                   => e \in P!RowDays(archive.rows[t])
                      /\ made # {} => P!RowDays(P!Reconstructed({c \in world.news[t] : c.day <= P!Today}, P!Earliest(t))) = {}
    BY Zenon DEF P!ReconstructionIsWhole
  <2> DEFINE news == world.news[t]
             history == archive.rows[t]
             made == {d \in P!Days : history[d].from = "news"}
  <2>1. TableTrue(history, Now(w), news)
    BY <1>2
  <2>2. ASSUME NEW d \in made
        PROVE  /\ d % Month = 0 /\ d < history[d].fetched /\ history[d].target = LastWords(news, d)
               /\ \A e \in P!Days : e < d /\ e % Month = 0 /\ KnownBy(news, e) # {} => e \in P!RowDays(history)
    <3>1. d \in P!Days /\ history[d].from = "news"
      OBVIOUS
    <3>2. FromNews(history[d], d, Now(w), news)
      BY <2>1, <3>1 DEF TableTrue, RowTrue
    <3>3. \A e \in P!Days : e < d /\ e % Month = 0 /\ KnownBy(news, e) # {} => history[e] # P!NoRow
      BY <2>1, <3>1, Zenon DEF TableTrue
    <3> QED
      BY <3>2, <3>3 DEF FromNews, P!RowDays
  <2>3. ASSUME NEW e, \E c \in news : c.firm # "" /\ c.day <= e PROVE KnownBy(news, e) # {}
    BY <2>3 DEF KnownBy
  <2>4. made # {} => P!RowDays(P!Reconstructed({c \in world.news[t] : c.day <= P!Today}, P!Earliest(t))) = {}
    <3> PICK fill : fill = P!Reconstructed({c \in world.news[t] : c.day <= P!Today}, P!Earliest(t))
      OBVIOUS
    <3>1. Fills(fill, history, Now(w), news)
      BY BackfillIs
    <3>2. made # {} => P!RowDays(fill) = {}
      BY <3>1 DEF Fills, P!RowDays
    <3> QED
      BY <3>2
  <2> QED
    BY <2>2, <2>3, <2>4, Zenon DEF LastWords, KnownBy
<1>8. P!OutcomesMatchRows
  BY <1>1 DEF P!OutcomesMatchRows, TargetsTrue, ToldTrue
<1> QED
  BY <1>3, <1>5, <1>6, <1>7, <1>8, LinesRunForward DEF P!TargetsHold

-----------------------------------------------------------------------------
(* What each of the four promises on its own. *)

\* A finished backup is never a part of one, nothing is deleted that the tiers keep of all
\* the dates ever backed up, nothing beyond the tiers outlives the prunes, and no sweep takes
\* a temp file in use: whichever runs overlap, hang, fail or die half way (backup_db.py).
THEOREM BackupsAreKept == K!InitBackups /\ [][K!NextBackups]_<<world, archive>> => []K!BackupsHold
<1> QED
  BY BackupsStart, BackupSteps, BackupGives, PTL

\* A row of the target history tells truly how it was made and of which day it is, although
\* two runs, a backfill, the tab's cache and the tagging share the table, and what a run says
\* it wrote is there (nightly_price_target_snapshot.py, backfill_price_target_snapshots.py).
THEOREM TargetsAreTrue == P!InitTargets /\ [][P!NextTargets]_<<world, archive>> => []P!TargetsHold
<1> QED
  BY TargetsStart, TargetsStep, TargetsGive, PTL

\* A row once complete stays complete, the log says what the parts did, and the date it keeps
\* makes no later run skip a row that was not priced over it (update_opportunity_outcomes.py).
THEOREM OutcomeRunsAreTruthful == O!InitOutcomeRun /\ [][O!NextOutcomeRun]_<<world, archive>> => []O!OutcomeRunsHold
<1> QED
  BY OutcomesStart, OutcomesStep, OutcomesGive, PTL

\* A header shows its P/E, its market cap and its verdict at the price beside them, unless a
\* close landed while they were read, and is never blank for an outage (ticker_summary.py).
THEOREM HeadersAgree == H!InitHeader /\ [][H!NextHeader]_<<world, archive>> => []H!HeaderHolds
<1> QED
  BY HeaderStarts, HeaderSteps, HeaderGives, PTL

-----------------------------------------------------------------------------
(* The jobs together. *)

Parts == {"recheck", "backups", "targets", "outcomes", "header"}

\* A behaviour is one part's; the recheck's variables are as it left them in every one.
JobsInv ==
    /\ part \in Parts /\ IInv
    /\ part = "backups" => BackupInv
    /\ part = "targets" => TargetsInv
    /\ part = "outcomes" => OutcomesInv
    /\ part = "header" => HeaderInv

\* At rest, the recheck is in one of its initial states.
LEMMA RestIsSafe == Resting => IInv
BY InitHolds DEF Resting

\* The invariant holds of whichever part a behaviour is of ...
LEMMA JobsStart == InitJobs => JobsInv
<1> SUFFICES ASSUME InitJobs PROVE JobsInv
  OBVIOUS
<1>1. CASE part = "recheck" /\ Init /\ Idle
  BY <1>1, InitHolds DEF JobsInv, Parts
<1>2. CASE part = "backups" /\ K!InitBackups /\ Resting
  BY <1>2, BackupsStart, RestIsSafe DEF JobsInv, Parts
<1>3. CASE part = "targets" /\ P!InitTargets /\ Resting
  BY <1>3, TargetsStart, RestIsSafe DEF JobsInv, Parts
<1>4. CASE part = "outcomes" /\ O!InitOutcomeRun /\ Resting
  BY <1>4, OutcomesStart, RestIsSafe DEF JobsInv, Parts
<1>5. CASE part = "header" /\ H!InitHeader /\ Resting
  BY <1>5, HeaderStarts, RestIsSafe DEF JobsInv, Parts
<1> QED
  BY <1>1, <1>2, <1>3, <1>4, <1>5 DEF InitJobs

\* ... and no step is of another part.
LEMMA JobsStep == JobsInv /\ [NextJob]_jobVars => JobsInv'
<1> SUFFICES ASSUME JobsInv, [NextJob]_jobVars PROVE JobsInv'
  OBVIOUS
<1>1. part \in Parts /\ IInv
  BY DEF JobsInv
<1>2. ASSUME UNCHANGED vars PROVE IInv'
  BY <1>1, <1>2, NextHolds
<1>3. CASE RecheckStep
  <2>1. part' = part /\ part = "recheck" /\ IInv'
    BY <1>1, <1>3, NextHolds DEF RecheckStep
  <2> QED
    BY <1>1, <2>1 DEF JobsInv
<1>4. CASE BackupStep
  <2>1. part' = part /\ part = "backups" /\ UNCHANGED vars /\ K!NextBackups
    BY <1>4 DEF BackupStep, vars
  <2>2. BackupInv'
    BY <2>1, BackupSteps DEF JobsInv
  <2> QED
    BY <1>1, <1>2, <2>1, <2>2 DEF JobsInv
<1>5. CASE TargetStep
  <2>1. part' = part /\ part = "targets" /\ UNCHANGED vars /\ P!NextTargets
    BY <1>5 DEF TargetStep, vars
  <2>2. TargetsInv'
    BY <2>1, TargetsStep DEF JobsInv
  <2> QED
    BY <1>1, <1>2, <2>1, <2>2 DEF JobsInv
<1>6. CASE OutcomeStep
  <2>1. part' = part /\ part = "outcomes" /\ UNCHANGED vars /\ O!NextOutcomeRun
    BY <1>6 DEF OutcomeStep, vars
  <2>2. OutcomesInv'
    BY <2>1, OutcomesStep DEF JobsInv
  <2> QED
    BY <1>1, <1>2, <2>1, <2>2 DEF JobsInv
<1>7. CASE HeaderStep
  <2>1. part' = part /\ part = "header" /\ UNCHANGED vars /\ H!NextHeader
    BY <1>7 DEF HeaderStep, vars
  <2>2. HeaderInv'
    BY <2>1, HeaderSteps DEF JobsInv
  <2> QED
    BY <1>1, <1>2, <2>1, <2>2 DEF JobsInv
<1>8. CASE UNCHANGED jobVars
  <2>1. part' = part /\ UNCHANGED vars /\ UNCHANGED <<world, archive>>
    BY <1>8 DEF jobVars, vars
  <2>2. IInv'
    BY <1>2, <2>1
  <2>3. part = "backups" => BackupInv'
    BY <2>1, BackupSteps DEF JobsInv
  <2>4. part = "targets" => TargetsInv'
    BY <2>1, TargetsStep DEF JobsInv
  <2>5. part = "outcomes" => OutcomesInv'
    BY <2>1, OutcomesStep DEF JobsInv
  <2>6. part = "header" => HeaderInv'
    BY <2>1, HeaderSteps DEF JobsInv
  <2> QED
    BY <1>1, <2>1, <2>2, <2>3, <2>4, <2>5, <2>6 DEF JobsInv
<1> QED
  BY <1>3, <1>4, <1>5, <1>6, <1>7, <1>8 DEF NextJob

\* The invariant holds in every state of every part.
LEMMA JobsInvariant == JobsSpec => []JobsInv
<1> QED
  BY JobsStart, JobsStep, PTL DEF JobsSpec

\* The four archives keep what they promise in every state.  The backups of
\* every tier stay whatever dies or overlaps (backup_db.py); a row of the
\* price targets says truly whose words it has and of which day, although two runs, a
\* backfill, the tab and the tagging share its table (nightly_price_target_snapshot.py);
\* the log of the outcome runs never makes a later run skip rows that were not priced
\* (update_opportunity_outcomes.py); and a header shows one price beside what was reckoned
\* from it, unless the close moved under the compute (ticker_summary.py).
THEOREM ArchivesAreKept == JobsSpec => []ArchivesHold
<1>1. JobsInv => ArchivesHold
  BY BackupGives, TargetsGive, OutcomesGive, HeaderGives DEF JobsInv, ArchivesHold
<1> QED
  BY <1>1, JobsInvariant, PTL

\* The recheck keeps its promises where it shares a run with the other jobs.
THEOREM RecheckIsSafe == JobsSpec => [](TypeOK /\ AttemptsBounded)
<1>1. JobsInv => TypeOK /\ AttemptsBounded
  BY InvariantImplies DEF JobsInv
<1> QED
  BY <1>1, JobsInvariant, PTL
=============================================================================
