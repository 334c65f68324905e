-------------------------- MODULE StatementRecheck --------------------------
(***************************************************************************)
(* The recheck of flagged statements: helpers/statement_recheck.py (what   *)
(* is flagged, the episode each flagged ticker goes through) and           *)
(* data/statement_recheck_data.py (the last step of the nightly            *)
(* fundamentals fetch, which spends FMP calls on the tickers that are      *)
(* due).  The normal pass and page views write the same statements.        *)
(*                                                                         *)
(* Of a quarterly statement, what matters is its newest row: of the        *)
(* quarter before the reported one ("old"), of that quarter and tripping a *)
(* rule ("bad"), or of that quarter and clean ("good").  Income statements *)
(* have no rule of their own.  A bad row has a filing date, and FMP may    *)
(* serve it again with a later one.                                        *)
(***************************************************************************)
EXTENDS Integers, FiniteSets

CONSTANTS
    Tickers,
    Kinds,         \* the quarterly statements, "income" among them
    MaxDay,        \* bound: the last day
    NotLandedMin,  \* NOT_LANDED_MIN_DAYS_SINCE_EARNINGS
    Window,        \* WINDOW_DAYS
    DailyAttempts, \* DAILY_ATTEMPTS
    ThirdNight,    \* THIRD_NIGHT_DAYS
    ChronicDays,   \* CHRONIC_RECHECK_DAYS
    MaxCalls,      \* RECHECK_MAX_CALLS_PER_NIGHT
    QuarterDays    \* the days on which a quarter may be reported

ASSUME RecheckAssumption ==
    /\ "income" \in Kinds /\ IsFiniteSet(Kinds)
    /\ {MaxDay, NotLandedMin, Window, MaxCalls} \subseteq Nat
    /\ {DailyAttempts, ThirdNight, ChronicDays} \subseteq Nat \ {0}
    /\ DailyAttempts <= Window
    /\ QuarterDays \subseteq 0 .. MaxDay
    /\ \A p, q \in QuarterDays : p < q => q - p > Window

VARIABLES
    day,
    reported, \* reported[t]: the last reported earnings date
    rows,     \* rows[t][k]: the newest row of the cached statement
    filed,    \* filed[t]: the filing date of the cached bad rows
    fetched,  \* fetched[t]: one of the statements was fetched today
    chronic,  \* chronic[t]: the placeholders are what this company files
    state,    \* state[t]: the RecheckState row, or NoState
    night     \* the job

vars == <<day, reported, rows, filed, fetched, chronic, state, night>>

NoDay   == -1
NoState == [status |-> "none"]
Asleep  == [pc |-> "asleep"]
Row     == {"old", "bad", "good"}

-----------------------------------------------------------------------------
(* Detection. *)

Bad(t)       == \E k \in Kinds : rows[t][k] = "bad"
NotLanded(t) == day - reported[t] > NotLandedMin /\ \E k \in Kinds : rows[t][k] = "old"
Flagged(t)   == Bad(t) \/ NotLanded(t)
Chronic(t)   == Flagged(t) /\ chronic[t]
Anchor(t)    == IF Bad(t) THEN filed[t] ELSE reported[t]

WindowEnd(anchor) == anchor + Window

NewEpisode(t) ==
    [status   |-> IF Chronic(t) THEN "chronic"
                  ELSE IF day > WindowEnd(Anchor(t)) THEN "gave_up" ELSE "active",
     anchor   |-> Anchor(t),
     attempts |-> 0,
     last     |-> NoDay]

\* Mutant: an episode that is over is not opened again.
ApplyOnce(t) ==
    LET s == state[t]
    IN  CASE ~ Flagged(t) /\ s.status = "none" -> s
          [] ~ Flagged(t) /\ s.status # "none" -> [s EXCEPT !.status = "healed"]
          [] Flagged(t) /\ s.status = "none" -> NewEpisode(t)
          [] Flagged(t) /\ s.status = "active" /\ day > WindowEnd(s.anchor) -> [s EXCEPT !.status = "gave_up"]
          [] OTHER -> s

\* An episode after the first (its number is not kept).
Rearmed(t) ==
    /\ Flagged(t)
    /\ \/ state[t].status = "healed"
       \/ state[t].status # "none" /\ Anchor(t) > WindowEnd(state[t].anchor)

\* The state after an evaluation of the cached rows.
ApplyEvaluation(t) ==
    LET s == state[t]
    IN  CASE ~ Flagged(t) /\ s.status \in {"none", "healed"} -> s
          [] ~ Flagged(t) /\ s.status \notin {"none", "healed"} -> [s EXCEPT !.status = "healed"]
          [] Flagged(t) /\ s.status = "none" -> NewEpisode(t)
          [] Rearmed(t) -> NewEpisode(t)
          [] OTHER -> [s EXCEPT !.status =
                          IF Chronic(t) THEN "chronic"
                          ELSE IF @ = "gave_up" \/ day > WindowEnd(s.anchor) THEN "gave_up"
                          ELSE "active"]

\* Mutant: a recheck every night.
DueEveryNight(s, t) == s.status = "active" /\ s.last < day

\* Whether tonight's job may spend a recheck on this row.
IsDue(s, t) ==
    \/ /\ s.status = "chronic"
       /\ IF s.last = NoDay THEN ~ fetched[t] ELSE day - s.last >= ChronicDays
    \/ /\ s.status = "active"
       /\ day <= WindowEnd(s.anchor)
       /\ CASE s.last = NoDay -> ~ fetched[t]
            [] s.last # NoDay /\ s.attempts < DailyAttempts -> s.last < day
            [] OTHER -> day - s.last >= ThirdNight

-----------------------------------------------------------------------------
TypeOK ==
    /\ day \in 0 .. MaxDay
    /\ \A t \in Tickers :
          /\ reported[t] \in 0 .. day /\ filed[t] \in reported[t] .. day
          /\ fetched[t] \in BOOLEAN
          /\ rows[t] \in [Kinds -> Row] /\ rows[t]["income"] # "bad"
          /\ chronic[t] \in BOOLEAN
          /\ \/ state[t] = NoState
             \/ /\ state[t].status \in {"active", "healed", "gave_up", "chronic"}
                /\ state[t].anchor \in 0 .. day
                /\ state[t].last \in NoDay .. day
                /\ state[t].attempts \in 0 .. day + 1
    /\ night = Asleep \/ night.calls \in 0 .. MaxCalls

Init ==
    /\ day = 0
    /\ reported = [t \in Tickers |-> 0]
    /\ rows = [t \in Tickers |-> [k \in Kinds |-> "old"]]
    /\ filed = [t \in Tickers |-> 0]
    /\ fetched = [t \in Tickers |-> FALSE]
    /\ chronic \in [Tickers -> BOOLEAN]
    /\ state = [t \in Tickers |-> NoState]
    /\ night = Asleep

-----------------------------------------------------------------------------
(* The world and the other writers. *)

\* Bound: the job is done before midnight.
NextDay ==
    /\ day < MaxDay /\ night = Asleep
    /\ day' = day + 1
    /\ fetched' = [t \in Tickers |-> FALSE]
    /\ UNCHANGED <<reported, rows, filed, chronic, state, night>>

\* A quarter is reported: the newest rows are now those of the quarter before.
NewQuarter(t) ==
    /\ day \in QuarterDays /\ reported[t] < day /\ night = Asleep
    /\ reported' = [reported EXCEPT ![t] = day]
    /\ filed' = [filed EXCEPT ![t] = day]
    /\ rows' = [rows EXCEPT ![t] = [k \in Kinds |-> "old"]]
    /\ chronic' \in {chronic, [chronic EXCEPT ![t] = ~ @]}
    /\ UNCHANGED <<day, fetched, state, night>>

\* An answer is merged into the cached history: an older one leaves the newest row.
Store(t, k, row) ==
    /\ rows' = [rows EXCEPT ![t] = [@ EXCEPT ![k] = IF row = "old" THEN rows[t][k] ELSE row]]
    /\ filed' \in IF row = "bad" THEN {filed, [filed EXCEPT ![t] = day]} ELSE {filed}
    /\ fetched' = [fetched EXCEPT ![t] = TRUE]

Answers(k) == IF k = "income" THEN {"old", "good"} ELSE Row

\* The normal pass or a page view refetches a statement.
Fetch(t, k, row) ==
    /\ row \in Answers(k)
    /\ Store(t, k, row)
    /\ UNCHANGED <<day, reported, chronic, state, night>>

-----------------------------------------------------------------------------
(* The job. *)

\* run_statement_recheck: evaluate every ticker, select those that are due.  Tickers
\* outside the model may come first and use up the night's calls.
Scan ==
    /\ night = Asleep
    /\ state' = [t \in Tickers |-> ApplyEvaluation(t)]
    /\ \E calls \in {0, MaxCalls} :
          night' = [pc |-> "next", calls |-> calls, due |-> {t \in Tickers : IsDue(state'[t], t)}]
    /\ UNCHANGED <<day, reported, rows, filed, fetched, chronic>>

\* Oldest attempt first, never attempted before all, then the oldest anchor.
Before(t, u) ==
    \/ state[t].last < state[u].last
    \/ state[t].last = state[u].last /\ state[t].anchor < state[u].anchor

\* Mutant: the budget is looked at after it is spent.
AffordableSoFar == night.calls <= MaxCalls

Affordable == night.calls + Cardinality(Kinds) <= MaxCalls

Recheck(t) ==
    /\ night.pc = "next" /\ t \in night.due /\ Affordable
    /\ \A u \in night.due : ~ Before(u, t)
    /\ night' = [pc |-> "fetching", calls |-> night.calls, due |-> night.due \ {t},
                 ticker |-> t, before |-> rows[t], outcome |-> [k \in {} |-> "ok"], begun |-> night.calls]
    /\ UNCHANGED <<day, reported, rows, filed, fetched, chronic, state>>

Told(k, o) == [night EXCEPT !.outcome = [j \in DOMAIN night.outcome \cup {k} |->
                                            IF j = k THEN o ELSE night.outcome[j]],
                            !.calls = IF o = "blocked" THEN night.calls ELSE night.calls + 1]

Pending(k) == night.pc = "fetching" /\ k \in Kinds \ DOMAIN night.outcome

\* A group that is off, a variant the plan does not serve; an error, a 402, an empty answer.
Fails(k) ==
    /\ Pending(k)
    /\ \E o \in {"blocked", "error"} : night' = Told(k, o)
    /\ UNCHANGED <<day, reported, rows, filed, fetched, chronic, state>>

\* Mutant: whatever FMP answers is written.
NothingVetoed(k, row) == FALSE

\* The regression guard: the answer's newest row trips a rule that the cached one did not.
Vetoed(k, row) == row = "bad" /\ night.before[k] # "bad"

Answered(k, row) ==
    /\ Pending(k) /\ row \in Answers(k)
    /\ IF Vetoed(k, row)
       THEN night' = Told(k, "guard") /\ UNCHANGED <<rows, filed, fetched>>
       ELSE night' = Told(k, "ok") /\ Store(night.ticker, k, row)
    /\ UNCHANGED <<day, reported, chronic, state>>

\* All three statements have an outcome: evaluate again, count the attempt if FMP answered.
Settle ==
    /\ night.pc = "fetching" /\ DOMAIN night.outcome = Kinds
    /\ LET t == night.ticker
           s == ApplyEvaluation(t)
           counted == \A k \in Kinds : night.outcome[k] \in {"ok", "guard"}
       IN  state' = [state EXCEPT ![t] =
               IF counted /\ ~ Rearmed(t)
               THEN [s EXCEPT !.attempts = @ + 1, !.last = day] ELSE s]
    /\ night' = [pc |-> "next", calls |-> night.calls, due |-> night.due]
    /\ UNCHANGED <<day, reported, rows, filed, fetched, chronic>>

\* Anything else raises in the recheck of one ticker: the job goes on with the others, and
\* the calls that were made are not added to the night's (run_statement_recheck).
Abandon ==
    /\ night.pc = "fetching"
    /\ night' = [pc |-> "next", calls |-> night.begun, due |-> night.due]
    /\ UNCHANGED <<day, reported, rows, filed, fetched, chronic, state>>

\* Nobody is due any more, or the rest is deferred to a later night.
Done ==
    /\ night.pc = "next" /\ (night.due # {} => ~ Affordable)
    /\ night' = Asleep
    /\ UNCHANGED <<day, reported, rows, filed, fetched, chronic, state>>

\* The job dies: what it committed stays.
Kill ==
    /\ night # Asleep
    /\ night' = Asleep
    /\ UNCHANGED <<day, reported, rows, filed, fetched, chronic, state>>

Next ==
    \/ NextDay \/ Scan \/ Settle \/ Abandon \/ Done \/ Kill
    \/ \E t \in Tickers :
          \/ NewQuarter(t) \/ Recheck(t)
          \/ \E k \in Kinds, row \in Row : Fetch(t, k, row)
    \/ \E k \in Kinds : Fails(k) \/ \E row \in Row : Answered(k, row)

Spec == Init /\ [][Next]_vars

\* The days pass, cron starts the job, and a call returns.
FairSpec ==
    /\ Spec
    /\ WF_vars(NextDay) /\ WF_vars(Scan) /\ WF_vars(Settle) /\ WF_vars(Done)
    /\ WF_vars(\E t \in Tickers : Recheck(t))
    /\ WF_vars(\E k \in Kinds : Fails(k) \/ \E row \in Row : Answered(k, row))

-----------------------------------------------------------------------------
\* The most rechecks an episode pays for: one a night, then every third night.
MostAttempts == DailyAttempts + (Window + 1 - DailyAttempts) \div ThirdNight

\* An episode spends a bounded number of rechecks, however often its row is filed
\* again, its flag changes, the job is run or dies (the anchor never moves within an
\* episode; is_due).
AttemptsBounded ==
    \A t \in Tickers : state[t] # NoState =>
        state[t].attempts <= MostAttempts + (day - state[t].anchor) \div ChronicDays

\* The recheck never replaces a row by one that trips a rule, as long as nobody else
\* wrote that row since the recheck read it (the regression guard in recheck_ticker).
NoRegression ==
    [][\A t \in Tickers, k \in Kinds, row \in Row :
          Answered(k, row) /\ t = night.ticker /\ rows[t][k] = night.before[k] /\ rows[t][k] # "bad"
          => rows'[t][k] # "bad"]_vars

Unattended(t) ==
    \/ state[t].status \in {"none", "healed"}
    \/ WindowEnd(state[t].anchor) < reported[t]

\* A ticker that stays flagged does not stay without an episode for it, and no episode
\* stays open past its window (apply_evaluation, every night): whatever the nights the
\* job was killed in, the answers that failed and the flags that came and went.
EpisodesKeepUp ==
    \A t \in Tickers :
        /\ ~ <>[](Flagged(t) /\ ~ Chronic(t) /\ Unattended(t))
        /\ ~ <>[](state[t].status = "active" /\ day > WindowEnd(state[t].anchor))
=============================================================================
