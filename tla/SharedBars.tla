----------------------------- MODULE SharedBars -----------------------------
(***************************************************************************)
(* The shared bar cache (clients/shared_bars_cache.py) and the FMP source  *)
(* behind it (clients/daily_bar_sources.py), for one ticker and one        *)
(* interval.  Nightly jobs and page views (Jobs) read through it, each     *)
(* with its own look-back window; several run at once, in processes of     *)
(* their own.  A job decides from a snapshot of the cache what to ask FMP, *)
(* compares the answer with the cache it finds then, and writes later: a   *)
(* batch is stored when all its tickers have answered.                     *)
(*                                                                         *)
(* A bar is what matters of it: the price basis it is on (a split moves    *)
(* FMP to a new basis for all of history) and whether it is final.  Prices *)
(* within the 0.5 % tolerance are one basis.  A bar stands for a session;  *)
(* the sixty-minute bars of a session come and go together.                *)
(***************************************************************************)
EXTENDS Integers, FiniteSets, FiniteSetsExt

CONSTANTS
    Jobs,       \* the callers of get_or_fetch_bars_batch
    Lookbacks,  \* the windows they ask for, in days
    Intervals,  \* a subset of {"1d", "60m"}
    Sessions,   \* the days on which the exchange trades
    FirstDay,   \* the day on which the run begins
    MaxDay,     \* bound: the last day of the run
    Tiers,      \* the period tiers of daily bars, in days
    HourTiers,  \* those of sixty-minute bars
    Slack,      \* _TIER_SLACK_DAYS and FMP_COVERAGE_SLACK_DAYS
    Overlap,    \* FMP_OVERLAP_DAYS
    MinFull,    \* FMP_MIN_FULL_BARS
    Retention,  \* RETENTION_DAYS
    Plans,      \* how many days of history an FMP plan serves
    MaxGap,     \* bound: how many days pass without a fetch, and without a session FMP serves
    MaxBasis    \* bound: how often FMP restates the history

ASSUME BarAssumption ==
    /\ Intervals \subseteq {"1d", "60m"}
    /\ Sessions \subseteq Nat /\ 0 \in Sessions
    /\ FirstDay \in Nat /\ MaxDay \in Nat /\ FirstDay <= MaxDay
    /\ \A D \in {Lookbacks, Tiers, HourTiers, Plans} : \E m \in D : D \subseteq 0 .. m
    /\ {Slack, Overlap, MinFull, Retention, MaxGap, MaxBasis} \subseteq Nat

\* The retention keeps what the widest consumer asks for and less than the next tier, and no
\* consumer asks for less of the sixty-minute bars than their last tier.
ASSUME RetentionAssumption ==
    /\ Max(Lookbacks) <= Retention + Slack
    /\ MaxGap + Overlap < Retention + Slack
    /\ \E d \in Tiers : d <= Max(Lookbacks)
    /\ \A d \in Tiers : d <= Max(Lookbacks) \/ d > Retention + 2 * Slack + 2
    /\ \A d \in HourTiers : d <= Max(Lookbacks)

\* Every overlap holds a session, and every plan serves the overlap with what is cached.
ASSUME OverlapAssumption ==
    /\ \A s \in Sessions \ {0} : \E r \in Sessions : s - Overlap <= r /\ r < s
    /\ Overlap <= Slack /\ MaxGap <= Slack
    /\ \A d \in Plans : d > MaxGap + Overlap + 1

\* The run begins with a session FMP has served lately.
ASSUME StartAssumption == \E s \in Sessions : s < FirstDay /\ FirstDay - s <= MaxGap

VARIABLES
    interval,  \* the interval of this cache
    time,      \* three phases a day: before the close, just closed, settled
    published, \* the newest session FMP serves
    basis,     \* the price basis FMP serves
    plan,      \* how many days of history FMP serves
    bars,      \* bars[s]: the cached bar of session s, or NoBar
    written,   \* the newest fetched_at of the row
    job        \* job[j]: the fetch job j is in, or Idle

vars == <<interval, time, published, basis, plan, bars, written, job>>

-----------------------------------------------------------------------------
(* Time and the cache. *)

Today      == time \div 3
CloseOf(s)   == 3 * s + 1
SettledOf(s) == 3 * s + 2 \* ten minutes past the close
Trading    == Sessions \cap (0 .. MaxDay)
Completed(t) == Max({0} \cup {s \in Trading : CloseOf(s) <= t})

NoBar  == [basis |-> -1, final |-> FALSE]
Cached == {s \in Trading : bars[s] # NoBar}
First  == Min(Cached)
Last   == Max(Cached)
Since(from) == {s \in Cached : s >= from}
Legacy == MaxBasis + 1 \* a bar of the time before FMP, with no "fmp" in its source column
HoldsLegacy == interval = "60m" /\ \E s \in Cached : bars[s].basis = Legacy

\* Mutant: the stored span as it is.
RawSpan == IF Cached = {} THEN 0 ELSE Last - First + 1

PeriodSteps == IF interval = "1d" THEN Tiers ELSE HourTiers

\* The width a refetch must not fall below: the stored span, snapped down to a tier.
PreservedWidth ==
    IF Cached = {} THEN 0
    ELSE LET span == Last - First + 1
             tiers == {d \in PeriodSteps : span >= d - Slack}
         IN  IF tiers = {} THEN span ELSE Max(tiers)

Stale == Last < Completed(time)

\* Mutant: the date of the last bar decides alone.
NeverProvisional == FALSE

\* The newest write came before the last bar's session had settled.
Provisional ==
    /\ interval = "1d"
    /\ Last >= Completed(time)
    /\ written < SettledOf(Last)

Insufficient(days) == First > Today - (days - 1)

\* Too short for the source's incremental fetch.
Uncovered(days) == First > Today - (days - 1) + Slack

-----------------------------------------------------------------------------
NoDay == -1
Idle  == [pc |-> "idle"]

TypeOK ==
    /\ interval \in Intervals
    /\ time \in 3 * FirstDay .. 3 * MaxDay + 2
    /\ published \in Trading /\ published <= Completed(time)
    /\ basis \in 0 .. MaxBasis /\ plan \in Plans
    /\ \A s \in Trading : \/ bars[s] = NoBar
                          \/ /\ bars[s].basis \in 0 .. Legacy
                             /\ s <= published
    /\ written \in 0 .. time
    /\ \A j \in Jobs : job[j] = Idle \/ job[j].pc \in {"asked", "answered"}

Init ==
    /\ interval \in Intervals
    /\ time = 3 * FirstDay
    /\ published = Completed(3 * FirstDay)
    /\ basis = 0
    /\ plan = Max(Plans)
    /\ \E held \in {{}, {s \in Trading : s < FirstDay}} :
          /\ held = {} \/ interval = "60m"
          /\ bars = [s \in Trading |-> IF s \in held THEN [basis |-> Legacy, final |-> TRUE] ELSE NoBar]
    /\ written = 0
    /\ job = [j \in Jobs |-> Idle]

-----------------------------------------------------------------------------
(* The world: time, the exchange, FMP. *)

\* Bounds: a fetch takes less than a day, the prune runs every week, and neither the
\* cache nor FMP is left alone for longer than MaxGap days.
Tick ==
    /\ time < 3 * MaxDay + 2
    /\ \A j \in Jobs : job[j] # Idle => time + 1 - job[j].at <= 3
    /\ Cached # {} => /\ Today - First <= Retention + Slack
                      /\ (time + 1) \div 3 - Last <= MaxGap
    /\ (time + 1) \div 3 - published <= MaxGap
    /\ time' = time + 1
    /\ UNCHANGED <<interval, published, basis, plan, bars, written, job>>

Publish ==
    /\ published < Completed(time)
    /\ published' = Min({s \in Trading : s > published})
    /\ UNCHANGED <<interval, time, basis, plan, bars, written, job>>

Restate ==
    /\ basis < MaxBasis
    /\ basis' = basis + 1
    /\ UNCHANGED <<interval, time, published, plan, bars, written, job>>

ChangePlan ==
    /\ plan' \in {d \in Plans : d < plan}
    /\ UNCHANGED <<interval, time, published, basis, bars, written, job>>

-----------------------------------------------------------------------------
(* A fetch. *)

\* Mutant: the width that is already there is not looked at.
AskOwnWidth(j, days, force) ==
    /\ job[j] = Idle
    /\ Cached # {} /\ ~ force => Stale \/ Provisional \/ Insufficient(days) \/ HoldsLegacy
    /\ job' = [job EXCEPT ![j] =
           [pc |-> "asked", at |-> time, width |-> days,
            full |-> force \/ Cached = {} \/ Uncovered(days) \/ HoldsLegacy,
            first |-> IF Cached = {} THEN NoDay ELSE First,
            last |-> IF Cached = {} THEN NoDay ELSE Last]]
    /\ UNCHANGED <<interval, time, published, basis, plan, bars, written>>

\* A job finds the cache stale, provisional or too short, or is told to fetch
\* anyway (the weekly resync), and asks FMP.
Ask(j, days, force) ==
    /\ job[j] = Idle
    /\ Cached # {} /\ ~ force => Stale \/ Provisional \/ Insufficient(days) \/ HoldsLegacy
    /\ LET width == IF Cached = {} THEN days ELSE Max({days, PreservedWidth})
           full  == force \/ Cached = {} \/ Uncovered(width) \/ HoldsLegacy
       IN  job' = [job EXCEPT ![j] =
               [pc |-> "asked", at |-> time, width |-> width, full |-> full,
                first |-> IF Cached = {} THEN NoDay ELSE First,
                last |-> IF Cached = {} THEN NoDay ELSE Last]]
    /\ UNCHANGED <<interval, time, published, basis, plan, bars, written>>

\* The first day asked for: the window, and for sixty-minute bars all that is held;
\* or the overlap with the newest cached day.
From(j) ==
    LET window == job[j].at \div 3 - job[j].width
    IN  IF ~ job[j].full THEN job[j].last - Overlap
        ELSE IF interval = "60m" /\ job[j].first # NoDay THEN Min({window, job[j].first})
        ELSE window

\* What FMP answers: the sessions it serves that the plan covers and that are over.
Answer(j) ==
    {s \in Trading : /\ s >= Max({From(j), Today - plan})
                     /\ s <= Min({published, job[j].at \div 3})}

\* A bar the answer shares with the cache, older than its newest session, that disagrees.
Restated(j) ==
    \E s \in Answer(j) : /\ s \in Since(job[j].last - Overlap) /\ s < job[j].last
                         /\ bars[s].basis # basis

\* An incremental answer that shows another basis: ask again, for the whole window.
AskAgain(j) ==
    /\ job[j].pc = "asked" /\ ~ job[j].full
    /\ Restated(j)
    /\ job' = [job EXCEPT ![j] = [job[j] EXCEPT !.full = TRUE]]
    /\ UNCHANGED <<interval, time, published, basis, plan, bars, written>>

\* Too few bars to replace what is cached.
Thin(j) ==
    /\ job[j].full
    /\ job[j].first # NoDay \/ interval = "60m"
    /\ Cardinality(Answer(j)) < MinFull

Receive(j) ==
    /\ job[j].pc = "asked"
    /\ job[j].full \/ ~ Restated(j)
    /\ Answer(j) # {} /\ ~ Thin(j)
    /\ job' = [job EXCEPT ![j] =
          [pc |-> "answered", at |-> job[j].at, width |-> job[j].width, full |-> job[j].full,
           first |-> job[j].first, last |-> job[j].last,
           frame |-> [s \in Answer(j) |-> [basis |-> basis, final |-> SettledOf(s) <= time]]]]
    /\ UNCHANGED <<interval, time, published, basis, plan, bars, written>>

\* An error, a group that is off, an answer that is empty or thin: the cached bars are kept.
Unserved(j) ==
    /\ job[j].pc = "asked"
    /\ job' = [job EXCEPT ![j] = Idle]
    /\ UNCHANGED <<interval, time, published, basis, plan, bars, written>>

\* Mutant: a shorter answer keeps the older bars without comparing any.
ShorterAlwaysKeeps(j) ==
    LET start == Min(DOMAIN job[j].frame)
    IN  /\ Cached # {}
        /\ start > First + Slack
        /\ start > job[j].at \div 3 - job[j].width + Slack

\* Mutant: an answer replaces all there is.
AlwaysReplaces(j) == FALSE

\* The answer starts later than the cache and than was asked, and agrees with it.
ShorterAnswerKeepsHistory(j) ==
    LET frame == job[j].frame
        start == Min(DOMAIN frame)
        asked == job[j].at \div 3 - job[j].width
        requestedFrom == IF interval = "60m" THEN Min({asked, First}) ELSE asked
    IN  /\ Cached # {} /\ ~ HoldsLegacy
        /\ start > First + Slack
        /\ start > requestedFrom + Slack
        /\ \A s \in DOMAIN frame \cap Cached : s < Last => bars[s].basis = frame[s].basis

\* Mutant: fetched_at is the close of the session, written with the wrong time zone.
WriteStampedAhead(j) ==
    /\ job[j].pc = "answered"
    /\ bars' = [s \in Trading |-> IF s \in DOMAIN job[j].frame THEN job[j].frame[s] ELSE bars[s]]
    /\ written' = Max({written, time + 1})
    /\ job' = [job EXCEPT ![j] = Idle]
    /\ UNCHANGED <<interval, time, published, basis, plan>>

Write(j) ==
    /\ job[j].pc = "answered"
    /\ LET frame == job[j].frame
           kept  == IF job[j].full /\ ~ ShorterAnswerKeepsHistory(j) THEN {} ELSE Cached
       IN  bars' = [s \in Trading |-> IF s \in DOMAIN frame THEN frame[s]
                                      ELSE IF s \in kept THEN bars[s] ELSE NoBar]
    /\ written' = Max({written, job[j].at})
    /\ job' = [job EXCEPT ![j] = Idle]
    /\ UNCHANGED <<interval, time, published, basis, plan>>

\* The weekly prune drops bars past the retention window.
PruneOldBars ==
    /\ Cached # Since(Today - Retention)
    /\ bars' = [s \in Trading |-> IF s < Today - Retention THEN NoBar ELSE bars[s]]
    /\ UNCHANGED <<interval, time, published, basis, plan, written, job>>

-----------------------------------------------------------------------------
AskFor(j) == \E days \in Lookbacks, force \in BOOLEAN : Ask(j, days, force)

Next ==
    \/ Tick \/ Publish \/ Restate \/ ChangePlan \/ PruneOldBars
    \/ \E j \in Jobs : \/ AskFor(j)
                       \/ AskAgain(j) \/ Receive(j) \/ Unserved(j) \/ Write(j)

Spec == Init /\ [][Next]_vars

\* Time passes, the exchange's bars get published, the jobs keep reading with their
\* widest window, the weekly prune runs, and FMP answers again and again.
Fairness ==
    /\ WF_vars(Tick) /\ WF_vars(Publish) /\ WF_vars(PruneOldBars)
    /\ \A j \in Jobs : /\ WF_vars(Ask(j, Max(Lookbacks), FALSE))
                       /\ SF_vars(AskAgain(j)) /\ SF_vars(Receive(j)) /\ WF_vars(Write(j))

FairSpec == Spec /\ Fairness

-----------------------------------------------------------------------------
Bases   == {bars[s].basis : s \in Cached}
Spliced == Cardinality(Bases) > 1

\* While no two fetches of the ticker overlap, the cached series is on one price basis,
\* in every state: an answer on a new basis replaces all of it or nothing, whatever the
\* plan serves and whatever changed between the read, the question and the write
\* (FMPDailySource._restated, _shorter_answer_keeps_cached_history, the sixty-minute
\* source's provenance rule).
OneBasis == ~ Spliced

\* A job that saw a row as wide as a tier never leaves it narrower than that, whatever it
\* was asked for itself, unless FMP restated the history (get_or_fetch_bars_batch asks for
\* the preserved width) or its plan serves less, and an answer that begins well after the
\* cached bars keeps those (_shorter_answer_keeps_cached_history).  A row widened behind
\* the job's back is not covered: two cold fetches that overlap leave what the later one
\* asked for.
WidthKept ==
    [][\A j \in Jobs : \A days \in PeriodSteps :
          /\ Write(j) /\ Bases' = Bases
          /\ Cached # {} /\ ~ Uncovered(days)
          /\ job[j].first # NoDay /\ job[j].last - job[j].first + 1 >= days - Slack
          /\ plan >= days \/ Min(DOMAIN job[j].frame) > First + Slack
          => ~ Uncovered(days)']_vars

\* However many bars have piled up, no fetch is wider than the widest consumer's.
NoRatchet == \A j \in Jobs : job[j] # Idle => job[j].width <= Max(Lookbacks)

\* The newest session's bar gets stored, and no bar keeps the value it had before its
\* session settled: the date alone would not tell (_provisional_last_bar_tickers).
\* A sixty-minute row keeps such bars of its newest session until the next one.
BarsSettle ==
    <>[](/\ Cached # {} /\ Last = published
         /\ \A s \in Cached : s < Last \/ interval = "1d" => bars[s].final)
=============================================================================
