-------------------------- MODULE OpportunityFlags --------------------------
(***************************************************************************)
(* The daily opportunity flags (data/opportunity_daily_data.py, scoring/   *)
(* opportunity_triggers.py): each night the listed names are judged on     *)
(* every session since the last run, hits become flags and the run's row   *)
(* records how far it looked.  The nightly run and a run by hand may       *)
(* overlap, each reads in several transactions, and each may die between   *)
(* writing its flags and closing its row.  One reversal-list ticker stands *)
(* for any: its event trigger D1 catches up, its stage trigger D2 cannot.  *)
(* Sessions are numbered.                                                  *)
(***************************************************************************)
EXTENDS Naturals, Sequences, FiniteSetsExt

CONSTANTS
    MaxSession,    \* sessions in a behaviour
    MaxFlagRuns,   \* runs in a behaviour
    Clis,          \* processes that may run the job
    ByHand         \* those of them a person started

ASSUME FlagsAssumption == MaxSession \in Nat /\ MaxFlagRuns \in Nat /\ ByHand \subseteq Clis

VARIABLES
    latest,        \* newest completed SPY bar (0: none)
    stageDay,      \* the session the ticker's TrendAnalysis row is as of
    upstream,      \* session -> upstream jobs that succeeded on its night
    lists,         \* as-of sessions of the stored weekly lists
    flags,         \* OpportunityDailyFlag rows
    dailyRuns,     \* OpportunityDailyRun rows by id: last seen read, date stored (0: none), sessions, hits
    judging        \* Clis -> the run a process is in

fvars == <<latest, stageDay, upstream, lists, flags, dailyRuns, judging>>

Triggers == {"D1", "D2"}
Job(trigger) == IF trigger = "D1" THEN "signals" ELSE "trend"

Idle == [at |-> "idle", row |-> 0, after |-> 0, sessions |-> {}, newest |-> 0, cohort |-> <<>>, good |-> {}, hits |-> {}]
OpenRow == [after |-> 0, seen |-> 0, sessions |-> {}, hits |-> {}]

\* _last_seen_spy_bar: the newest row, by id, that stored a date (0: none).
LastSeen ==
    LET dated == {i \in DOMAIN dailyRuns : dailyRuns[i].seen > 0}
    IN IF dated = {} THEN 0 ELSE dailyRuns[Max(dated)].seen

\* _cohort_run: the newest list dated strictly before the session (0: none).
Cohort(s) == Max({l \in lists : l < s} \cup {0})

-----------------------------------------------------------------------------
(***************************************************************************)
(* What the run reads: other jobs write it while the run goes on.          *)
(***************************************************************************)
NewSession ==
    /\ latest < MaxSession
    /\ latest' = latest + 1
    /\ UNCHANGED <<stageDay, upstream, lists, flags, dailyRuns, judging>>

TrendJob ==
    /\ latest > 0 /\ "trend" \notin upstream[latest]
    /\ stageDay' = latest
    /\ upstream' = [upstream EXCEPT ![latest] = @ \cup {"trend"}]
    /\ UNCHANGED <<latest, lists, flags, dailyRuns, judging>>

\* BB+RSI and Warren.
SignalJobs ==
    /\ latest > 0 /\ "signals" \notin upstream[latest]
    /\ upstream' = [upstream EXCEPT ![latest] = @ \cup {"signals"}]
    /\ UNCHANGED <<latest, stageDay, lists, flags, dailyRuns, judging>>

\* A list dated the last session of a behaviour would judge nothing.
WeeklyList ==
    /\ latest > 0 /\ latest < MaxSession /\ latest \notin lists
    /\ lists' = lists \cup {latest}
    /\ UNCHANGED <<latest, stageDay, upstream, flags, dailyRuns, judging>>

-----------------------------------------------------------------------------
(***************************************************************************)
(* One run.                                                                *)
(***************************************************************************)
\* start_log, then the last-seen read; a targeted run (--as-of, by hand) reads none.
Begin(c) ==
    /\ judging[c].at = "idle" /\ Len(dailyRuns) < MaxFlagRuns
    /\ dailyRuns' = Append(dailyRuns, OpenRow)
    /\ \/ judging' = [judging EXCEPT ![c] = [Idle EXCEPT !.at = "begun", !.row = Len(dailyRuns) + 1, !.after = LastSeen]]
       \/ c \in ByHand /\ \E target \in 1 .. latest : judging' = [judging EXCEPT ![c] =
              [Idle EXCEPT !.at = "begun", !.row = Len(dailyRuns) + 1, !.sessions = {target}]]
    /\ UNCHANGED <<latest, stageDay, upstream, lists, flags>>

\* Mutant: a catch-up judges the newest session only, for D1 too.
NewestOnly(after, target) == IF target # {} THEN target ELSE IF latest > after THEN {latest} ELSE {}

\* The sessions to judge; none when SPY has no newer bar.
SessionsOf(after, target) ==
    CASE target # {} -> target
      [] target = {} /\ after = 0 -> {latest}
      [] OTHER -> after + 1 .. latest

\* SPY's bars, the cohorts and the upstream jobs.  Without a bar the run raises.
\* A run with no newer session, or no list, has nothing to judge.
Look(c) ==
    LET r == judging[c]
        days == SessionsOf(r.after, r.sessions)
    IN /\ r.at = "begun" /\ latest > 0
       /\ judging' = [judging EXCEPT ![c] = [r EXCEPT
              !.at = IF \E s \in days : Cohort(s) > 0 THEN "looked" ELSE "noop",
              !.sessions = days,
              !.newest = latest,
              !.cohort = [s \in 1 .. latest |-> Cohort(s)],
              !.good = {x \in days \X Triggers : Job(x[2]) \in upstream[x[1]]}]]
       /\ UNCHANGED <<latest, stageDay, upstream, lists, flags, dailyRuns>>

\* Mutant: the stage row is taken to be as of the session judged.
JudgeableAnyDay(r, s) == s = r.newest

\* D2 is judged on the newest session only, from a stage row of that session.
JudgeableStage(r, s) == s = r.newest /\ stageDay = s

Judgeable(r, s, t) ==
    /\ r.cohort[s] > 0 /\ <<s, t>> \in r.good
    /\ t = "D2" => JudgeableStage(r, s)

SameKey(f, g) == f.list = g.list /\ f.trigger = g.trigger

\* Bars, events and stage rows, and the judgement.  Any of the judgeable pairs
\* may fire (an event stored in time, an upgrade on the list row); one whose bars
\* do not read, or that the signal jobs do not monitor, is as one that does not.
\* The first session a trigger fires on a list is the one kept.
Judge(c) ==
    LET r == judging[c] IN
    /\ r.at = "looked"
    /\ \E fired \in SUBSET {x \in r.sessions \X Triggers : Judgeable(r, x[1], x[2])} :
           LET hits == {[list |-> r.cohort[x[1]], trigger |-> x[2], day |-> x[1],
                         basis |-> IF x[2] = "D2" THEN stageDay ELSE x[1]] : x \in fired}
           IN judging' = [judging EXCEPT ![c] = [r EXCEPT !.at = "judged",
                  !.hits = {h \in hits : \A g \in hits : SameKey(g, h) => h.day <= g.day}]]
    /\ UNCHANGED <<latest, stageDay, upstream, lists, flags, dailyRuns>>

\* on_conflict_do_nothing on (list, ticker, trigger).
Write(c) ==
    LET r == judging[c] IN
    /\ r.at = "judged"
    /\ flags' = flags \cup {h \in r.hits : \A f \in flags : ~SameKey(f, h)}
    /\ judging' = [judging EXCEPT ![c] = [r EXCEPT !.at = "written"]]
    /\ UNCHANGED <<latest, stageDay, upstream, lists, dailyRuns>>

\* Mutant: the row is closed before the flags are written.
CloseBeforeWrite(c) == judging[c].at \in {"noop", "judged", "written"}

CanClose(c) == judging[c].at \in {"noop", "written"}

\* finish_log: a no-op stores the date it saw too.
Close(c) ==
    LET r == judging[c] IN
    /\ CanClose(c)
    /\ dailyRuns' = [dailyRuns EXCEPT ![r.row] =
           [after |-> r.after, seen |-> r.newest, sessions |-> r.sessions, hits |-> r.hits]]
    /\ judging' = [judging EXCEPT ![c] = Idle]
    /\ UNCHANGED <<latest, stageDay, upstream, lists, flags>>

\* An exception closes the row as a failure with no date; a kill, or a lost
\* log write, leaves it open with none.
Stop(c) ==
    /\ judging[c].at # "idle"
    /\ judging' = [judging EXCEPT ![c] = Idle]
    /\ UNCHANGED <<latest, stageDay, upstream, lists, flags, dailyRuns>>

InitFlags ==
    /\ latest = 0
    /\ stageDay = 0
    /\ upstream = [s \in 1 .. MaxSession |-> {}]
    /\ lists = {} /\ flags = {}
    /\ dailyRuns = <<>>
    /\ judging = [c \in Clis |-> Idle]

NextFlags ==
    \/ NewSession \/ TrendJob \/ SignalJobs \/ WeeklyList
    \/ \E c \in Clis : Begin(c) \/ Look(c) \/ Judge(c) \/ Write(c) \/ Close(c) \/ Stop(c)

FlagsSpec == InitFlags /\ [][NextFlags]_fvars

-----------------------------------------------------------------------------
FlagsTypeOK ==
    /\ latest \in 0 .. MaxSession
    /\ stageDay \in 0 .. latest
    /\ \A s \in 1 .. MaxSession : upstream[s] \subseteq {"trend", "signals"}
    /\ lists \subseteq 1 .. latest
    /\ \A f \in flags : f.list < f.day /\ f.day <= latest
    /\ \A i \in DOMAIN dailyRuns : dailyRuns[i].seen <= latest
    /\ \A c \in Clis : judging[c].row <= Len(dailyRuns)

\* No session is lost: every session the next nightly run takes as seen is one
\* a finished run judged, or is older than a run that did not look back (the
\* first one, and a targeted one), whatever died or overlapped.
NoSessionSkipped ==
    \A s \in 1 .. LastSeen : \E i \in DOMAIN dailyRuns :
        s \in dailyRuns[i].sessions \/ (dailyRuns[i].after = 0 /\ s <= dailyRuns[i].seen)

\* A finished run's hits are in the table.
HitsStored ==
    \A i \in DOMAIN dailyRuns : \A h \in dailyRuns[i].hits : \E f \in flags : SameKey(f, h)

\* A flag was judged on figures of its own session, also when the nightly jobs
\* moved the stage row on in the middle of the run.
JudgedOnItsDay == \A f \in flags : f.basis = f.day

(***************************************************************************)
(* What the scorecard counts on: a night missed, killed or run twice costs *)
(* no session, no hit, and no flag is judged on another day's figures.     *)
(***************************************************************************)
FlagsAccountFor == NoSessionSkipped /\ HitsStored /\ JudgedOnItsDay
=============================================================================
