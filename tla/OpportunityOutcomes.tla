------------------------- MODULE OpportunityOutcomes -------------------------
(***************************************************************************)
(* The outcome updater of the weekly opportunity lists                     *)
(* (data/opportunity_outcome_data.py, scoring/opportunity_outcomes.py):    *)
(* one listed ticker of the newest list and its outcome rows, one per      *)
(* horizon.  Bars come late, are revised and vanish; an update reads the   *)
(* rows, then the bars, then commits, and may fail on the ticker or die;   *)
(* a forced rebuild of the list deletes the rows meanwhile.  Sessions are  *)
(* numbered from the entry session, returns are left out: a row keeps the  *)
(* session it exits on and the session of its stop.                        *)
(***************************************************************************)
EXTENDS Naturals, FiniteSetsExt

CONSTANTS
    Horizons,      \* HORIZONS
    Grace,         \* CENSOR_GRACE_SESSIONS
    ReviveDays,    \* CENSOR_REVIVE_DAYS
    MaxSpy,        \* sessions in a behaviour
    MaxDay,        \* days in a behaviour
    MaxRevisions   \* late, revised and vanished bars in a behaviour

\* A horizon lies beyond the grace of the one before it.
ASSUME OutcomesAssumption ==
    /\ Horizons \subseteq Nat \ {0}
    /\ Grace \in Nat /\ ReviveDays \in Nat
    /\ MaxSpy \in Nat /\ MaxDay \in Nat \ {0} /\ MaxRevisions \in Nat
    /\ \A n, m \in Horizons : n < m => m - n > Grace

VARIABLES
    oday,          \* the day, counted from 1
    spy,           \* SPY's completed sessions after the as-of date
    tbars,         \* session -> the ticker's bar: none, one above the stop, one that hits it
    revisions,
    orows,         \* OpportunityOutcome rows
    lastSeen,      \* SPY date of the newest run that stored one (0: none)
    pricedAt,      \* horizon -> SPY's sessions when the row was last priced (0: not since it was seeded)
    updater        \* the update under way

ovars == <<oday, spy, tbars, revisions, orows, lastSeen, pricedAt, updater>>

BarKinds == {"none", "up", "low"}
Missing == [status |-> "missing", exit |-> 0, stop |-> 0, since |-> 0]
Pending == [Missing EXCEPT !.status = "pending"]
NoRun == [at |-> "idle", day |-> 0, rows |-> [n \in Horizons |-> Missing], spy |-> 0, failed |-> FALSE]

Final(row, day) ==
    \/ row.status = "complete"
    \/ row.status = "censored" /\ row.since > 0 /\ day >= row.since + ReviveDays

-----------------------------------------------------------------------------
(***************************************************************************)
(* compute_outcomes for one horizon, over the first s sessions.            *)
(***************************************************************************)
Reached(n, s) == s > n

\* Mutant: the grace counts one session too many.
PastLongGrace(n, s) == Reached(n, s) /\ s - 1 - n > Grace + 1

PastGrace(n, s) == Reached(n, s) /\ s - 1 - n > Grace
EntryLost(b, s) == b[1] = "none" /\ s - 1 > Grace

Window(n, s) == {i \in 1 .. n + 1 : i <= s}
FirstLow(b, w) == LET hits == {i \in w : b[i] = "low"} IN IF hits = {} THEN 0 ELSE Min(hits)

Outcome(n, b, s) ==
    LET present == {i \in Window(n, s) : b[i] # "none"}
        priced == [Pending EXCEPT !.stop = FirstLow(b, Window(n, s))]
    IN CASE s = 0 -> Pending
         [] s > 0 /\ b[1] = "none" ->
                [Pending EXCEPT !.status = IF EntryLost(b, s) \/ PastGrace(n, s) THEN "censored" ELSE "pending"]
         [] s > 0 /\ b[1] # "none" /\ Reached(n, s) /\ n + 1 \in present ->
                [priced EXCEPT !.status = "complete", !.exit = n + 1]
         [] s > 0 /\ b[1] # "none" /\ PastGrace(n, s) /\ n + 1 \notin present ->
                [priced EXCEPT !.status = "censored", !.exit = Max(present)]
         [] OTHER -> priced

\* Mutant: the stop of a row follows the bars.
StopFollowsBars(old, new) == new.stop

\* A stop once recorded is kept when the bars that showed it are gone.
StopKept(old, new) == IF old.stop > 0 /\ new.stop = 0 THEN old.stop ELSE new.stop

\* Mutant: every evaluation of a censored row restarts its clock.
ClockRestarts(old, new, day) == IF new.status = "censored" THEN day ELSE 0

\* The clock starts when the row is first censored and is cleared on revival.
Since(old, new, day) ==
    CASE new.status # "censored" -> 0
      [] new.status = "censored" /\ old.status = "censored" /\ old.since > 0 -> old.since
      [] OTHER -> day

\* _update_one for one row.
Updated(old, n, u) ==
    LET new == Outcome(n, tbars, u.spy) IN
    CASE Final(old, u.day) -> old
      [] ~Final(old, u.day) /\ u.failed -> IF old.status = "missing" THEN Pending ELSE old
      [] OTHER -> [new EXCEPT !.stop = StopKept(old, new), !.since = Since(old, new, u.day)]

-----------------------------------------------------------------------------
(***************************************************************************)
(* Time and the bars cache.                                                *)
(***************************************************************************)
NextDay ==
    /\ oday < MaxDay
    /\ oday' = oday + 1
    /\ \/ /\ spy < MaxSpy
          /\ spy' = spy + 1
          /\ \E b \in BarKinds : tbars' = [tbars EXCEPT ![spy + 1] = b]
       \/ UNCHANGED <<spy, tbars>>
    /\ UNCHANGED <<revisions, orows, lastSeen, pricedAt, updater>>

BarChanges ==
    /\ revisions < MaxRevisions
    /\ \E i \in 1 .. spy, b \in BarKinds : b # tbars[i] /\ tbars' = [tbars EXCEPT ![i] = b]
    /\ revisions' = revisions + 1
    /\ UNCHANGED <<oday, spy, orows, lastSeen, pricedAt, updater>>

-----------------------------------------------------------------------------
(***************************************************************************)
(* The update.                                                             *)
(***************************************************************************)
Work == \E n \in Horizons : ~Final(orows[n], oday)
RowsMissing == \E n \in Horizons : orows[n].status = "missing"

\* A scheduled run is a no-op when SPY has no newer bar and no row is missing; a
\* targeted one skips that check.
NoNewBar == lastSeen > 0 /\ spy <= lastSeen /\ ~RowsMissing

BeginUpdate ==
    /\ updater.at = "idle" /\ Work
    /\ \E targeted \in BOOLEAN : targeted \/ ~NoNewBar
    /\ updater' = [NoRun EXCEPT !.at = "read", !.day = oday, !.rows = orows, !.spy = spy]
    /\ UNCHANGED <<oday, spy, tbars, revisions, orows, lastSeen, pricedAt>>

\* Rows read as existing and since deleted: the ORM's UPDATE finds no row and the
\* commit fails.
Gone(u) == {n \in Horizons : u.rows[n].status # "missing" /\ orows[n].status = "missing"}

\* The ticker's bars, which may fail to read or to price, and the commit.
CommitRows ==
    \E bad \in BOOLEAN :
        LET u == [updater EXCEPT !.at = "committed", !.failed = bad] IN
        /\ updater.at = "read"
        /\ \A n \in Gone(u) : Updated(u.rows[n], n, u) = u.rows[n]
        /\ orows' = [n \in Horizons |-> IF n \in Gone(u) THEN Missing ELSE Updated(u.rows[n], n, u)]
        /\ pricedAt' = [n \in Horizons |->
               IF bad \/ n \in Gone(u) \/ Final(u.rows[n], u.day) THEN pricedAt[n] ELSE u.spy]
        /\ updater' = [u EXCEPT !.rows = NoRun.rows]
        /\ UNCHANGED <<oday, spy, tbars, revisions, lastSeen>>

\* Mutant: a partial run stores its date too.
AnyRunStores(u) == TRUE

\* A partial run stores no date, so the next one is not short-circuited by it.
StoresDate(u) == ~u.failed

CloseUpdate ==
    /\ updater.at = "committed"
    /\ IF StoresDate(updater)
       THEN lastSeen' = updater.spy
       ELSE UNCHANGED lastSeen
    /\ updater' = NoRun
    /\ UNCHANGED <<oday, spy, tbars, revisions, orows, pricedAt>>

\* An exception, a kill or a lost log write: no date.
UpdateDies ==
    /\ updater.at # "idle"
    /\ updater' = NoRun
    /\ UNCHANGED <<oday, spy, tbars, revisions, orows, lastSeen, pricedAt>>

\* persist_run with --force: the list's outcome rows go with it, its id is reused.
Rebuild ==
    /\ orows' = [n \in Horizons |-> Missing]
    /\ pricedAt' = [n \in Horizons |-> 0]
    /\ UNCHANGED <<oday, spy, tbars, revisions, lastSeen, updater>>

InitOutcomes ==
    /\ oday = 1 /\ spy = 0 /\ revisions = 0 /\ lastSeen = 0
    /\ tbars = [s \in 1 .. MaxSpy |-> "none"]
    /\ pricedAt = [n \in Horizons |-> 0]
    /\ orows = [n \in Horizons |-> Missing]
    /\ updater = NoRun

NextOutcomes ==
    \/ NextDay \/ BarChanges \/ Rebuild
    \/ BeginUpdate \/ CommitRows \/ CloseUpdate \/ UpdateDies

OutcomesSpec == InitOutcomes /\ [][NextOutcomes]_ovars

-----------------------------------------------------------------------------
OutcomesTypeOK ==
    /\ oday \in 1 .. MaxDay /\ spy \in 0 .. MaxSpy /\ lastSeen \in 0 .. spy
    /\ tbars \in [1 .. MaxSpy -> BarKinds]
    /\ \A n \in Horizons :
           /\ orows[n].status \in {"missing", "pending", "complete", "censored"}
           /\ orows[n].since \in 0 .. oday
           /\ (orows[n].since > 0) = (orows[n].status = "censored")
           /\ orows[n].status = "complete" => orows[n].exit = n + 1

\* A longer horizon never settles on its bar while a shorter one still waits.
SettleInOrder ==
    \A n, m \in Horizons : n < m /\ orows[m].status = "complete" => orows[n].status # "pending"

\* The short-circuit hides nothing: while the next scheduled run would be a
\* no-op, every open row that was ever priced has been priced over all of SPY's
\* bars.  A row seeded by a run that failed on its ticker is not covered: after a
\* rebuild it waits for SPY's next bar.
NoopHidesNothing ==
    NoNewBar => \A n \in Horizons :
        Final(orows[n], oday) \/ pricedAt[n] = 0 \/ pricedAt[n] >= spy

(***************************************************************************)
(* What a settled outcome is worth: rows settle in order, and none is left *)
(* behind by a run that stopped early.                                     *)
(***************************************************************************)
RowsKeepUp == SettleInOrder /\ NoopHidesNothing

(***************************************************************************)
(* Short of a rebuild, a complete row stays as it is, a recorded stop is   *)
(* never lost, and a row that stays censored keeps its clock.              *)
(***************************************************************************)
RowKept(old, new) ==
    \/ new.status = "missing"
    \/ /\ old.status = "complete" => new = old
       /\ old.stop > 0 => new.stop > 0
       /\ old.status = "censored" /\ new.status = "censored" => new.since = old.since

SettledStays == [][\A n \in Horizons : RowKept(orows[n], orows'[n])]_ovars
=============================================================================
