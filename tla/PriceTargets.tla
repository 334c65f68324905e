----------------------------- MODULE PriceTargets -----------------------------
(***************************************************************************)
(* The price-target history: the nightly snapshot of FMP's live consensus, *)
(* the one-time reconstruction from the analysts' actions, the tags that   *)
(* tell the two apart, and the Analyst Ratings tab, which shares the       *)
(* consensus' cache row with the job and reads the stored history.         *)
(*                                                                         *)
(* Time runs in half days, a night and a daytime each.  A consensus is the *)
(* day FMP gave it (0: an empty answer), a reconstructed one is the set of *)
(* the actions it averages.                                                *)
(***************************************************************************)
EXTENDS Integers, FiniteSets, Sequences

CONSTANTS
    Order,                        \* the tickers of a run, in order
    News,                         \* ticker -> the actions FMP has of it: [firm, day]
    PriceDays,                    \* days the long-history store has a close for
    PRICE_TARGET_STALENESS_DAYS,
    TAB_STALENESS_DAYS,           \* settings.cache_staleness_days
    SNAPSHOT_TOLERANCE_DAYS,
    Month,                        \* days of a month
    LIVE_DAY, LEGACY_DAY,         \* the fetch dates the tagging knows
    FirstDay, LastDay,
    Mishaps                       \* departures from plain nights in a behaviour

VARIABLES
    desk,    \* the half day, the group's switch, the actions, and the mishaps left
    shelf    \* the snapshot rows, the cache, the runs and the backfill

pvars == <<desk, shelf>>

Followed == {Order[i] : i \in DOMAIN Order}
Jobs == {"cron", "cli"}
Days == 1 .. LastDay
Today == desk.half \div 2

NoRow == [target |-> {}, how |-> "none", from |-> "none", fetched |-> 0, live |-> TRUE]
LiveRow(value, how, day, on) == [target |-> {value}, how |-> how, from |-> "consensus", fetched |-> day, live |-> on]
NewsRow(actions) == [target |-> actions, how |-> "null", from |-> "news", fetched |-> Today, live |-> TRUE]
NoJob == [at |-> "idle", date |-> 0, todo |-> <<>>, exists |-> FALSE, value |-> 0, live |-> TRUE, dead |-> FALSE, done |-> [t \in Followed |-> "none"]]
NotEnded == [date |-> 0, done |-> NoJob.done]
NoFill == [at |-> "idle", ticker |-> "", rows |-> [d \in Days |-> NoRow]]

Pay(n) == n <= desk.mishaps
Spend(n) == desk' = [desk EXCEPT !.mishaps = @ - n]
RowDays(rows) == {d \in Days : rows[d] # NoRow}

-----------------------------------------------------------------------------
(***************************************************************************)
(* cache.get_or_fetch for price_target_consensus/latest.  A row fetched at *)
(* the same time of another day is a few seconds over or under its window. *)
(***************************************************************************)
Fresh(t, days) ==
    LET age == desk.half - shelf.cache[t].at IN
    shelf.cache[t].at > 0 /\ \E early \in BOOLEAN : age < 2 * days \/ (early /\ age = 2 * days)

StaleToo(t, days) ==
    shelf.cache[t].at = 0 \/ desk.half - shelf.cache[t].at >= 2 * days

\* The job takes the tab's window: a slip.
TabWindow == TAB_STALENESS_DAYS
JobWindow == PRICE_TARGET_STALENESS_DAYS

\* What a read may give and leave in the cache, at how many mishaps: -1 is a failure.
Reads(t, days) ==
    LET kept == shelf.cache[t]
        stored(v) == [at |-> desk.half, value |-> v]
        cached == IF Fresh(t, days) THEN {[value |-> kept.value, cache |-> kept, cost |-> 0]} ELSE {}
        off == {[value |-> IF kept.at > 0 THEN kept.value ELSE -1, cache |-> kept, cost |-> 0]}
        asked == {[value |-> Today, cache |-> stored(Today), cost |-> 0],
                  [value |-> 0, cache |-> stored(0), cost |-> 1],
                  [value |-> -1, cache |-> kept, cost |-> 1]}
    IN cached \cup (IF ~StaleToo(t, days) THEN {} ELSE IF desk.group THEN asked ELSE off)

-----------------------------------------------------------------------------
(***************************************************************************)
(* The nightly job, one ticker after the other in one session.             *)
(***************************************************************************)
\* A run with the group off is skipped before it reads anything; a second run beside
\* the first is one by hand.
Starts(j) ==
    LET cost == (IF j = "cli" THEN 1 ELSE 0) IN
    /\ shelf.jobs[j].at = "idle" /\ desk.group /\ Pay(cost)
    /\ j = "cron" => desk.half % 2 = 0 /\ shelf.lastCron < Today
    /\ Spend(cost)
    /\ shelf' = [shelf EXCEPT
         !.lastCron = IF j = "cron" THEN Today ELSE @,
         !.jobs = [@ EXCEPT ![j] = [NoJob EXCEPT !.at = "next", !.date = Today, !.todo = Order]]]

Outcome(j, what, dead) ==
    LET job == shelf.jobs[j] IN
    [job EXCEPT !.at = "next", !.todo = Tail(@), !.dead = dead, !.value = 0, !.exists = FALSE, !.live = TRUE,
                !.done = [@ EXCEPT ![Head(job.todo)] = what]]

\* A session whose flush failed raises on every later use: nobody rolls it back.
TakesTicker(j) ==
    LET job == shelf.jobs[j]
        t == Head(job.todo)
    IN /\ job.at = "next" /\ job.todo # <<>>
       /\ IF job.dead
          THEN /\ shelf' = [shelf EXCEPT !.jobs[j] = Outcome(j, "failed", TRUE)]
               /\ UNCHANGED desk
          ELSE \E r \in Reads(t, JobWindow) :
                /\ Pay(r.cost) /\ Spend(r.cost)
                /\ shelf' = [shelf EXCEPT
                     !.cache = [@ EXCEPT ![t] = r.cache],
                     !.jobs[j] =
                        CASE r.value = -1 -> Outcome(j, "failed", FALSE)
                          [] r.value = 0 -> Outcome(j, "no_data", FALSE)
                          [] OTHER -> [job EXCEPT !.at = "write", !.value = r.value, !.live = desk.group,
                                                  !.exists = shelf.rows[t][job.date] # NoRow]]

\* A failed insert is counted as written: a slip.
AnyWritten(ok) == "written"
Told(ok) == IF ok THEN "written" ELSE "failed"

\* The row of (ticker, day) is updated or inserted; the unique index refuses an insert
\* beside another run's, and a lock held too long refuses either.
WritesRow(j) ==
    LET job == shelf.jobs[j]
        t == Head(job.todo)
    IN /\ job.at = "write"
       /\ \E locked \in BOOLEAN :
             LET ok == ~locked /\ (job.exists \/ shelf.rows[t][job.date] = NoRow)
                 cost == IF locked THEN 1 ELSE 0
             IN /\ Pay(cost) /\ Spend(cost)
                /\ shelf' = [shelf EXCEPT
                     !.rows[t][job.date] = IF ok THEN LiveRow(job.value, "live_consensus", Today, job.live) ELSE @,
                     !.jobs[j] = Outcome(j, Told(ok), ~ok)]

RunEnds(j) ==
    /\ shelf.jobs[j].at = "next" /\ shelf.jobs[j].todo = <<>>
    /\ shelf' = [shelf EXCEPT !.ended = [date |-> shelf.jobs[j].date, done |-> shelf.jobs[j].done], !.jobs[j] = NoJob]
    /\ UNCHANGED desk

RunDies(j) ==
    /\ shelf.jobs[j].at # "idle" /\ Pay(1) /\ Spend(1)
    /\ shelf' = [shelf EXCEPT !.jobs[j] = NoJob]

-----------------------------------------------------------------------------
(***************************************************************************)
(* reconstruct_monthly_snapshots: at each month's end, every firm's newest *)
(* action so far, carried forward from the day of the action.              *)
(***************************************************************************)
MonthEnd(d) == ((d + Month - 1) \div Month) * Month
Usable(news) == {a \in news : a.firm # ""}

Carried(news, firm) ==
    LET on[d \in 0 .. LastDay] ==
            IF d = 0 THEN 0
            ELSE IF [firm |-> firm, day |-> d] \in news THEN d ELSE on[d - 1]
    IN on

\* The month under way is reconstructed too: a slip.
MonthUnderWay(before) == MonthEnd(before)

LastFullMonth(before) == MonthEnd(before) - Month

Reconstructed(news, before) ==
    LET used == Usable(news)
        firms == {a.firm : a \in used}
        first == MonthEnd(CHOOSE d \in {a.day : a \in used} : \A a \in used : d <= a.day)
        on == [f \in firms |-> Carried(used, f)]
    IN IF used = {} THEN [d \in Days |-> NoRow]
       ELSE [d \in Days |->
              IF d % Month = 0 /\ d >= first /\ d <= LastFullMonth(before)
              THEN NewsRow({[firm |-> f, day |-> on[f][d]] : f \in {g \in firms : on[g][d] > 0}})
              ELSE NoRow]

Earliest(t) ==
    LET held == RowDays(shelf.rows[t]) IN
    IF held = {} THEN Today ELSE CHOOSE d \in held : \A e \in held : d <= e

\* The backfill reads the actions published so far and the earliest row ...
BackfillReads(t) ==
    /\ shelf.fill.at = "idle" /\ Pay(1) /\ Spend(1)
    /\ shelf' = [shelf EXCEPT !.fill =
         [at |-> "write", ticker |-> t, rows |-> Reconstructed({a \in desk.news[t] : a.day <= Today}, Earliest(t))]]

\* ... and inserts the months before it, all or none.
BackfillWrites ==
    LET t == shelf.fill.ticker
        made == RowDays(shelf.fill.rows)
    IN /\ shelf.fill.at = "write"
       /\ shelf' = [shelf EXCEPT
            !.fill = NoFill,
            !.rows = IF \E d \in made : shelf.rows[t][d] # NoRow THEN @
                     ELSE [@ EXCEPT ![t] = [d \in Days |-> IF d \in made THEN shelf.fill.rows[d] ELSE shelf.rows[t][d]]]]
       /\ UNCHANGED desk

\* Whatever has no tag is called reconstructed: a slip.
UntaggedIsLegacy(row) ==
    IF row.how = "null" THEN [row EXCEPT !.how = "legacy_all_analysts"] ELSE row

\* tag_methodology: rows without a tag, by the date they were fetched.
Tagged(row) ==
    CASE row.how = "null" /\ row.fetched = LEGACY_DAY -> [row EXCEPT !.how = "legacy_all_analysts"]
      [] row.how = "null" /\ row.fetched = LIVE_DAY -> [row EXCEPT !.how = "live_consensus"]
      [] OTHER -> row

TagsRows ==
    /\ shelf' = [shelf EXCEPT !.rows = [t \in Followed |-> [d \in Days |-> Tagged(shelf.rows[t][d])]]]
    /\ UNCHANGED desk

-----------------------------------------------------------------------------
(***************************************************************************)
(* The tab: its history points, a month's first day each, with the nearest *)
(* snapshot and the close on or before, and the columns of months ago.     *)
(***************************************************************************)
Away(d, e) == IF d < e THEN e - d ELSE d - e

\* A snapshot however far away: a slip.
NearestAtAll(rows, day) ==
    LET held == RowDays(rows) IN
    IF held = {} THEN 0 ELSE CHOOSE d \in held : \A e \in held : Away(d, day) < Away(e, day) \/ (Away(d, day) = Away(e, day) /\ d <= e)

\* The nearest row, the earlier of two as near, if it is near enough.
NearestByDate(rows, day) ==
    LET near == {d \in RowDays(rows) : Away(d, day) <= SNAPSHOT_TOLERANCE_DAYS} IN
    IF near = {} THEN 0 ELSE CHOOSE d \in near : \A e \in near : Away(d, day) < Away(e, day) \/ (Away(d, day) = Away(e, day) /\ d <= e)

PriceOnOrBefore(day) ==
    LET held == {d \in PriceDays : d <= day} IN
    IF held = {} THEN 0 ELSE CHOOSE d \in held : \A e \in held : e <= d

HistoryPoints(rows) ==
    LET months == {d \in 1 .. Today : d % Month = 1}
        snap == [d \in months |-> NearestByDate(rows, d)]
    IN [d \in months |-> [snapshot |-> snap[d],
                          price |-> IF \E e \in months : e <= d /\ snap[e] > 0 THEN PriceOnOrBefore(d) ELSE 0]]

TargetAgo(rows, months) == IF Today > months * Month THEN NearestByDate(rows, Today - months * Month) ELSE 0

\* Opening the tab fetches the consensus of a ticker whose cache row is out of the tab's
\* window; what it shows of the history is LineRunsForward's matter.
OpensTab(t) ==
    /\ desk.half % 2 = 1
    /\ \E r \in Reads(t, TAB_STALENESS_DAYS) :
          /\ Pay(1 + r.cost) /\ Spend(1 + r.cost)
          /\ shelf' = [shelf EXCEPT !.cache = [@ EXCEPT ![t] = r.cache]]

\* Time; a run that is still under way, or a night without one, is a mishap.
NextHalf ==
    LET cost == (IF \E j \in Jobs : shelf.jobs[j].at # "idle" THEN 1 ELSE 0)
                + (IF desk.half % 2 = 0 /\ shelf.lastCron < Today THEN 1 ELSE 0)
    IN /\ desk.half < 2 * LastDay + 1 /\ Pay(cost)
       /\ desk' = [desk EXCEPT !.half = @ + 1, !.mishaps = @ - cost]
       /\ shelf' = [shelf EXCEPT !.ended = NotEnded]

SwitchesGroup ==
    /\ Pay(1)
    /\ desk' = [desk EXCEPT !.group = ~@, !.mishaps = @ - 1]
    /\ UNCHANGED shelf

InitTargets ==
    /\ \E news \in News : desk = [half |-> 2 * FirstDay, group |-> TRUE, news |-> news, mishaps |-> Mishaps]
    /\ \E manual \in BOOLEAN :
        shelf = [rows |-> [t \in Followed |-> [d \in Days |->
                             IF manual /\ t = Order[1] /\ d = LIVE_DAY THEN LiveRow(LIVE_DAY, "null", LIVE_DAY, TRUE) ELSE NoRow]],
                 cache |-> [t \in Followed |-> IF manual /\ t = Order[1] THEN [at |-> 2 * LIVE_DAY + 1, value |-> LIVE_DAY]
                                              ELSE [at |-> 0, value |-> 0]],
                 jobs |-> [j \in Jobs |-> NoJob], fill |-> NoFill, lastCron |-> 0,
                 ended |-> NotEnded]

NextTargets ==
    \/ NextHalf \/ SwitchesGroup \/ BackfillWrites \/ TagsRows
    \/ \E j \in Jobs : Starts(j) \/ TakesTicker(j) \/ WritesRow(j) \/ RunEnds(j) \/ RunDies(j)
    \/ \E t \in Followed : BackfillReads(t) \/ OpensTab(t)

-----------------------------------------------------------------------------
TargetsTypeOK ==
    /\ desk.half \in 2 * FirstDay .. 2 * LastDay + 1 /\ desk.mishaps \in 0 .. Mishaps
    /\ \A t \in Followed, d \in Days :
           shelf.rows[t][d].how \in {"none", "null", "live_consensus", "legacy_all_analysts"}

\* "this is a daily reading" (nightly_price_target_snapshot.py:95): a row of the live
\* consensus records what FMP said that day or the day before, whoever else filled the
\* cache; unless the group went off under the run, which then records what it finds.
LiveRowIsRecent ==
    \A t \in Followed, d \in Days :
        LET row == shelf.rows[t][d] IN
        row.from = "consensus" /\ row.live => \A v \in row.target : v >= d - 1

\* A tag names the way its row was made, whatever was in the table when the tagging ran.
TagsAreTrue ==
    \A t \in Followed, d \in Days :
        LET row == shelf.rows[t][d] IN
        /\ row.how = "legacy_all_analysts" => row.from = "news"
        /\ row.how = "live_consensus" => row.from = "consensus"

\* A reconstructed row is what the analysts stood for at the end of a month that was
\* over: every firm's newest action until then.  No month is without a row between the
\* first action and the last one made (a late run may have put the live consensus in the
\* place of a month's row), and a second backfill has nothing left to add.
ReconstructionIsWhole ==
    \A t \in Followed :
        LET made == {d \in Days : shelf.rows[t][d].from = "news"} IN
        /\ \A d \in made :
              LET known == {a \in desk.news[t] : a.firm # "" /\ a.day <= d} IN
              /\ d % Month = 0 /\ d < shelf.rows[t][d].fetched
              /\ shelf.rows[t][d].target = {a \in known : \A b \in known : b.firm = a.firm => b.day <= a.day}
              /\ \A e \in Days : e < d /\ e % Month = 0 /\ (\E a \in desk.news[t] : a.firm # "" /\ a.day <= e) => e \in RowDays(shelf.rows[t])
        /\ made # {} => RowDays(Reconstructed({a \in desk.news[t] : a.day <= Today}, Earliest(t))) = {}

\* What a run says of a ticker agrees with the table: written has its row, and where one
\* run had the day to itself, anything else has none.
OutcomesMatchRows ==
    \A t \in Followed :
        LET date == shelf.ended.date IN
        shelf.ended.done[t] = "written" => shelf.rows[t][date].how = "live_consensus"

\* The tab's line never goes back in time from one month to the next, no point is drawn
\* from a snapshot too far away, and the price beside it is never of a later day.
LineRunsForward ==
    \A t \in Followed :
        LET line == HistoryPoints(shelf.rows[t])
            ago == [m \in 1 .. 2 |-> TargetAgo(shelf.rows[t], m)]
        IN /\ \A d \in DOMAIN line :
                 /\ line[d].snapshot > 0 => Away(line[d].snapshot, d) <= SNAPSHOT_TOLERANCE_DAYS
                 /\ line[d].price <= d
           /\ \A d, e \in DOMAIN line :
                 d < e /\ line[d].snapshot > 0 /\ line[e].snapshot > 0
                     => line[d].snapshot <= line[e].snapshot /\ line[d].price <= line[e].price
           /\ ago[1] > 0 /\ ago[2] > 0 => ago[2] <= ago[1]

TargetsHold == LiveRowIsRecent /\ TagsAreTrue /\ ReconstructionIsWhole /\ OutcomesMatchRows /\ LineRunsForward
=============================================================================
