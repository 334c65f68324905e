----------------------------- MODULE SignalRows -----------------------------
(***************************************************************************)
(* The nightly signal jobs of one ticker and the rows they keep: trend     *)
(* (01:05), support zones (01:15), the BB+RSI entry signal (01:20), the    *)
(* Warren signal with its event log (01:25), and the copy of the signal    *)
(* fields in the score row (03:25).  A session's bars are kept as what the *)
(* engines say of it; what a row holds is the session it was computed      *)
(* from.  The newest session may be corrected the next night, the whole    *)
(* series may be replaced (another bar source), a night may get no bars,   *)
(* only old bars, or be skipped because the data group is off, and the     *)
(* ticker may leave and rejoin the monitored lists.  WarrenReplay models   *)
(* the replay itself; here it is known by what it is wrong about: near the *)
(* start of its window it calls a yellow arrow gray, and the write gate    *)
(* leaves out only the worst of that part (its comment measures 2-4% of    *)
(* wrong events from the gate, at 180 days, to day 300).                   *)
(***************************************************************************)
EXTENDS Integers, FiniteSets

CONSTANTS
    Pasts,                        \* what the engines say of the sessions before the first night
    Followed,                     \* sets of jobs a behaviour follows; they share a table only as modelled
    LastDay,                      \* last day of a behaviour
    Mishaps,                      \* departures from a plain night in a behaviour
    LOOKBACK_DAYS,                \* sessions a job is handed
    Settle,                       \* sessions after which the replay's memory is right: longer than the next
    EVENT_WRITE_WARMUP_DAYS,      \* sessions from the window's start that are never logged
    EVENT_RETENTION_DAYS,         \* age at which a logged event is pruned
    STALE_AFTER_DAYS,             \* age at which a row that is not recomputed is cleared
    RECONCILE_MIN_DELETES         \* deletions from which the half-of-the-window guard applies

VARIABLES
    world,   \* the day, the night's next job, the bars, whether the ticker is monitored
    kept     \* the stored rows, and what the night's Warren run started from

svars == <<world, kept>>

Never == 0
Readings == {"quiet", "up", "sell"}
UP_KINDS == {"yellow_up", "gray_up"}
Kinds == UP_KINDS \cup {"sell"}
Jobs == <<"trend", "zones", "entry", "warren", "scores", "over">>

Latest(S) == IF S = {} THEN Never ELSE CHOOSE d \in S : \A e \in S : e <= d
From == IF world.day > LOOKBACK_DAYS THEN (world.day - LOOKBACK_DAYS) + 1 ELSE 1
Gate == From + EVENT_WRITE_WARMUP_DAYS

\* The newest session in the bars a job is handed; Never when there are none.
AsOf(served) ==
    CASE served = "full" -> world.day
      [] served = "behind" -> world.day - 1
      [] served = "nothing" -> Never

Spent(served) == IF served = "full" THEN world.mishaps ELSE world.mishaps - 1

IsStale(row) == row.computedAt < world.day - STALE_AFTER_DAYS

-----------------------------------------------------------------------------
(***************************************************************************)
(* Trend: one row, read by the ticker page, which recomputes a row that    *)
(* does not reach the last completed session.                              *)
(***************************************************************************)
TrendUpsert(asOf) ==
    [asOf |-> asOf, stage |-> world.bars[asOf],
     changed |-> kept.trend.asOf # Never /\ kept.trend.stage # world.bars[asOf]]

IsRowOld == kept.trend.asOf < world.day - 1
IsRowStale == kept.trend.asOf < world.day

\* The page's answer when the bars it could fetch are those served.
TrendPage(served) ==
    IF IsRowStale /\ AsOf(served) # Never THEN TrendUpsert(AsOf(served)) ELSE kept.trend

-----------------------------------------------------------------------------
(***************************************************************************)
(* Support zones: a daily and a weekly row, computed from one set of bars  *)
(* and written together.  The daily one reads the newer half of them.      *)
(***************************************************************************)
Levels(from, asOf) == {d \in from .. asOf : world.bars[d] # "quiet"}

ZoneRows(asOf) ==
    [daily |-> Levels(From + LOOKBACK_DAYS \div 2, asOf), weekly |-> Levels(From, asOf),
     asOf |-> asOf, computedAt |-> world.day]

SweepZones(rows) == IF IsStale(rows) THEN [rows EXCEPT !.daily = {}, !.weekly = {}] ELSE rows

-----------------------------------------------------------------------------
(***************************************************************************)
(* BB+RSI: only the newest session is evaluated.  The row advances to a    *)
(* newer fire and keeps the one it has on a quiet night.                   *)
(***************************************************************************)
Fires(asOf) == world.bars[asOf] = "up"

\* A quiet night erases the fire, a slip.
EntryOverwritten(row, asOf) == [firedAt |-> IF Fires(asOf) THEN asOf ELSE Never, computedAt |-> world.day]

EntryUpsert(row, asOf) ==
    [firedAt |-> IF Fires(asOf) /\ asOf > row.firedAt THEN asOf ELSE row.firedAt, computedAt |-> world.day]

EntryLogged(fires, asOf) ==
    IF Fires(asOf) /\ ~ \E f \in fires : f.at = asOf
    THEN fires \cup {[at |-> asOf, created |-> world.day]} ELSE fires

\* The entry job's sweep names no signal: it clears every stale row of the
\* shared table, the Warren row's fire included but not its kind.
SweepFire(row) == IF IsStale(row) THEN [row EXCEPT !.firedAt = Never] ELSE row

PruneLog(log) == {e \in log : e.at >= world.day - EVENT_RETENTION_DAYS}

-----------------------------------------------------------------------------
(***************************************************************************)
(* Warren: the whole window is replayed every night, the row is            *)
(* overwritten, and the log past the gate is reconciled with the replay.   *)
(***************************************************************************)
Label(d) ==
    CASE world.bars[d] = "sell" -> "sell"
      [] world.bars[d] = "up" /\ From > 1 /\ d < From + Settle -> "gray_up"
      [] OTHER -> "yellow_up"

Replayed(asOf) == {[kind |-> Label(d), at |-> d] : d \in Levels(From, asOf)}

Ungated(events) == events
PastGate(events) == {e \in events : e.at >= Gate}

\* Plausible slips: events are only ever inserted; the bound by the last
\* replayed candle is forgotten; so is the guard.
InsertOnly(stored, replay, asOf) ==
    [refused |-> FALSE, added |-> PastGate(replay) \ stored, deleted |-> {}]
DeletesUncovered(stored, replay, asOf) ==
    [refused |-> PastGate(replay) = {}, added |-> PastGate(replay) \ stored,
     deleted |-> IF PastGate(replay) = {} THEN {} ELSE {e \in stored \ PastGate(replay) : e.at >= Gate}]
Unguarded(stored, replay, asOf) ==
    [refused |-> FALSE, added |-> PastGate(replay) \ stored,
     deleted |-> {e \in stored \ PastGate(replay) : e.at >= Gate /\ e.at <= asOf}]

\* What the reconcile does: delete what the replay does not produce, up to
\* the last replayed candle; add what is not stored; nothing at all when the
\* replay is empty or would delete most of the stored window.
EventReconcile(stored, replay, asOf) ==
    LET wanted == PastGate(replay)
        have == {e \in stored : e.at >= Gate}
        deleted == {e \in have \ wanted : e.at <= asOf}
        refused == \/ have # {} /\ wanted = {}
                   \/ Cardinality(deleted) >= RECONCILE_MIN_DELETES /\ 2 * Cardinality(deleted) > Cardinality(have)
    IN [refused |-> refused,
        added |-> IF refused THEN {} ELSE wanted \ have,
        deleted |-> IF refused THEN {} ELSE deleted]

\* The row is the replay's last event, whatever the reconcile decided.
WarrenUpsert(replay) ==
    LET last == Latest({e.at : e \in replay})
    IN [kind |-> IF last = Never THEN "none" ELSE (CHOOSE e \in replay : e.at = last).kind,
        firedAt |-> last, computedAt |-> world.day]

SweepWarren(row) == IF IsStale(row) THEN [row EXCEPT !.kind = "none", !.firedAt = Never] ELSE row

LastBuy(log) == Latest({e.at : e \in {f \in log : f.kind \in UP_KINDS}})
ActiveUpKind(row) == IF row.kind \in UP_KINDS THEN row.kind ELSE "none"
ScoreFields(log, row) == [lastBuy |-> LastBuy(log), activeKind |-> ActiveUpKind(row)]

\* Refreshed before the prune, a slip.
RefreshedFirst(plan, log, row) ==
    IF plan.added # {} \/ plan.deleted # {} THEN ScoreFields(log, SweepWarren(row)) ELSE kept.score

\* After the sweep and the prune, when the ticker's events changed.
Refreshed(plan, log, row) ==
    IF plan.added # {} \/ plan.deleted # {} THEN ScoreFields(PruneLog(log), SweepWarren(row)) ELSE kept.score

-----------------------------------------------------------------------------
NoRun == [day |-> Never, from |-> Never, asOf |-> Never, refused |-> FALSE, changed |-> FALSE, logBefore |-> {}]
NoTrend == [asOf |-> Never, stage |-> "quiet", changed |-> FALSE]
NoZones == [daily |-> {}, weekly |-> {}, asOf |-> Never, computedAt |-> Never]
NoEntry == [firedAt |-> Never, computedAt |-> Never]
NoWarren == [kind |-> "none", firedAt |-> Never, computedAt |-> Never]
NoScore == [lastBuy |-> Never, activeKind |-> "none"]
NoRows == [trend |-> NoTrend, zones |-> NoZones, entry |-> NoEntry, fires |-> {}, warren |-> NoWarren, log |-> {},
           score |-> NoScore, run |-> NoRun, page |-> [asked |-> "none", asOf |-> Never],
           sweptAt |-> [zones |-> Never, entry |-> Never, warren |-> Never]]

InitSignals ==
    \E past \in Pasts, jobs \in Followed :
        /\ world = [day |-> Cardinality(DOMAIN past), job |-> 1, bars |-> past, listed |-> TRUE,
                    jobs |-> jobs, mishaps |-> Mishaps]
        /\ kept = NoRows

Due(job) == Jobs[world.job] = job

\* The job ends; the next one follows, hours later at most.
Done(served) == world' = [world EXCEPT !.job = @ + 1, !.mishaps = Spent(served)]

\* The data group is off, the job is killed before it writes, or this
\* behaviour does not follow it: no compute, no sweep.
SkipJob ==
    /\ Jobs[world.job] # "over"
    /\ Jobs[world.job] \in world.jobs => world.mishaps > 0
    /\ world' = [world EXCEPT !.job = @ + 1,
                     !.mishaps = IF Jobs[world.job] \in world.jobs THEN @ - 1 ELSE @]
    /\ UNCHANGED kept

Served(job, served) ==
    /\ Due(job)
    /\ job \in world.jobs
    /\ served \in {"full", "behind", "nothing"}
    /\ Spent(served) >= 0

\* A ticker that is not monitored, or that got no bars, keeps its row.
Computed(served) == world.listed /\ AsOf(served) # Never

TrendJob(served) ==
    /\ Served("trend", served)
    /\ kept' = [kept EXCEPT !.trend = IF AsOf(served) # Never THEN TrendUpsert(AsOf(served)) ELSE @,
                            !.page = [asked |-> "none", asOf |-> Never]]
    /\ Done(served)

\* The ticker page asks at any time of the day.
TrendRead(served) ==
    /\ "trend" \in world.jobs
    /\ kept.page.asked = "none"
    /\ served \in {"full", "behind", "nothing"} /\ Spent(served) >= 0
    /\ kept' = [kept EXCEPT !.trend = TrendPage(served), !.page = [asked |-> served, asOf |-> TrendPage(served).asOf]]
    /\ world' = [world EXCEPT !.mishaps = Spent(served)]

ZonesJob(served) ==
    /\ Served("zones", served)
    /\ kept' = [kept EXCEPT !.zones = SweepZones(IF Computed(served) THEN ZoneRows(AsOf(served)) ELSE @),
                            !.sweptAt.zones = world.day]
    /\ Done(served)

EntryJob(served) ==
    /\ Served("entry", served)
    /\ kept' = [kept EXCEPT !.entry = SweepFire(IF Computed(served) THEN EntryUpsert(@, AsOf(served)) ELSE @),
                            !.fires = PruneLog(IF Computed(served) THEN EntryLogged(@, AsOf(served)) ELSE @),
                            !.warren = SweepFire(@),
                            !.sweptAt.entry = world.day]
    /\ Done(served)

\* The return before the sweep, a slip.
WarrenReturnsEarly ==
    /\ Served("warren", "full")
    /\ ~world.listed
    /\ kept' = [kept EXCEPT !.run = NoRun, !.sweptAt.warren = world.day]
    /\ Done("full")

\* No ticker monitored at all: the job sweeps and prunes before it returns.
WarrenUnlisted ==
    /\ Served("warren", "full")
    /\ ~world.listed
    /\ kept' = [kept EXCEPT !.warren = SweepWarren(@), !.log = PruneLog(@), !.run = NoRun,
                            !.sweptAt.warren = world.day]
    /\ Done("full")
WarrenJob(served) ==
    /\ Served("warren", served)
    /\ world.listed
    /\ LET asOf == AsOf(served)
           replay == IF asOf = Never THEN {} ELSE Replayed(asOf)
           plan == IF asOf = Never THEN [refused |-> FALSE, added |-> {}, deleted |-> {}]
                   ELSE EventReconcile(kept.log, replay, asOf)
           log == (kept.log \ plan.deleted) \cup plan.added
           row == IF asOf = Never THEN kept.warren ELSE WarrenUpsert(replay)
       IN kept' = [kept EXCEPT !.warren = SweepWarren(row),
                               !.log = PruneLog(log),
                               !.score = Refreshed(plan, log, row),
                               !.run = [day |-> world.day, from |-> From, asOf |-> asOf, refused |-> plan.refused,
                                        changed |-> plan.added # {} \/ plan.deleted # {}, logBefore |-> kept.log],
                               !.sweptAt.warren = world.day]
    /\ Done(served)

ScoreRecompute ==
    /\ Served("scores", "full")
    /\ kept' = [kept EXCEPT !.score = ScoreFields(kept.log, kept.warren)]
    /\ Done("full")

-----------------------------------------------------------------------------
\* By day the ticker joins or leaves the monitored lists, or its whole series
\* is replaced by another source's.
ListChanges ==
    /\ Due("over") /\ world.mishaps > 0
    /\ world' = [world EXCEPT !.listed = ~@, !.mishaps = @ - 1]
    /\ UNCHANGED kept

Opposite == [quiet |-> "quiet", up |-> "sell", sell |-> "up"]

SeriesReplaced ==
    /\ Due("over") /\ world.mishaps > 0
    /\ \E bars \in {[d \in 1 .. world.day |-> "quiet"], [d \in 1 .. world.day |-> Opposite[world.bars[d]]]} :
           world' = [world EXCEPT !.bars = bars, !.mishaps = @ - 1]
    /\ kept' = [kept EXCEPT !.run = NoRun]

\* A new session closes; the one before it may have been provisional.
NextNight ==
    /\ Due("over") /\ world.day < LastDay
    /\ \E reading \in Readings, settled \in Readings :
           /\ settled # world.bars[world.day] => world.mishaps > 0
           /\ world' = [world EXCEPT
                  !.day = @ + 1, !.job = 1,
                  !.bars = [d \in 1 .. world.day + 1 |->
                               IF d > world.day THEN reading ELSE IF d = world.day THEN settled ELSE world.bars[d]],
                  !.mishaps = IF settled # world.bars[world.day] THEN @ - 1 ELSE @]
    /\ kept' = [kept EXCEPT !.page = [asked |-> "none", asOf |-> Never], !.run = NoRun]

Closed == Due("over") /\ world.day = LastDay /\ UNCHANGED svars

NextSignals ==
    \/ \E served \in {"full", "behind", "nothing"} :
           TrendJob(served) \/ TrendRead(served) \/ ZonesJob(served) \/ EntryJob(served) \/ WarrenJob(served)
    \/ SkipJob \/ WarrenUnlisted \/ ScoreRecompute
    \/ ListChanges \/ SeriesReplaced \/ NextNight \/ Closed

SpecSignals == InitSignals /\ [][NextSignals]_svars

-----------------------------------------------------------------------------
SignalTypeOK ==
    /\ world.day \in 1 .. LastDay /\ world.job \in 1 .. 6 /\ world.mishaps \in 0 .. Mishaps
    /\ \A d \in 1 .. world.day : world.bars[d] \in Readings
    /\ kept.warren.kind \in Kinds \cup {"none"}
    /\ \A e \in kept.log : e.kind \in Kinds /\ e.at \in 1 .. LastDay
    /\ \A f \in kept.fires : f.at <= f.created

Age(day) == world.day - day

\* What the gate keeps out and what it lets in: a wrong label in the log is of a session
\* past the gate of a window that began after the data did, and of none where the memory
\* has settled by now.  However often a session changes its label as the window slides over
\* it, the log has one arrow of it, so the label it is left with when it passes the gate is
\* the only one.
WrongLabelsAreFromTheMargin ==
    /\ \A e \in kept.log : e.kind = "gray_up" => e.at \in 2 + EVENT_WRITE_WARMUP_DAYS .. (From + Settle) - 1
    /\ \A e, f \in kept.log : e.at = f.at => e = f

\* After a Warren run that was not refused, the log past the gate and up to
\* the last replayed candle is what the bars say.
LogFollowsBars ==
    kept.run.day # Never /\ kept.run.asOf # Never /\ ~kept.run.refused =>
        \A d \in Gate .. kept.run.asOf :
            {e.kind : e \in {f \in kept.log : f.at = d}} = IF world.bars[d] = "quiet" \/ Age(d) > EVENT_RETENTION_DAYS THEN {} ELSE {Label(d)}

\* An event that a run deleted was young enough to keep only if the run's
\* bars covered it and its window started before it; and a run never deletes
\* most of a window.
RunsDeleteWhatTheyCover ==
    LET gone == {e \in kept.run.logBefore \ kept.log : Age(e.at) <= EVENT_RETENTION_DAYS}
        window == {e \in kept.run.logBefore : e.at >= Gate}
    IN kept.run.day # Never =>
           /\ \A e \in gone : e.at <= kept.run.asOf /\ e.at >= Gate
           /\ Cardinality(gone) >= RECONCILE_MIN_DELETES => 2 * Cardinality(gone) <= Cardinality(window)
           /\ window # {} => \E e \in kept.log : e.at >= Gate

\* A row that is not recomputed reads inactive once its job has swept, and a
\* swept Warren row has a kind exactly when it has a fire.
SweptRowsAreFresh ==
    /\ kept.zones.daily \cup kept.zones.weekly # {} => kept.zones.computedAt >= kept.sweptAt.zones - STALE_AFTER_DAYS
    /\ kept.entry.firedAt # Never => kept.entry.computedAt >= kept.sweptAt.entry - STALE_AFTER_DAYS
    /\ kept.warren.kind # "none" => kept.warren.computedAt >= kept.sweptAt.warren - STALE_AFTER_DAYS
    /\ kept.sweptAt.warren = world.day => (kept.warren.kind # "none") = (kept.warren.firedAt # Never)

\* The BB+RSI row holds the newest fire recorded lately, whatever order old
\* and new bars were served in.
EntryKeepsNewestFire ==
    /\ \A f \in kept.fires : Age(f.created) <= STALE_AFTER_DAYS => kept.entry.firedAt >= f.at
    /\ kept.entry.firedAt # Never /\ Age(kept.entry.firedAt) <= EVENT_RETENTION_DAYS =>
           \E f \in kept.fires : f.at = kept.entry.firedAt

\* After a run that changed the log, the score row's last buy is the log's,
\* what the same run pruned included.
ScoreFollowsLog ==
    kept.run.changed => kept.score = ScoreFields(kept.log, kept.warren)

\* The page answers from the newest session its bars could give, and from the
\* old row rather than nothing.
TrendPageIsCurrent ==
    /\ kept.page.asked = "full" => kept.page.asOf = world.day
    /\ kept.page.asked # "none" => kept.page.asOf = kept.trend.asOf

SignalsFollowBars ==
    /\ WrongLabelsAreFromTheMargin
    /\ LogFollowsBars
    /\ RunsDeleteWhatTheyCover
    /\ SweptRowsAreFresh
    /\ EntryKeepsNewestFire
    /\ ScoreFollowsLog
    /\ TrendPageIsCurrent
=============================================================================
