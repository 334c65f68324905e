---------------------------- MODULE CronHeartbeat ----------------------------
(***************************************************************************)
(* The heartbeat of one scheduled job (core/cron_health.py): every run     *)
(* writes a CronRunLog row when it starts and closes it when it ends; both *)
(* writes are best effort.  A run may raise, exit, be told to stop or be   *)
(* killed, and a manual run may overlap the scheduled one.  The health the *)
(* Status page shows is read from the rows.  Time is in hours.             *)
(***************************************************************************)
EXTENDS Naturals, Sequences

CONSTANTS
    Cadence,       \* _EXPECTED_CADENCE_HOURS of the job
    Counts,        \* (attempted, failed) a run may report
    MaxHour,       \* hours in a behaviour
    MaxStarts      \* runs in a behaviour

ASSUME CronAssumption ==
    Cadence \in Nat /\ Counts \subseteq Nat \X Nat /\ MaxHour \in Nat /\ MaxStarts \in Nat

VARIABLES
    hour,
    log,           \* the job's CronRunLog rows, in the order they started
    alive,         \* runs still working: the index of their row, 0 for one without
    starts,        \* runs started
    doneAt         \* hour the job last did its work, + 1 (0: never)

cvars == <<hour, log, alive, starts, doneAt>>

Statuses == {"running", "success", "failure", "skipped"}
Clock == hour + 1

\* How a run's work may end: it returns, it asks to be skipped, it raises (a
\* count over the threshold raises too), sys.exit() with 0 or another code,
\* SIGTERM (SystemExit 143), Ctrl-C, SIGKILL.
Ends == {"returns", "skips", "raises", "exit0", "exit1", "sigterm", "interrupt", "sigkill"}

\* check_failure_threshold: everything attempted failed, or at least 5 % of at
\* least 25.
TooManyFailed(attempted, failed) ==
    /\ attempted > 0 /\ failed > 0
    /\ failed >= attempted \/ (attempted >= 25 /\ failed * 20 >= attempted)

\* The run's real outcome once its counts are judged.
Judged(end, count) == IF end = "returns" /\ TooManyFailed(count[1], count[2]) THEN "raises" ELSE end

\* Mutant: every SystemExit counts as clean.
AnyExitIsClean(end) == end \in {"returns", "skips", "exit0", "exit1", "sigterm"}

\* _is_clean_exit, and the status a run's row is closed with.
CleanEnd(end) == end \in {"returns", "skips", "exit0"}

StatusOf(end) ==
    CASE end = "skips" -> "skipped"
      [] CleanEnd(end) /\ end # "skips" -> "success"
      [] OTHER -> "failure"

-----------------------------------------------------------------------------
InitCron ==
    /\ hour = 0
    /\ log = <<>>
    /\ alive = {}
    /\ starts = 0
    /\ doneAt = 0

\* cron_heartbeat up to its yield; the row may not be written.
Start ==
    /\ starts < MaxStarts
    /\ starts' = starts + 1
    /\ \/ /\ log' = Append(log, [started |-> Clock, finished |-> 0, status |-> "running"])
          /\ alive' = alive \cup {Len(log) + 1}
       \/ /\ alive' = alive \cup {0}
          /\ UNCHANGED log
    /\ UNCHANGED <<hour, doneAt>>

Closed(row, end) == [row EXCEPT !.status = StatusOf(end), !.finished = Clock]

\* The work ends and the row is closed (_finish_row); a kill leaves it running,
\* and so does a database error.
End(run) ==
    /\ run \in alive
    /\ alive' = alive \ {run}
    /\ \E way \in Ends, count \in Counts :
          LET end == Judged(way, count)
          IN /\ doneAt' = IF end \in {"returns", "exit0"} THEN Clock ELSE doneAt
             /\ \/ run > 0 /\ end # "sigkill" /\ log' = [log EXCEPT ![run] = Closed(log[run], end)]
                \/ UNCHANGED log
    /\ UNCHANGED <<hour, starts>>

Hour ==
    /\ hour < MaxHour
    /\ hour' = hour + 1
    /\ UNCHANGED <<log, alive, starts, doneAt>>

NextCron == Start \/ Hour \/ \E run \in alive : End(run)

CronSpec == InitCron /\ [][NextCron]_cvars

-----------------------------------------------------------------------------
(***************************************************************************)
(* _job_health, from the newest row and the newest successful one.         *)
(***************************************************************************)
Successes == {i \in DOMAIN log : log[i].status = "success"}
NewestSuccess == CHOOSE i \in Successes : \A j \in Successes : j <= i

Health ==
    CASE log = <<>> -> "unknown"
      [] log # <<>> /\ log[Len(log)].status = "skipped" -> "skipped"
      [] log # <<>> /\ log[Len(log)].status = "failure" -> "failed"
      [] OTHER -> IF Successes # {} /\ Clock <= log[NewestSuccess].finished + Cadence THEN "ok" ELSE "overdue"

CronTypeOK ==
    /\ hour \in 0 .. MaxHour
    /\ \A i \in DOMAIN log : log[i] \in [started : 1 .. MaxHour + 1, finished : 0 .. MaxHour + 1, status : Statuses]
    /\ alive \subseteq 0 .. MaxStarts /\ starts \in Len(log) .. MaxStarts
    /\ doneAt \in 0 .. MaxHour + 1

(***************************************************************************)
(* Green is earned: the page says ok only while the job really did its     *)
(* work within its cadence, whatever the heartbeat failed to write and     *)
(* however runs were stopped, skipped or overlapped.                       *)
(***************************************************************************)
OkIsEarned == Health = "ok" => doneAt > 0 /\ Clock <= doneAt + Cadence
=============================================================================
