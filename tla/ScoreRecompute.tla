--------------------------- MODULE ScoreRecompute ---------------------------
(***************************************************************************)
(* The background score recompute: API request threads claim the single    *)
(* running slot, save what must be saved, spawn a worker subprocess and    *)
(* record its pid; the worker reports on its status row and ends it;       *)
(* every status read reaps rows whose worker went quiet or ran too long    *)
(* and starts a thread that stops the worker; a watcher thread collects    *)
(* the child's exit.  API, worker and reaper share only the SQLite table   *)
(* ScoreRecomputeRun, and a read and the write that follows it are two     *)
(* transactions (sqlite3 opens one only before DML).                       *)
(*                                                                         *)
(* Time is abstract.  stale holds the runs whose last heartbeat is older   *)
(* than HEARTBEAT_STALE_SECONDS or whose start is older than the limit,    *)
(* which may happen to any running row at any moment (a hung worker, a     *)
(* lock wait, a suspended machine) and is undone only by a heartbeat.      *)
(***************************************************************************)
EXTENDS Naturals, FiniteSets, TLC

CONSTANTS Callers,        \* API request threads
          Pids,           \* process ids the operating system hands out
          NoPid,          \* the NULL pid of a row
          MaxRuns,        \* bound: rows ever claimed
          Tickers,        \* size of the tracked universe
          PROGRESS_EVERY, \* tickers between status writes
          MaxRestarts,    \* bound: API restarts
          HasLimit        \* SCORE_RECOMPUTE_TIMEOUT_SECONDS > 0

ASSUME Bounds == /\ MaxRuns \in Nat
                 /\ Tickers \in Nat
                 /\ MaxRestarts \in Nat
                 /\ PROGRESS_EVERY \in Nat \ {0}
                 /\ HasLimit \in BOOLEAN
                 /\ NoPid \notin Pids

RunIds == 1 .. MaxRuns

\* For TLC: request threads are alike, and so are pids.
Symmetry == Permutations(Callers) \cup Permutations(Pids)

VARIABLES state,     \* state[r], pid[r]: the row of run r
          pid,
          lastId,    \* the newest row
          stale,     \* (only running rows: nobody asks it of the others)
          os,        \* what each pid is now: "free", "worker", "zombie", "other"
          job,       \* the worker a pid runs (or ran, while a zombie)
          caller,    \* the request threads
          watching,  \* pids a _watch thread waits for
          closing,   \* rows a fail_run has read as running and will fail
          stopping,  \* terminate_worker threads
          restarts

rows == <<state, pid, lastId>>
vars == <<state, pid, lastId, stale, os, job, caller, watching,
          closing, stopping, restarts>>

NewJob(r, pc) == [run |-> r, pc |-> pc, writes |-> "none", processed |-> 0, failed |-> 0, late |-> 0]
NoJob == NewJob(0, "none")
Job   == [run : 0 .. MaxRuns,
          pc : {"none", "start", "score", "update", "commit"},
          writes : {"none", "begin", "beat", "done", "failed"},
          processed : 0 .. Tickers,
          failed : Nat,
          late : Nat] \* history: tickers scored after the row left running

Idle   == [pc |-> "idle", wants |-> "none", run |-> 0, pid |-> NoPid, reaping |-> {}]
Reapable == [run : RunIds, pid : Pids \cup {NoPid}]
Caller == [pc : {"idle", "reap", "claim", "launch", "record"},
           wants : {"none", "status", "recompute"},
           run : 0 .. MaxRuns,
           pid : Pids \cup {NoPid},
           reaping : SUBSET Reapable]

Stopper == [pid : Pids, run : RunIds, sent : BOOLEAN]

TypeOK == /\ state \in [RunIds -> {"none", "running", "done", "failed"}]
          /\ pid \in [RunIds -> Pids \cup {NoPid}]
          /\ lastId \in 0 .. MaxRuns
          /\ stale \subseteq RunIds
          /\ os \in [Pids -> {"free", "worker", "zombie", "other"}]
          /\ job \in [Pids -> Job]
          /\ caller \in [Callers -> Caller]
          /\ \A c \in Callers : caller[c].pc = "record" => caller[c].pid # NoPid
          /\ watching \subseteq Pids
          /\ closing \subseteq RunIds
          /\ stopping \subseteq Stopper
          /\ restarts \in 0 .. MaxRestarts

Init == /\ state = [r \in RunIds |-> "none"]
        /\ pid = [r \in RunIds |-> NoPid]
        /\ lastId = 0
        /\ stale = {}
        /\ os = [p \in Pids |-> "free"]
        /\ job = [p \in Pids |-> NoJob]
        /\ caller = [c \in Callers |-> Idle]
        /\ watching = {}
        /\ closing = {}
        /\ stopping = {}
        /\ restarts = 0

Running == {r \in RunIds : state[r] = "running"}

(***************************************************************************)
(* Request threads.  Every request that looks at the run first reaps: it   *)
(* reads the running rows, and in a later transaction fails the stale ones *)
(* by primary key, whatever they have become since.                        *)
(***************************************************************************)

\* Mutant: only rows whose pid is known are reaped.
StaleNowPidKnown == {[run |-> r, pid |-> pid[r]] : r \in {i \in Running \cap stale : pid[i] # NoPid}}

StaleNow == {[run |-> r, pid |-> pid[r]] : r \in Running \cap stale}

\* GET score-weights and wait_for_run ("status"; one that finds nothing stale changes
\* nothing); a weights, reset or moat save and the Screener's button ("recompute").
Request(c, wants) ==
    /\ caller[c].pc = "idle"
    /\ wants = "status" => StaleNow # {}
    /\ caller' = [caller EXCEPT ![c] = [Idle EXCEPT !.pc = IF StaleNow = {} THEN "claim" ELSE "reap",
                                                    !.wants = wants,
                                                    !.reaping = StaleNow]]
    /\ UNCHANGED <<rows, stale, os, job, watching, closing, stopping, restarts>>

\* The commit of reap_stale_runs, and the terminator threads it starts after it.
Reap(c) ==
    /\ caller[c].pc = "reap"
    /\ state' = [r \in RunIds |-> IF \E s \in caller[c].reaping : s.run = r THEN "failed" ELSE state[r]]
    /\ stale' = stale \ {s.run : s \in caller[c].reaping}
    /\ stopping' = stopping \cup {[pid |-> s.pid, run |-> s.run, sent |-> FALSE] :
                                   s \in {t \in caller[c].reaping : t.pid # NoPid}}
    /\ caller' = [caller EXCEPT ![c] = IF @.wants = "status" THEN Idle
                                       ELSE [@ EXCEPT !.pc = "claim", !.reaping = {}]]
    /\ UNCHANGED <<pid, lastId, os, job, watching, closing, restarts>>

\* Mutant: a plain INSERT.
ClaimRunUnguarded(c) ==
    /\ caller[c].pc = "claim"
    /\ lastId < MaxRuns
    /\ state' = [state EXCEPT ![lastId + 1] = "running"]
    /\ lastId' = lastId + 1
    /\ caller' = [caller EXCEPT ![c] = [@ EXCEPT !.run = lastId + 1, !.pc = "launch"]]
    /\ UNCHANGED <<pid, stale, os, job, watching, closing, stopping, restarts>>

\* INSERT ... WHERE NOT EXISTS (a running row): one statement, so one step.
ClaimRun(c) ==
    /\ caller[c].pc = "claim"
    /\ Running = {}
    /\ lastId < MaxRuns
    /\ state' = [state EXCEPT ![lastId + 1] = "running"]
    /\ lastId' = lastId + 1
    /\ caller' = [caller EXCEPT ![c] = [@ EXCEPT !.run = lastId + 1, !.pc = "launch"]]
    /\ UNCHANGED <<pid, stale, os, job, watching, closing, stopping, restarts>>

\* RecomputeAlreadyRunning: the 409.  (A caller past the MaxRuns bound also stops here.)
Conflict(c) ==
    /\ caller[c].pc = "claim"
    /\ Running # {} \/ lastId = MaxRuns
    /\ caller' = [caller EXCEPT ![c] = Idle]
    /\ UNCHANGED <<rows, stale, os, job, watching, closing, stopping, restarts>>

\* fail_run reads the row and only a running one is failed, in the next transaction.
FailRun(r) == closing' = closing \cup ({r} \cap Running)

\* Between claim and launch the request saves what it came to save (ScoreRows models
\* that).  save() raised, or Popen did: the request fails its run and raises.
SaveOrSpawnFails(c) ==
    /\ caller[c].pc = "launch"
    /\ FailRun(caller[c].run)
    /\ caller' = [caller EXCEPT ![c] = Idle]
    /\ UNCHANGED <<rows, stale, os, job, watching, stopping, restarts>>

Spawn(c, p) ==
    /\ caller[c].pc = "launch"
    /\ os[p] = "free"
    /\ os' = [os EXCEPT ![p] = "worker"]
    /\ job' = [job EXCEPT ![p] = NewJob(caller[c].run, "start")]
    /\ caller' = [caller EXCEPT ![c] = [@ EXCEPT !.pc = "record", !.pid = p]]
    /\ UNCHANGED <<rows, stale, watching, closing, stopping, restarts>>

\* The pid is written whatever the row's state is by then; the watcher thread starts.
RecordPid(c) ==
    /\ caller[c].pc = "record"
    /\ pid' = [pid EXCEPT ![caller[c].run] = caller[c].pid]
    /\ watching' = watching \cup {caller[c].pid}
    /\ caller' = [caller EXCEPT ![c] = Idle]
    /\ UNCHANGED <<state, lastId, stale, os, job, closing, stopping, restarts>>

\* Exited children nobody in the API waits for any more: their pids are free again.
Collect(ps) == LET gone == {p \in ps : os[p] = "zombie"}
               IN  /\ os' = [p \in Pids |-> IF p \in gone THEN "free" ELSE os[p]]
                   /\ job' = [p \in Pids |-> IF p \in gone THEN NoJob ELSE job[p]]

\* The pid write raised ("database is locked"): launch_run fails the run, and the
\* worker it did start has neither a recorded pid nor a watcher.
RecordPidFails(c) ==
    /\ caller[c].pc = "record"
    /\ FailRun(caller[c].run)
    /\ Collect({caller[c].pid})
    /\ caller' = [caller EXCEPT ![c] = Idle]
    /\ UNCHANGED <<rows, stale, watching, stopping, restarts>>

\* The commit of a fail_run.
CloseRun(r) ==
    /\ r \in closing
    /\ state' = [state EXCEPT ![r] = "failed"]
    /\ closing' = closing \ {r}
    /\ stale' = stale \ {r}
    /\ UNCHANGED <<pid, lastId, os, job, caller, watching, stopping, restarts>>

(***************************************************************************)
(* The worker.                                                             *)
(***************************************************************************)

Held(p) == p \in watching \/ \E c \in Callers : caller[c].pc = "record" /\ caller[c].pid = p

\* A child the API has not waited for stays a zombie, which keeps its pid.
Exits(p) == /\ os' = [os EXCEPT ![p] = IF Held(p) THEN "zombie" ELSE "free"]
            /\ job' = [job EXCEPT ![p] = NewJob(IF Held(p) THEN job[p].run ELSE 0, "none")]

\* The worker of p goes on at pc, with w to write.
GoTo(p, pc, w) == job' = [job EXCEPT ![p] = [@ EXCEPT !.pc = pc, !.writes = w]]

Alive(p, pcs) == os[p] = "worker" /\ job[p].pc \in pcs

\* load_tracked_universe, or the failure to read it.
Start(p) ==
    /\ Alive(p, {"start"})
    /\ \E w \in {"begin", "failed"} : GoTo(p, "update", w)
    /\ UNCHANGED <<rows, stale, os, caller, watching, closing, stopping, restarts>>

\* Mutant: the loop does not stop at the end of the universe.
ScoreTickerPastEnd(p) ==
    /\ Alive(p, {"score"})
    /\ job' = [job EXCEPT ![p] = [@ EXCEPT !.processed = @ + 1]]
    /\ UNCHANGED <<rows, stale, os, caller, watching, closing, stopping, restarts>>

\* One ticker scored, skipped (no cached profile) or failed; a beat is due every
\* PROGRESS_EVERY tickers, and after ten seconds.
Scored(j, failures, beat) ==
    [j EXCEPT !.processed = @ + 1,
              !.failed = @ + failures,
              !.late = IF state[j.run] = "running" THEN @ ELSE @ + 1,
              !.pc = IF beat THEN "update" ELSE "score",
              !.writes = IF beat THEN "beat" ELSE "none"]

ScoreTicker(p) ==
    /\ Alive(p, {"score"})
    /\ job[p].processed < Tickers
    /\ \E failures \in {0, 1}, beat \in BOOLEAN :
         /\ (job[p].processed + 1) % PROGRESS_EVERY = 0 => beat
         /\ job' = [job EXCEPT ![p] = Scored(@, failures, beat)]
    /\ UNCHANGED <<rows, stale, os, caller, watching, closing, stopping, restarts>>

\* The worker's own time limit, checked before each ticker.
RunTimesOut(p) ==
    /\ Alive(p, {"score"})
    /\ job[p].processed < Tickers
    /\ HasLimit
    /\ GoTo(p, "update", "failed")
    /\ UNCHANGED <<rows, stale, os, caller, watching, closing, stopping, restarts>>

EverythingFailed(p) == job[p].processed > 0 /\ job[p].failed = job[p].processed

Finish(p) ==
    /\ Alive(p, {"score"})
    /\ job[p].processed = Tickers
    /\ GoTo(p, "update", IF EverythingFailed(p) THEN "failed" ELSE "done")
    /\ UNCHANGED <<rows, stale, os, caller, watching, closing, stopping, restarts>>

\* Mutant: _update does not look at the row's state.
UpdateReadsNothing(p) ==
    /\ Alive(p, {"update"})
    /\ GoTo(p, "commit", job[p].writes)
    /\ UNCHANGED <<rows, stale, os, caller, watching, closing, stopping, restarts>>

\* _update reads the row: RunSuperseded when it is no longer running ...
UpdateReads(p) ==
    /\ Alive(p, {"update"})
    /\ state[job[p].run] = "running"
    /\ GoTo(p, "commit", job[p].writes)
    /\ UNCHANGED <<rows, stale, os, caller, watching, closing, stopping, restarts>>

Superseded(p) ==
    /\ Alive(p, {"update"})
    /\ state[job[p].run] # "running"
    /\ Exits(p)
    /\ UNCHANGED <<rows, stale, caller, watching, closing, stopping, restarts>>

\* Mutant: a progress write carries the state it read along.
UpdateCommitsState(p) ==
    /\ Alive(p, {"commit"})
    /\ stale' = stale \ {job[p].run}
    /\ state' = [state EXCEPT ![job[p].run] = IF job[p].writes \in {"done", "failed"} THEN job[p].writes ELSE "running"]
    /\ GoTo(p, "score", "none")
    /\ UNCHANGED <<pid, lastId, os, caller, watching, closing, stopping, restarts>>

\* ... and then writes what it came to write, with a fresh heartbeat.
UpdateCommits(p) ==
    /\ Alive(p, {"commit"})
    /\ stale' = stale \ {job[p].run}
    /\ \/ /\ job[p].writes \in {"begin", "beat"}
          /\ GoTo(p, "score", "none")
          /\ UNCHANGED <<state, os>>
       \/ /\ job[p].writes \in {"done", "failed"}
          /\ state' = [state EXCEPT ![job[p].run] = job[p].writes]
          /\ Exits(p)
    /\ UNCHANGED <<pid, lastId, caller, watching, closing, stopping, restarts>>

\* The database refuses the read or the write: run_job tries to record a crash, once.
UpdateRaises(p) ==
    /\ Alive(p, {"update", "commit"})
    /\ IF job[p].writes = "failed"
       THEN Exits(p)
       ELSE GoTo(p, "update", "failed") /\ UNCHANGED os
    /\ UNCHANGED <<rows, stale, caller, watching, closing, stopping, restarts>>

\* The process is gone without a word (killed, out of memory).
Dies(p) ==
    /\ os[p] = "worker"
    /\ Exits(p)
    /\ UNCHANGED <<rows, stale, caller, watching, closing, stopping, restarts>>

(***************************************************************************)
(* The API's other threads, its restart, the operating system and time.    *)
(***************************************************************************)

\* _watch: proc.wait() returns, the child is collected, and its run is failed
\* if it has not finished.
Watch(p) ==
    /\ p \in watching
    /\ os[p] = "zombie"
    /\ Collect({p})
    /\ watching' = watching \ {p}
    /\ FailRun(job[p].run)
    /\ UNCHANGED <<rows, stale, caller, stopping, restarts>>

\* Mutant: any recompute worker will do, whichever run it is of.
IsAnyRecomputeWorker(p, r) == os[p] = "worker"

IsRecomputeWorker(p, r) == os[p] = "worker" /\ job[p].run = r

\* terminate_worker: the thread ends when the pid is not (or no longer) this worker.
NotOurs(s) ==
    /\ s \in stopping
    /\ ~IsRecomputeWorker(s.pid, s.run)
    /\ stopping' = stopping \ {s}
    /\ UNCHANGED <<rows, stale, os, job, caller, watching, closing, restarts>>

\* SIGTERM: most workers exit, a stuck one does not (yet).
Terminate(s) ==
    /\ s \in stopping
    /\ ~s.sent
    /\ IsRecomputeWorker(s.pid, s.run)
    /\ stopping' = (stopping \ {s}) \cup {[s EXCEPT !.sent = TRUE]}
    /\ Exits(s.pid) \/ UNCHANGED <<os, job>>
    /\ UNCHANGED <<rows, stale, caller, watching, closing, restarts>>

\* Mutant: no SIGKILL.
NeverKill(s) ==
    /\ s \in stopping
    /\ s.sent
    /\ stopping' = stopping \ {s}
    /\ UNCHANGED <<rows, stale, os, job, caller, watching, closing, restarts>>

\* SIGKILL after the grace period, once the identity has been checked again.
Kill(s) ==
    /\ s \in stopping
    /\ s.sent
    /\ IsRecomputeWorker(s.pid, s.run)
    /\ stopping' = stopping \ {s}
    /\ Exits(s.pid)
    /\ UNCHANGED <<rows, stale, caller, watching, closing, restarts>>

\* uvicorn restarts: its threads are gone, the workers live on in their own session.
ApiRestarts ==
    /\ restarts < MaxRestarts
    /\ restarts' = restarts + 1
    /\ caller' = [c \in Callers |-> Idle]
    /\ watching' = {}
    /\ closing' = {}
    /\ stopping' = {}
    /\ Collect(Pids)
    /\ UNCHANGED <<rows, stale>>

\* A free pid goes to a process that is none of ours.
PidReused(p) ==
    /\ os[p] = "free"
    /\ os' = [os EXCEPT ![p] = "other"]
    /\ UNCHANGED <<rows, stale, job, caller, watching, closing, stopping, restarts>>

GoesStale(r) ==
    /\ state[r] = "running"
    /\ r \notin stale
    /\ stale' = stale \cup {r}
    /\ UNCHANGED <<rows, os, job, caller, watching, closing, stopping, restarts>>

Status == \E c \in Callers : Request(c, "status")

Calls(c) == \/ Request(c, "recompute")
            \/ Reap(c) \/ ClaimRun(c) \/ Conflict(c) \/ SaveOrSpawnFails(c)
            \/ \E p \in Pids : Spawn(c, p)
            \/ RecordPid(c) \/ RecordPidFails(c)

Scores(p) == ScoreTicker(p) \/ RunTimesOut(p)

Reports(p) == \/ Start(p) \/ Finish(p)
              \/ UpdateReads(p) \/ Superseded(p) \/ UpdateCommits(p) \/ UpdateRaises(p)

Stops == \E s \in stopping : NotOurs(s) \/ Terminate(s) \/ Kill(s)

Next == \/ Status
        \/ \E c \in Callers : Calls(c)
        \/ \E p \in Pids : Reports(p) \/ Scores(p) \/ Dies(p) \/ Watch(p) \/ PidReused(p)
        \/ Stops
        \/ \E r \in RunIds : CloseRun(r) \/ GoesStale(r)
        \/ ApiRestarts

Spec == Init /\ [][Next]_vars

\* What the scheduling justifies: threads and processes that can run do run, time
\* passes, and the page showing a run keeps asking for its status.  Nothing is
\* assumed of Scores (a worker may hang inside a ticker, and checks its own limit only
\* between two), of new requests, or of an exit.
Fairness == /\ WF_vars(Status)
            /\ \A c \in Callers : /\ WF_vars(Reap(c))
                                  /\ WF_vars(ClaimRun(c) \/ Conflict(c))
                                  /\ WF_vars(SaveOrSpawnFails(c) \/ \E p \in Pids : Spawn(c, p))
                                  /\ WF_vars(RecordPid(c) \/ RecordPidFails(c))
            /\ \A p \in Pids : WF_vars(Reports(p)) /\ WF_vars(Watch(p))
            /\ \A r \in RunIds : WF_vars(CloseRun(r)) /\ WF_vars(GoesStale(r))
            /\ WF_vars(Stops)

FairSpec == Spec /\ Fairness

(***************************************************************************)
(* Properties.                                                             *)
(***************************************************************************)

\* "One run at a time" (score_recompute.py:11): however claims, reaps, failed
\* launches and restarts interleave, two rows are never running together.
OneRunning == \A r, s \in Running : r = s

\* terminate_worker only ever stops the worker of a run that has been closed: never a
\* process that got the pid afterwards ("so a reused pid is never signalled",
\* score_recompute.py:17), never the worker of the live run.
StopsOnlyClosedRuns ==
    [][\A p \in Pids : stopping' # stopping /\ os'[p] # os[p] =>
           os[p] # "other" /\ (os[p] = "worker" => state[job[p].run] # "running")]_vars

\* A worker whose run was taken away from it scores at most PROGRESS_EVERY more
\* tickers before it notices (RunSuperseded), even when its writes fail.
SupersededWorkerBounded == \A p \in Pids : os[p] = "worker" => job[p].late <= PROGRESS_EVERY

\* The promise of RunSlot.
Slot == INSTANCE RunSlot WITH state <- state, lastId <- lastId, MaxRuns <- MaxRuns

SlotSafety == Slot!Safety

\* No run holds the slot forever: a dead, hung, never-launched or orphaned run is
\* ended by its worker, its watcher or a reaper.
EveryRunEnds == Slot!Freed

\* A worker the reaper set out to stop stops, even one that ignores SIGTERM: from the
\* last restart of the API on (a restart takes the stopping thread with it).
StoppersFinish ==
    \A p \in Pids, r \in RunIds :
        (/\ \E s \in stopping : s.pid = p /\ s.run = r
         /\ IsRecomputeWorker(p, r)
         /\ restarts = MaxRestarts) ~> ~IsRecomputeWorker(p, r)

\* Whatever dies or hangs, the slot and the processes are freed: both of the above.
RunsAndStoppersEnd == EveryRunEnds /\ StoppersFinish
=============================================================================
