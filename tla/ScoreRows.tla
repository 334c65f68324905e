----------------------------- MODULE ScoreRows -----------------------------
(***************************************************************************)
(* The saved score weights, the Narrow moat multiplier and the TickerScore *)
(* rows computed from them.  A save runs in an API thread that holds the   *)
(* recompute slot (RunSlot, which ScoreRecompute implements); computes run *)
(* as coroutines of the API's event loop and in worker and cron processes. *)
(* Every process keeps its last read of the weights for five seconds.      *)
(*                                                                         *)
(* A compute reads the weights and their version first, scores the steps,  *)
(* then reads the multiplier and the ticker's moat, and upserts a row      *)
(* stamped with the version; nothing is locked in between.                 *)
(***************************************************************************)
EXTENDS Naturals

CONSTANTS Tickers,    \* stocks with a cached profile
          Views,      \* coroutines of the API
          Jobs,       \* processes that compute scores: recompute workers, cron scripts
          Savers,     \* API threads that save weights or the multiplier
          Api,        \* the API process
          WeightSets, Narrows, Moats,
          None,
          MaxRuns,    \* bound: slots ever claimed
          MaxFailures \* bound: database writes that fail, restarts of the API

ASSUME Bounds == /\ MaxRuns \in Nat /\ MaxFailures \in Nat
                 /\ Api \notin Jobs
                 /\ Views \cap Jobs = {}
                 /\ None \notin WeightSets \cup Narrows \cup Moats

VARIABLES saved,   \* the weights row: the set and its version
          narrow,  \* the Narrow multiplier
          moat,    \* the moat rating of each ticker
          row,     \* the TickerScore row of each ticker
          cache,   \* each process's snapshot of the weights row
          task,    \* the compute each coroutine and each job is in
          job,     \* whether a job's process lives, the run it works for, the version that run saved
          saver,
          state, lastId, \* the slot
          failures

settings == <<saved, narrow, moat>>
slot     == <<state, lastId>>
vars     == <<saved, narrow, moat, row, cache, task, job, saver, state, lastId, failures>>

Slot == INSTANCE RunSlot

Tasks   == Views \cup Jobs
Procs   == Jobs \cup {Api}
Home(t) == IF t \in Jobs THEN t ELSE Api

Versions == 1 .. MaxRuns + 1
Snapshot == [weights : WeightSets, version : Versions]
Row      == [weights : WeightSets, version : Versions, narrow : Narrows, moat : Moats]

\* seen: the version of the stored row a header view read (0: it read none).
NoTask == [pc |-> "idle", why |-> "compute", ticker |-> None, seen |-> 0,
           snap |-> None, narrow |-> None, moat |-> None]
Task   == [pc : {"idle", "load", "store", "steps", "write"},
           why : {"judge", "compute"},
           ticker : Tickers \cup {None},
           seen : {0} \cup Versions,
           snap : Snapshot \cup {None},
           narrow : Narrows \cup {None},
           moat : Moats \cup {None}]

NoJob == [alive |-> FALSE, run |-> 0, floor |-> 0]
Job   == [alive : BOOLEAN, run : 0 .. MaxRuns, floor : {0} \cup Versions]

Free  == [pc |-> "free", run |-> 0, weights |-> None, narrow |-> None, version |-> 0]
Saver == [pc : {"free", "narrow", "read", "commit", "drop", "launch"},
          run : 0 .. MaxRuns,
          weights : WeightSets \cup {None},
          narrow : Narrows \cup {None},
          version : {0} \cup Versions]

TypeOK == /\ saved \in Snapshot
          /\ narrow \in Narrows
          /\ moat \in [Tickers -> Moats]
          /\ row \in [Tickers -> Row \cup {None}]
          /\ cache \in [Procs -> Snapshot \cup {None}]
          /\ task \in [Tasks -> Task]
          /\ job \in [Jobs -> Job]
          /\ saver \in [Savers -> Saver]
          /\ state \in [1 .. MaxRuns -> {"none", "running", "done", "failed"}]
          /\ lastId \in 0 .. MaxRuns
          /\ failures \in 0 .. MaxFailures

Init == /\ saved \in [weights : WeightSets, version : {1}]
        /\ narrow \in Narrows
        /\ moat \in [Tickers -> Moats]
        /\ row = [k \in Tickers |-> None]
        /\ cache = [p \in Procs |-> None]
        /\ task = [t \in Tasks |-> NoTask]
        /\ job = [j \in Jobs |-> NoJob]
        /\ saver = [s \in Savers |-> Free]
        /\ Slot!Init
        /\ failures = 0

(***************************************************************************)
(* Computing a score.                                                      *)
(***************************************************************************)

\* The coroutines of the API share one event loop: between two awaits nothing else of
\* the same process runs, except the saver threads.
LoopFree(t) == \A u \in Tasks \ {t} : Home(u) = Home(t) => task[u].pc \notin {"load", "store", "write"}

Ready(t) == task[t].pc = "idle" /\ LoopFree(t) /\ (t \in Jobs => job[t].alive)

Begins(t, k, why, seen) ==
    task' = [task EXCEPT ![t] = [NoTask EXCEPT !.pc = "load", !.why = why, !.ticker = k, !.seen = seen]]

\* GET /score: the header reads the stored row, and looks at the saved version if there is one.
View(t, k) ==
    /\ t \in Views
    /\ Ready(t)
    /\ IF row[k] = None THEN Begins(t, k, "compute", 0) ELSE Begins(t, k, "judge", row[k].version)
    /\ UNCHANGED <<settings, row, cache, job, saver, slot, failures>>

\* Whoever else computes a score: the worker's or a cron job's next ticker, a Refresh,
\* a saved valuation.
StartCompute(t, k) ==
    /\ Ready(t)
    /\ Begins(t, k, "compute", 0)
    /\ UNCHANGED <<settings, row, cache, job, saver, slot, failures>>

\* PUT /moat of a ticker: the rating is committed, then the row computed.
SetTickerMoat(t, k, m) ==
    /\ t \in Views
    /\ Ready(t)
    /\ moat' = [moat EXCEPT ![k] = m]
    /\ Begins(t, k, "compute", 0)
    /\ UNCHANGED <<saved, narrow, row, cache, job, saver, slot, failures>>

\* Mutant: the header never finds a row out of date.
LoadedNeverStale(t, snap) ==
    task' = [task EXCEPT ![t] = IF @.why = "judge" THEN NoTask ELSE [@ EXCEPT !.pc = "steps", !.snap = snap]]

\* What a task does with the snapshot it asked for: the header computes only when the
\* row it read is older, and asks again for the compute.
Loaded(t, snap) ==
    task' = [task EXCEPT ![t] = IF @.why = "compute" THEN [@ EXCEPT !.pc = "steps", !.snap = snap]
                                ELSE IF @.seen < snap.version THEN [@ EXCEPT !.pc = "load", !.why = "compute", !.snap = None]
                                ELSE NoTask]

\* load_score_weights, from the cache ...
LoadCached(t) ==
    /\ task[t].pc = "load"
    /\ cache[Home(t)] # None
    /\ Loaded(t, cache[Home(t)])
    /\ UNCHANGED <<settings, row, cache, job, saver, slot, failures>>

\* ... or from the database ...
LoadSaved(t) ==
    /\ task[t].pc = "load"
    /\ cache[Home(t)] = None
    /\ task' = [task EXCEPT ![t] = [@ EXCEPT !.pc = "store", !.snap = saved]]
    /\ UNCHANGED <<settings, row, cache, job, saver, slot, failures>>

\* ... and then into the cache, whatever was saved and dropped since.
StoreLoaded(t) ==
    /\ task[t].pc = "store"
    /\ cache' = [cache EXCEPT ![Home(t)] = task[t].snap]
    /\ Loaded(t, task[t].snap)
    /\ UNCHANGED <<settings, row, job, saver, slot, failures>>

\* The steps are scored (their awaits come before this); the multiplier and the moat are read.
ReadMultiplier(t) ==
    /\ task[t].pc = "steps"
    /\ LoopFree(t)
    /\ task' = [task EXCEPT ![t] = [@ EXCEPT !.pc = "write", !.narrow = narrow, !.moat = moat[task[t].ticker]]]
    /\ UNCHANGED <<settings, row, cache, job, saver, slot, failures>>

\* Mutant: the version is read when the row is written.
UpsertRestamped(t) ==
    /\ task[t].pc = "write"
    /\ row' = [row EXCEPT ![task[t].ticker] = [weights |-> task[t].snap.weights, version |-> saved.version,
                                               narrow |-> task[t].narrow, moat |-> task[t].moat]]
    /\ task' = [task EXCEPT ![t] = NoTask]
    /\ UNCHANGED <<settings, cache, job, saver, slot, failures>>

\* One upsert, over whatever row is there by now.
Upsert(t) ==
    /\ task[t].pc = "write"
    /\ row' = [row EXCEPT ![task[t].ticker] = [weights |-> task[t].snap.weights, version |-> task[t].snap.version,
                                               narrow |-> task[t].narrow, moat |-> task[t].moat]]
    /\ task' = [task EXCEPT ![t] = NoTask]
    /\ UNCHANGED <<settings, cache, job, saver, slot, failures>>

\* A read or the upsert raises: the row is left as it was.
ComputeFails(t) ==
    /\ task[t].pc # "idle"
    /\ failures < MaxFailures
    /\ failures' = failures + 1
    /\ task' = [task EXCEPT ![t] = NoTask]
    /\ UNCHANGED <<settings, row, cache, job, saver, slot>>

\* CACHE_TTL_SECONDS have passed.
Expires(p) ==
    /\ cache[p] # None
    /\ cache' = [cache EXCEPT ![p] = None]
    /\ UNCHANGED <<settings, row, task, job, saver, slot, failures>>

(***************************************************************************)
(* Saving: _save_then_recompute with its three kinds of save.              *)
(***************************************************************************)

EndRun(r) == /\ state' = [i \in 1 .. MaxRuns |-> IF i = r /\ state[i] = "running" THEN "failed" ELSE state[i]]
             /\ UNCHANGED lastId

At(s, pc) == saver' = [saver EXCEPT ![s] = [@ EXCEPT !.pc = pc]]

\* claim_run for a weights save or reset, or for a save of the multiplier.
ClaimForWeights(s, w) ==
    /\ saver[s].pc = "free"
    /\ Slot!Claim
    /\ saver' = [saver EXCEPT ![s] = [Free EXCEPT !.pc = "read", !.run = lastId', !.weights = w]]
    /\ UNCHANGED <<settings, row, cache, task, job, failures>>

ClaimForNarrow(s, n) ==
    /\ saver[s].pc = "free"
    /\ Slot!Claim
    /\ saver' = [saver EXCEPT ![s] = [Free EXCEPT !.pc = "narrow", !.run = lastId', !.narrow = n]]
    /\ UNCHANGED <<settings, row, cache, task, job, failures>>

\* update_moat_score_config commits the multiplier; bump_weights_version is next.
SaveNarrow(s) ==
    /\ saver[s].pc = "narrow"
    /\ narrow' = saver[s].narrow
    /\ At(s, "read")
    /\ UNCHANGED <<saved, moat, row, cache, task, job, slot, failures>>

\* The weights row is read in one transaction ...
ReadVersion(s) ==
    /\ saver[s].pc = "read"
    /\ saver' = [saver EXCEPT ![s] = [@ EXCEPT !.pc = "commit", !.version = saved.version + 1]]
    /\ UNCHANGED <<settings, row, cache, task, job, slot, failures>>

\* Mutant: both the save and the bump count the version up.
CommitVersionTwice(s) ==
    /\ saver[s].pc = "commit"
    /\ saved' = [weights |-> IF saver[s].weights = None THEN saved.weights ELSE saver[s].weights,
                 version |-> saver[s].version + 1]
    /\ At(s, "drop")
    /\ UNCHANGED <<narrow, moat, row, cache, task, job, slot, failures>>

\* ... and written in the next.
CommitVersion(s) ==
    /\ saver[s].pc = "commit"
    /\ saved' = [weights |-> IF saver[s].weights = None THEN saved.weights ELSE saver[s].weights,
                 version |-> saver[s].version]
    /\ At(s, "drop")
    /\ UNCHANGED <<narrow, moat, row, cache, task, job, slot, failures>>

\* invalidate_cache, in the API's process only.
DropCache(s) ==
    /\ saver[s].pc = "drop"
    /\ cache' = [cache EXCEPT ![Api] = None]
    /\ At(s, "launch")
    /\ UNCHANGED <<settings, row, task, job, slot, failures>>

\* A write raises: fail_run ends the run, and the request answers with the error.
SaveFails(s) ==
    /\ saver[s].pc \in {"narrow", "read", "commit"}
    /\ failures < MaxFailures
    /\ failures' = failures + 1
    /\ EndRun(saver[s].run)
    /\ saver' = [saver EXCEPT ![s] = Free]
    /\ UNCHANGED <<settings, row, cache, task, job>>

Start(j, run, floor) ==
    /\ ~job[j].alive
    /\ job' = [job EXCEPT ![j] = [alive |-> TRUE, run |-> run, floor |-> floor]]
    /\ cache' = [cache EXCEPT ![j] = None]

\* Mutant: the job is started first and the change saved behind it.
LaunchFirst(s, j) ==
    /\ saver[s].pc = "read"
    /\ Start(j, saver[s].run, saved.version + 1)
    /\ saver' = [saver EXCEPT ![s] = [@ EXCEPT !.pc = "commit", !.version = saved.version + 1]]
    /\ UNCHANGED <<settings, row, task, slot, failures>>

\* launch_run: a new process, with nothing in its cache.
Launch(s, j) ==
    /\ saver[s].pc = "launch"
    /\ Start(j, saver[s].run, saver[s].version)
    /\ saver' = [saver EXCEPT ![s] = Free]
    /\ UNCHANGED <<settings, row, task, slot, failures>>

LaunchFails(s) ==
    /\ saver[s].pc = "launch"
    /\ failures < MaxFailures
    /\ failures' = failures + 1
    /\ EndRun(saver[s].run)
    /\ saver' = [saver EXCEPT ![s] = Free]
    /\ UNCHANGED <<settings, row, cache, task, job>>

(***************************************************************************)
(* Processes.                                                              *)
(***************************************************************************)

CronStarts(j) ==
    /\ Start(j, 0, 0)
    /\ UNCHANGED <<settings, row, task, saver, slot, failures>>

\* A job finishes, stops or is stopped, possibly inside a compute; its run is ended.
JobEnds(j) ==
    /\ job[j].alive
    /\ job' = [job EXCEPT ![j] = NoJob]
    /\ task' = [task EXCEPT ![j] = NoTask]
    /\ cache' = [cache EXCEPT ![j] = None]
    /\ EndRun(job[j].run)
    /\ UNCHANGED <<settings, row, saver, failures>>

\* The reaper ends a run whose heartbeat is old: its worker hangs or its request is
\* gone.  (A save is over long before the heartbeat of its claim is stale.)
Reap(r) ==
    /\ state[r] = "running"
    /\ \A s \in Savers : saver[s].run # r
    /\ EndRun(r)
    /\ UNCHANGED <<settings, row, cache, task, job, saver, failures>>

\* The API stops: its threads, coroutines and cache are gone, a half-done save included.
ApiRestarts ==
    /\ failures < MaxFailures
    /\ failures' = failures + 1
    /\ saver' = [s \in Savers |-> Free]
    /\ task' = [t \in Tasks |-> IF t \in Views THEN NoTask ELSE task[t]]
    /\ cache' = [cache EXCEPT ![Api] = None]
    /\ UNCHANGED <<settings, row, job, slot>>

Computes(t) == \/ LoadCached(t) \/ LoadSaved(t) \/ StoreLoaded(t) \/ ReadMultiplier(t) \/ Upsert(t)

Saves(s) == SaveNarrow(s) \/ ReadVersion(s) \/ CommitVersion(s) \/ DropCache(s) \/ \E j \in Jobs : Launch(s, j)

Next == \/ \E t \in Views, k \in Tickers : View(t, k) \/ \E m \in Moats : SetTickerMoat(t, k, m)
        \/ \E t \in Tasks : (\E k \in Tickers : StartCompute(t, k)) \/ Computes(t) \/ ComputeFails(t)
        \/ \E p \in Procs : Expires(p)
        \/ \E s \in Savers : \/ \E w \in WeightSets : ClaimForWeights(s, w)
                             \/ \E n \in Narrows : ClaimForNarrow(s, n)
                             \/ Saves(s) \/ SaveFails(s) \/ LaunchFails(s)
        \/ \E j \in Jobs : CronStarts(j) \/ JobEnds(j)
        \/ \E r \in 1 .. MaxRuns : Reap(r)
        \/ ApiRestarts

Spec == Init /\ [][Next]_vars

\* A page keeps being opened, the event loop serves it among its other requests, its own
\* compute goes on, and time passes.  Nothing is assumed of jobs and savers.
Fairness == /\ \A k \in Tickers : SF_vars(\E t \in Views : View(t, k))
            /\ \A t \in Views : WF_vars(Computes(t))
            /\ \A p \in Procs : WF_vars(Expires(p))

FairSpec == Spec /\ Fairness

(***************************************************************************)
(* Properties.                                                             *)
(***************************************************************************)

\* A row stamped with the saved version was computed from the saved weights and the
\* saved multiplier ("a row older than this one is known to be stale", and no other
\* is): a save lands anywhere inside a compute, and the multiplier is saved and read
\* apart from the version.  (Between the commit of the multiplier and that of the
\* version the stamp cannot know.)
Bumping == \E s \in Savers : saver[s].narrow # None /\ saver[s].pc \in {"read", "commit"}
StampIsHonest == \A k \in Tickers :
    row[k] # None /\ row[k].version = saved.version /\ ~Bumping =>
        row[k].weights = saved.weights /\ row[k].narrow = narrow

\* "then save, then start the job so it reads the new values" (main.py:563): no compute
\* of a run's worker uses weights older than the ones saved for that run.
RecomputeUsesTheSave == \A j \in Jobs : task[j].pc \in {"steps", "write"} => task[j].snap.version >= job[j].floor

\* However computes with old weights overwrite newer rows, and although the header's
\* own check goes through the cache, a ticker that is looked at ends on the saved weights.
RowsCatchUp == \A k \in Tickers : <>[](row[k] # None /\ row[k].version = saved.version)
=============================================================================
