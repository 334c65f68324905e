-------------------------- MODULE StoredRowsProofs --------------------------
(***************************************************************************)
(* What TLC checks of ScoreRows on small instances, proved for any number  *)
(* of tickers, coroutines, jobs, saver threads, saves and failures (the    *)
(* stamp: without failures).                                               *)
(*                                                                         *)
(* A save is alone with the weights row because it holds the slot from its *)
(* claim to its launch; what has been read of the weights is never newer   *)
(* than the row, and equal to it at the same version.                      *)
(*                                                                         *)
(* The last part is about StartupMigrations: each process has the steps    *)
(* before its own done, and nothing that is done is undone.                *)
(***************************************************************************)
EXTENDS ScoreRows, StartupMigrations, TLAPS

Reading == {"store", "steps", "write"}
Busy(s) == saver[s].pc # "free"

\* What a task has read by the time it is where it is.
TaskHolds(t) ==
    /\ task[t].pc # "idle" => task[t].ticker \in Tickers
    /\ task[t].pc \in Reading => task[t].snap \in Snapshot
    /\ task[t].pc = "write" => task[t].narrow \in Narrows /\ task[t].moat \in Moats

\* A save under way: it holds a run of its own in the slot, and its version is next.
SaverHolds(s) ==
    /\ Busy(s) => saver[s].run \in 1 .. lastId /\ state[saver[s].run] = "running"
    /\ saver[s].pc = "narrow" => saver[s].narrow \in Narrows
    /\ saver[s].pc \in {"narrow", "read", "commit"} => saved.version <= lastId
    /\ saver[s].pc = "commit" => saver[s].version = saved.version + 1
    /\ saver[s].pc \in {"drop", "launch"} => saver[s].version \in 1 .. saved.version

OneSaver == \A s, u \in Savers : Busy(s) /\ Busy(u) => s = u

\* A job works for a run no saver holds, and has read nothing older than its floor.
JobHolds(j) ==
    /\ job[j].run <= lastId
    /\ \A s \in Savers : Busy(s) => job[j].run # saver[s].run
    /\ ~job[j].alive => task[j].pc = "idle"
    /\ job[j].floor <= saved.version
    /\ cache[j] # None => cache[j].version >= job[j].floor
    /\ task[j].pc \in Reading => task[j].snap.version >= job[j].floor

IInv == /\ TypeOK
        /\ saved.version <= lastId + 1
        /\ \A t \in Tasks : TaskHolds(t)
        /\ \A s \in Savers : SaverHolds(s)
        /\ OneSaver
        /\ \A j \in Jobs : JobHolds(j)

-----------------------------------------------------------------------------
LEMMA NoTaskType == NoTask \in Task /\ NoTask.pc = "idle"
  BY DEF NoTask, Task

LEMMA NoJobType == NoJob \in Job /\ NoJob.run = 0 /\ NoJob.floor = 0 /\ ~NoJob.alive
  BY Bounds DEF NoJob, Job

LEMMA FreeType == Free \in Saver /\ Free.pc = "free"
  BY Bounds DEF Free, Saver

LEMMA InitHolds == Init => IInv
<1> SUFFICES ASSUME Init PROVE IInv
  OBVIOUS
<1> USE DEF Init
<1>1. TypeOK
  <2>1. saved \in Snapshot
    BY Bounds DEF Snapshot, Versions
  <2>2. state \in [1 .. MaxRuns -> {"none", "running", "done", "failed"}] /\ lastId \in 0 .. MaxRuns
    BY Bounds DEF Slot!Init, Slot!RunIds
  <2> QED
    BY <2>1, <2>2, NoTaskType, NoJobType, FreeType, Bounds DEF TypeOK
<1>2. lastId = 0 /\ saved.version = 1
  BY DEF Slot!Init
<1>3. ASSUME NEW t \in Tasks PROVE TaskHolds(t)
  BY NoTaskType DEF TaskHolds, Reading
<1>4. ASSUME NEW s \in Savers PROVE SaverHolds(s) /\ ~Busy(s)
  BY FreeType DEF SaverHolds, Busy
<1>5. ASSUME NEW j \in Jobs PROVE JobHolds(j)
  BY <1>2, <1>4, NoJobType, NoTaskType DEF JobHolds, Reading, Tasks, Procs
<1> QED
  BY <1>1, <1>2, <1>3, <1>4, <1>5 DEF IInv, OneSaver

-----------------------------------------------------------------------------
\* A task moves on and nothing else changes but its row: one lemma for all the steps of
\* a compute.  new is what it becomes.
LEMMA TaskMoves ==
  ASSUME IInv, NEW t \in Tasks, NEW new \in Task,
         task' = [task EXCEPT ![t] = new],
         new.pc # "idle" => new.ticker \in Tickers,
         new.pc \in Reading => new.snap \in Snapshot,
         new.pc = "write" => new.narrow \in Narrows /\ new.moat \in Moats,
         t \in Jobs => (job[t].alive \/ new.pc = "idle"),
         t \in Jobs /\ new.pc \in Reading => new.snap.version >= job[t].floor,
         NEW p \in Procs, NEW snap \in Snapshot \cup {None},
         cache' = cache \/ (cache' = [cache EXCEPT ![p] = snap] /\ (p \in Jobs /\ snap # None => snap.version >= job[p].floor)),
         row' \in [Tickers -> Row \cup {None}], moat' \in [Tickers -> Moats], failures' \in 0 .. MaxFailures,
         UNCHANGED <<saved, narrow, job, saver, slot>>
  PROVE  IInv'
<1> USE DEF slot
<1>1. TypeOK'
  BY DEF IInv, TypeOK
<1>2. (saved.version <= lastId + 1)'
  BY DEF IInv
<1>3. ASSUME NEW u \in Tasks PROVE TaskHolds(u)'
  BY DEF IInv, TypeOK, TaskHolds
<1>4. ASSUME NEW s \in Savers PROVE SaverHolds(s)'
  BY DEF IInv, SaverHolds, Busy
<1>5. OneSaver'
  BY DEF IInv, OneSaver, Busy
<1>6. ASSUME NEW j \in Jobs PROVE JobHolds(j)'
  <2>1. JobHolds(j) /\ j \in Tasks /\ j \in Procs
    BY DEF IInv, Tasks, Procs
  <2>2. cache'[j] # None => cache'[j].version >= job[j].floor
    BY <2>1 DEF IInv, TypeOK, JobHolds
  <2>3. task'[j].pc \in Reading => task'[j].snap.version >= job[j].floor
    BY <2>1 DEF IInv, TypeOK, JobHolds
  <2>4. ~job[j].alive => task'[j].pc = "idle"
    BY <2>1 DEF IInv, TypeOK, JobHolds
  <2> QED
    BY <2>1, <2>2, <2>3, <2>4 DEF JobHolds, Busy
<1> QED
  BY <1>1, <1>2, <1>3, <1>4, <1>5, <1>6 DEF IInv

\* What a task becomes with a snapshot in hand.
LEMMA LoadedMoves ==
  ASSUME IInv, NEW t \in Tasks, task[t].pc \in {"load", "store"}, NEW snap \in Snapshot, Loaded(t, snap),
         t \in Jobs => snap.version >= job[t].floor
  PROVE  \E new \in Task :
            /\ task' = [task EXCEPT ![t] = new]
            /\ new.pc # "idle" => new.ticker \in Tickers
            /\ new.pc \in Reading => new.snap \in Snapshot
            /\ new.pc # "write"
            /\ t \in Jobs => (job[t].alive \/ new.pc = "idle")
            /\ t \in Jobs /\ new.pc \in Reading => new.snap.version >= job[t].floor
<1> DEFINE steps == [task[t] EXCEPT !.pc = "steps", !.snap = snap]
           again == [task[t] EXCEPT !.pc = "load", !.why = "compute", !.snap = None]
<1>1. task[t] \in Task /\ TaskHolds(t) /\ (t \in Jobs => job[t].alive)
  BY DEF IInv, TypeOK, JobHolds
<1>2. steps \in Task /\ steps.pc = "steps" /\ steps.snap = snap /\ steps.ticker = task[t].ticker
  BY <1>1 DEF Task
<1>3. again \in Task /\ again.pc = "load" /\ again.ticker = task[t].ticker
  BY <1>1 DEF Task
<1>4. NoTask \in Task /\ NoTask.pc = "idle"
  BY NoTaskType
<1>5. task' = [task EXCEPT ![t] = steps] \/ task' = [task EXCEPT ![t] = again] \/ task' = [task EXCEPT ![t] = NoTask]
  BY DEF Loaded
<1>6. task[t].ticker \in Tickers
  BY <1>1 DEF TaskHolds
<1> HIDE DEF steps, again
<1> QED
  BY <1>1, <1>2, <1>3, <1>4, <1>5, <1>6 DEF Reading

\* Every step of a compute, one that fails included.
LEMMA ComputeKeeps ==
  ASSUME IInv, NEW t \in Tasks,
         \/ \E k \in Tickers : StartCompute(t, k) \/ View(t, k) \/ \E m \in Moats : SetTickerMoat(t, k, m)
         \/ Computes(t) \/ ComputeFails(t)
  PROVE  IInv'
<1> USE DEF settings
<1>t. /\ task[t] \in Task /\ TaskHolds(t) /\ Home(t) \in Procs
      /\ row \in [Tickers -> Row \cup {None}] /\ moat \in [Tickers -> Moats] /\ failures \in 0 .. MaxFailures
      /\ saved \in Snapshot /\ cache \in [Procs -> Snapshot \cup {None}] /\ narrow \in Narrows
  BY DEF IInv, TypeOK, Home, Procs
<1>j. t \in Jobs => JobHolds(t) /\ Home(t) = t /\ (task[t].pc # "idle" => job[t].alive)
  BY DEF IInv, Home, JobHolds
<1>v. t \notin Jobs => Home(t) \notin Jobs
  BY Bounds DEF Home
<1>1. ASSUME NEW k \in Tickers, NEW why \in {"judge", "compute"}, NEW seen \in {0} \cup Versions,
             Ready(t), Begins(t, k, why, seen), moat' \in [Tickers -> Moats],
             UNCHANGED <<saved, narrow, row, cache, job, saver, slot, failures>>
      PROVE  IInv'
  <2> DEFINE new == [NoTask EXCEPT !.pc = "load", !.why = why, !.ticker = k, !.seen = seen]
  <2>1. new \in Task /\ new.pc = "load" /\ new.ticker = k
    BY DEF NoTask, Task
  <2>2. task' = [task EXCEPT ![t] = new]
    BY <1>1 DEF Begins
  <2>3. t \in Jobs => job[t].alive
    BY <1>1 DEF Ready
  <2> HIDE DEF new
  <2> QED
    BY <1>1, <1>t, <2>1, <2>2, <2>3, TaskMoves DEF Reading
<1>2. CASE \E k \in Tickers : StartCompute(t, k)
  BY <1>1, <1>2, <1>t DEF StartCompute
<1>3. ASSUME NEW k \in Tickers, View(t, k) PROVE IInv'
  <2>1. row[k] # None => row[k].version \in Versions
    BY <1>t DEF Row
  <2> QED
    BY <1>1, <1>3, <1>t, <2>1 DEF View
<1>4. ASSUME NEW k \in Tickers, NEW m \in Moats, SetTickerMoat(t, k, m) PROVE IInv'
  <2>1. moat' \in [Tickers -> Moats]
    BY <1>4, <1>t DEF SetTickerMoat
  <2> QED
    BY <1>1, <1>4, <2>1 DEF SetTickerMoat
<1>5. CASE LoadCached(t)
  <2>1. cache[Home(t)] \in Snapshot /\ (t \in Jobs => cache[Home(t)].version >= job[t].floor)
    <3>1. cache[Home(t)] # None
      BY <1>5 DEF LoadCached
    <3> QED
      BY <3>1, <1>t, <1>j DEF JobHolds
  <2>2. Loaded(t, cache[Home(t)]) /\ task[t].pc \in {"load", "store"}
    BY <1>5 DEF LoadCached
  <2>3. UNCHANGED <<settings, row, cache, job, saver, slot, failures>>
    BY <1>5 DEF LoadCached
  <2> QED
    BY <1>t, <2>1, <2>2, <2>3, LoadedMoves, TaskMoves
<1>6. CASE LoadSaved(t)
  <2> DEFINE new == [task[t] EXCEPT !.pc = "store", !.snap = saved]
  <2>1. new \in Task /\ new.pc = "store" /\ new.snap = saved /\ new.ticker = task[t].ticker
    BY <1>t DEF Task
  <2>2. task' = [task EXCEPT ![t] = new] /\ UNCHANGED <<settings, row, cache, job, saver, slot, failures>>
    BY <1>6 DEF LoadSaved
  <2>3. task[t].ticker \in Tickers /\ (t \in Jobs => job[t].alive /\ saved.version >= job[t].floor)
    BY <1>6, <1>t, <1>j DEF LoadSaved, TaskHolds, JobHolds, TypeOK, IInv, Job, Snapshot, Versions
  <2> HIDE DEF new
  <2> QED
    BY <1>t, <2>1, <2>2, <2>3, TaskMoves
<1>7. CASE StoreLoaded(t)
  <2>1. task[t].snap \in Snapshot /\ (t \in Jobs => task[t].snap.version >= job[t].floor)
    BY <1>7, <1>t, <1>j DEF StoreLoaded, TaskHolds, JobHolds, Reading
  <2>2. Loaded(t, task[t].snap) /\ task[t].pc \in {"load", "store"} /\ cache' = [cache EXCEPT ![Home(t)] = task[t].snap]
    BY <1>7 DEF StoreLoaded
  <2>3. UNCHANGED <<settings, row, job, saver, slot, failures>>
    BY <1>7 DEF StoreLoaded
  <2>4. Home(t) \in Jobs => task[t].snap.version >= job[Home(t)].floor
    BY <2>1, <1>j, <1>v
  <2> QED
    BY <1>t, <2>1, <2>2, <2>3, <2>4, LoadedMoves, TaskMoves
<1>8. CASE ReadMultiplier(t)
  <2> DEFINE new == [task[t] EXCEPT !.pc = "write", !.narrow = narrow, !.moat = moat[task[t].ticker]]
  <2>1. task[t].ticker \in Tickers /\ task[t].snap \in Snapshot /\ (t \in Jobs => job[t].alive /\ task[t].snap.version >= job[t].floor)
    BY <1>8, <1>t, <1>j DEF ReadMultiplier, TaskHolds, JobHolds, Reading
  <2>2. moat[task[t].ticker] \in Moats
    BY <1>t, <2>1
  <2>3. /\ new \in Task /\ new.pc = "write" /\ new.snap = task[t].snap /\ new.ticker = task[t].ticker
        /\ new.narrow = narrow /\ new.moat = moat[task[t].ticker]
    BY <1>t, <2>2 DEF Task
  <2>4. task' = [task EXCEPT ![t] = new] /\ UNCHANGED <<settings, row, cache, job, saver, slot, failures>>
    BY <1>8 DEF ReadMultiplier
  <2> HIDE DEF new
  <2> QED
    BY <1>t, <2>1, <2>2, <2>3, <2>4, TaskMoves
<1>9. CASE Upsert(t)
  <2> DEFINE r == [weights |-> task[t].snap.weights, version |-> task[t].snap.version,
                   narrow |-> task[t].narrow, moat |-> task[t].moat]
  <2>1. r \in Row /\ task[t].ticker \in Tickers
    BY <1>9, <1>t DEF Upsert, TaskHolds, Reading, Snapshot, Row
  <2>2. row' = [row EXCEPT ![task[t].ticker] = r] /\ task' = [task EXCEPT ![t] = NoTask]
    BY <1>9 DEF Upsert
  <2>3. UNCHANGED <<settings, cache, job, saver, slot, failures>>
    BY <1>9 DEF Upsert
  <2> HIDE DEF r
  <2>4. row' \in [Tickers -> Row \cup {None}]
    BY <1>t, <2>1, <2>2
  <2> QED
    BY <1>t, <2>2, <2>3, <2>4, NoTaskType, TaskMoves DEF Reading
<1>10. CASE ComputeFails(t)
  <2>1. failures' \in 0 .. MaxFailures
    BY <1>10, <1>t, Bounds DEF ComputeFails
  <2> QED
    BY <1>10, <1>t, <2>1, NoTaskType, TaskMoves DEF ComputeFails, Reading
<1> QED
  BY <1>2, <1>3, <1>4, <1>5, <1>6, <1>7, <1>8, <1>9, <1>10 DEF Computes

-----------------------------------------------------------------------------
\* A save goes on, alone: it may change the weights row, the multiplier and the API's
\* snapshot.
LEMMA SaverMoves ==
  ASSUME IInv, NEW s \in Savers, Busy(s), NEW new \in Saver,
         saver' = [saver EXCEPT ![s] = new], new.pc # "free", new.run = saver[s].run,
         saved' \in Snapshot, saved.version <= saved'.version, saved'.version <= lastId + 1,
         new.pc = "narrow" => new.narrow \in Narrows,
         new.pc \in {"narrow", "read", "commit"} => saved'.version <= lastId,
         new.pc = "commit" => new.version = saved'.version + 1,
         new.pc \in {"drop", "launch"} => new.version \in 1 .. saved'.version,
         narrow' \in Narrows, cache' = cache \/ cache' = [cache EXCEPT ![Api] = None],
         UNCHANGED <<moat, row, task, job, slot, failures>>
  PROVE  IInv'
<1> USE DEF slot
<1>t. /\ saver \in [Savers -> Saver] /\ cache \in [Procs -> Snapshot \cup {None}] /\ saved \in Snapshot
      /\ job \in [Jobs -> Job]
  BY DEF IInv, TypeOK
<1>a. \A u \in Savers : u # s => saver'[u] = saver[u] /\ ~Busy(u)
  BY <1>t DEF IInv, OneSaver
<1>b. saver'[s] = new
  BY <1>t
<1>1. TypeOK'
  BY <1>t DEF IInv, TypeOK
<1>2. (saved.version <= lastId + 1)'
  OBVIOUS
<1>3. ASSUME NEW t \in Tasks PROVE TaskHolds(t)'
  BY DEF IInv, TaskHolds
<1>4. ASSUME NEW u \in Savers PROVE SaverHolds(u)'
  <2>1. SaverHolds(s)
    BY DEF IInv
  <2> QED
    BY <1>a, <1>b, <2>1 DEF SaverHolds, Busy
<1>5. OneSaver'
  BY <1>a DEF OneSaver, Busy
<1>6. ASSUME NEW j \in Jobs PROVE JobHolds(j)'
  <2>1. JobHolds(j) /\ j \in Procs /\ job[j].floor \in Nat
    BY <1>t DEF IInv, Procs, Job, Versions
  <2>2. \A u \in Savers : Busy(u)' => job[j].run # saver'[u].run
    BY <1>a, <1>b, <2>1 DEF JobHolds, Busy
  <2>3. cache'[j] # None => cache'[j].version >= job[j].floor
    BY <1>t, <2>1 DEF JobHolds
  <2>4. job[j].floor <= saved'.version
    BY <1>t, <2>1, Bounds DEF JobHolds, Snapshot, Versions
  <2> QED
    BY <2>1, <2>2, <2>3, <2>4 DEF JobHolds
<1> QED
  BY <1>1, <1>2, <1>3, <1>4, <1>5, <1>6 DEF IInv

LEMMA SaveKeeps ==
  ASSUME IInv, NEW s \in Savers, SaveNarrow(s) \/ ReadVersion(s) \/ CommitVersion(s) \/ DropCache(s)
  PROVE  IInv'
<1> USE DEF settings
<1>t. /\ saver[s] \in Saver /\ SaverHolds(s) /\ saved \in Snapshot /\ narrow \in Narrows /\ saved.version <= lastId + 1
      /\ lastId \in 0 .. MaxRuns /\ saved.version \in Nat /\ saved.version >= 1
  BY DEF IInv, TypeOK, Snapshot, Versions
<1>1. CASE SaveNarrow(s)
  <2> DEFINE new == [saver[s] EXCEPT !.pc = "read"]
  <2>1. new \in Saver /\ new.pc = "read" /\ new.run = saver[s].run
    BY <1>t DEF Saver
  <2>2. saver' = [saver EXCEPT ![s] = new] /\ saver[s].pc = "narrow" /\ narrow' = saver[s].narrow
        /\ UNCHANGED <<saved, moat, row, cache, task, job, slot, failures>>
    BY <1>1 DEF SaveNarrow, At
  <2> HIDE DEF new
  <2>3. Busy(s) /\ saved.version <= lastId /\ saver[s].narrow \in Narrows
    BY <1>t, <2>2 DEF SaverHolds, Busy
  <2>4. saved' \in Snapshot /\ saved.version <= saved'.version /\ saved'.version <= lastId + 1 /\ saved'.version <= lastId
    BY <1>t, <2>2, <2>3
  <2>5. narrow' \in Narrows
    BY <2>2, <2>3
  <2>6. new.pc # "free" /\ new.pc # "narrow" /\ new.pc # "commit" /\ new.pc \notin {"drop", "launch"}
    BY <2>1
  <2>7. (cache' = cache \/ cache' = [cache EXCEPT ![Api] = None]) /\ UNCHANGED <<moat, row, task, job, slot, failures>>
    BY <2>2
  <2> QED
    BY <2>1, <2>2, <2>3, <2>4, <2>5, <2>6, <2>7, SaverMoves
<1>2. CASE ReadVersion(s)
  <2> DEFINE new == [saver[s] EXCEPT !.pc = "commit", !.version = saved.version + 1]
  <2>1. saver[s].pc = "read" /\ saver' = [saver EXCEPT ![s] = new]
        /\ UNCHANGED <<settings, row, cache, task, job, slot, failures>>
    BY <1>2 DEF ReadVersion
  <2>2. saved.version + 1 \in Versions /\ saved.version <= lastId
    BY <1>t, <2>1, Bounds DEF SaverHolds, Versions
  <2>3. new \in Saver /\ new.pc = "commit" /\ new.run = saver[s].run /\ new.version = saved.version + 1
    BY <1>t, <2>2 DEF Saver
  <2> HIDE DEF new
  <2>4. Busy(s)
    BY <2>1 DEF Busy
  <2>5. saved' \in Snapshot /\ saved.version <= saved'.version /\ saved'.version <= lastId + 1 /\ saved'.version <= lastId
    BY <1>t, <2>1, <2>2
  <2>6. new.pc # "free" /\ new.pc # "narrow" /\ new.pc \notin {"drop", "launch"} /\ new.version = saved'.version + 1
    BY <2>1, <2>3
  <2>7. (cache' = cache \/ cache' = [cache EXCEPT ![Api] = None]) /\ narrow' \in Narrows
        /\ UNCHANGED <<moat, row, task, job, slot, failures>>
    BY <1>t, <2>1
  <2> QED
    BY <2>1, <2>3, <2>4, <2>5, <2>6, <2>7, SaverMoves
<1>3. CASE CommitVersion(s)
  <2> DEFINE new == [saver[s] EXCEPT !.pc = "drop"]
  <2>1. new \in Saver /\ new.pc = "drop" /\ new.run = saver[s].run /\ new.version = saver[s].version
    BY <1>t DEF Saver
  <2>2. saver[s].pc = "commit" /\ saver' = [saver EXCEPT ![s] = new]
        /\ UNCHANGED <<narrow, moat, row, cache, task, job, slot, failures>>
    BY <1>3 DEF CommitVersion, At
  <2>3. saver[s].version = saved.version + 1 /\ saved.version <= lastId
    BY <1>t, <2>2 DEF SaverHolds
  <2>4. saver[s].version \in Versions
    BY <1>t, <2>3, Bounds DEF Versions
  <2>5. saved' \in Snapshot /\ saved'.version = saver[s].version
    BY <1>3, <1>t, <2>4 DEF CommitVersion, Snapshot, Saver
  <2> HIDE DEF new
  <2>6. Busy(s)
    BY <2>2 DEF Busy
  <2>7. saved.version <= saved'.version /\ saved'.version <= lastId + 1 /\ new.version \in 1 .. saved'.version
    BY <1>t, <2>1, <2>3, <2>5
  <2>8. new.pc # "free" /\ new.pc \notin {"narrow", "read", "commit"}
    BY <2>1
  <2>9. (cache' = cache \/ cache' = [cache EXCEPT ![Api] = None]) /\ narrow' \in Narrows
        /\ UNCHANGED <<moat, row, task, job, slot, failures>>
    BY <1>t, <2>2
  <2> QED
    BY <2>1, <2>2, <2>5, <2>6, <2>7, <2>8, <2>9, SaverMoves
<1>4. CASE DropCache(s)
  <2> DEFINE new == [saver[s] EXCEPT !.pc = "launch"]
  <2>1. new \in Saver /\ new.pc = "launch" /\ new.run = saver[s].run /\ new.version = saver[s].version
    BY <1>t DEF Saver
  <2>2. saver[s].pc = "drop" /\ saver' = [saver EXCEPT ![s] = new] /\ cache' = [cache EXCEPT ![Api] = None]
        /\ UNCHANGED <<settings, row, task, job, slot, failures>>
    BY <1>4 DEF DropCache, At
  <2> HIDE DEF new
  <2>3. Busy(s) /\ saver[s].version \in 1 .. saved.version
    BY <1>t, <2>2 DEF SaverHolds, Busy
  <2>4. saved' \in Snapshot /\ saved.version <= saved'.version /\ saved'.version <= lastId + 1 /\ new.version \in 1 .. saved'.version
    BY <1>t, <2>1, <2>2, <2>3
  <2>5. new.pc # "free" /\ new.pc \notin {"narrow", "read", "commit"}
    BY <2>1
  <2>6. (cache' = cache \/ cache' = [cache EXCEPT ![Api] = None]) /\ narrow' \in Narrows
        /\ UNCHANGED <<moat, row, task, job, slot, failures>>
    BY <1>t, <2>2
  <2> QED
    BY <2>1, <2>2, <2>3, <2>4, <2>5, <2>6, SaverMoves
<1> QED
  BY <1>1, <1>2, <1>3, <1>4

\* A claim finds no run in the slot, so no save under way.
LEMMA ClaimMoves ==
  ASSUME IInv, NEW s \in Savers, Slot!Claim, NEW new \in Saver,
         saver' = [saver EXCEPT ![s] = new], new.run = lastId',
         new.pc \in {"read", "narrow"}, new.pc = "narrow" => new.narrow \in Narrows,
         UNCHANGED <<saved, narrow, moat, row, cache, task, job, failures>>
  PROVE  IInv'
<1>t. saver \in [Savers -> Saver]
  BY DEF IInv, TypeOK
<1>n. lastId \in 0 .. MaxRuns /\ MaxRuns \in Nat /\ saved.version \in Nat /\ saved.version <= lastId + 1
  BY Bounds DEF IInv, TypeOK, Snapshot, Versions
<1>m. state \in [1 .. MaxRuns -> {"none", "running", "done", "failed"}]
  BY DEF IInv, TypeOK
<1>2. /\ lastId' = lastId + 1 /\ lastId' \in 1 .. MaxRuns
      /\ state' = [state EXCEPT ![lastId + 1] = "running"] /\ \A r \in 1 .. MaxRuns : state[r] # "running"
  <2>1. lastId < MaxRuns /\ lastId' = lastId + 1 /\ state' = [state EXCEPT ![lastId + 1] = "running"]
    BY DEF Slot!Claim
  <2>2. \A r \in 1 .. MaxRuns : state[r] # "running"
    BY DEF Slot!Claim, Slot!RunIds
  <2> QED
    BY <2>1, <2>2, <1>n
<1>5. \A u \in Savers : ~Busy(u)
  <2> SUFFICES ASSUME NEW u \in Savers, Busy(u) PROVE FALSE
    OBVIOUS
  <2>1. saver[u].run \in 1 .. lastId /\ state[saver[u].run] = "running"
    BY DEF IInv, SaverHolds
  <2> QED
    BY <2>1, <1>2, <1>n
<1>6. \A u \in Savers : u # s => saver'[u] = saver[u] /\ saver[u].pc = "free"
  BY <1>5, <1>t DEF Busy
<1>7. saver'[s] = new
  BY <1>t
<1>8. TypeOK'
  <2>1. saver' \in [Savers -> Saver]
    BY <1>t
  <2>2. state' \in [1 .. MaxRuns -> {"none", "running", "done", "failed"}] /\ lastId' \in 0 .. MaxRuns
    BY <1>2, <1>n, <1>m
  <2> QED
    BY <2>1, <2>2 DEF IInv, TypeOK
<1>9. ASSUME NEW t \in Tasks PROVE TaskHolds(t)'
  BY DEF IInv, TaskHolds
<1>10. ASSUME NEW u \in Savers PROVE SaverHolds(u)'
  BY <1>2, <1>6, <1>7, <1>n, <1>m DEF SaverHolds, Busy
<1>11. OneSaver'
  BY <1>6 DEF OneSaver, Busy
<1>12. ASSUME NEW j \in Jobs PROVE JobHolds(j)'
  <2>1. JobHolds(j) /\ job[j].run \in Nat
    BY Bounds DEF IInv, TypeOK, Job
  <2>2. \A u \in Savers : Busy(u)' => saver'[u].run = lastId + 1
    BY <1>2, <1>6, <1>7 DEF Busy
  <2>3. job[j].run <= lastId /\ job[j].run # lastId + 1
    BY <1>n, <2>1 DEF JobHolds
  <2> QED
    BY <1>2, <1>n, <2>1, <2>2, <2>3 DEF JobHolds
<1>13. (saved.version <= lastId + 1)'
  BY <1>2, <1>n
<1> QED
  BY <1>8, <1>9, <1>10, <1>11, <1>12, <1>13 DEF IInv

LEMMA ClaimKeeps ==
  ASSUME IInv, NEW s \in Savers,
         (\E w \in WeightSets : ClaimForWeights(s, w)) \/ (\E n \in Narrows : ClaimForNarrow(s, n))
  PROVE  IInv'
<1>r. Slot!Claim => lastId' \in 0 .. MaxRuns
  BY Bounds DEF IInv, TypeOK, Slot!Claim
<1>1. ASSUME NEW w \in WeightSets, ClaimForWeights(s, w) PROVE IInv'
  <2> DEFINE new == [Free EXCEPT !.pc = "read", !.run = lastId', !.weights = w]
  <2>1. Slot!Claim /\ saver' = [saver EXCEPT ![s] = new] /\ UNCHANGED <<settings, row, cache, task, job, failures>>
    BY <1>1 DEF ClaimForWeights
  <2>2. new \in Saver /\ new.pc = "read" /\ new.run = lastId'
    BY <1>r, <2>1, FreeType DEF Saver
  <2> HIDE DEF new
  <2> QED
    BY <2>1, <2>2, ClaimMoves DEF settings
<1>2. ASSUME NEW n \in Narrows, ClaimForNarrow(s, n) PROVE IInv'
  <2> DEFINE new == [Free EXCEPT !.pc = "narrow", !.run = lastId', !.narrow = n]
  <2>1. Slot!Claim /\ saver' = [saver EXCEPT ![s] = new] /\ UNCHANGED <<settings, row, cache, task, job, failures>>
    BY <1>2 DEF ClaimForNarrow
  <2>2. new \in Saver /\ new.pc = "narrow" /\ new.run = lastId' /\ new.narrow = n
    BY <1>r, <2>1, FreeType DEF Saver
  <2> HIDE DEF new
  <2> QED
    BY <2>1, <2>2, ClaimMoves DEF settings
<1> QED
  BY <1>1, <1>2

-----------------------------------------------------------------------------
\* The other steps.  A run that ends is one no save holds any more.
LEMMA EndRunKeeps ==
  ASSUME IInv, NEW r, EndRun(r)
  PROVE  /\ state' \in [1 .. MaxRuns -> {"none", "running", "done", "failed"}] /\ lastId' = lastId
         /\ \A i \in 1 .. MaxRuns : i # r => state'[i] = state[i]
  BY DEF IInv, TypeOK, EndRun

LEMMA HeldRunStays ==
  ASSUME IInv, NEW r, EndRun(r), NEW s \in Savers, Busy(s), saver[s].run # r
  PROVE  saver[s].run \in 1 .. lastId' /\ state'[saver[s].run] = "running"
<1>1. saver[s].run \in 1 .. lastId /\ state[saver[s].run] = "running" /\ lastId \in 0 .. MaxRuns
  BY DEF IInv, TypeOK, SaverHolds
<1>2. saver[s].run \in 1 .. MaxRuns
  BY <1>1, Bounds
<1> QED
  BY <1>1, <1>2, EndRunKeeps

\* A save is given up: its run ends and it is free.
LEMMA GiveUpKeeps == ASSUME IInv, NEW s \in Savers, SaveFails(s) \/ LaunchFails(s) PROVE IInv'
<1> USE DEF settings
<1>1. /\ EndRun(saver[s].run) /\ saver' = [saver EXCEPT ![s] = Free] /\ failures < MaxFailures /\ failures' = failures + 1
      /\ UNCHANGED <<saved, narrow, moat, row, cache, task, job>>
  BY DEF SaveFails, LaunchFails
<1>2. Busy(s)
  BY DEF SaveFails, LaunchFails, Busy
<1>t. saver \in [Savers -> Saver] /\ failures \in 0 .. MaxFailures
  BY DEF IInv, TypeOK
<1>3. \A u \in Savers : ~Busy(u)'
  <2>1. saver'[s].pc = "free"
    BY <1>1, <1>t, FreeType
  <2>2. \A u \in Savers \ {s} : saver'[u] = saver[u] /\ saver[u].pc = "free"
    BY <1>1, <1>2, <1>t DEF IInv, OneSaver, Busy
  <2> QED
    BY <2>1, <2>2 DEF Busy
<1>4. TypeOK'
  <2>1. saver' \in [Savers -> Saver]
    BY <1>1, <1>t, FreeType
  <2>2. failures' \in 0 .. MaxFailures
    BY <1>1, <1>t, Bounds
  <2> QED
    BY <1>1, <2>1, <2>2, EndRunKeeps DEF IInv, TypeOK
<1>5. lastId' = lastId
  BY <1>1, EndRunKeeps
<1>6. ASSUME NEW u \in Savers PROVE SaverHolds(u)'
  BY <1>3 DEF SaverHolds, Busy
<1>7. ASSUME NEW t \in Tasks PROVE TaskHolds(t)'
  BY <1>1 DEF IInv, TaskHolds
<1>8. ASSUME NEW j \in Jobs PROVE JobHolds(j)'
  <2>1. JobHolds(j)
    BY DEF IInv
  <2> QED
    BY <1>1, <1>3, <1>5, <2>1 DEF JobHolds
<1>9. OneSaver' /\ (saved.version <= lastId + 1)'
  BY <1>1, <1>3, <1>5 DEF IInv, OneSaver
<1> QED
  BY <1>4, <1>6, <1>7, <1>8, <1>9 DEF IInv

\* A job starts: for a save that is done with, or for cron.
LEMMA StartKeeps ==
  ASSUME IInv, NEW j \in Jobs,
         CronStarts(j) \/ \E s \in Savers : Launch(s, j)
  PROVE  IInv'
<1> USE DEF settings, slot
<1>t. /\ job \in [Jobs -> Job] /\ cache \in [Procs -> Snapshot \cup {None}] /\ saver \in [Savers -> Saver]
      /\ j \in Procs
  BY DEF IInv, TypeOK, Procs
<1>n. saved.version \in Versions /\ lastId \in 0 .. MaxRuns /\ MaxRuns \in Nat
  BY Bounds DEF IInv, TypeOK, Snapshot
<1>1. ASSUME NEW run \in 0 .. MaxRuns, NEW floor \in {0} \cup Versions, Start(j, run, floor),
             saver' \in [Savers -> Saver],
             \A u \in Savers : Busy(u)' => saver'[u] = saver[u] /\ Busy(u) /\ saver[u].run # run,
             run <= lastId, floor <= saved.version,
             UNCHANGED <<saved, narrow, moat, row, task, slot, failures>>
      PROVE  IInv'
  <2> DEFINE new == [alive |-> TRUE, run |-> run, floor |-> floor]
  <2>1. new \in Job /\ new.alive /\ new.run = run /\ new.floor = floor
    BY DEF Job
  <2>2. job' = [job EXCEPT ![j] = new] /\ cache' = [cache EXCEPT ![j] = None] /\ ~job[j].alive
    BY <1>1 DEF Start
  <2> HIDE DEF new
  <2>3. TypeOK'
    <3>1. job' \in [Jobs -> Job]
      BY <1>t, <2>1, <2>2
    <3>2. cache' \in [Procs -> Snapshot \cup {None}]
      BY <1>t, <2>2
    <3> QED
      BY <1>1, <3>1, <3>2 DEF IInv, TypeOK
  <2>4. ASSUME NEW t \in Tasks PROVE TaskHolds(t)'
    BY <1>1 DEF IInv, TaskHolds
  <2>5. ASSUME NEW u \in Savers PROVE SaverHolds(u)'
    <3>1. SaverHolds(u)
      BY DEF IInv
    <3>2. CASE Busy(u)'
      BY <1>1, <3>1, <3>2 DEF SaverHolds, Busy
    <3>3. CASE ~Busy(u)'
      BY <3>3 DEF SaverHolds, Busy
    <3> QED
      BY <3>2, <3>3
  <2>6. OneSaver'
    BY <1>1 DEF IInv, OneSaver
  <2>7. ASSUME NEW i \in Jobs PROVE JobHolds(i)'
    <3>1. JobHolds(i) /\ JobHolds(j) /\ i \in Procs
      BY DEF IInv, Procs
    <3>2. CASE i = j
      <4>1. job'[j] = new /\ cache'[j] = None /\ task'[j].pc = "idle"
        BY <1>1, <1>t, <2>2, <3>1 DEF JobHolds
      <4> QED
        BY <1>1, <2>1, <3>2, <4>1 DEF JobHolds, Reading
    <3>3. CASE i # j
      <4>1. job'[i] = job[i] /\ cache'[i] = cache[i]
        BY <1>t, <2>2, <3>1, <3>3
      <4> QED
        BY <1>1, <3>1, <4>1 DEF JobHolds
    <3> QED
      BY <3>2, <3>3
  <2> QED
    BY <1>1, <2>3, <2>4, <2>5, <2>6, <2>7 DEF IInv
<1>2. CASE CronStarts(j)
  <2>1. \A u \in Savers : Busy(u) => saver[u].run # 0
    BY DEF IInv, SaverHolds
  <2>2. Start(j, 0, 0) /\ UNCHANGED <<settings, row, task, saver, slot, failures>>
    BY <1>2 DEF CronStarts
  <2>3. 0 \in 0 .. MaxRuns /\ 0 <= lastId /\ 0 <= saved.version
    BY <1>n DEF Versions
  <2>4. \A u \in Savers : Busy(u)' => saver'[u] = saver[u] /\ Busy(u) /\ saver[u].run # 0
    BY <2>1, <2>2 DEF Busy
  <2> QED
    BY <1>1, <1>t, <2>2, <2>3, <2>4
<1>3. ASSUME NEW s \in Savers, Launch(s, j) PROVE IInv'
  <2>1. /\ saver[s].pc = "launch" /\ Start(j, saver[s].run, saver[s].version)
        /\ saver' = [saver EXCEPT ![s] = Free] /\ UNCHANGED <<settings, row, task, slot, failures>>
    BY <1>3 DEF Launch
  <2>2. saver[s].run \in 1 .. lastId /\ saver[s].version \in 1 .. saved.version
    BY <2>1 DEF IInv, SaverHolds, Busy
  <2>3. /\ saver[s].run \in 0 .. MaxRuns /\ saver[s].run <= lastId
        /\ saver[s].version \in {0} \cup Versions /\ saver[s].version <= saved.version
    BY <1>n, <2>2 DEF Versions
  <2>4. saver' \in [Savers -> Saver]
    BY <1>t, <2>1, FreeType
  <2>5. \A u \in Savers : u # s => saver'[u] = saver[u] /\ ~Busy(u)
    BY <1>t, <2>1 DEF IInv, OneSaver, Busy
  <2>6. ~Busy(s)'
    BY <1>t, <2>1, FreeType DEF Busy
  <2>7. \A u \in Savers : ~Busy(u)'
    BY <2>5, <2>6 DEF Busy
  <2> QED
    BY <1>1, <2>1, <2>3, <2>4, <2>7
<1> QED
  BY <1>2, <1>3

\* What the environment does: a snapshot expires, a job ends, the reaper, a restart.
LEMMA WorldKeeps ==
  ASSUME IInv,
         \/ \E p \in Procs : Expires(p)
         \/ \E j \in Jobs : JobEnds(j)
         \/ \E r \in 1 .. MaxRuns : Reap(r)
         \/ ApiRestarts
  PROVE  IInv'
<1> USE DEF settings
<1>t. /\ job \in [Jobs -> Job] /\ cache \in [Procs -> Snapshot \cup {None}] /\ saver \in [Savers -> Saver]
      /\ task \in [Tasks -> Task] /\ failures \in 0 .. MaxFailures /\ Jobs \subseteq Procs /\ Jobs \subseteq Tasks /\ Api \in Procs
  BY DEF IInv, TypeOK, Procs, Tasks
<1>1. ASSUME NEW p \in Procs, Expires(p) PROVE IInv'
  <2>1. cache' = [cache EXCEPT ![p] = None] /\ UNCHANGED <<settings, row, task, job, saver, slot, failures>>
    BY <1>1 DEF Expires
  <2>2. TypeOK'
    BY <1>t, <2>1 DEF IInv, TypeOK, slot
  <2>3. ASSUME NEW j \in Jobs PROVE JobHolds(j)'
    <3>1. JobHolds(j)
      BY DEF IInv
    <3>2. cache'[j] # None => cache'[j] = cache[j] /\ cache[j] # None
      BY <1>t, <2>1
    <3> QED
      BY <2>1, <3>1, <3>2 DEF JobHolds, Busy, slot
  <2> QED
    BY <2>1, <2>2, <2>3 DEF IInv, TaskHolds, SaverHolds, OneSaver, Busy, slot
<1>2. ASSUME NEW j \in Jobs, JobEnds(j) PROVE IInv'
  <2>1. /\ job' = [job EXCEPT ![j] = NoJob] /\ task' = [task EXCEPT ![j] = NoTask] /\ cache' = [cache EXCEPT ![j] = None]
        /\ EndRun(job[j].run) /\ UNCHANGED <<settings, row, saver, failures>>
    BY <1>2 DEF JobEnds
  <2>2. lastId' = lastId
    BY <2>1, EndRunKeeps
  <2>3. TypeOK'
    <3>1. job' \in [Jobs -> Job] /\ task' \in [Tasks -> Task] /\ cache' \in [Procs -> Snapshot \cup {None}]
      BY <1>t, <2>1, NoJobType, NoTaskType
    <3> QED
      BY <2>1, <3>1, EndRunKeeps DEF IInv, TypeOK
  <2>4. ASSUME NEW t \in Tasks PROVE TaskHolds(t)'
    <3>1. task'[t] = task[t] \/ task'[t] = NoTask
      BY <1>t, <2>1
    <3> QED
      BY <3>1, NoTaskType DEF IInv, TaskHolds, Reading
  <2>5. ASSUME NEW u \in Savers PROVE SaverHolds(u)'
    <3>1. SaverHolds(u) /\ (Busy(u) => job[j].run # saver[u].run)
      BY DEF IInv, JobHolds
    <3>2. Busy(u) => saver[u].run \in 1 .. lastId' /\ state'[saver[u].run] = "running"
      BY <2>1, <3>1, HeldRunStays
    <3> QED
      BY <2>1, <2>2, <3>1, <3>2 DEF SaverHolds, Busy
  <2>6. ASSUME NEW i \in Jobs PROVE JobHolds(i)'
    <3>1. JobHolds(i) /\ i \in Procs /\ i \in Tasks /\ saved.version \in Nat /\ lastId \in Nat
      BY <1>t, Bounds DEF IInv, TypeOK, Snapshot, Versions
    <3>2. \A u \in Savers : Busy(u) => saver[u].run # 0
      BY DEF IInv, SaverHolds
    <3>3. CASE i = j
      <4>1. job'[i] = NoJob /\ task'[i] = NoTask /\ cache'[i] = None
        BY <1>t, <2>1, <3>1, <3>3
      <4> QED
        BY <2>1, <2>2, <3>1, <3>2, <4>1, NoJobType, NoTaskType DEF JobHolds, Reading, Busy
    <3>4. CASE i # j
      <4>1. job'[i] = job[i] /\ task'[i] = task[i] /\ cache'[i] = cache[i]
        BY <1>t, <2>1, <3>1, <3>4
      <4> QED
        BY <2>1, <2>2, <3>1, <4>1 DEF JobHolds, Busy
    <3> QED
      BY <3>3, <3>4
  <2> QED
    BY <2>1, <2>2, <2>3, <2>4, <2>5, <2>6 DEF IInv, OneSaver, Busy
<1>3. ASSUME NEW r \in 1 .. MaxRuns, Reap(r) PROVE IInv'
  <2>1. EndRun(r) /\ (\A s \in Savers : saver[s].run # r) /\ UNCHANGED <<settings, row, cache, task, job, saver, failures>>
    BY <1>3 DEF Reap
  <2>2. lastId' = lastId /\ TypeOK'
    BY <2>1, EndRunKeeps DEF IInv, TypeOK
  <2>3. ASSUME NEW u \in Savers PROVE SaverHolds(u)'
    <3>1. Busy(u) => saver[u].run \in 1 .. lastId' /\ state'[saver[u].run] = "running"
      BY <2>1, HeldRunStays
    <3> QED
      BY <2>1, <2>2, <3>1 DEF IInv, SaverHolds, Busy
  <2> QED
    BY <2>1, <2>2, <2>3 DEF IInv, TaskHolds, JobHolds, OneSaver, Busy
<1>4. CASE ApiRestarts
  <2>1. /\ saver' = [s \in Savers |-> Free] /\ task' = [t \in Tasks |-> IF t \in Views THEN NoTask ELSE task[t]]
        /\ cache' = [cache EXCEPT ![Api] = None] /\ failures < MaxFailures /\ failures' = failures + 1
        /\ UNCHANGED <<settings, row, job, slot>>
    BY <1>4 DEF ApiRestarts
  <2>2. \A s \in Savers : ~Busy(s)'
    BY <2>1, FreeType DEF Busy
  <2>3. TypeOK'
    <3>1. saver' \in [Savers -> Saver] /\ task' \in [Tasks -> Task] /\ cache' \in [Procs -> Snapshot \cup {None}]
      BY <1>t, <2>1, FreeType, NoTaskType
    <3>2. failures' \in 0 .. MaxFailures
      BY <1>t, <2>1, Bounds
    <3> QED
      BY <2>1, <3>1, <3>2 DEF IInv, TypeOK, slot
  <2>4. ASSUME NEW t \in Tasks PROVE TaskHolds(t)'
    <3>1. task'[t] = task[t] \/ task'[t] = NoTask
      BY <2>1
    <3> QED
      BY <3>1, NoTaskType DEF IInv, TaskHolds, Reading
  <2>5. ASSUME NEW j \in Jobs PROVE JobHolds(j)'
    <3>1. JobHolds(j) /\ j \notin Views /\ j # Api /\ j \in Tasks /\ j \in Procs
      BY <1>t, Bounds DEF IInv
    <3>2. task'[j] = task[j] /\ cache'[j] = cache[j]
      BY <1>t, <2>1, <3>1
    <3> QED
      BY <2>1, <2>2, <3>1, <3>2 DEF JobHolds, slot
  <2>6. ASSUME NEW s \in Savers PROVE SaverHolds(s)'
    BY <2>2 DEF SaverHolds, Busy
  <2> QED
    BY <2>1, <2>2, <2>3, <2>4, <2>5, <2>6 DEF IInv, OneSaver, slot
<1> QED
  BY <1>1, <1>2, <1>3, <1>4

LEMMA NextKeeps == IInv /\ [Next]_vars => IInv'
<1> SUFFICES ASSUME IInv, [Next]_vars PROVE IInv'
  OBVIOUS
<1>1. CASE UNCHANGED vars
  BY <1>1 DEF vars, settings, slot, IInv, TypeOK, TaskHolds, SaverHolds, JobHolds, OneSaver, Busy
<1>2. ASSUME NEW t \in Views, NEW k \in Tickers, View(t, k) \/ \E m \in Moats : SetTickerMoat(t, k, m) PROVE IInv'
  BY <1>2, ComputeKeeps DEF Tasks
<1>3. ASSUME NEW t \in Tasks, (\E k \in Tickers : StartCompute(t, k)) \/ Computes(t) \/ ComputeFails(t) PROVE IInv'
  BY <1>3, ComputeKeeps
<1>4. ASSUME NEW s \in Savers, (\E w \in WeightSets : ClaimForWeights(s, w)) \/ (\E n \in Narrows : ClaimForNarrow(s, n)) PROVE IInv'
  BY <1>4, ClaimKeeps
<1>5. ASSUME NEW s \in Savers, Saves(s) \/ SaveFails(s) \/ LaunchFails(s) PROVE IInv'
  BY <1>5, SaveKeeps, GiveUpKeeps, StartKeeps DEF Saves
<1>6. ASSUME NEW j \in Jobs, CronStarts(j) PROVE IInv'
  BY <1>6, StartKeeps
<1>7. ASSUME (\E p \in Procs : Expires(p)) \/ (\E j \in Jobs : JobEnds(j)) \/ (\E r \in 1 .. MaxRuns : Reap(r)) \/ ApiRestarts
      PROVE  IInv'
  BY <1>7, WorldKeeps
<1> QED
  BY <1>1, <1>2, <1>3, <1>4, <1>5, <1>6, <1>7 DEF Next

LEMMA Inductive == Spec => []IInv
  BY InitHolds, NextKeeps, PTL DEF Spec

\* Every variable keeps its type, whatever is saved, computed, failed or restarted.
THEOREM TypeCorrect == Spec => []TypeOK
<1>1. IInv => TypeOK
  BY DEF IInv
<1> QED
  BY <1>1, Inductive, PTL

\* "then save, then start the job so it reads the new values" (main.py:563): no compute of
\* a run's worker uses weights older than the ones saved for that run.
THEOREM WorkersUseTheSave == Spec => []RecomputeUsesTheSave
<1>1. IInv => RecomputeUsesTheSave
  BY DEF IInv, JobHolds, RecomputeUsesTheSave, Reading
<1> QED
  BY <1>1, Inductive, PTL

-----------------------------------------------------------------------------
(***************************************************************************)
(* The stamp.  A snapshot, a compute and a row are never newer than the    *)
(* weights row and have its weights at its version; what was read of the   *)
(* multiplier at that version is the multiplier, unless a save has         *)
(* committed it and not yet the version.  A save that fails in between     *)
(* breaks this, so it is proved for MaxFailures = 0.                       *)
(***************************************************************************)

Fits(x) == x.version <= saved.version /\ (x.version = saved.version => x.weights = saved.weights)
Current(x, n) == x.version = saved.version /\ ~Bumping => n = narrow

Honest ==
    /\ \A p \in Procs : cache[p] # None => Fits(cache[p])
    /\ \A t \in Tasks : task[t].pc \in Reading => Fits(task[t].snap)
    /\ \A t \in Tasks : task[t].pc = "write" => Current(task[t].snap, task[t].narrow)
    /\ \A k \in Tickers : row[k] # None => Fits(row[k]) /\ Current(row[k], row[k].narrow)

LEMMA InitHonest == Init => Honest
  BY NoTaskType DEF Init, Honest, Reading

\* Nothing was saved and no save given up: what fitted before still does.
LEMMA StillHonest ==
  ASSUME UNCHANGED <<saved, narrow>>, Bumping => Bumping',
         \A p \in Procs : cache'[p] # None => Fits(cache'[p]),
         \A t \in Tasks : task'[t].pc \in Reading => Fits(task'[t].snap),
         \A t \in Tasks : task'[t].pc = "write" => Current(task'[t].snap, task'[t].narrow),
         \A k \in Tickers : row'[k] # None => Fits(row'[k]) /\ Current(row'[k], row'[k].narrow)
  PROVE  Honest'
<1>1. (\A p \in Procs : cache[p] # None => Fits(cache[p]))'
  BY DEF Fits
<1>2. (\A t \in Tasks : task[t].pc \in Reading => Fits(task[t].snap))'
  BY DEF Fits, Reading
<1>3. (\A t \in Tasks : task[t].pc = "write" => Current(task[t].snap, task[t].narrow))'
  BY DEF Current
<1>4. (\A k \in Tickers : row[k] # None => Fits(row[k]) /\ Current(row[k], row[k].narrow))'
  BY DEF Fits, Current
<1> QED
  BY <1>1, <1>2, <1>3, <1>4 DEF Honest

\* The steps of a compute.
LEMMA ComputeHonest ==
  ASSUME IInv, Honest, NEW t \in Tasks,
         \/ \E k \in Tickers : StartCompute(t, k) \/ View(t, k) \/ \E m \in Moats : SetTickerMoat(t, k, m)
         \/ Computes(t) \/ ComputeFails(t)
  PROVE  Honest'
<1> USE DEF settings
<1>t. /\ task \in [Tasks -> Task] /\ cache \in [Procs -> Snapshot \cup {None}] /\ saved \in Snapshot
      /\ row \in [Tickers -> Row \cup {None}] /\ Home(t) \in Procs
  BY DEF IInv, TypeOK, Home, Procs
<1>s. UNCHANGED <<saved, narrow, saver>>
  BY DEF StartCompute, View, SetTickerMoat, Computes, LoadCached, LoadSaved, StoreLoaded, ReadMultiplier, Upsert, ComputeFails
<1>b. Bumping' = Bumping
  BY <1>s DEF Bumping
<1>1. ASSUME NEW new \in Task, task' = [task EXCEPT ![t] = new],
             new.pc \in Reading => Fits(new.snap), new.pc = "write" => Current(new.snap, new.narrow),
             \A p \in Procs : cache'[p] = cache[p] \/ cache'[p] = None \/ Fits(cache'[p]),
             \A k \in Tickers : row'[k] = row[k] \/ (Fits(row'[k]) /\ Current(row'[k], row'[k].narrow))
      PROVE  Honest'
  <2>1. ASSUME NEW p \in Procs, cache'[p] # None PROVE Fits(cache'[p])
    BY <1>1, <2>1 DEF Honest
  <2>t. \A u \in Tasks : task'[u] = new \/ task'[u] = task[u]
    BY <1>t, <1>1
  <2>2. ASSUME NEW u \in Tasks, task'[u].pc \in Reading PROVE Fits(task'[u].snap)
    BY <1>1, <2>t, <2>2 DEF Honest
  <2>4. ASSUME NEW u \in Tasks, task'[u].pc = "write" PROVE Current(task'[u].snap, task'[u].narrow)
    BY <1>1, <2>t, <2>4 DEF Honest
  <2>3. ASSUME NEW k \in Tickers, row'[k] # None PROVE Fits(row'[k]) /\ Current(row'[k], row'[k].narrow)
    BY <1>1, <2>3 DEF Honest
  <2> QED
    BY <1>s, <1>b, <2>1, <2>2, <2>3, <2>4, StillHonest
<1>l. ASSUME NEW snap \in Snapshot, Fits(snap), Loaded(t, snap), task[t].pc # "idle", row' = row,
             \A p \in Procs : cache'[p] = cache[p] \/ Fits(cache'[p])
      PROVE  Honest'
  <2> DEFINE steps == [task[t] EXCEPT !.pc = "steps", !.snap = snap]
             again == [task[t] EXCEPT !.pc = "load", !.why = "compute", !.snap = None]
  <2>1. steps \in Task /\ steps.pc = "steps" /\ steps.snap = snap /\ again \in Task /\ again.pc = "load"
    BY <1>t DEF Task
  <2>2. task' = [task EXCEPT ![t] = steps] \/ task' = [task EXCEPT ![t] = again] \/ task' = [task EXCEPT ![t] = NoTask]
    BY <1>l DEF Loaded
  <2> HIDE DEF steps, again
  <2>3. "steps" # "write"
    OBVIOUS
  <2> QED
    BY <1>1, <1>l, <2>1, <2>2, NoTaskType DEF Reading
<1>2. ASSUME NEW k \in Tickers, NEW why, NEW seen \in {0} \cup Versions, why \in {"judge", "compute"}, Begins(t, k, why, seen),
             row' = row, cache' = cache
      PROVE  Honest'
  <2> DEFINE new == [NoTask EXCEPT !.pc = "load", !.why = why, !.ticker = k, !.seen = seen]
  <2>1. new \in Task /\ new.pc = "load"
    BY <1>2 DEF NoTask, Task
  <2>2. task' = [task EXCEPT ![t] = new]
    BY <1>2 DEF Begins
  <2> HIDE DEF new
  <2> QED
    BY <1>1, <1>2, <2>1, <2>2 DEF Reading
<1>3. ASSUME NEW k \in Tickers, StartCompute(t, k) \/ View(t, k) \/ \E m \in Moats : SetTickerMoat(t, k, m) PROVE Honest'
  <2>1. row[k] # None => row[k].version \in Versions
    BY <1>t DEF Row
  <2>2. (Begins(t, k, "compute", 0) \/ (row[k] # None /\ Begins(t, k, "judge", row[k].version))) /\ row' = row /\ cache' = cache
    BY <1>3 DEF StartCompute, View, SetTickerMoat
  <2> QED
    BY <1>2, <2>1, <2>2
<1>4. CASE LoadCached(t)
  <2>1. cache[Home(t)] # None /\ Loaded(t, cache[Home(t)]) /\ task[t].pc # "idle" /\ cache' = cache /\ row' = row
    BY <1>4 DEF LoadCached
  <2>2. cache[Home(t)] \in Snapshot /\ Fits(cache[Home(t)])
    BY <1>t, <2>1 DEF Honest
  <2> QED
    BY <1>l, <2>1, <2>2
<1>5. CASE LoadSaved(t)
  <2> DEFINE new == [task[t] EXCEPT !.pc = "store", !.snap = saved]
  <2>1. new \in Task /\ new.pc = "store" /\ new.snap = saved
    BY <1>t DEF Task
  <2>2. task' = [task EXCEPT ![t] = new] /\ row' = row /\ cache' = cache
    BY <1>5 DEF LoadSaved
  <2>3. Fits(saved)
    BY <1>t DEF Fits, Snapshot, Versions
  <2> HIDE DEF new
  <2> QED
    BY <1>1, <2>1, <2>2, <2>3
<1>6. CASE StoreLoaded(t)
  <2>1. cache' = [cache EXCEPT ![Home(t)] = task[t].snap] /\ Loaded(t, task[t].snap) /\ task[t].pc = "store" /\ row' = row
    BY <1>6 DEF StoreLoaded
  <2>2. task[t].snap \in Snapshot /\ Fits(task[t].snap)
    BY <2>1 DEF IInv, TaskHolds, Honest, Reading
  <2>3. \A p \in Procs : cache'[p] = cache[p] \/ Fits(cache'[p])
    BY <1>t, <2>1, <2>2
  <2> QED
    BY <1>l, <2>1, <2>2, <2>3
<1>7. CASE ReadMultiplier(t)
  <2> DEFINE new == [task[t] EXCEPT !.pc = "write", !.narrow = narrow, !.moat = moat[task[t].ticker]]
  <2>1. task[t].pc = "steps" /\ task' = [task EXCEPT ![t] = new] /\ row' = row /\ cache' = cache
    BY <1>7 DEF ReadMultiplier
  <2>2. moat[task[t].ticker] \in Moats /\ narrow \in Narrows
    BY <2>1 DEF IInv, TypeOK, TaskHolds
  <2>3. new \in Task /\ new.pc = "write" /\ new.snap = task[t].snap /\ new.narrow = narrow
    BY <1>t, <2>2 DEF Task
  <2>4. Fits(task[t].snap)
    BY <2>1 DEF Honest, Reading
  <2> HIDE DEF new
  <2>5. Current(new.snap, new.narrow)
    BY <2>3 DEF Current
  <2> QED
    BY <1>1, <2>1, <2>3, <2>4, <2>5
<1>8. CASE Upsert(t)
  <2> DEFINE r == [weights |-> task[t].snap.weights, version |-> task[t].snap.version,
                   narrow |-> task[t].narrow, moat |-> task[t].moat]
  <2>1. task[t].pc = "write" /\ row' = [row EXCEPT ![task[t].ticker] = r] /\ task' = [task EXCEPT ![t] = NoTask] /\ cache' = cache
    BY <1>8 DEF Upsert
  <2>2. Fits(r) /\ Current(r, r.narrow)
    BY <2>1 DEF Honest, Reading, Fits, Current
  <2> HIDE DEF r
  <2>3. \A k \in Tickers : row'[k] = row[k] \/ (Fits(row'[k]) /\ Current(row'[k], row'[k].narrow))
    <3>1. \A k \in Tickers : row'[k] = row[k] \/ row'[k] = r
      BY <1>t, <2>1
    <3> QED
      BY <2>2, <3>1
  <2> QED
    BY <1>1, <2>1, <2>3, NoTaskType DEF Reading
<1>9. CASE ComputeFails(t)
  BY <1>1, <1>9, NoTaskType DEF ComputeFails, Reading
<1> QED
  BY <1>3, <1>4, <1>5, <1>6, <1>7, <1>8, <1>9 DEF Computes

\* Where nothing new is read or written: what is there stays, or goes.
LEMMA RestHonest ==
  ASSUME IInv, Honest, UNCHANGED <<saved, narrow, row>>, Bumping => Bumping',
         \A p \in Procs : cache'[p] = cache[p] \/ cache'[p] = None,
         \A t \in Tasks : task'[t] = task[t] \/ task'[t] = NoTask
  PROVE  Honest'
<1>1. ASSUME NEW p \in Procs, cache'[p] # None PROVE Fits(cache'[p])
  BY <1>1 DEF Honest
<1>2. ASSUME NEW t \in Tasks, task'[t].pc \in Reading PROVE Fits(task'[t].snap)
  BY <1>2, NoTaskType DEF Honest, Reading
<1>3. ASSUME NEW t \in Tasks, task'[t].pc = "write" PROVE Current(task'[t].snap, task'[t].narrow)
  BY <1>3, NoTaskType DEF Honest
<1>4. ASSUME NEW k \in Tickers, row'[k] # None PROVE Fits(row'[k]) /\ Current(row'[k], row'[k].narrow)
  BY <1>4 DEF Honest
<1> QED
  BY <1>1, <1>2, <1>3, <1>4, StillHonest

\* The multiplier is committed: from here to the commit of the version it is being bumped.
LEMMA SaveNarrowHonest == ASSUME IInv, Honest, NEW s \in Savers, SaveNarrow(s) PROVE Honest'
<1>1. saver[s].pc = "narrow" /\ saver' = [saver EXCEPT ![s] = [saver[s] EXCEPT !.pc = "read"]]
      /\ UNCHANGED <<saved, row, cache, task>>
  BY DEF SaveNarrow, At
<1>2. saver[s] \in Saver /\ saver \in [Savers -> Saver] /\ saver[s].narrow \in Narrows
  BY <1>1 DEF IInv, TypeOK, SaverHolds
<1>3. saver'[s].pc = "read" /\ saver'[s].narrow # None
  BY <1>1, <1>2, Bounds DEF Saver
<1>4. Bumping'
  BY <1>3 DEF Bumping
<1> QED
  BY <1>1, <1>4 DEF Honest, Fits, Current

\* The version is committed: nothing has been read at it yet.
LEMMA CommitHonest == ASSUME IInv, Honest, NEW s \in Savers, CommitVersion(s) PROVE Honest'
<1>1. saved'.version = saver[s].version /\ saver[s].pc = "commit" /\ UNCHANGED <<row, cache, task>>
  BY DEF CommitVersion
<1>2. saved'.version = saved.version + 1 /\ saved.version \in Nat
  BY <1>1 DEF IInv, SaverHolds, TypeOK, Snapshot, Versions
<1>3. /\ cache \in [Procs -> Snapshot \cup {None}] /\ row \in [Tickers -> Row \cup {None}]
      /\ \A t \in Tasks : task[t].pc \in Reading => task[t].snap \in Snapshot
  BY DEF IInv, TypeOK, TaskHolds
<1>4. ASSUME NEW v \in Nat, v <= saved.version PROVE v <= saved'.version /\ v # saved'.version
  BY <1>2, <1>4
<1>5. ASSUME NEW p \in Procs, cache[p] # None PROVE Fits(cache[p])'
  <2>1. cache[p].version \in Nat /\ cache[p].version <= saved.version
    BY <1>3, <1>5 DEF Honest, Fits, Snapshot, Versions
  <2> QED
    BY <1>1, <1>4, <2>1 DEF Fits
<1>6. ASSUME NEW t \in Tasks, task[t].pc \in Reading PROVE (Fits(task[t].snap) /\ Current(task[t].snap, task[t].narrow))'
  <2>1. task[t].snap.version \in Nat /\ task[t].snap.version <= saved.version
    BY <1>3, <1>6 DEF Honest, Fits, Snapshot, Versions
  <2> QED
    BY <1>1, <1>4, <2>1 DEF Fits, Current
<1>7. ASSUME NEW k \in Tickers, row[k] # None PROVE (Fits(row[k]) /\ Current(row[k], row[k].narrow))'
  <2>1. row[k].version \in Nat /\ row[k].version <= saved.version
    BY <1>3, <1>7 DEF Honest, Fits, Row, Versions
  <2> QED
    BY <1>1, <1>4, <2>1 DEF Fits, Current
<1> QED
  BY <1>1, <1>5, <1>6, <1>7 DEF Honest, Reading

LEMMA NextHonest == ASSUME MaxFailures = 0, IInv, Honest, [Next]_vars PROVE Honest'
<1> USE DEF settings
<1>t. /\ task \in [Tasks -> Task] /\ cache \in [Procs -> Snapshot \cup {None}] /\ saver \in [Savers -> Saver] /\ failures = 0
  BY DEF IInv, TypeOK
<1>0. CASE UNCHANGED vars
  BY <1>0, RestHonest DEF vars, Bumping
<1>1. ASSUME NEW t \in Views, NEW k \in Tickers, View(t, k) \/ \E m \in Moats : SetTickerMoat(t, k, m) PROVE Honest'
  BY <1>1, ComputeHonest DEF Tasks
<1>2. ASSUME NEW t \in Tasks, (\E k \in Tickers : StartCompute(t, k)) \/ Computes(t) \/ ComputeFails(t) PROVE Honest'
  BY <1>2, ComputeHonest
<1>3. ASSUME NEW s \in Savers, (\E w \in WeightSets : ClaimForWeights(s, w)) \/ (\E n \in Narrows : ClaimForNarrow(s, n)) PROVE Honest'
  <2>1. Slot!Claim /\ UNCHANGED <<saved, narrow, row, cache, task>>
    BY <1>3 DEF ClaimForWeights, ClaimForNarrow
  <2>2. ~Bumping
    <3> SUFFICES ASSUME NEW u \in Savers, Busy(u) PROVE FALSE
      BY DEF Bumping, Busy
    <3>1. saver[u].run \in 1 .. lastId /\ state[saver[u].run] = "running" /\ lastId \in 0 .. MaxRuns /\ MaxRuns \in Nat
      BY Bounds DEF IInv, TypeOK, SaverHolds
    <3>2. \A r \in 1 .. MaxRuns : state[r] # "running"
      BY <2>1 DEF Slot!Claim, Slot!RunIds
    <3> QED
      BY <3>1, <3>2
  <2> QED
    BY <2>1, <2>2, RestHonest
<1>4. ASSUME NEW s \in Savers, Saves(s) \/ SaveFails(s) \/ LaunchFails(s) PROVE Honest'
  <2>1. CASE SaveNarrow(s)
    BY <2>1, SaveNarrowHonest
  <2>2. CASE CommitVersion(s)
    BY <2>2, CommitHonest
  <2>3. CASE ReadVersion(s)
    <3>1. /\ saver[s].pc = "read" /\ UNCHANGED <<saved, narrow, row, cache, task>>
          /\ saver' = [saver EXCEPT ![s] = [saver[s] EXCEPT !.pc = "commit", !.version = saved.version + 1]]
      BY <2>3 DEF ReadVersion
    <3>2. saver'[s].narrow = saver[s].narrow /\ saver'[s].pc = "commit" /\ \A u \in Savers : u # s => saver'[u] = saver[u]
      BY <1>t, <3>1 DEF Saver
    <3>3. Bumping => Bumping'
      BY <3>2 DEF Bumping
    <3> QED
      BY <3>1, <3>3, RestHonest
  <2>4. CASE DropCache(s) \/ \E j \in Jobs : Launch(s, j)
    <3>1. /\ saver[s].pc \in {"drop", "launch"} /\ UNCHANGED <<saved, narrow, row, task>>
          /\ \E x : saver' = [saver EXCEPT ![s] = x]
          /\ \E p \in Procs : cache' = [cache EXCEPT ![p] = None]
      BY <2>4 DEF DropCache, Launch, Start, At, Procs
    <3>2. \A u \in Savers : u # s => saver'[u] = saver[u]
      BY <1>t, <3>1
    <3>3. Bumping => Bumping'
      BY <3>1, <3>2 DEF Bumping
    <3>4. \A p \in Procs : cache'[p] = cache[p] \/ cache'[p] = None
      BY <1>t, <3>1
    <3> QED
      BY <3>1, <3>3, <3>4, RestHonest
  <2>5. ~SaveFails(s) /\ ~LaunchFails(s)
    BY <1>t DEF SaveFails, LaunchFails
  <2> QED
    BY <1>4, <2>1, <2>2, <2>3, <2>4, <2>5 DEF Saves
<1>5. ASSUME (\E j \in Jobs : CronStarts(j) \/ JobEnds(j)) \/ (\E p \in Procs : Expires(p)) \/ (\E r \in 1 .. MaxRuns : Reap(r))
      PROVE  Honest'
  <2>1. UNCHANGED <<saved, narrow, row, saver>>
    BY <1>5 DEF CronStarts, JobEnds, Expires, Reap
  <2>2. \A p \in Procs : cache'[p] = cache[p] \/ cache'[p] = None
    <3>1. cache' = cache \/ \E p \in Procs : cache' = [cache EXCEPT ![p] = None]
      BY <1>5 DEF CronStarts, Start, JobEnds, Expires, Reap, Procs
    <3> QED
      BY <1>t, <3>1
  <2>3. \A t \in Tasks : task'[t] = task[t] \/ task'[t] = NoTask
    <3>1. task' = task \/ \E j \in Jobs : task' = [task EXCEPT ![j] = NoTask]
      BY <1>5 DEF CronStarts, Start, JobEnds, Expires, Reap
    <3> QED
      BY <1>t, <3>1
  <2> QED
    BY <2>1, <2>2, <2>3, RestHonest DEF Bumping
<1>6. ~ApiRestarts
  BY <1>t DEF ApiRestarts
<1> QED
  BY <1>0, <1>1, <1>2, <1>3, <1>4, <1>5, <1>6 DEF Next

\* As long as saves do not fail half way, a row stamped with the saved version was computed
\* from the saved weights and the saved multiplier, wherever saves land inside computes.
THEOREM StampAlwaysHonest == ASSUME MaxFailures = 0 PROVE Spec => []StampIsHonest
<1>1. Init => Honest
  BY InitHonest
<1>2. IInv /\ Honest /\ [Next]_vars => Honest'
  BY NextHonest
<1>3. Honest => StampIsHonest
  BY DEF Honest, Fits, Current, StampIsHonest
<1> QED
  BY <1>1, <1>2, <1>3, Inductive, PTL DEF Spec

-----------------------------------------------------------------------------
(***************************************************************************)
(* The start of a process (StartupMigrations).                             *)
(***************************************************************************)

Places == {"off", "up"} \cup Steps

\* What is done once a process is at a step: everything the steps before it are for.
Done(step) ==
    /\ step \notin {"off", "picks"} => picks.key = "date"
    /\ step \notin {"off", "picks", "create"} => todo["create"] = {}
    /\ step \notin {"off", "picks", "create", "views"} => views.perKind
    /\ step \in {"moat", "overall", "debt", "obsolete", "seed", "up"} => todo["columns"] = {}
    /\ step \in {"overall", "debt", "obsolete", "seed", "up"} => multiplier # "null"
    /\ step \in {"debt", "obsolete", "seed", "up"} => overall \notin {"oldDefaults", "oldCustom"}
    /\ step \in {"obsolete", "seed", "up"} => debt = "valid"
    /\ step \in {"seed", "up"} => todo["obsolete"] = {}
    /\ step = "up" => \A t \in Known : touched[t] # Never

\* Types, as far as the argument needs them; the old picks are set aside by the rebuild
\* only; and the grace dates are given to all tickers at once.
Database ==
    /\ picks.key \in {"run", "date"} /\ (picks.key = "run" => picks.aside = {})
    /\ DOMAIN todo = DdlSteps /\ \A step \in DdlSteps : todo[step] \subseteq Ddl[step]
    /\ views = [perKind |-> views.perKind, rows |-> views.rows] /\ views.perKind \in BOOLEAN
    /\ \A r \in views.rows : r.kind \in {"stock", "etf"}
    /\ multiplier \in {"null", "default", "user"}
    /\ overall \in {"oldDefaults", "oldCustom", "defaults", "rescaled", "user"}
    /\ debt \in {"stale", "valid"}
    /\ today \in 1 .. LastDay
    /\ touched \in [Known -> {Never} \cup 1 .. LastDay]
    /\ (\E t \in Known : touched[t] # Never) => \A t \in Known : touched[t] # Never

\* A process has the steps before its own behind it; of the DDL and of the weights it
\* knows all that was left when it looked.
StarterOK(p) ==
    /\ Done(startAt[p])
    /\ \A step \in DdlSteps : Found(p, step) => todo[step] \subseteq startSeen[p]
    /\ startAt[p] = "overall" => startSeen[p] \subseteq {"oldDefaults", "oldCustom"}

StartInv ==
    /\ startAt \in [Starters -> Places]
    /\ DOMAIN startSeen = Starters
    /\ Database
    /\ \A p \in Starters : StarterOK(p)

\* Nothing that is done is undone.
Onward ==
    /\ picks.key = "date" => picks'.key = "date"
    /\ \A step \in DdlSteps : todo'[step] \subseteq todo[step]
    /\ views.perKind => views'.perKind
    /\ multiplier # "null" => multiplier' # "null"
    /\ overall \notin {"oldDefaults", "oldCustom"} => overall' \notin {"oldDefaults", "oldCustom"}
    /\ debt = "valid" => debt' = "valid"
    /\ \A t \in Known : touched[t] # Never => touched'[t] # Never

NothingLost ==
    /\ Picked \subseteq Picked'
    /\ ViewNames \subseteq ViewNames'
    /\ \A t \in Known : touched[t] # Never => touched'[t] = touched[t]

LEMMA DdlStepsAre == "create" \in DdlSteps /\ "columns" \in DdlSteps /\ "obsolete" \in DdlSteps
  BY DEF DdlSteps

LEMMA DoneStays ==
  ASSUME Onward, NEW n, Done(n)
  PROVE  Done(n)'
  BY DdlStepsAre DEF Onward, Done

LEMMA AfterIs ==
  /\ After("picks") = "create" /\ After("create") = "views" /\ After("views") = "columns"
  /\ After("columns") = "moat" /\ After("moat") = "overall" /\ After("overall") = "debt"
  /\ After("debt") = "obsolete" /\ After("obsolete") = "seed" /\ After("seed") = "up"
  BY DEF After

LEMMA StepsAre ==
  ASSUME NEW step
  PROVE  step \in Steps <=> step \in {"picks", "create", "views", "columns", "moat", "overall", "debt", "obsolete", "seed"}
  BY DEF Steps, DdlSteps

\* The other processes stay where they are.
LEMMA OthersStay ==
  ASSUME StartInv, Onward, NEW q \in Starters, startAt'[q] = startAt[q], startSeen'[q] = startSeen[q]
  PROVE  StarterOK(q)'
<1>1. Done(startAt[q])'
  BY DoneStays DEF StartInv, StarterOK
<1>2. ASSUME NEW step \in DdlSteps, Found(q, step)'
      PROVE  todo'[step] \subseteq startSeen'[q]
  <2>1. Found(q, step)
    BY <1>2 DEF Found
  <2> QED
    BY <2>1 DEF StartInv, StarterOK, Onward
<1> QED
  BY <1>1, <1>2 DEF StartInv, StarterOK

\* A process that goes to a step whose predecessors are done, having seen nothing of it.
LEMMA GotoHolds ==
  ASSUME StartInv, Onward, Database', NEW p \in Starters, NEW step \in Places,
         Goto(p, step), Done(step)'
  PROVE  StartInv'
<1>1. /\ startAt' = [startAt EXCEPT ![p] = step] /\ startSeen' = [startSeen EXCEPT ![p] = {}]
      /\ startAt \in [Starters -> Places] /\ DOMAIN startSeen = Starters
  BY DEF Goto, StartInv
<1>2. /\ startAt' \in [Starters -> Places] /\ DOMAIN startSeen' = Starters
      /\ startAt'[p] = step /\ startSeen'[p] = {}
      /\ \A q \in Starters \ {p} : startAt'[q] = startAt[q] /\ startSeen'[q] = startSeen[q]
  BY <1>1
<1>3. StarterOK(p)'
  <2>1. Done(startAt[p])'
    BY <1>2
  <2> QED
    BY <1>2, <2>1 DEF StarterOK, Found
<1>4. \A q \in Starters \ {p} : StarterOK(q)'
  BY <1>2, OthersStay
<1> QED
  BY <1>2, <1>3, <1>4 DEF StartInv

\* The database left as it is.
LEMMA DatabaseStays ==
  ASSUME StartInv, UNCHANGED <<today, todo, picks, views, multiplier, overall, debt, touched>>
  PROVE  Onward /\ Database' /\ NothingLost
  BY DEF StartInv, Onward, Database, NothingLost, Picked, ViewNames

LEMMA FailHolds ==
  ASSUME StartInv, NEW p \in Starters, Fail(p)
  PROVE  StartInv' /\ NothingLost
<1>1. Goto(p, "off") /\ UNCHANGED <<today, todo, picks, views, multiplier, overall, debt, touched>>
  BY DEF Fail
<1>2. Onward /\ Database' /\ NothingLost
  BY <1>1, DatabaseStays
<1>3. Done("off")'
  BY DEF Done
<1>4. "off" \in Places
  BY DEF Places
<1> QED
  BY <1>1, <1>2, <1>3, <1>4, GotoHolds

LEMMA BootHolds ==
  ASSUME StartInv, NEW p \in Starters, Boot(p)
  PROVE  StartInv' /\ NothingLost
<1>1. Goto(p, "picks") /\ UNCHANGED <<today, todo, picks, views, multiplier, overall, debt, touched>>
  BY DEF Boot
<1>2. Onward /\ Database' /\ NothingLost
  BY <1>1, DatabaseStays
<1>3. Done("picks")'
  BY DEF Done
<1>4. "picks" \in Places
  BY StepsAre DEF Places
<1> QED
  BY <1>1, <1>2, <1>3, <1>4, GotoHolds

\* A step that has nothing left to do is done.
LEMMA NothingLeft ==
  ASSUME StartInv, NEW p \in Starters, startAt[p] \in Steps, Reads(startAt[p]) = {}
  PROVE  After(startAt[p]) \in Places /\ Done(After(startAt[p]))
<1> DEFINE step == startAt[p]
<1>1. Done(step) /\ Database
  BY DEF StartInv, StarterOK
<1>2. CASE step = "picks"
  <2>1. {"run"} \cap {picks.key} = {}
    BY <1>2 DEF Reads
  <2>2. picks.key = "date"
    BY <1>1, <2>1 DEF Database
  <2> QED
    BY <1>2, <2>2, AfterIs, StepsAre DEF Done, Places
<1>3. CASE step = "create"
  <2>1. todo["create"] = {}
    BY <1>3, DdlStepsAre DEF Reads
  <2> QED
    BY <1>1, <1>3, <2>1, AfterIs, StepsAre DEF Done, Places
<1>4. CASE step = "views"
  <2>1. (IF views.perKind THEN {} ELSE {"rebuild"}) = {}
    BY <1>4 DEF Reads, DdlSteps
  <2>2. views.perKind
    BY <2>1
  <2> QED
    BY <1>1, <1>4, <2>2, AfterIs, StepsAre DEF Done, Places
<1>5. CASE step = "columns"
  <2>1. todo["columns"] = {}
    BY <1>5, DdlStepsAre DEF Reads
  <2> QED
    BY <1>1, <1>5, <2>1, AfterIs, StepsAre DEF Done, Places
<1>6. CASE step = "moat"
  <2>1. {"null"} \cap {multiplier} = {}
    BY <1>6 DEF Reads, DdlSteps
  <2> QED
    BY <1>1, <1>6, <2>1, AfterIs, StepsAre DEF Done, Places
<1>7. CASE step = "overall"
  <2>1. {"oldDefaults", "oldCustom"} \cap {overall} = {}
    BY <1>7 DEF Reads, DdlSteps
  <2> QED
    BY <1>1, <1>7, <2>1, AfterIs, StepsAre DEF Done, Places
<1>8. CASE step = "debt"
  <2>1. {"stale"} \cap {debt} = {}
    BY <1>8 DEF Reads, DdlSteps
  <2>2. debt = "valid"
    BY <1>1, <2>1 DEF Database
  <2> QED
    BY <1>1, <1>8, <2>2, AfterIs, StepsAre DEF Done, Places
<1>9. CASE step = "obsolete"
  <2>1. todo["obsolete"] = {}
    BY <1>9, DdlStepsAre DEF Reads
  <2> QED
    BY <1>1, <1>9, <2>1, AfterIs, StepsAre DEF Done, Places
<1>10. CASE step = "seed"
  <2>1. (IF \A t \in Known : touched[t] = Never THEN {"empty"} ELSE {}) = {}
    BY <1>10 DEF Reads, DdlSteps
  <2>2. \E t \in Known : touched[t] # Never
    BY <2>1
  <2>3. \A t \in Known : touched[t] # Never
    BY <1>1, <2>2 DEF Database
  <2> QED
    BY <1>1, <1>10, <2>3, AfterIs, StepsAre DEF Done, Places
<1> QED
  BY <1>2, <1>3, <1>4, <1>5, <1>6, <1>7, <1>8, <1>9, <1>10, StepsAre

LEMMA LookHolds ==
  ASSUME StartInv, NEW p \in Starters, Look(p)
  PROVE  StartInv' /\ NothingLost
<1>1. startAt[p] \in Steps /\ UNCHANGED <<today, todo, picks, views, multiplier, overall, debt, touched>>
  BY DEF Look
<1>2. Onward /\ Database' /\ NothingLost
  BY <1>1, DatabaseStays
<1>3. CASE Reads(startAt[p]) = {}
  <2>1. Goto(p, After(startAt[p]))
    BY <1>3 DEF Look
  <2>2. After(startAt[p]) \in Places /\ Done(After(startAt[p]))
    BY <1>1, <1>3, NothingLeft
  <2> DEFINE step == After(startAt[p])
             n == step
  <2>3. \A m \in {n} : Done(m)'
    BY <1>2, <2>2, DoneStays
  <2> HIDE DEF step
  <2>4. Goto(p, step) /\ step \in Places
    BY <2>1, <2>2 DEF step
  <2>5. StartInv'
    <3>1. \A s \in {step} : Goto(p, s) /\ s \in Places
      BY <2>4
    <3>2. \A s \in Places : s = step => Done(s)'
      BY <2>3
    <3> QED
      BY <1>2, <3>1, <3>2, GotoHolds
  <2> QED
    BY <1>2, <2>5
<1>4. CASE Reads(startAt[p]) # {}
  <2> DEFINE seen == Reads(startAt[p])
  <2>1. startSeen' = [startSeen EXCEPT ![p] = seen] /\ UNCHANGED startAt
    BY <1>4 DEF Look
  <2>2. /\ \A step \in DdlSteps : startAt[p] = step => seen = todo[step]
        /\ startAt[p] = "overall" => seen \subseteq {"oldDefaults", "oldCustom"}
    BY DEF Reads, DdlSteps
  <2> HIDE DEF seen
  <2>3. DOMAIN startSeen' = Starters /\ startSeen'[p] = seen /\ \A q \in Starters \ {p} : startSeen'[q] = startSeen[q]
    BY <2>1 DEF StartInv
  <2>4. \A q \in Starters \ {p} : StarterOK(q)'
    BY <1>2, <2>1, <2>3, OthersStay
  <2>5. StarterOK(p)'
    <3>1. Done(startAt[p])
      BY DEF StartInv, StarterOK
    <3>2. Done(startAt[p])'
      BY <1>1, <2>1, <3>1 DEF Done
    <3> QED
      BY <1>1, <2>1, <2>2, <2>3, <3>2 DEF StarterOK, Found
  <2> QED
    BY <1>2, <2>1, <2>3, <2>4, <2>5 DEF StartInv
<1> QED
  BY <1>3, <1>4

LEMMA PicksHold ==
  ASSUME StartInv, NEW p \in Starters, RebuildPicks(p)
  PROVE  StartInv' /\ NothingLost
<1>1. CASE picks.key = "run"
  <2>1. /\ picks' = [key |-> "date", rows |-> picks.rows \cap Mapped, aside |-> KeptAside(picks.rows)]
        /\ Goto(p, "create") /\ UNCHANGED <<today, todo, views, multiplier, overall, debt, touched>>
    BY <1>1 DEF RebuildPicks
  <2>2. picks'.key = "date" /\ picks'.rows = picks.rows \cap Mapped /\ picks'.aside = KeptAside(picks.rows)
    BY <2>1
  <2>3. Onward /\ Database'
    BY <2>1, <2>2 DEF StartInv, Onward, Database
  <2>4. NothingLost
    <3>1. picks.aside = {}
      BY <1>1 DEF StartInv, Database
    <3>2. picks.rows \subseteq picks'.rows \cup picks'.aside
      BY <2>2 DEF KeptAside
    <3> QED
      BY <2>1, <3>1, <3>2 DEF NothingLost, Picked, ViewNames
  <2>5. Done("create")'
    BY <2>2 DEF Done
  <2>6. "create" \in Places
    BY StepsAre DEF Places
  <2> QED
    BY <2>1, <2>3, <2>4, <2>5, <2>6, GotoHolds
<1>2. CASE picks.key # "run"
  BY <1>2, FailHolds DEF RebuildPicks
<1> QED
  BY <1>1, <1>2

LEMMA DdlHolds ==
  ASSUME StartInv, NEW p \in Starters, RunDdl(p)
  PROVE  StartInv' /\ NothingLost
<1>1. PICK step \in DdlSteps : /\ Found(p, step)
        /\ \E x \in startSeen[p] :
               IF x \in todo[step]
               THEN /\ todo' = [todo EXCEPT ![step] = @ \ {x}]
                    /\ IF startSeen[p] = {x} THEN Goto(p, After(step))
                       ELSE startSeen' = [startSeen EXCEPT ![p] = @ \ {x}] /\ UNCHANGED startAt
                    /\ UNCHANGED <<starts, today, picks, views, multiplier, overall, debt, touched>>
               ELSE Fail(p)
  BY DEF RunDdl
<1>2. PICK x \in startSeen[p] :
               IF x \in todo[step]
               THEN /\ todo' = [todo EXCEPT ![step] = @ \ {x}]
                    /\ IF startSeen[p] = {x} THEN Goto(p, After(step))
                       ELSE startSeen' = [startSeen EXCEPT ![p] = @ \ {x}] /\ UNCHANGED startAt
                    /\ UNCHANGED <<starts, today, picks, views, multiplier, overall, debt, touched>>
               ELSE Fail(p)
  BY <1>1
<1>3. CASE x \notin todo[step]
  BY <1>2, <1>3, FailHolds
<1>4. CASE x \in todo[step]
  <2>1. /\ todo' = [todo EXCEPT ![step] = todo[step] \ {x}]
        /\ UNCHANGED <<today, picks, views, multiplier, overall, debt, touched>>
    BY <1>2, <1>4
  <2>2. DOMAIN todo = DdlSteps /\ todo[step] \subseteq startSeen[p] /\ startAt[p] = step /\ Done(step)
    BY <1>1 DEF StartInv, Database, StarterOK, Found
  <2>3. /\ DOMAIN todo' = DdlSteps /\ todo'[step] = todo[step] \ {x}
        /\ \A s \in DdlSteps \ {step} : todo'[s] = todo[s]
    BY <2>1, <2>2
  <2>4. Onward /\ NothingLost
    BY <2>1, <2>3 DEF Onward, NothingLost, Picked, ViewNames
  <2>5. Database'
    BY <2>1, <2>3 DEF StartInv, Database
  <2>6. CASE startSeen[p] = {x}
    <3>1. Goto(p, After(step)) /\ todo'[step] = {}
      BY <1>2, <1>4, <2>2, <2>3, <2>6
    <3>2. Done(step)'
      BY <2>2, <2>4, DoneStays
    <3>3. CASE step = "create"
      <4>1. Done("views")' /\ "views" \in Places /\ Goto(p, "views")
        BY <3>1, <3>2, <3>3, AfterIs, StepsAre DEF Done, Places
      <4> QED
        BY <2>4, <2>5, <4>1, GotoHolds
    <3>4. CASE step = "columns"
      <4>1. Done("moat")' /\ "moat" \in Places /\ Goto(p, "moat")
        BY <3>1, <3>2, <3>4, AfterIs, StepsAre DEF Done, Places
      <4> QED
        BY <2>4, <2>5, <4>1, GotoHolds
    <3>5. CASE step = "obsolete"
      <4>1. Done("seed")' /\ "seed" \in Places /\ Goto(p, "seed")
        BY <3>1, <3>2, <3>5, AfterIs, StepsAre DEF Done, Places
      <4> QED
        BY <2>4, <2>5, <4>1, GotoHolds
    <3> QED
      BY <2>4, <3>3, <3>4, <3>5 DEF DdlSteps
  <2>7. CASE startSeen[p] # {x}
    <3>1. startSeen' = [startSeen EXCEPT ![p] = startSeen[p] \ {x}] /\ UNCHANGED startAt
      BY <1>2, <1>4, <2>7
    <3>2. /\ DOMAIN startSeen' = Starters /\ startSeen'[p] = startSeen[p] \ {x}
          /\ \A q \in Starters \ {p} : startSeen'[q] = startSeen[q]
      BY <3>1 DEF StartInv
    <3>3. \A q \in Starters \ {p} : StarterOK(q)'
      BY <2>4, <3>1, <3>2, OthersStay
    <3>4. StarterOK(p)'
      <4>1. Done(startAt[p])'
        <5>1. Done(step)'
          BY <2>2, <2>4, DoneStays
        <5>2. startAt'[p] = step
          BY <2>2, <3>1
        <5> QED
          BY <5>1, <5>2
      <4>2. todo'[step] \subseteq startSeen'[p] /\ startAt'[p] = step /\ step # "overall"
        BY <2>2, <2>3, <3>1, <3>2 DEF DdlSteps
      <4> QED
        BY <2>2, <3>1, <4>1, <4>2 DEF StarterOK, Found
    <3> QED
      BY <2>4, <2>5, <3>1, <3>2, <3>3, <3>4 DEF StartInv
  <2> QED
    BY <2>6, <2>7
<1> QED
  BY <1>3, <1>4

LEMMA ViewsHold ==
  ASSUME StartInv, NEW p \in Starters, RebuildViews(p)
  PROVE  StartInv' /\ NothingLost
<1>1. CASE Fail(p)
  BY <1>1, FailHolds
<1>2. CASE /\ views' = [perKind |-> TRUE, rows |-> {StockView(r.name) : r \in views.rows}]
           /\ Goto(p, "columns")
           /\ UNCHANGED <<starts, today, todo, picks, multiplier, overall, debt, touched>>
  <2>1. views'.perKind /\ views'.rows = {StockView(r.name) : r \in views.rows}
    BY <1>2
  <2>2. \A n : StockView(n).kind = "stock" /\ StockView(n).name = n
    BY DEF StockView
  <2>3. \A r \in views'.rows : r.kind \in {"stock", "etf"}
    BY <2>1, <2>2
  <2>4. views' = [perKind |-> views'.perKind, rows |-> views'.rows] /\ views'.perKind \in BOOLEAN
    BY <1>2
  <2>5. Database' /\ Onward
    BY <1>2, <2>1, <2>3, <2>4 DEF StartInv, Database, Onward
  <2>6. ViewNames \subseteq ViewNames'
    <3>1. ASSUME NEW r \in views.rows PROVE r.name \in ViewNames'
      <4>1. StockView(r.name) \in views'.rows /\ StockView(r.name).name = r.name
        BY <2>1, <2>2
      <4> QED
        BY <4>1 DEF ViewNames
    <3> QED
      BY <3>1 DEF ViewNames
  <2>7. NothingLost
    BY <1>2, <2>6 DEF NothingLost, Picked
  <2>8. Done("views")
    BY <1>2 DEF RebuildViews, Found, StartInv, StarterOK
  <2>9. Done("columns")' /\ "columns" \in Places
    BY <1>2, <2>1, <2>8, StepsAre DEF Done, Places
  <2> QED
    BY <1>2, <2>5, <2>7, <2>9, GotoHolds
<1> QED
  BY <1>1, <1>2 DEF RebuildViews

\* The two ways to the debt weights.
LEMMA WeightsHold ==
  ASSUME StartInv, NEW p \in Starters, MoatAndOverall(p) \/ OverallAlone(p)
  PROVE  StartInv' /\ NothingLost
<1>1. Goto(p, "debt") /\ UNCHANGED <<today, todo, picks, views, debt, touched>>
  BY DEF MoatAndOverall, OverallAlone
<1>2. Done(startAt[p]) /\ Database /\ startAt[p] \in {"moat", "overall"}
  BY DEF StartInv, StarterOK, MoatAndOverall, OverallAlone, Found
<1>3. /\ overall' \in {"defaults", "rescaled", "user"}
      /\ multiplier' \in {"default", "user"}
  <2>1. CASE MoatAndOverall(p)
    BY <1>2, <2>1 DEF MoatAndOverall, Rescaled, Database
  <2>2. CASE OverallAlone(p)
    <3>1. PICK set \in startSeen[p] : overall' = Rescaled(set)
      BY <2>2 DEF OverallAlone
    <3>2. multiplier' = multiplier /\ multiplier # "null"
      BY <1>2, <2>2 DEF OverallAlone, Found, Done
    <3> QED
      BY <1>2, <3>1, <3>2 DEF Rescaled, Database
  <2> QED
    BY <2>1, <2>2
<1>4. Onward /\ Database' /\ NothingLost
  BY <1>1, <1>2, <1>3 DEF Onward, Database, NothingLost, Picked, ViewNames
<1>5. Done("debt")' /\ "debt" \in Places
  BY <1>1, <1>2, <1>3, StepsAre DEF Done, Places
<1> QED
  BY <1>1, <1>4, <1>5, GotoHolds

LEMMA DebtHolds ==
  ASSUME StartInv, NEW p \in Starters, DebtWeights(p)
  PROVE  StartInv' /\ NothingLost
<1>1. /\ Goto(p, "obsolete") /\ debt' = "valid" /\ startAt[p] = "debt"
      /\ UNCHANGED <<today, todo, picks, views, multiplier, overall, touched>>
  BY DEF DebtWeights, Found
<1>2. Done("debt") /\ Database
  BY <1>1 DEF StartInv, StarterOK
<1>3. Onward /\ Database' /\ NothingLost
  BY <1>1, <1>2 DEF Onward, Database, NothingLost, Picked, ViewNames
<1>4. Done("obsolete")' /\ "obsolete" \in Places
  BY <1>1, <1>2, StepsAre DEF Done, Places
<1> QED
  BY <1>1, <1>3, <1>4, GotoHolds

LEMMA SeedHolds ==
  ASSUME StartInv, NEW p \in Starters, SeedViews(p)
  PROVE  StartInv' /\ NothingLost
<1>1. /\ Goto(p, "up") /\ touched' = Seeded(touched) /\ startAt[p] = "seed"
      /\ UNCHANGED <<today, todo, picks, views, multiplier, overall, debt>>
  BY DEF SeedViews, Found
<1>2. Done("seed") /\ Database
  BY <1>1 DEF StartInv, StarterOK
<1>3. today # Never
  BY <1>2, StartAssumption DEF Database
<1>4. /\ touched' \in [Known -> {Never} \cup 1 .. LastDay]
      /\ \A t \in Known : touched'[t] # Never /\ (touched[t] # Never => touched'[t] = touched[t])
  BY <1>1, <1>2, <1>3 DEF Seeded, Database
<1>5. Onward /\ Database' /\ NothingLost
  BY <1>1, <1>2, <1>4 DEF Onward, Database, NothingLost, Picked, ViewNames
<1>6. Done("up")' /\ "up" \in Places
  BY <1>1, <1>2, <1>4 DEF Done, Places
<1> QED
  BY <1>1, <1>5, <1>6, GotoHolds

\* What the user does once a process serves.
LEMMA UserHolds ==
  ASSUME StartInv, SavesWeights \/ SavesMultiplier \/ SavesView \/ OpensTicker \/ Midnight
  PROVE  StartInv'
<1>1. UNCHANGED <<startAt, startSeen>>
  BY DEF SavesWeights, SavesMultiplier, SavesView, OpensTicker, Midnight
<1>2. Database
  BY DEF StartInv
<1>3. Onward /\ Database'
  <2>1. CASE SavesWeights \/ SavesMultiplier
    BY <1>2, <2>1 DEF SavesWeights, SavesMultiplier, Onward, Database
  <2>2. CASE SavesView
    <3>1. PICK n \in Names, k \in {"stock", "etf"} : views' = [views EXCEPT !.rows = @ \cup {[name |-> n, kind |-> k]}]
      BY <2>2 DEF SavesView
    <3>2. /\ views'.perKind = views.perKind /\ views'.rows = views.rows \cup {[name |-> n, kind |-> k]}
          /\ views' = [perKind |-> views'.perKind, rows |-> views'.rows]
      BY <1>2, <3>1 DEF Database
    <3>3. \A r \in views'.rows : r.kind \in {"stock", "etf"}
      BY <1>2, <3>2 DEF Database
    <3> QED
      BY <1>2, <2>2, <3>2, <3>3 DEF SavesView, Onward, Database
  <2>3. CASE OpensTicker
    <3>1. PICK t \in Known : touched' = [touched EXCEPT ![t] = today]
      BY <2>3 DEF OpensTicker
    <3>2. PICK p \in Starters : startAt[p] = "up"
      BY <2>3 DEF OpensTicker, Serving
    <3>3. \A u \in Known : touched[u] # Never
      BY <3>2 DEF StartInv, StarterOK, Done
    <3>4. today # Never
      BY <1>2, StartAssumption DEF Database
    <3>5. touched' \in [Known -> {Never} \cup 1 .. LastDay] /\ \A u \in Known : touched'[u] # Never
      BY <1>2, <3>1, <3>3, <3>4 DEF Database
    <3> QED
      BY <1>2, <2>3, <3>5 DEF OpensTicker, Onward, Database
  <2>4. CASE Midnight
    <3>1. today' \in 1 .. LastDay
      BY <1>2, <2>4, StartAssumption DEF Midnight, Database
    <3> QED
      BY <1>2, <2>4, <3>1 DEF Midnight, Onward, Database
  <2> QED
    BY <2>1, <2>2, <2>3, <2>4
<1>4. \A q \in Starters : StarterOK(q)'
  BY <1>1, <1>3, OthersStay
<1> QED
  BY <1>1, <1>3, <1>4 DEF StartInv

LEMMA StartInit ==
  ASSUME InitStart
  PROVE  StartInv
<1>1. startAt \in [Starters -> Places] /\ DOMAIN startSeen = Starters
  BY DEF InitStart, Places
<1>2. \A p \in Starters : startAt[p] = "off" /\ startSeen[p] = {}
  BY DEF InitStart
<1>3. \A p \in Starters : StarterOK(p)
  BY <1>2 DEF StarterOK, Done, Found
<1>4. DOMAIN todo = DdlSteps /\ \A step \in DdlSteps : todo[step] \subseteq Ddl[step]
  BY StartAssumption DEF InitStart, DdlSteps
<1>5. /\ views = [perKind |-> views.perKind, rows |-> views.rows] /\ views.perKind \in BOOLEAN
      /\ \A r \in views.rows : r.kind \in {"stock", "etf"}
  <2>1. PICK names \in SUBSET Names : views = [perKind |-> FALSE, rows |-> {StockView(n) : n \in names}]
    BY DEF InitStart
  <2>2. \A n : StockView(n).kind = "stock"
    BY DEF StockView
  <2> QED
    BY <2>1, <2>2
<1>6. picks.key = "run" /\ picks.aside = {}
  BY DEF InitStart
<1>7. today \in 1 .. LastDay
  BY StartAssumption DEF InitStart
<1>8. touched \in [Known -> {Never} \cup 1 .. LastDay] /\ \A t \in Known : touched[t] = Never
  BY DEF InitStart
<1>9. /\ multiplier \in {"null", "default", "user"} /\ debt \in {"stale", "valid"}
      /\ overall \in {"oldDefaults", "oldCustom", "defaults", "rescaled", "user"}
  BY DEF InitStart
<1>10. Database
  BY <1>4, <1>5, <1>6, <1>7, <1>8, <1>9 DEF Database
<1> QED
  BY <1>1, <1>3, <1>10 DEF StartInv

LEMMA StartStepHolds ==
  ASSUME StartInv, [NextStart]_mvars
  PROVE  StartInv' /\ (startAt' # startAt => NothingLost)
<1>1. CASE StartStep
  <2>1. PICK p \in Starters :
            \/ Boot(p) \/ Look(p) \/ RebuildPicks(p) \/ RunDdl(p) \/ RebuildViews(p) \/ MoatAndOverall(p)
            \/ OverallAlone(p) \/ DebtWeights(p) \/ SeedViews(p) \/ Dies(p)
    BY <1>1 DEF StartStep
  <2>2. CASE Dies(p)
    BY <2>2, FailHolds DEF Dies
  <2> QED
    BY <2>1, <2>2, BootHolds, LookHolds, PicksHold, DdlHolds, ViewsHold, WeightsHold, DebtHolds, SeedHolds
<1>2. CASE SavesWeights \/ SavesMultiplier \/ SavesView \/ OpensTicker \/ Midnight
  <2>1. startAt' = startAt
    BY <1>2 DEF SavesWeights, SavesMultiplier, SavesView, OpensTicker, Midnight
  <2> QED
    BY <1>2, <2>1, UserHolds
<1>3. CASE UNCHANGED mvars
  <2>1. UNCHANGED <<startAt, startSeen, today, todo, picks, views, multiplier, overall, debt, touched>>
    BY <1>3 DEF mvars
  <2>2. Onward /\ Database'
    BY <2>1, DatabaseStays
  <2>3. \A q \in Starters : StarterOK(q)'
    BY <2>1, <2>2, OthersStay
  <2> QED
    BY <2>1, <2>2, <2>3 DEF StartInv
<1> QED
  BY <1>1, <1>2, <1>3 DEF NextStart

(***************************************************************************)
(* A process that has come up works on a wholly migrated database, for any *)
(* number of processes, any earlier version's tables and columns, and      *)
(* whichever of them died where.                                           *)
(***************************************************************************)
THEOREM ServesMigrated == StartSpec => []UpMeansMigrated
<1>1. InitStart => StartInv
  BY StartInit
<1>2. StartInv /\ [NextStart]_mvars => StartInv'
  BY StartStepHolds
<1>3. StartInv => UpMeansMigrated
  <2> SUFFICES ASSUME StartInv, NEW p \in Starters, startAt[p] = "up"
               PROVE  UpMeansMigrated
    BY DEF UpMeansMigrated, Serving
  <2>1. Done("up")
    BY DEF StartInv, StarterOK
  <2> QED
    BY <2>1 DEF Done, UpMeansMigrated, DdlSteps
<1> QED
  BY <1>1, <1>2, <1>3, PTL DEF StartSpec

(***************************************************************************)
(* No step of a start loses a pick or a saved view, nor moves a grace date *)
(* ("the grace dates never move on a repeated call, a restart or a cron    *)
(* job's init_db()", core/db.py:210), wherever it is interleaved.          *)
(***************************************************************************)
THEOREM StartsLoseNothing == StartSpec => StartLosesNothing
<1> DEFINE Step == startAt' # startAt => NothingLost
<1>1. InitStart => StartInv
  BY StartInit
<1>2. StartInv /\ [NextStart]_mvars => StartInv' /\ Step
  BY StartStepHolds
<1>3. StartSpec => [][Step]_mvars
  BY <1>1, <1>2, PTL DEF StartSpec
<1> QED
  BY <1>3 DEF StartLosesNothing, NothingLost
=============================================================================
