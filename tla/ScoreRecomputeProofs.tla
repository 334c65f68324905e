------------------------ MODULE ScoreRecomputeProofs ------------------------
(***************************************************************************)
(* What TLC checks of ScoreRecompute on small instances, proved for any    *)
(* number of callers, pids, runs, tickers and restarts.                    *)
(***************************************************************************)
EXTENDS ScoreRecompute, Integers, TLAPS

(***************************************************************************)
(* TypeOK is inductive as it stands.                                       *)
(***************************************************************************)

LEMMA NewJobType == ASSUME NEW r \in 0 .. MaxRuns, NEW pc \in {"none", "start"}
                    PROVE  NewJob(r, pc) \in Job
  BY Bounds DEF NewJob, Job

LEMMA InitType == Init => TypeOK
<1> SUFFICES ASSUME Init PROVE TypeOK
  OBVIOUS
<1>1. NoJob \in Job
  BY NewJobType, Bounds DEF NoJob
<1>2. Idle \in Caller
  BY Bounds DEF Idle, Caller
<1>3. \A c \in Callers : caller[c].pc # "record"
  BY DEF Init, Idle
<1> QED
  BY <1>1, <1>2, <1>3, Bounds DEF Init, TypeOK, RunIds

LEMMA StaleNowType == TypeOK => StaleNow \subseteq Reapable
  BY DEF TypeOK, StaleNow, Running, Reapable

LEMMA ExitsType == ASSUME TypeOK, NEW p \in Pids, Exits(p)
                   PROVE  /\ os' \in [Pids -> {"free", "worker", "zombie", "other"}]
                          /\ job' \in [Pids -> Job]
<1>1. job[p].run \in 0 .. MaxRuns
  BY DEF TypeOK, Job
<1>2. NewJob(IF Held(p) THEN job[p].run ELSE 0, "none") \in Job
  BY <1>1, NewJobType, Bounds
<1> QED
  BY <1>2 DEF Exits, TypeOK

LEMMA CollectType == ASSUME TypeOK, NEW ps, Collect(ps)
                     PROVE  /\ os' \in [Pids -> {"free", "worker", "zombie", "other"}]
                            /\ job' \in [Pids -> Job]
<1>1. NoJob \in Job
  BY NewJobType, Bounds DEF NoJob
<1> QED
  BY <1>1 DEF Collect, TypeOK

LEMMA GoToType == ASSUME TypeOK, NEW p \in Pids, NEW pc \in {"score", "update", "commit"},
                         NEW w \in {"none", "begin", "beat", "done", "failed"}, GoTo(p, pc, w)
                  PROVE  job' \in [Pids -> Job]
<1>1. job[p] \in Job
  BY DEF TypeOK
<1>2. [job[p] EXCEPT !.pc = pc, !.writes = w] \in Job
  BY <1>1 DEF Job
<1> QED
  BY <1>2 DEF GoTo, TypeOK

LEMMA ScoredType == ASSUME NEW j \in Job, j.processed < Tickers, NEW n \in {0, 1}, NEW beat \in BOOLEAN
                    PROVE  Scored(j, n, beat) \in Job
<1> DEFINE late   == IF state[j.run] = "running" THEN j.late ELSE j.late + 1
           pc     == IF beat THEN "update" ELSE "score"
           writes == IF beat THEN "beat" ELSE "none"
<1>1. j.processed + 1 \in 0 .. Tickers /\ j.failed + n \in Nat /\ late \in Nat
  BY Bounds DEF Job
<1>2. pc \in {"update", "score"} /\ writes \in {"beat", "none"}
  OBVIOUS
<1>3. Scored(j, n, beat) = [j EXCEPT !.processed = j.processed + 1, !.failed = j.failed + n,
                                     !.late = late, !.pc = pc, !.writes = writes]
  BY DEF Scored, Job
<1> HIDE DEF late, pc, writes
<1> QED
  BY <1>1, <1>2, <1>3 DEF Job

\* One step per kind of request step; each leaves most of the state alone.
LEMMA CallsType == ASSUME TypeOK, NEW c \in Callers, Status \/ Calls(c) PROVE TypeOK'
<1> USE DEF rows
<1>i. Idle \in Caller /\ Idle.pc # "record"
  BY Bounds DEF Idle, Caller
<1>c. \A d \in Callers : caller[d] \in Caller
  BY DEF TypeOK
<1>1. ASSUME NEW d \in Callers, NEW wants \in {"status", "recompute"}, Request(d, wants) PROVE TypeOK'
  <2> DEFINE asked == [Idle EXCEPT !.pc = IF StaleNow = {} THEN "claim" ELSE "reap",
                                   !.wants = wants, !.reaping = StaleNow]
  <2>1. asked \in Caller /\ asked.pc # "record"
    <3>1. \A pc \in {"claim", "reap"} :
            LET k == [Idle EXCEPT !.pc = pc, !.wants = wants, !.reaping = StaleNow]
            IN  k \in Caller /\ k.pc # "record"
      BY <1>i, StaleNowType DEF Caller
    <3> QED
      BY <3>1
  <2>2. caller' = [caller EXCEPT ![d] = asked]
    BY <1>1 DEF Request
  <2>3. UNCHANGED <<rows, stale, os, job, watching, closing, stopping, restarts>>
    BY <1>1 DEF Request
  <2> HIDE DEF asked
  <2>4. caller' \in [Callers -> Caller]
    BY <2>1, <2>2 DEF TypeOK
  <2>5. \A k \in Callers : caller'[k].pc = "record" => caller'[k].pid # NoPid
    BY <2>1, <2>2 DEF TypeOK
  <2> QED
    BY <2>3, <2>4, <2>5 DEF TypeOK
<1>2. CASE Reap(c)
  <2>1. stopping' \subseteq Stopper
    <3>1. caller[c].reaping \subseteq Reapable
      BY <1>c DEF Caller
    <3>2. \A s \in caller[c].reaping : s.pid # NoPid => [pid |-> s.pid, run |-> s.run, sent |-> FALSE] \in Stopper
      BY <3>1 DEF Reapable, Stopper
    <3> QED
      BY <1>2, <3>2 DEF Reap, TypeOK
  <2>2. [caller[c] EXCEPT !.pc = "claim", !.reaping = {}] \in Caller
    BY <1>c DEF Caller
  <2>3. [caller[c] EXCEPT !.pc = "claim", !.reaping = {}].pc # "record"
    BY <1>c DEF Caller
  <2>4. caller' \in [Callers -> Caller] /\ \A d \in Callers : caller'[d].pc = "record" => caller'[d].pid # NoPid
    BY <1>2, <1>i, <2>2, <2>3 DEF Reap, TypeOK
  <2> QED
    BY <1>2, <2>1, <2>4 DEF Reap, TypeOK
<1>3. CASE ClaimRun(c)
  <2>1. lastId + 1 \in RunIds /\ lastId + 1 \in 0 .. MaxRuns
    BY <1>3, Bounds DEF ClaimRun, TypeOK, RunIds
  <2>2. [caller[c] EXCEPT !.run = lastId + 1, !.pc = "launch"] \in Caller
    BY <1>c, <2>1 DEF Caller
  <2>3. [caller[c] EXCEPT !.run = lastId + 1, !.pc = "launch"].pc # "record"
    BY <1>c DEF Caller
  <2> QED
    BY <1>3, <2>1, <2>2, <2>3 DEF ClaimRun, TypeOK
<1>4. CASE Conflict(c)
  BY <1>4, <1>i DEF Conflict, TypeOK
<1>5. CASE SaveOrSpawnFails(c)
  BY <1>5, <1>i DEF SaveOrSpawnFails, FailRun, Running, TypeOK
<1>6. ASSUME NEW p \in Pids, Spawn(c, p) PROVE TypeOK'
  <2>1. NewJob(caller[c].run, "start") \in Job
    BY <1>c, NewJobType DEF Caller
  <2>2. [caller[c] EXCEPT !.pc = "record", !.pid = p] \in Caller
    BY <1>c DEF Caller
  <2>3. [caller[c] EXCEPT !.pc = "record", !.pid = p].pid # NoPid
    BY <1>c, Bounds DEF Caller
  <2> QED
    BY <1>6, <2>1, <2>2, <2>3 DEF Spawn, TypeOK
<1>7. CASE RecordPid(c)
  <2>1. caller[c].pid \in Pids
    BY <1>7, <1>c DEF RecordPid, TypeOK, Caller
  <2> QED
    BY <1>7, <1>i, <2>1 DEF RecordPid, TypeOK
<1>8. CASE RecordPidFails(c)
  BY <1>8, <1>i, CollectType DEF RecordPidFails, FailRun, Running, TypeOK
<1> QED
  BY <1>1, <1>2, <1>3, <1>4, <1>5, <1>6, <1>7, <1>8 DEF Calls, Status

LEMMA WorkerType == ASSUME TypeOK, NEW p \in Pids, Reports(p) \/ Scores(p) \/ Dies(p) PROVE TypeOK'
<1> USE DEF rows
<1>1. CASE Start(p)
  <2>1. job' \in [Pids -> Job]
    BY <1>1, GoToType DEF Start
  <2> QED
    BY <1>1, <2>1 DEF Start, TypeOK
<1>2. CASE ScoreTicker(p)
  <2>1. PICK n \in {0, 1}, beat \in BOOLEAN : job' = [job EXCEPT ![p] = Scored(job[p], n, beat)]
    BY <1>2 DEF ScoreTicker
  <2>2. job[p] \in Job /\ job[p].processed < Tickers
    BY <1>2 DEF ScoreTicker, TypeOK
  <2>3. Scored(job[p], n, beat) \in Job
    BY <2>2, ScoredType
  <2> QED
    BY <1>2, <2>1, <2>3 DEF ScoreTicker, TypeOK
<1>3. CASE RunTimesOut(p)
  <2>1. job' \in [Pids -> Job]
    BY <1>3, GoToType DEF RunTimesOut
  <2> QED
    BY <1>3, <2>1 DEF RunTimesOut, TypeOK
<1>4. CASE Finish(p)
  <2>1. job' \in [Pids -> Job]
    BY <1>4, GoToType DEF Finish
  <2> QED
    BY <1>4, <2>1 DEF Finish, TypeOK
<1>5. CASE UpdateReads(p)
  <2>1. job[p].writes \in {"none", "begin", "beat", "done", "failed"}
    BY DEF TypeOK, Job
  <2>2. job' \in [Pids -> Job]
    BY <1>5, <2>1, GoToType DEF UpdateReads
  <2> QED
    BY <1>5, <2>2 DEF UpdateReads, TypeOK
<1>6. CASE Superseded(p)
  BY <1>6, ExitsType DEF Superseded, TypeOK
<1>7. CASE UpdateCommits(p)
  <2>1. job' \in [Pids -> Job] /\ os' \in [Pids -> {"free", "worker", "zombie", "other"}]
    BY <1>7, GoToType, ExitsType DEF UpdateCommits, TypeOK
  <2>2. state' \in [RunIds -> {"none", "running", "done", "failed"}]
    BY <1>7 DEF UpdateCommits, TypeOK
  <2> QED
    BY <1>7, <2>1, <2>2 DEF UpdateCommits, TypeOK
<1>8. CASE UpdateRaises(p)
  <2>1. job' \in [Pids -> Job] /\ os' \in [Pids -> {"free", "worker", "zombie", "other"}]
    BY <1>8, GoToType, ExitsType DEF UpdateRaises, TypeOK
  <2> QED
    BY <1>8, <2>1 DEF UpdateRaises, TypeOK
<1>9. CASE Dies(p)
  BY <1>9, ExitsType DEF Dies, TypeOK
<1> QED
  BY <1>1, <1>2, <1>3, <1>4, <1>5, <1>6, <1>7, <1>8, <1>9 DEF Reports, Scores

LEMMA RestType == ASSUME TypeOK,
                         \/ Stops
                         \/ \E p \in Pids : Watch(p) \/ PidReused(p)
                         \/ \E r \in RunIds : CloseRun(r) \/ GoesStale(r)
                         \/ ApiRestarts
                  PROVE  TypeOK'
<1> USE DEF rows
<1>1. ASSUME NEW s \in stopping, NotOurs(s) \/ Terminate(s) \/ Kill(s) PROVE TypeOK'
  <2>1. s \in Stopper /\ s.pid \in Pids
    BY DEF TypeOK, Stopper
  <2>2. [s EXCEPT !.sent = TRUE] \in Stopper
    BY <2>1 DEF Stopper
  <2>3. stopping' \subseteq Stopper
    BY <1>1, <2>2 DEF NotOurs, Terminate, Kill, TypeOK
  <2>4. job' \in [Pids -> Job] /\ os' \in [Pids -> {"free", "worker", "zombie", "other"}]
    BY <1>1, <2>1, ExitsType DEF NotOurs, Terminate, Kill, TypeOK
  <2> QED
    BY <1>1, <2>3, <2>4 DEF NotOurs, Terminate, Kill, TypeOK
<1>2. ASSUME NEW p \in Pids, Watch(p) PROVE TypeOK'
  BY <1>2, CollectType DEF Watch, FailRun, Running, TypeOK
<1>3. ASSUME NEW p \in Pids, PidReused(p) PROVE TypeOK'
  BY <1>3 DEF PidReused, TypeOK
<1>4. ASSUME NEW r \in RunIds, CloseRun(r) \/ GoesStale(r) PROVE TypeOK'
  BY <1>4 DEF CloseRun, GoesStale, TypeOK
<1>5. CASE ApiRestarts
  <2>1. Idle \in Caller /\ Idle.pc # "record"
    BY Bounds DEF Idle, Caller
  <2> QED
    BY <1>5, <2>1, CollectType, Bounds DEF ApiRestarts, TypeOK
<1> QED
  BY <1>1, <1>2, <1>3, <1>4, <1>5 DEF Stops

\* Every reachable state is well typed, for every value of the constants.
THEOREM TypeCorrect == Spec => []TypeOK
<1>1. Init => TypeOK
  BY InitType
<1>2. TypeOK /\ [Next]_vars => TypeOK'
  <2>1. CASE Next
    BY <2>1, CallsType, WorkerType, RestType DEF Next, Status
  <2>2. CASE UNCHANGED vars
    BY <2>2 DEF vars, TypeOK
  <2> QED
    BY <2>1, <2>2
<1> QED
  BY <1>1, <1>2, PTL DEF Spec

(***************************************************************************)
(* The slot.  OneRunning alone is not inductive enough for the refinement  *)
(* of RunSlot: that needs to know that every run a thread, a worker or a   *)
(* stopper still holds has been claimed, and that a stopper's run is over. *)
(***************************************************************************)

SlotInv == /\ OneRunning
           /\ \A r \in RunIds : state[r] = "none" <=> r > lastId
           /\ \A c \in Callers : \A s \in caller[c].reaping : s.run <= lastId
           /\ \A c \in Callers : caller[c].run <= lastId
           /\ \A r \in closing : r <= lastId
           /\ \A p \in Pids : job[p].run <= lastId
           /\ \A s \in stopping : state[s.run] \in {"done", "failed"}

\* A step of the program is a step of RunSlot, or leaves the slot alone.
LEMMA SlotStep == ASSUME TypeOK, SlotInv, [Next]_vars
                  PROVE  [Slot!Next]_<<state, lastId>>
<1> USE DEF rows, Slot!Next
<1>1. ASSUME NEW gone \in SUBSET (1 .. lastId), NEW verdict \in {"done", "failed"},
             state' = [r \in RunIds |-> IF r \in gone THEN verdict ELSE state[r]], UNCHANGED lastId
      PROVE  Slot!Settle
  BY <1>1 DEF Slot!Settle, Slot!Settled, Slot!RunIds, RunIds
<1>2. ASSUME NEW r \in 0 .. lastId, NEW verdict \in {"done", "failed"},
             state' = [state EXCEPT ![r] = verdict], UNCHANGED lastId
      PROVE  Slot!Settle
  <2> DEFINE gone == IF r = 0 THEN {} ELSE {r}
  <2>1. gone \in SUBSET (1 .. lastId)
    BY DEF TypeOK
  <2>2. state' = [i \in RunIds |-> IF i \in gone THEN verdict ELSE state[i]]
    <3>1. DOMAIN state' = RunIds /\ state' = [i \in RunIds |-> state'[i]]
      BY <1>2 DEF TypeOK
    <3>2. ASSUME NEW i \in RunIds PROVE state'[i] = IF i \in gone THEN verdict ELSE state[i]
      BY <1>2, Bounds DEF TypeOK, RunIds
    <3> QED
      BY <3>1, <3>2
  <2> QED
    BY <1>1, <1>2, <2>1, <2>2
<1>3. ASSUME NEW c \in Callers, Reap(c) PROVE Slot!Settle
  <2> DEFINE gone == {r \in RunIds : \E s \in caller[c].reaping : s.run = r}
  <2>1. gone \in SUBSET (1 .. lastId)
    BY DEF SlotInv, RunIds, TypeOK
  <2>2. state' = [r \in RunIds |-> IF r \in gone THEN "failed" ELSE state[r]]
    BY <1>3 DEF Reap
  <2> QED
    BY <1>1, <1>3, <2>1, <2>2 DEF Reap
<1>4. ASSUME NEW c \in Callers, ClaimRun(c) PROVE Slot!Claim
  BY <1>4 DEF ClaimRun, Running, Slot!Claim, Slot!RunIds, RunIds
<1>5. ASSUME NEW r \in RunIds, CloseRun(r) PROVE Slot!Settle
  <2>1. r \in 0 .. lastId
    BY <1>5, Bounds DEF CloseRun, SlotInv, RunIds, TypeOK
  <2> QED
    BY <1>2, <1>5, <2>1 DEF CloseRun
<1>6. ASSUME NEW p \in Pids, UpdateCommits(p) PROVE [Slot!Next]_<<state, lastId>>
  <2>1. job[p].run \in 0 .. lastId
    BY DEF SlotInv, TypeOK, Job
  <2> QED
    BY <1>2, <1>6, <2>1 DEF UpdateCommits
<1>7. ASSUME NEW c \in Callers, Calls(c) \/ Request(c, "status") PROVE [Slot!Next]_<<state, lastId>>
  <2>1. CASE Reap(c) \/ ClaimRun(c)
    BY <1>3, <1>4, <2>1
  <2>2. CASE Request(c, "recompute") \/ Request(c, "status")
    BY <2>2 DEF Request
  <2>3. CASE Conflict(c) \/ SaveOrSpawnFails(c)
    BY <2>3 DEF Conflict, SaveOrSpawnFails
  <2>4. ASSUME NEW p \in Pids, Spawn(c, p) PROVE UNCHANGED <<state, lastId>>
    BY <2>4 DEF Spawn
  <2>5. CASE RecordPid(c) \/ RecordPidFails(c)
    BY <2>5 DEF RecordPid, RecordPidFails
  <2> QED
    BY <1>7, <2>1, <2>2, <2>3, <2>4, <2>5 DEF Calls
<1>8. ASSUME NEW p \in Pids, Reports(p) \/ Scores(p) \/ Dies(p) \/ Watch(p) \/ PidReused(p)
      PROVE  [Slot!Next]_<<state, lastId>>
  BY <1>6, <1>8 DEF Reports, Scores, Start, ScoreTicker, RunTimesOut, Finish, UpdateReads, Superseded,
                    UpdateRaises, Dies, Watch, PidReused
<1>9. CASE Stops \/ ApiRestarts \/ \E r \in RunIds : GoesStale(r)
  BY <1>9 DEF Stops, NotOurs, Terminate, Kill, ApiRestarts, GoesStale
<1>10. CASE UNCHANGED vars
  BY <1>10 DEF vars
<1> QED
  BY <1>5, <1>7, <1>8, <1>9, <1>10 DEF Next, Status

\* What a step of RunSlot keeps.
LEMMA SlotKeeps == ASSUME TypeOK, SlotInv, [Slot!Next]_<<state, lastId>>
                   PROVE  /\ OneRunning'
                          /\ \A r \in RunIds : state'[r] = "none" <=> r > lastId'
                          /\ lastId <= lastId' /\ lastId' \in Nat
                          /\ \A r \in RunIds : state[r] \in {"done", "failed"} => state'[r] \in {"done", "failed"}
<1>1. CASE Slot!Claim
  BY <1>1, Bounds DEF Slot!Claim, Slot!RunIds, RunIds, SlotInv, OneRunning, Running, TypeOK
<1>2. CASE Slot!Settle
  BY <1>2, Bounds DEF Slot!Settle, Slot!Settled, Slot!RunIds, RunIds, SlotInv, OneRunning, Running, TypeOK
<1>3. CASE UNCHANGED <<state, lastId>>
  BY <1>3 DEF SlotInv, OneRunning, Running, TypeOK
<1> QED
  BY <1>1, <1>2, <1>3 DEF Slot!Next

LEMMA SlotInvInit == Init => SlotInv
  BY Bounds DEF Init, SlotInv, OneRunning, Running, RunIds, Idle, NoJob, NewJob

\* Where the runs that callers, fail_runs, workers and stoppers hold come from.
FrameCaller   == \A c \in Callers : /\ \/ caller'[c].reaping = {}
                                       \/ caller'[c].reaping = StaleNow
                                       \/ caller'[c].reaping = caller[c].reaping
                                    /\ \/ caller'[c].run = 0
                                       \/ caller'[c].run = lastId'
                                       \/ caller'[c].run = caller[c].run
FrameClosing  == closing' \subseteq closing \cup Running
FrameJob      == \A p \in Pids : \/ job'[p].run = 0
                                 \/ job'[p].run = job[p].run
                                 \/ \E c \in Callers : job'[p].run = caller[c].run
FrameStopping == \A s \in stopping' : \/ \E t \in stopping : t.run = s.run
                                      \/ s.run \in RunIds /\ state'[s.run] = "failed"

LEMMA FrameSame == /\ UNCHANGED caller => FrameCaller
                   /\ UNCHANGED closing => FrameClosing
                   /\ UNCHANGED job => FrameJob
                   /\ UNCHANGED stopping => FrameStopping
                   /\ \A r : FailRun(r) => FrameClosing
<1>1. UNCHANGED caller => FrameCaller
  BY DEF FrameCaller
<1>2. UNCHANGED job => FrameJob
  BY DEF FrameJob
<1>3. UNCHANGED stopping => FrameStopping
  <2>1. SUFFICES ASSUME stopping' = stopping, NEW s \in stopping PROVE \E t \in stopping : t.run = s.run
    BY DEF FrameStopping
  <2> QED
    OBVIOUS
<1>4. (UNCHANGED closing => FrameClosing) /\ \A r : FailRun(r) => FrameClosing
  BY DEF FrameClosing, FailRun
<1> QED
  BY <1>1, <1>2, <1>3, <1>4

LEMMA FrameIdle == ASSUME TypeOK, NEW c \in Callers, caller' = [caller EXCEPT ![c] = Idle] PROVE FrameCaller
  BY DEF Idle, TypeOK, FrameCaller

LEMMA FrameExits == ASSUME TypeOK, NEW p \in Pids, Exits(p) PROVE FrameJob
<1>1. \A q \in Pids : job'[q] = IF q = p THEN NewJob(IF Held(p) THEN job[p].run ELSE 0, "none") ELSE job[q]
  BY DEF Exits, TypeOK
<1> QED
  BY <1>1 DEF NewJob, FrameJob

LEMMA FrameGoTo == ASSUME TypeOK, NEW p \in Pids, NEW pc, NEW w, GoTo(p, pc, w) PROVE FrameJob
<1>1. \A q \in Pids : job'[q].run = job[q].run
  BY DEF GoTo, TypeOK, Job
<1> QED
  BY <1>1 DEF FrameJob

LEMMA FrameCollect == ASSUME TypeOK, NEW ps, Collect(ps) PROVE FrameJob
<1>1. \A q \in Pids : job'[q] = NoJob \/ job'[q] = job[q]
  BY DEF Collect
<1>2. NoJob.run = 0
  BY DEF NoJob, NewJob
<1> QED
  BY <1>1, <1>2 DEF FrameJob

Frame == FrameCaller /\ FrameClosing /\ FrameJob /\ FrameStopping

LEMMA FrameCalls == ASSUME TypeOK, NEW c \in Callers, Calls(c) \/ Request(c, "status") PROVE Frame
<1> USE DEF rows, Frame
<1>c. \A d \in Callers : caller[d] \in Caller
  BY DEF TypeOK
<1>1. ASSUME NEW wants, Request(c, wants) PROVE Frame
  <2>1. FrameCaller
    BY <1>1 DEF Request, Idle, TypeOK, FrameCaller
  <2> QED
    BY <1>1, <2>1, FrameSame DEF Request
<1>2. CASE Reap(c)
  <2>1. FrameCaller
    <3>1. \A d \in Callers : caller'[d].reaping = {} \/ caller'[d].reaping = caller[d].reaping
      BY <1>2, <1>c DEF Reap, Idle, TypeOK, Caller
    <3>2. \A d \in Callers : caller'[d].run = 0 \/ caller'[d].run = caller[d].run
      BY <1>2, <1>c DEF Reap, Idle, TypeOK, Caller
    <3> QED
      BY <3>1, <3>2 DEF FrameCaller
  <2>2. FrameStopping
    <3>1. \A s \in caller[c].reaping : s.run \in RunIds /\ state'[s.run] = "failed"
      BY <1>2, <1>c DEF Reap, Caller, Reapable
    <3>2. ASSUME NEW s \in stopping', s \notin stopping PROVE \E t \in caller[c].reaping : s.run = t.run
      <4>1. PICK t \in caller[c].reaping : s = [pid |-> t.pid, run |-> t.run, sent |-> FALSE]
        BY <1>2, <3>2 DEF Reap
      <4> QED
        BY <4>1
    <3>3. ASSUME NEW s \in stopping'
          PROVE  (\E t \in stopping : t.run = s.run) \/ (s.run \in RunIds /\ state'[s.run] = "failed")
      <4>1. CASE s \in stopping
        BY <4>1
      <4>2. CASE s \notin stopping
        BY <3>1, <3>2, <4>2
      <4> QED
        BY <4>1, <4>2
    <3> QED
      BY <3>3 DEF FrameStopping
  <2> QED
    BY <1>2, <2>1, <2>2, FrameSame DEF Reap
<1>3. CASE ClaimRun(c)
  <2>1. FrameCaller
    <3>1. \A d \in Callers : caller'[d].reaping = caller[d].reaping
      BY <1>3, <1>c DEF ClaimRun, TypeOK, Caller
    <3>2. \A d \in Callers : caller'[d].run = lastId' \/ caller'[d].run = caller[d].run
      BY <1>3, <1>c DEF ClaimRun, TypeOK, Caller
    <3> QED
      BY <3>1, <3>2 DEF FrameCaller
  <2> QED
    BY <1>3, <2>1, FrameSame DEF ClaimRun
<1>4. CASE Conflict(c)
  BY <1>4, FrameIdle, FrameSame DEF Conflict
<1>5. CASE SaveOrSpawnFails(c)
  BY <1>5, FrameIdle, FrameSame DEF SaveOrSpawnFails
<1>6. ASSUME NEW p \in Pids, Spawn(c, p) PROVE Frame
  <2>1. FrameCaller
    <3>1. \A d \in Callers : caller'[d].reaping = caller[d].reaping /\ caller'[d].run = caller[d].run
      BY <1>6, <1>c DEF Spawn, TypeOK, Caller
    <3> QED
      BY <3>1 DEF FrameCaller
  <2>2. FrameJob
    <3>1. \A q \in Pids : job'[q] = job[q] \/ job'[q] = NewJob(caller[c].run, "start")
      BY <1>6 DEF Spawn, TypeOK
    <3> QED
      BY <3>1 DEF NewJob, FrameJob
  <2> QED
    BY <1>6, <2>1, <2>2, FrameSame DEF Spawn
<1>7. CASE RecordPid(c)
  BY <1>7, FrameIdle, FrameSame DEF RecordPid
<1>8. CASE RecordPidFails(c)
  BY <1>8, FrameIdle, FrameSame, FrameCollect DEF RecordPidFails
<1> QED
  BY <1>1, <1>2, <1>3, <1>4, <1>5, <1>6, <1>7, <1>8 DEF Calls

LEMMA FrameRest == ASSUME TypeOK,
                          \/ \E p \in Pids : Reports(p) \/ Scores(p) \/ Dies(p) \/ Watch(p) \/ PidReused(p)
                          \/ Stops \/ ApiRestarts
                          \/ \E r \in RunIds : CloseRun(r) \/ GoesStale(r)
                   PROVE  Frame
<1> USE DEF rows, Frame
<1>1. ASSUME NEW p \in Pids, Reports(p) \/ Scores(p) \/ Dies(p) PROVE Frame
  <2>1. UNCHANGED <<caller, closing, stopping>>
    BY <1>1 DEF Reports, Scores, Dies, Start, ScoreTicker, RunTimesOut, Finish, UpdateReads, Superseded,
                UpdateCommits, UpdateRaises
  <2>2. ASSUME ScoreTicker(p) PROVE FrameJob
    <3>1. \A q \in Pids : job'[q].run = job[q].run
      BY <2>2 DEF ScoreTicker, Scored, TypeOK, Job
    <3> QED
      BY <3>1 DEF FrameJob
  <2>3. FrameJob
    BY <1>1, <2>2, FrameExits, FrameGoTo DEF Reports, Scores, Dies, Start, RunTimesOut, Finish, UpdateReads,
                          Superseded, UpdateCommits, UpdateRaises
  <2> QED
    BY <2>1, <2>3, FrameSame
<1>2. ASSUME NEW p \in Pids, Watch(p) PROVE Frame
  BY <1>2, FrameSame, FrameCollect DEF Watch
<1>3. ASSUME NEW s \in stopping, NotOurs(s) \/ Terminate(s) \/ Kill(s) PROVE Frame
  <2>1. s \in Stopper /\ s.pid \in Pids
    BY DEF TypeOK, Stopper
  <2>2. FrameJob
    BY <1>3, <2>1, FrameExits, FrameSame DEF NotOurs, Terminate, Kill
  <2>3. FrameStopping
    <3>1. [s EXCEPT !.sent = TRUE].run = s.run
      BY <2>1 DEF Stopper
    <3>2. stopping' \subseteq stopping \cup {[s EXCEPT !.sent = TRUE]}
      BY <1>3 DEF NotOurs, Terminate, Kill
    <3>3. \A u \in stopping' : \E t \in stopping : t.run = u.run
      <4> TAKE u \in stopping'
      <4>1. CASE u \in stopping
        BY <4>1
      <4>2. CASE u = [s EXCEPT !.sent = TRUE]
        BY <3>1, <4>2
      <4> QED
        BY <3>2, <4>1, <4>2
    <3> QED
      BY <3>3 DEF FrameStopping
  <2> QED
    BY <1>3, <2>2, <2>3, FrameSame DEF NotOurs, Terminate, Kill
<1>4. CASE ApiRestarts
  <2>1. FrameCaller
    BY <1>4 DEF ApiRestarts, Idle, FrameCaller
  <2>2. FrameClosing /\ FrameStopping
    BY <1>4 DEF ApiRestarts, FrameClosing, FrameStopping
  <2> QED
    BY <1>4, <2>1, <2>2, FrameCollect DEF ApiRestarts
<1>5. ASSUME NEW r \in RunIds, CloseRun(r) \/ GoesStale(r) PROVE Frame
  <2>1. FrameClosing
    BY <1>5 DEF CloseRun, GoesStale, FrameClosing
  <2> QED
    BY <1>5, <2>1, FrameSame DEF CloseRun, GoesStale
<1>6. ASSUME NEW p \in Pids, PidReused(p) PROVE Frame
  BY <1>6, FrameSame DEF PidReused
<1> QED
  BY <1>1, <1>2, <1>3, <1>4, <1>5, <1>6 DEF Stops
LEMMA FrameStep == ASSUME TypeOK, [Next]_vars PROVE Frame
<1>1. CASE UNCHANGED vars
  BY <1>1, FrameSame DEF vars, Frame
<1>2. ASSUME NEW c \in Callers, Calls(c) \/ Request(c, "status") PROVE Frame
  BY <1>2, FrameCalls
<1>3. ASSUME \/ \E p \in Pids : Reports(p) \/ Scores(p) \/ Dies(p) \/ Watch(p) \/ PidReused(p)
             \/ Stops \/ ApiRestarts
             \/ \E r \in RunIds : CloseRun(r) \/ GoesStale(r)
      PROVE  Frame
  BY <1>3, FrameRest
<1> QED
  BY <1>1, <1>2, <1>3 DEF Next, Status

LEMMA SlotInvStep == ASSUME TypeOK, TypeOK', SlotInv, [Next]_vars PROVE SlotInv'
<1>1. Frame
  BY FrameStep
<1>2. [Slot!Next]_<<state, lastId>>
  BY SlotStep
<1>3. /\ OneRunning'
      /\ \A r \in RunIds : state'[r] = "none" <=> r > lastId'
      /\ lastId <= lastId' /\ lastId' \in Nat
      /\ \A r \in RunIds : state[r] \in {"done", "failed"} => state'[r] \in {"done", "failed"}
  BY <1>2, SlotKeeps
<1>4. lastId \in Nat /\ \A r \in RunIds : r \in Nat
  BY Bounds DEF TypeOK, RunIds
<1>5. \A r \in Running : r <= lastId
  BY <1>4 DEF Running, SlotInv
<1>6. ASSUME NEW c \in Callers, NEW s \in caller'[c].reaping PROVE s.run <= lastId'
  <2>1. CASE caller'[c].reaping = StaleNow
    BY <1>3, <1>4, <1>5, <1>6, <2>1 DEF StaleNow, Running
  <2>2. CASE caller'[c].reaping = caller[c].reaping
    <3>1. s.run <= lastId /\ s.run \in Nat
      BY <1>4, <1>6, <2>2 DEF SlotInv, TypeOK, Caller, Reapable
    <3> QED
      BY <1>3, <1>4, <3>1
  <2> QED
    BY <1>1, <1>6, <2>1, <2>2 DEF Frame, FrameCaller
<1>7. ASSUME NEW c \in Callers PROVE caller'[c].run <= lastId'
  <2>1. caller[c].run <= lastId /\ caller[c].run \in Nat
    BY Bounds DEF SlotInv, TypeOK, Caller
  <2> QED
    BY <1>1, <1>3, <1>4, <2>1 DEF Frame, FrameCaller
<1>8. ASSUME NEW r \in closing' PROVE r <= lastId'
  <2>1. r \in RunIds /\ r <= lastId
    BY <1>1, <1>5 DEF Frame, FrameClosing, SlotInv, TypeOK, Running
  <2> QED
    BY <1>3, <1>4, <2>1
<1>9. ASSUME NEW p \in Pids PROVE job'[p].run <= lastId'
  <2>1. job[p].run <= lastId /\ job[p].run \in Nat
    BY Bounds DEF SlotInv, TypeOK, Job
  <2>2. \A c \in Callers : caller[c].run <= lastId /\ caller[c].run \in Nat
    BY Bounds DEF SlotInv, TypeOK, Caller
  <2> QED
    BY <1>1, <1>3, <1>4, <2>1, <2>2 DEF Frame, FrameJob
<1>10. ASSUME NEW s \in stopping' PROVE state'[s.run] \in {"done", "failed"}
  <2>1. CASE \E t \in stopping : t.run = s.run
    <3>1. s.run \in RunIds /\ state[s.run] \in {"done", "failed"}
      BY <2>1 DEF SlotInv, TypeOK, Stopper
    <3> QED
      BY <1>3, <3>1
  <2> QED
    BY <1>1, <1>10, <2>1 DEF Frame, FrameStopping
<1> QED
  BY <1>3, <1>6, <1>7, <1>8, <1>9, <1>10 DEF SlotInv

LEMMA Inductive == Spec => [](TypeOK /\ SlotInv)
<1>1. Init => TypeOK /\ SlotInv
  BY InitType, SlotInvInit
<1>2. TypeOK /\ TypeOK' /\ SlotInv /\ [Next]_vars => SlotInv'
  BY SlotInvStep
<1> QED
  BY <1>1, <1>2, TypeCorrect, PTL DEF Spec

\* Two status rows are never running together, whatever the number of callers,
\* pids, runs and restarts.
THEOREM OneRunningAlways == Spec => []OneRunning
<1>1. SlotInv => OneRunning
  BY DEF SlotInv
<1> QED
  BY <1>1, Inductive, PTL

\* The recompute implements its promise: every step claims an empty slot, settles
\* claimed runs or leaves the slot alone, and no settled run takes it back.
THEOREM ImplementsSlot == Spec => SlotSafety
<1>1. Init => Slot!Init
  BY DEF Init, Slot!Init, Slot!RunIds, RunIds
<1>2. TypeOK /\ SlotInv /\ [Next]_vars => [Slot!Next]_<<state, lastId>>
  BY SlotStep
<1> QED
  BY <1>1, <1>2, Inductive, PTL DEF Spec, SlotSafety, Slot!Safety

\* A stopping thread touches only the worker of a run that is over: not a process
\* that got the pid since, and not the worker of the run that holds the slot.
THEOREM StopsOnlyClosed == Spec => StopsOnlyClosedRuns
<1>1. ASSUME TypeOK, SlotInv, [Next]_vars, NEW p \in Pids, stopping' # stopping, os'[p] # os[p]
      PROVE  os[p] # "other" /\ (os[p] = "worker" => state[job[p].run] # "running")
  <2>1. CASE ApiRestarts
    <3>1. os[p] = "zombie"
      BY <1>1, <2>1 DEF ApiRestarts, Collect
    <3> QED
      BY <3>1
  <2>2. CASE \E s \in stopping : Terminate(s) \/ Kill(s)
    <3>1. PICK s \in stopping : (Terminate(s) \/ Kill(s)) /\ s.pid \in Pids
      BY <1>1, <2>2 DEF TypeOK, Stopper
    <3>2. os' = os \/ os' = [os EXCEPT ![s.pid] = IF Held(s.pid) THEN "zombie" ELSE "free"]
      BY <3>1 DEF Terminate, Kill, Exits
    <3>3. p = s.pid
      <4>1. p # s.pid => os'[p] = os[p]
        BY <1>1, <3>2 DEF TypeOK
      <4> QED
        BY <1>1, <4>1
    <3>4. os[p] = "worker" /\ job[p].run = s.run
      BY <3>1, <3>3 DEF Terminate, Kill, IsRecomputeWorker
    <3>5. state[s.run] # "running"
      BY <1>1 DEF SlotInv
    <3> QED
      BY <3>4, <3>5
  <2>3. CASE \E c \in Callers : Reap(c)
    BY <1>1, <2>3 DEF Reap
  <2>4. CASE \E s \in stopping : NotOurs(s)
    BY <1>1, <2>4 DEF NotOurs
  <2>5. CASE UNCHANGED stopping
    BY <1>1, <2>5
  <2>6. \/ ApiRestarts \/ \E s \in stopping : NotOurs(s) \/ Terminate(s) \/ Kill(s)
        \/ (\E c \in Callers : Reap(c)) \/ UNCHANGED stopping
    BY <1>1 DEF Next, Status, Calls, Reports, Scores, Stops, Request, ClaimRun, Conflict, SaveOrSpawnFails, Spawn,
                RecordPid, RecordPidFails, Start, ScoreTicker, RunTimesOut, Finish, UpdateReads, Superseded,
                UpdateCommits, UpdateRaises, Dies, Watch, PidReused, CloseRun, GoesStale, vars
  <2> QED
    BY <2>1, <2>2, <2>3, <2>4, <2>5, <2>6
<1>2. TypeOK /\ SlotInv /\ [Next]_vars =>
        [\A p \in Pids : stopping' # stopping /\ os'[p] # os[p] =>
             os[p] # "other" /\ (os[p] = "worker" => state[job[p].run] # "running")]_vars
  BY <1>1
<1> QED
  BY <1>2, Inductive, PTL DEF Spec, StopsOnlyClosedRuns

(***************************************************************************)
(* A superseded worker.  The bound needs to know, of every worker, that    *)
(* late counts from its last report at most: it is 0 while its run holds   *)
(* the slot (which no run gets back), hence when a report is committed,    *)
(* and between two reports it stays within the tickers scored since.       *)
(***************************************************************************)

Timely(j, live) == /\ j.run # 0
                   /\ j.late <= PROGRESS_EVERY
                   /\ j.run \in live => j.late = 0
                   /\ j.pc \in {"start", "commit"} => j.late = 0
                   /\ j.pc = "score" => j.late <= j.processed % PROGRESS_EVERY

LateInv == /\ \A c \in Callers : caller[c].pc = "launch" => caller[c].run # 0
           /\ \A p \in Pids : os[p] = "worker" => Timely(job[p], Running)

LEMMA LateInvInit == Init => LateInv
  BY DEF Init, LateInv, Idle

\* No run gets the slot back.
LEMMA NotRevived == ASSUME TypeOK, SlotInv, [Next]_vars, NEW r \in RunIds, r <= lastId
                    PROVE  r \in Running' => r \in Running
<1>1. [Slot!Next]_<<state, lastId>>
  BY SlotStep
<1>2. CASE Slot!Claim
  <2>1. r # lastId + 1 /\ r \in Nat /\ lastId \in Nat
    BY Bounds DEF TypeOK, RunIds
  <2> QED
    BY <1>2, <2>1 DEF Slot!Claim, Running, TypeOK
<1>3. CASE Slot!Settle
  BY <1>3 DEF Slot!Settle, Slot!Settled, Slot!RunIds, RunIds, Running, TypeOK
<1>4. CASE UNCHANGED <<state, lastId>>
  BY <1>4 DEF Running
<1> QED
  BY <1>1, <1>2, <1>3, <1>4 DEF Slot!Next

LEMMA StaysTimely == ASSUME TypeOK, SlotInv, [Next]_vars, NEW p \in Pids, Timely(job[p], Running)
                     PROVE  Timely(job[p], Running')
<1>1. job[p].run \in 0 .. MaxRuns /\ job[p].run <= lastId
  BY DEF TypeOK, Job, SlotInv
<1>2. job[p].run \in RunIds
  BY <1>1, Bounds DEF Timely, RunIds
<1> QED
  BY <1>1, <1>2, NotRevived DEF Timely

\* A launching request holds the run it claimed.
LEMMA LaunchersHold == ASSUME TypeOK, LateInv, [Next]_vars, NEW c \in Callers, caller'[c].pc = "launch"
                       PROVE  caller'[c].run # 0
<1> USE DEF rows
<1>c. \A d \in Callers : caller[d] \in Caller
  BY DEF TypeOK
<1>i. Idle.pc = "idle"
  BY DEF Idle
<1>1. CASE caller'[c] = caller[c]
  BY <1>1 DEF LateInv
<1>2. ASSUME NEW d \in Callers, NEW wants, Request(d, wants) PROVE caller'[c] = caller[c]
  BY <1>2, <1>c DEF Request, Idle, TypeOK
<1>3. ASSUME NEW d \in Callers, Reap(d) PROVE caller'[c] = caller[c]
  BY <1>3, <1>c, <1>i DEF Reap, TypeOK, Caller
<1>4. ASSUME NEW d \in Callers, ClaimRun(d) PROVE caller'[c] = caller[c] \/ caller'[c].run # 0
  <2>1. lastId + 1 # 0
    BY DEF TypeOK
  <2> QED
    BY <1>4, <1>c, <2>1 DEF ClaimRun, TypeOK, Caller
<1>5. ASSUME NEW d \in Callers, caller' = [caller EXCEPT ![d] = Idle] PROVE caller'[c] = caller[c]
  BY <1>5, <1>i DEF TypeOK
<1>6. ASSUME NEW d \in Callers, NEW p \in Pids, Spawn(d, p) PROVE caller'[c] = caller[c]
  BY <1>6, <1>c DEF Spawn, TypeOK, Caller
<1>7. CASE ApiRestarts
  BY <1>7, <1>i DEF ApiRestarts
<1>8. ASSUME UNCHANGED caller PROVE caller'[c] = caller[c]
  BY <1>8
<1>9. ASSUME NEW d \in Callers, Calls(d) \/ Request(d, "status") PROVE caller'[c] = caller[c] \/ caller'[c].run # 0
  BY <1>2, <1>3, <1>4, <1>5, <1>6, <1>9 DEF Calls, Conflict, SaveOrSpawnFails, RecordPid, RecordPidFails
<1>10. ASSUME NEW p \in Pids, Reports(p) \/ Scores(p) \/ Dies(p) \/ Watch(p) \/ PidReused(p) PROVE UNCHANGED caller
  BY <1>10 DEF Reports, Scores, Dies, Watch, PidReused, Start, ScoreTicker, RunTimesOut, Finish, UpdateReads,
               Superseded, UpdateCommits, UpdateRaises
<1>11. ASSUME Stops \/ \E r \in RunIds : CloseRun(r) \/ GoesStale(r) PROVE UNCHANGED caller
  BY <1>11 DEF Stops, NotOurs, Terminate, Kill, CloseRun, GoesStale
<1>12. ASSUME UNCHANGED vars PROVE UNCHANGED caller
  BY <1>12 DEF vars
<1> QED
  BY <1>1, <1>7, <1>8, <1>9, <1>10, <1>11, <1>12 DEF Next, Status

\* A worker's write goes where its pc says, and late stays.
LEMMA GoToTimely == ASSUME TypeOK, NEW p \in Pids, NEW pc, NEW w, NEW live, GoTo(p, pc, w), Timely(job[p], live),
                           pc = "update" \/ (pc \in {"commit", "score"} /\ job[p].late = 0)
                    PROVE  Timely(job'[p], live)
<1>1. job[p] \in Job
  BY DEF TypeOK
<1>2. job'[p].run = job[p].run /\ job'[p].late = job[p].late /\ job'[p].processed = job[p].processed
      /\ job'[p].pc = pc
  BY <1>1 DEF GoTo, TypeOK, Job
<1>3. job[p].processed % PROGRESS_EVERY \in 0 .. PROGRESS_EVERY - 1
  BY <1>1, Bounds DEF Job
<1> QED
  BY <1>2, <1>3 DEF Timely

LEMMA OthersTimely == ASSUME TypeOK, NEW p \in Pids, NEW q \in Pids, p # q, NEW pc, NEW w, GoTo(p, pc, w) \/ Exits(p)
                      PROVE  job'[q] = job[q]
  BY DEF GoTo, Exits, TypeOK

\* Division with remainder, and the remainder of a successor.
LEMMA Division == ASSUME NEW d \in Nat \ {0}, NEW n \in Nat PROVE n = d * (n \div d) + (n % d)
  BY Z3

LEMMA RemainderUnique == ASSUME NEW d \in Nat \ {0}, NEW q \in Int, NEW u \in Int,
                                NEW a \in 0 .. d - 1, NEW b \in 0 .. d - 1, d * q + a = d * u + b
                         PROVE  a = b
<1>1. CASE q = u
  BY <1>1
<1>2. CASE q >= u + 1
  <2>1. d * (q - u - 1) >= 0
    BY <1>2
  <2> QED
    BY <2>1
<1>3. CASE u >= q + 1
  <2>1. d * (u - q - 1) >= 0
    BY <1>3
  <2> QED
    BY <2>1
<1> QED
  BY <1>1, <1>2, <1>3

LEMMA RemainderGrows == ASSUME NEW d \in Nat \ {0}, NEW n \in Nat, NEW q \in Int, NEW u \in Int,
                               NEW a \in 0 .. d - 1, NEW b \in (0 .. d - 1) \ {0}, n = d * q + a, n + 1 = d * u + b
                        PROVE  b = a + 1
<1>1. CASE a = d - 1
  <2>1. d * u + b = d * (q + 1) + 0
    BY <1>1
  <2>2. b = 0
    BY <2>1, RemainderUnique
  <2> QED
    BY <2>2
<1>2. CASE a # d - 1
  <2>1. a + 1 \in 0 .. d - 1 /\ d * u + b = d * q + (a + 1)
    BY <1>2
  <2> QED
    BY <2>1, RemainderUnique
<1> QED
  BY <1>1, <1>2

LEMMA NextRemainder == ASSUME NEW d \in Nat \ {0}, NEW n \in Nat, (n + 1) % d # 0
                       PROVE  (n + 1) % d = (n % d) + 1
<1> DEFINE m == n + 1
           q == n \div d
           u == m \div d
           a == n % d
           b == m % d
<1>1. m \in Nat /\ a \in 0 .. d - 1 /\ q \in Int
  OBVIOUS
<1>2. n = d * q + a
  BY Division
<1> HIDE DEF m
<1>3. b \in 0 .. d - 1 /\ u \in Int
  BY <1>1
<1>4. m = d * u + b
  BY <1>1, Division
<1>5. n + 1 = d * u + b /\ b # 0
  BY <1>4 DEF m
<1> HIDE DEF q, u, a, b
<1>6. b = a + 1
  BY <1>1, <1>2, <1>3, <1>5, RemainderGrows
<1> QED
  BY <1>6 DEF a, b, m

\* One more ticker: the tickers since the last report grow by one, or a report is due.
LEMMA ScoredTimely == ASSUME NEW j \in Job, j.processed < Tickers, Timely(j, Running), j.pc = "score", j.run \in RunIds,
                             NEW n \in {0, 1}, NEW beat \in BOOLEAN,
                             (j.processed + 1) % PROGRESS_EVERY = 0 => beat
                      PROVE  Timely(Scored(j, n, beat), Running)
<1> DEFINE next == Scored(j, n, beat)
           late == IF state[j.run] = "running" THEN j.late ELSE j.late + 1
<1>1. next.run = j.run /\ next.late = late /\ next.processed = j.processed + 1
  BY DEF Scored, Job
<1>2. next.pc = IF beat THEN "update" ELSE "score"
  BY DEF Scored, Job
<1>3. j.processed \in Nat /\ j.late \in Nat /\ PROGRESS_EVERY \in Nat \ {0}
  BY Bounds DEF Job
<1>4. j.late <= j.processed % PROGRESS_EVERY
  BY DEF Timely
<1>5. j.processed % PROGRESS_EVERY \in 0 .. PROGRESS_EVERY - 1
  BY <1>3
<1>6. late <= PROGRESS_EVERY
  BY <1>3, <1>4, <1>5
<1>7. j.run \in Running => late = 0
  BY DEF Timely, Running
<1>8. ASSUME ~beat PROVE late <= (j.processed + 1) % PROGRESS_EVERY
  <2>1. (j.processed + 1) % PROGRESS_EVERY # 0
    BY <1>8
  <2>2. (j.processed + 1) % PROGRESS_EVERY = (j.processed % PROGRESS_EVERY) + 1
    BY <1>3, <2>1, NextRemainder
  <2> QED
    BY <1>3, <1>4, <1>5, <2>2
<1>9. j.run # 0
  BY DEF Timely
<1> HIDE DEF next, late
<1>10. Timely(next, Running)
  BY <1>1, <1>2, <1>6, <1>7, <1>8, <1>9 DEF Timely
<1> QED
  BY <1>10 DEF next

\* Every step of a worker keeps the workers timely, in the state the step started from.
LEMMA WorkerSteps == ASSUME TypeOK, SlotInv, LateInv, NEW p \in Pids, Reports(p) \/ Scores(p) \/ Dies(p),
                            NEW q \in Pids, os'[q] = "worker"
                     PROVE  Timely(job'[q], Running)
<1>1. ASSUME os[q] = "worker", job'[q] = job[q] PROVE Timely(job'[q], Running)
  BY <1>1 DEF LateInv
<1>2. ASSUME Exits(p) PROVE os[q] = "worker" /\ job'[q] = job[q]
  <2>1. os'[p] # "worker"
    BY <1>2 DEF Exits, TypeOK
  <2>2. p # q
    BY <2>1
  <2> QED
    BY <1>2, <2>2, OthersTimely DEF Exits, TypeOK
<1>3. ASSUME NEW pc, NEW w, GoTo(p, pc, w), os[p] = "worker", UNCHANGED os,
             pc = "update" \/ (pc \in {"commit", "score"} /\ job[p].late = 0)
      PROVE  Timely(job'[q], Running)
  <2>1. CASE p = q
    <3>1. Timely(job[p], Running)
      BY <1>3 DEF LateInv
    <3> QED
      BY <1>3, <2>1, <3>1, GoToTimely
  <2>2. CASE p # q
    <3>1. job'[q] = job[q]
      BY <1>3, <2>2, OthersTimely
    <3>2. os[q] = "worker"
      BY <1>3
    <3> QED
      BY <1>1, <3>1, <3>2
  <2> QED
    BY <2>1, <2>2
<1>4. CASE Start(p)
  <2>1. PICK w \in {"begin", "failed"} : GoTo(p, "update", w)
    BY <1>4 DEF Start
  <2>2. os[p] = "worker" /\ UNCHANGED os
    BY <1>4 DEF Start, Alive
  <2> QED
    BY <1>3, <2>1, <2>2
<1>5. CASE RunTimesOut(p) \/ Finish(p)
  <2>1. \E w : GoTo(p, "update", w)
    BY <1>5 DEF RunTimesOut, Finish
  <2>2. os[p] = "worker" /\ UNCHANGED os
    BY <1>5 DEF RunTimesOut, Finish, Alive
  <2> QED
    BY <1>3, <2>1, <2>2
<1>6. CASE UpdateReads(p)
  <2>1. GoTo(p, "commit", job[p].writes)
    BY <1>6 DEF UpdateReads
  <2>2. os[p] = "worker" /\ UNCHANGED os /\ state[job[p].run] = "running"
    BY <1>6 DEF UpdateReads, Alive
  <2>3. job[p].run \in Running
    <3>1. Timely(job[p], Running)
      BY <2>2 DEF LateInv
    <3>2. job[p].run \in 0 .. MaxRuns
      BY DEF TypeOK, Job
    <3>3. job[p].run \in RunIds
      BY <3>1, <3>2, Bounds DEF Timely, RunIds
    <3> QED
      BY <2>2, <3>3 DEF Running
  <2>4. job[p].late = 0
    BY <2>2, <2>3 DEF LateInv, Timely
  <2> QED
    BY <1>3, <2>1, <2>2, <2>4
<1>7. CASE UpdateCommits(p)
  <2>1. os[p] = "worker" /\ job[p].pc = "commit"
    BY <1>7 DEF UpdateCommits, Alive
  <2>2. job[p].late = 0
    BY <2>1 DEF LateInv, Timely
  <2>3. CASE GoTo(p, "score", "none") /\ UNCHANGED os
    BY <1>3, <2>1, <2>2, <2>3
  <2>4. CASE Exits(p)
    BY <1>1, <1>2, <2>4
  <2> QED
    BY <1>7, <2>3, <2>4 DEF UpdateCommits
<1>8. CASE UpdateRaises(p)
  <2>1. os[p] = "worker"
    BY <1>8 DEF UpdateRaises, Alive
  <2>2. CASE GoTo(p, "update", "failed") /\ UNCHANGED os
    BY <1>3, <2>1, <2>2
  <2>3. CASE Exits(p)
    BY <1>1, <1>2, <2>3
  <2> QED
    BY <1>8, <2>2, <2>3 DEF UpdateRaises
<1>9. CASE Superseded(p) \/ Dies(p)
  BY <1>1, <1>2, <1>9 DEF Superseded, Dies
<1>10. CASE ScoreTicker(p)
  <2>1. PICK n \in {0, 1}, beat \in BOOLEAN : /\ (job[p].processed + 1) % PROGRESS_EVERY = 0 => beat
                                              /\ job' = [job EXCEPT ![p] = Scored(job[p], n, beat)]
    BY <1>10 DEF ScoreTicker
  <2>2. os[p] = "worker" /\ job[p].pc = "score" /\ UNCHANGED os /\ job[p].processed < Tickers
    BY <1>10 DEF ScoreTicker, Alive
  <2>3. CASE p = q
    <3>1. Timely(job[p], Running) /\ job[p] \in Job
      BY <2>2 DEF LateInv, TypeOK
    <3>2. job[p].run \in 0 .. MaxRuns
      BY DEF TypeOK, Job
    <3>3. job[p].run \in RunIds
      BY <3>1, <3>2, Bounds DEF Timely, RunIds
    <3>4. Timely(Scored(job[p], n, beat), Running)
      BY <2>1, <2>2, <3>1, <3>3, ScoredTimely
    <3>5. job'[p] = Scored(job[p], n, beat)
      BY <2>1 DEF TypeOK
    <3> QED
      BY <2>3, <3>4, <3>5
  <2>4. CASE p # q
    <3>1. job'[q] = job[q] /\ os[q] = "worker"
      BY <2>1, <2>2, <2>4 DEF TypeOK
    <3> QED
      BY <1>1, <3>1
  <2> QED
    BY <2>3, <2>4
<1> QED
  BY <1>4, <1>5, <1>6, <1>7, <1>8, <1>9, <1>10 DEF Reports, Scores

\* The other steps leave a worker as it is, or start one.
LEMMA OtherSteps == ASSUME TypeOK, LateInv, NEW q \in Pids, os'[q] = "worker",
                           \/ \E c \in Callers : Calls(c) \/ Request(c, "status")
                           \/ \E p \in Pids : Watch(p) \/ PidReused(p)
                           \/ Stops \/ ApiRestarts
                           \/ \E r \in RunIds : CloseRun(r) \/ GoesStale(r)
                           \/ UNCHANGED vars
                    PROVE  Timely(job'[q], Running) \/ Timely(job'[q], Running')
<1> USE DEF rows
<1>1. ASSUME os[q] = "worker", job'[q] = job[q] PROVE Timely(job'[q], Running)
  BY <1>1 DEF LateInv
<1>2. ASSUME UNCHANGED <<os, job>> PROVE Timely(job'[q], Running)
  BY <1>1, <1>2
<1>3. ASSUME NEW ps, Collect(ps) PROVE os[q] = "worker" /\ job'[q] = job[q]
  BY <1>3 DEF Collect
<1>4. ASSUME NEW c \in Callers, NEW p \in Pids, Spawn(c, p) PROVE Timely(job'[q], Running)
  <2>1. CASE p = q
    <3>1. job'[q] = NewJob(caller[c].run, "start")
      BY <1>4, <2>1 DEF Spawn, TypeOK
    <3>2. caller[c].run # 0
      BY <1>4 DEF Spawn, LateInv
    <3>3. 0 <= PROGRESS_EVERY
      BY Bounds
    <3> QED
      BY <3>1, <3>2, <3>3 DEF NewJob, Timely
  <2>2. CASE p # q
    BY <1>1, <1>4, <2>2 DEF Spawn, TypeOK
  <2> QED
    BY <2>1, <2>2
<1>5. ASSUME NEW c \in Callers, Calls(c) \/ Request(c, "status") PROVE Timely(job'[q], Running)
  <2>1. ASSUME NEW wants, Request(c, wants) PROVE UNCHANGED <<os, job>>
    BY <2>1 DEF Request
  <2>2. ASSUME Reap(c) \/ ClaimRun(c) \/ Conflict(c) \/ SaveOrSpawnFails(c) \/ RecordPid(c) PROVE UNCHANGED <<os, job>>
    BY <2>2 DEF Reap, ClaimRun, Conflict, SaveOrSpawnFails, RecordPid
  <2>3. ASSUME RecordPidFails(c) PROVE Timely(job'[q], Running)
    BY <1>1, <1>3, <2>3 DEF RecordPidFails
  <2> QED
    BY <1>2, <1>4, <1>5, <2>1, <2>2, <2>3 DEF Calls
<1>6. ASSUME NEW p \in Pids, Watch(p) PROVE Timely(job'[q], Running)
  BY <1>1, <1>3, <1>6 DEF Watch
<1>7. ASSUME NEW p \in Pids, PidReused(p) PROVE Timely(job'[q], Running)
  <2>1. os[q] = "worker" /\ job'[q] = job[q]
    BY <1>7 DEF PidReused, TypeOK
  <2> QED
    BY <1>1, <2>1
<1>8. ASSUME NEW s \in stopping, NotOurs(s) \/ Terminate(s) \/ Kill(s) PROVE Timely(job'[q], Running)
  <2>1. s.pid \in Pids
    BY DEF TypeOK, Stopper
  <2>2. ASSUME Exits(s.pid) PROVE os[q] = "worker" /\ job'[q] = job[q]
    <3>1. os'[s.pid] # "worker"
      BY <2>1, <2>2 DEF Exits, TypeOK
    <3>2. s.pid # q
      BY <3>1
    <3> QED
      BY <2>1, <2>2, <3>2 DEF Exits, TypeOK
  <2> QED
    BY <1>1, <1>2, <1>8, <2>2 DEF NotOurs, Terminate, Kill
<1>9. CASE ApiRestarts
  BY <1>1, <1>3, <1>9 DEF ApiRestarts
<1>10. ASSUME (\E r \in RunIds : CloseRun(r) \/ GoesStale(r)) \/ UNCHANGED vars PROVE UNCHANGED <<os, job>>
  BY <1>10 DEF CloseRun, GoesStale, vars
<1> QED
  BY <1>2, <1>5, <1>6, <1>7, <1>8, <1>9, <1>10 DEF Stops

\* What a job is after a step is timely with the slot as it is after the step.
LEMMA LateStep == ASSUME TypeOK, TypeOK', SlotInv, LateInv, [Next]_vars PROVE LateInv'
<1>1. ASSUME NEW q \in Pids, os'[q] = "worker" PROVE Timely(job'[q], Running) \/ Timely(job'[q], Running')
  BY <1>1, WorkerSteps, OtherSteps DEF Next, Status
<1>2. ASSUME NEW q \in Pids, Timely(job'[q], Running), os'[q] = "worker" PROVE Timely(job'[q], Running')
  <2>1. job'[q].run \in RunIds
    <3>1. job'[q].run \in 0 .. MaxRuns
      BY DEF TypeOK, Job
    <3> QED
      BY <1>2, <3>1, Bounds DEF Timely, RunIds
  <2>2. job'[q].run <= lastId
    <3>1. Frame
      BY FrameStep
    <3>2. job[q].run <= lastId /\ \A c \in Callers : caller[c].run <= lastId
      BY DEF SlotInv
    <3>3. 0 <= lastId
      BY DEF TypeOK
    <3> QED
      BY <3>1, <3>2, <3>3 DEF Frame, FrameJob
  <2> QED
    BY <1>2, <2>1, <2>2, NotRevived DEF Timely
<1> QED
  BY <1>1, <1>2, LaunchersHold DEF LateInv

\* A worker whose run was taken away from it scores at most PROGRESS_EVERY more
\* tickers before it notices, whatever the universe's size and however writes fail.
THEOREM SupersededWorkersStop == Spec => []SupersededWorkerBounded
<1>1. Init => LateInv
  BY LateInvInit
<1>2. TypeOK /\ TypeOK' /\ SlotInv /\ LateInv /\ [Next]_vars => LateInv'
  BY LateStep
<1>3. LateInv => SupersededWorkerBounded
  BY DEF LateInv, Timely, SupersededWorkerBounded
<1> QED
  BY <1>1, <1>2, <1>3, Inductive, PTL DEF Spec
=============================================================================
