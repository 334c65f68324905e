--------------------------- MODULE MachinesProofs ---------------------------
(***************************************************************************)
(* What TLC checks of the seven machines of MCMachines on a handful of     *)
(* hours, days, candles, weeks and sessions, proved for any number of      *)
(* them: the cron heartbeat, the tracked universe and its wipe, the daily  *)
(* opportunity flags, the Warren watch row, the opportunity outcomes, the  *)
(* Warren replay and the Weinstein stage.  Each part has its own variables *)
(* and its own inductive invariant; the last section puts them together.   *)
(***************************************************************************)
EXTENDS MCMachines, WellFoundedInduction, TLAPS

-----------------------------------------------------------------------------
(* Sets of numbers. *)

LEMMA LeastOf ==
  ASSUME NEW set \in SUBSET Nat, set # {}
  PROVE  Min(set) \in set /\ \A d \in set : Min(set) <= d
<1>1. \E m \in set : \A d \in set : ~ (<<d, m>> \in OpToRel(<, Nat))
  BY NatLessThanWellFounded, WFMin, Zenon
<1>2. \E m \in set : \A d \in set : ~ (d < m)
  BY <1>1, Zenon DEF OpToRel
<1>3. \E m \in set : \A d \in set : m <= d
  BY <1>2
<1> QED
  BY <1>3 DEF Min

\* A nonempty set of numbers up to n has a greatest.
LEMMA GreatestOf ==
  ASSUME NEW n \in Nat, NEW set \in SUBSET (0 .. n), set # {}
  PROVE  \E m \in set : \A d \in set : d <= m
<1> DEFINE T == {n - d : d \in set}
<1>1. T \in SUBSET Nat /\ T # {}
  <2>1. ASSUME NEW d \in set PROVE n - d \in Nat
    OBVIOUS
  <2> QED
    BY <2>1
<1>2. Min(T) \in T /\ \A e \in T : Min(T) <= e
  BY <1>1, LeastOf
<1>3. PICK m \in set : Min(T) = n - m
  BY <1>2
<1>4. ASSUME NEW d \in set PROVE d <= m
  <2>1. n - d \in T /\ n \in Int /\ m \in Int /\ d \in Int
    OBVIOUS
  <2>2. Min(T) <= n - d
    BY <1>2, <2>1
  <2> QED
    BY <1>3, <2>1, <2>2
<1> QED
  BY <1>4

LEMMA MaxIs ==
  ASSUME NEW n \in Nat, NEW set \in SUBSET (0 .. n), set # {}
  PROVE  Max(set) \in set /\ \A d \in set : d <= Max(set)
<1>1. \E m \in set : \A d \in set : m >= d
  BY GreatestOf
<1>2. Max(set) \in set /\ \A d \in set : Max(set) >= d
  BY <1>1 DEF Max
<1> QED
  BY <1>2

-----------------------------------------------------------------------------
(* The cron heartbeat. *)

LogRow == [started : Nat, finished : Nat, status : Statuses]

\* A run that was closed as a success did its work when it was closed.
CronInv ==
    /\ hour \in Nat
    /\ log \in Seq(LogRow)
    /\ alive \subseteq 0 .. Len(log)
    /\ doneAt \in Nat /\ doneAt <= Clock
    /\ \A i \in DOMAIN log : log[i].status = "success" => 0 < doneAt /\ log[i].finished <= doneAt

LEMMA EndHolds ==
  ASSUME CronInv, NEW run \in alive, NEW end \in Ends,
         hour' = hour, alive' = alive \ {run},
         doneAt' = IF end \in {"returns", "exit0"} THEN Clock ELSE doneAt,
         \/ run > 0 /\ log' = [log EXCEPT ![run] = Closed(log[run], end)]
         \/ UNCHANGED log
  PROVE  CronInv'
<1>1. Clock \in Nat /\ 0 < Clock /\ Clock' = Clock
  BY DEF CronInv, Clock
<1>2. doneAt' \in Nat /\ doneAt <= doneAt' /\ doneAt' <= Clock
  BY <1>1 DEF CronInv
<1>3. StatusOf(end) \in Statuses /\ (StatusOf(end) = "success" => end \in {"returns", "exit0"})
  BY DEF StatusOf, CleanEnd, Statuses, Ends
<1>4. CASE UNCHANGED log
  <2>1. ASSUME NEW i \in DOMAIN log, log[i].status = "success"
        PROVE  0 < doneAt' /\ log[i].finished <= doneAt'
    <3>1. log[i] \in LogRow /\ 0 < doneAt /\ log[i].finished <= doneAt /\ doneAt \in Nat
      BY <2>1 DEF CronInv
    <3>2. log[i].finished \in Nat
      BY <3>1 DEF LogRow
    <3> QED
      BY <1>2, <3>1, <3>2
  <2> QED
    BY <1>1, <1>2, <1>4, <2>1 DEF CronInv
<1>5. CASE run > 0 /\ log' = [log EXCEPT ![run] = Closed(log[run], end)]
  <2>1. run \in DOMAIN log
    BY <1>5 DEF CronInv
  <2>2. log[run] \in LogRow
    BY <2>1 DEF CronInv
  <2> DEFINE r == Closed(log[run], end)
  <2>3. r \in LogRow /\ r.status = StatusOf(end) /\ r.finished = Clock
    BY <1>1, <1>3, <2>2 DEF Closed, LogRow
  <2> HIDE DEF r
  <2>4. log' \in Seq(LogRow) /\ DOMAIN log' = DOMAIN log /\ Len(log') = Len(log)
    BY <1>5, <2>1, <2>3 DEF CronInv, r
  <2>5. log'[run] = r /\ \A i \in DOMAIN log : i # run => log'[i] = log[i]
    BY <1>5, <2>1 DEF CronInv, r
  <2>6. ASSUME NEW i \in DOMAIN log, log'[i].status = "success"
        PROVE  0 < doneAt' /\ log'[i].finished <= doneAt'
    <3>1. CASE i = run
      BY <1>1, <1>3, <2>3, <2>5, <2>6, <3>1
    <3>2. CASE i # run
      <4>1. log[i] \in LogRow /\ 0 < doneAt /\ log[i].finished <= doneAt
        BY <2>5, <2>6, <3>2 DEF CronInv
      <4>2. log[i].finished \in Nat
        BY <4>1 DEF LogRow
      <4> QED
        BY <1>2, <2>5, <3>2, <4>1, <4>2 DEF CronInv
    <3> QED
      BY <3>1, <3>2
  <2> QED
    BY <1>1, <1>2, <2>4, <2>6 DEF CronInv
<1> QED
  BY <1>4, <1>5

LEMMA CronStep ==
  ASSUME CronInv, [NextCron]_cvars
  PROVE  CronInv'
<1>1. CASE Start
  <2>1. Clock' = Clock /\ Clock \in Nat
    BY <1>1 DEF Start, Clock, CronInv
  <2>0. UNCHANGED <<hour, doneAt>>
    BY <1>1 DEF Start
  <2>2. CASE alive' = alive \cup {0} /\ UNCHANGED log
    <3>1. alive' \subseteq 0 .. Len(log)
      BY <2>2 DEF CronInv
    <3> QED
      BY <2>0, <2>1, <2>2, <3>1 DEF CronInv
  <2>3. CASE /\ log' = Append(log, [started |-> Clock, finished |-> 0, status |-> "running"])
             /\ alive' = alive \cup {Len(log) + 1}
    <3> DEFINE new == [started |-> Clock, finished |-> 0, status |-> "running"]
    <3>1. new \in LogRow /\ new.status = "running"
      BY <2>1 DEF LogRow, Statuses
    <3> HIDE DEF new
    <3>2. log' \in Seq(LogRow) /\ Len(log') = Len(log) + 1 /\ Len(log) \in Nat
      BY <2>3, <3>1 DEF CronInv, new
    <3>3. \A i \in DOMAIN log' : log'[i] = IF i = Len(log) + 1 THEN new ELSE log[i]
      BY <2>3, <3>1 DEF CronInv, new
    <3>4. ASSUME NEW i \in DOMAIN log', log'[i].status = "success"
          PROVE  i \in DOMAIN log /\ log'[i] = log[i]
      BY <3>1, <3>2, <3>3, <3>4 DEF CronInv
    <3>5. alive' \subseteq 0 .. Len(log')
      <4>1. alive \subseteq 0 .. Len(log)
        BY DEF CronInv
      <4>2. alive' = alive \cup {Len(log) + 1}
        BY <2>3
      <4>3. ASSUME NEW x \in alive' PROVE x \in 0 .. Len(log) + 1
        <5>1. CASE x \in alive
          BY <3>2, <4>1, <5>1
        <5>2. CASE x = Len(log) + 1
          BY <3>2, <5>2
        <5> QED
          BY <4>2, <5>1, <5>2
      <4>4. Len(log') = Len(log) + 1
        BY <3>2
      <4> QED
        BY <4>3, <4>4
    <3>6. \A i \in DOMAIN log' : log'[i].status = "success" => 0 < doneAt /\ log'[i].finished <= doneAt
      BY <3>4 DEF CronInv
    <3>7. hour' \in Nat /\ doneAt' \in Nat /\ doneAt' <= Clock' /\ doneAt' = doneAt
      BY <2>0, <2>1 DEF CronInv
    <3>8. \A i \in DOMAIN log' : log'[i].status = "success" => 0 < doneAt' /\ log'[i].finished <= doneAt'
      BY <3>6, <3>7
    <3>9. log' \in Seq(LogRow)
      BY <3>2
    <3> QED
      BY <3>5, <3>7, <3>8, <3>9, Zenon DEF CronInv
  <2> QED
    BY <1>1, <2>2, <2>3 DEF Start
<1>2. CASE Hour
  <2>1. Clock' = Clock + 1 /\ Clock \in Nat /\ hour' \in Nat
    BY <1>2 DEF Hour, Clock, CronInv
  <2>2. UNCHANGED <<log, alive, starts, doneAt>>
    BY <1>2 DEF Hour
  <2>3. doneAt' <= Clock'
    BY <2>1, <2>2 DEF CronInv
  <2> QED
    BY <2>1, <2>2, <2>3 DEF CronInv
<1>3. ASSUME NEW run \in alive, End(run) PROVE CronInv'
  <2>1. PICK way \in Ends, count \in Counts :
          LET end == Judged(way, count)
          IN /\ doneAt' = IF end \in {"returns", "exit0"} THEN Clock ELSE doneAt
             /\ \/ run > 0 /\ end # "sigkill" /\ log' = [log EXCEPT ![run] = Closed(log[run], end)]
                \/ UNCHANGED log
    BY <1>3 DEF End
  <2>2. Judged(way, count) \in Ends
    BY DEF Judged, Ends
  <2>3. hour' = hour /\ alive' = alive \ {run}
    BY <1>3 DEF End
  <2> HIDE DEF Judged
  <2> QED
    BY <2>1, <2>2, <2>3, EndHolds
<1>4. CASE UNCHANGED cvars
  BY <1>4 DEF cvars, CronInv, Clock
<1> QED
  BY <1>1, <1>2, <1>3, <1>4 DEF NextCron

LEMMA CronInit == InitCron => CronInv
BY DEF InitCron, CronInv, Clock

\* Green is earned: while the page says ok the job really did its work within its
\* cadence, whatever rows the heartbeat failed to write and however runs were stopped,
\* skipped or overlapped (cron_heartbeat, _finish_row, _job_health).
THEOREM GreenIsEarned == CronSpec => []OkIsEarned
<1>1. InitCron => CronInv
  BY CronInit
<1>2. CronInv /\ [NextCron]_cvars => CronInv'
  BY CronStep
<1>3. CronInv => OkIsEarned
  <2> SUFFICES ASSUME CronInv, Health = "ok"
               PROVE  doneAt > 0 /\ Clock <= doneAt + Cadence
    BY DEF OkIsEarned
  <2>1. Successes # {} /\ Clock <= log[NewestSuccess].finished + Cadence
    BY DEF Health
  <2>2. Len(log) \in Nat /\ Successes \in SUBSET (0 .. Len(log)) /\ Successes \subseteq DOMAIN log
    BY DEF Successes, CronInv
  <2>3. NewestSuccess \in Successes
    <3>1. \E i \in Successes : \A j \in Successes : j <= i
      BY <2>1, <2>2, GreatestOf
    <3> QED
      BY <3>1 DEF NewestSuccess
  <2>4. /\ log[NewestSuccess] \in LogRow
        /\ 0 < doneAt /\ log[NewestSuccess].finished <= doneAt
    BY <2>2, <2>3 DEF CronInv, Successes
  <2>5. log[NewestSuccess].finished \in Nat
    BY <2>4 DEF LogRow
  <2> QED
    BY <2>1, <2>4, <2>5, CronAssumption DEF CronInv, Clock
<1> QED
  BY <1>1, <1>2, <1>3, PTL DEF CronSpec
-----------------------------------------------------------------------------
(* The tracked universe and its wipe. *)

Pass == [on : BOOLEAN, today : Nat, added : SUBSET Tickers, todo : SUBSET Tickers]

\* A pass that is on was begun today or on an earlier day.
UniverseInv ==
    /\ day \in Nat
    /\ viewed \in [Tickers -> Nat]
    /\ protections \in [Tickers -> SUBSET Kinds]
    /\ added \subseteq Tickers
    /\ pass \in Pass
    /\ pass.on => 0 < pass.today /\ pass.today <= Today

LEMMA DoneIs ==
  ASSUME UniverseInv, pass.on, NEW t \in Tickers, pass' = Done(t), day' = day
  PROVE  pass' \in Pass /\ pass'.today = pass.today /\ pass'.today <= Today'
<1>1. pass \in Pass /\ pass.todo \ {t} \in SUBSET Tickers /\ (pass.todo # {t}) \in BOOLEAN
  BY DEF UniverseInv, Pass
<1>2. pass' \in Pass /\ pass'.today = pass.today
  BY <1>1 DEF Done, Pass
<1> QED
  BY <1>2 DEF UniverseInv, Today

LEMMA UniverseStep ==
  ASSUME UniverseInv, [NextUniverse]_uvars
  PROVE  UniverseInv'
<1>0. Today \in Nat /\ 0 < Today
  BY DEF UniverseInv, Today
<1>1. CASE PassBegins
  <2>1. PICK todo \in SUBSET Candidates :
          pass' = [on |-> TRUE, today |-> Today, added |-> added, todo |-> todo]
    BY <1>1 DEF PassBegins
  <2>2. todo \subseteq Tickers /\ added \subseteq Tickers
    BY DEF Candidates, UniverseInv
  <2>3. pass' \in Pass /\ pass'.today = Today
    BY <1>0, <2>1, <2>2 DEF Pass
  <2>4. UNCHANGED <<day, viewed, protections, added>> /\ Today' = Today
    BY <1>1 DEF PassBegins, Today
  <2> QED
    BY <1>0, <2>3, <2>4 DEF UniverseInv
<1>2. CASE Tomorrow
  <2>1. Today' = Today + 1 /\ day' \in Nat
    BY <1>2 DEF Tomorrow, Today, UniverseInv
  <2>2. UNCHANGED <<viewed, protections, added, pass>>
    BY <1>2 DEF Tomorrow
  <2>3. pass.on => pass.today <= Today'
    BY <1>0, <2>1 DEF UniverseInv, Pass
  <2> QED
    BY <2>1, <2>2, <2>3 DEF UniverseInv
<1>3. ASSUME NEW t \in Tickers,
             OpenPage(t) \/ PageShown(t) \/ AddChecked(t) \/ AddCommitted(t) \/ RemoveAdded(t)
               \/ Protect(t) \/ Unprotect(t) \/ Delisted(t)
      PROVE  UniverseInv'
  <2>1. UNCHANGED <<day, pass>> /\ Today' = Today
    BY <1>3 DEF OpenPage, PageShown, AddChecked, AddCommitted, RemoveAdded, Protect, Unprotect, Delisted, Today
  <2>2. viewed' \in [Tickers -> Nat]
    BY <1>0, <1>3
       DEF OpenPage, PageShown, AddChecked, AddCommitted, RemoveAdded, Protect, Unprotect, Delisted,
           Touched, NoView, UniverseInv
  <2>3. protections' \in [Tickers -> SUBSET Kinds]
    BY <1>3
       DEF OpenPage, PageShown, AddChecked, AddCommitted, RemoveAdded, Protect, Unprotect, Delisted, UniverseInv
  <2>4. added' \subseteq Tickers
    BY <1>3
       DEF OpenPage, PageShown, AddChecked, AddCommitted, RemoveAdded, Protect, Unprotect, Delisted, UniverseInv
  <2> QED
    BY <2>1, <2>2, <2>3, <2>4 DEF UniverseInv
<1>4. ASSUME NEW t \in Tickers, ApplyWipe(t) \/ ApplyAdopt(t) \/ ApplySkipped(t)
      PROVE  UniverseInv'
  <2>1. pass.on /\ pass' = Done(t) /\ UNCHANGED <<day, protections>>
    BY <1>4 DEF ApplyWipe, Wipes, ApplyAdopt, ApplySkipped
  <2>2. pass' \in Pass /\ pass'.today = pass.today /\ pass'.today <= Today'
    BY <2>1, DoneIs
  <2>3. pass.today \in Nat /\ 0 < pass.today
    BY <2>1 DEF UniverseInv, Pass
  <2>4. viewed' \in [Tickers -> Nat]
    BY <1>4, <2>3 DEF ApplyWipe, ApplyAdopt, ApplySkipped, NoView, UniverseInv
  <2>5. added' \subseteq Tickers
    BY <1>4 DEF ApplyWipe, ApplyAdopt, ApplySkipped, UniverseInv
  <2> QED
    BY <2>1, <2>2, <2>3, <2>4, <2>5 DEF UniverseInv
<1>5. CASE UNCHANGED uvars
  BY <1>5 DEF uvars, UniverseInv, Today
<1> QED
  BY <1>1, <1>2, <1>3, <1>4, <1>5 DEF NextUniverse

\* Only the wipe takes a view row away, and it looks again first.
LEMMA WipeLooksAgain ==
  ASSUME UniverseInv, [NextUniverse]_uvars, NEW t \in Tickers, Lost(t)
  PROVE  viewed[t] + IdleDays < Today /\ protections[t] = {}
<1>0. Today \in Nat /\ 0 < Today /\ viewed \in [Tickers -> Nat] /\ viewed[t] # NoView /\ viewed'[t] = NoView
  BY DEF UniverseInv, Today, Lost
<1>1. CASE PassBegins \/ Tomorrow \/ UNCHANGED uvars
  BY <1>0, <1>1 DEF PassBegins, Tomorrow, uvars
<1>2. ASSUME NEW x \in Tickers,
             OpenPage(x) \/ PageShown(x) \/ AddChecked(x) \/ AddCommitted(x) \/ RemoveAdded(x)
               \/ Protect(x) \/ Unprotect(x) \/ Delisted(x)
      PROVE  FALSE
  <2>1. viewed' = viewed \/ (\E v \in {viewed[x], Today} : viewed' = [viewed EXCEPT ![x] = v])
    BY <1>0, <1>2
       DEF OpenPage, PageShown, AddChecked, AddCommitted, RemoveAdded, Protect, Unprotect, Delisted, Touched
  <2> QED
    BY <1>0, <2>1 DEF NoView
<1>3. ASSUME NEW x \in Tickers, ApplyAdopt(x) \/ ApplySkipped(x)
      PROVE  FALSE
  <2>1. pass.on => pass.today \in Nat /\ 0 < pass.today
    BY DEF UniverseInv, Pass
  <2> QED
    BY <1>0, <1>3, <2>1 DEF ApplyAdopt, ApplySkipped, NoView
<1>4. ASSUME NEW x \in Tickers, ApplyWipe(x)
      PROVE  viewed[t] + IdleDays < Today /\ protections[t] = {}
  <2>1. x = t
    BY <1>0, <1>4 DEF ApplyWipe
  <2>2. Decision(t, pass.added, pass.today) = "wipe" /\ pass.on
    BY <1>4, <2>1 DEF ApplyWipe, Wipes, Rechecked
  <2>3. protections[t] = {} /\ viewed[t] + IdleDays < pass.today
    BY <2>2 DEF Decision
  <2>4. pass.today \in Nat /\ pass.today <= Today /\ viewed[t] \in Nat
    BY <1>0, <2>2 DEF UniverseInv, Pass
  <2> QED
    BY <1>0, <2>3, <2>4, UniverseAssumption
<1> QED
  BY <1>1, <1>2, <1>3, <1>4 DEF NextUniverse

LEMMA UniverseInit == InitUniverse => UniverseInv
BY DEF InitUniverse, UniverseInv, NoPass, Pass, NoView, Today

\* A ticker that loses its rows was last opened more than the idle window ago and
\* nothing protects it at that moment, however long ago the pass decided on it
\* (wipe_untouched_tickers.apply_one).
THEOREM WipeIsRechecked == UniverseSpec => WipeSparesTouched
<1>1. InitUniverse => UniverseInv
  BY UniverseInit
<1>2. UniverseInv /\ [NextUniverse]_uvars => UniverseInv'
  BY UniverseStep
<1>3. UniverseInv /\ [NextUniverse]_uvars
        => [\A t \in Tickers : Lost(t) => viewed[t] + IdleDays < Today /\ protections[t] = {}]_uvars
  BY WipeLooksAgain
<1> QED
  BY <1>1, <1>2, <1>3, PTL DEF UniverseSpec, WipeSparesTouched
-----------------------------------------------------------------------------
(* The daily opportunity flags. *)

Stages == {"idle", "begun", "looked", "noop", "judged", "written"}
RunFields == {"at", "row", "after", "sessions", "newest", "cohort", "good", "hits"}
Hits == [list : Nat, trigger : Triggers, day : Nat, basis : Nat]
RunRow == [after : Nat, seen : Nat, sessions : SUBSET Nat, hits : SUBSET Hits]

Covers(run, s) == s \in run.sessions \/ (run.after = 0 /\ s <= run.seen)
Covered(n) == \A s \in 1 .. n : \E i \in DOMAIN dailyRuns : Covers(dailyRuns[i], s)
Flagged(h) == \E f \in flags : SameKey(f, h)

\* What a process's run r knows: its row is its own and still open, the sessions up
\* to the one it starts after are accounted for, the later ones are its own, and its
\* hits are in the table once it has written them.
RunOK(r) ==
    /\ DOMAIN r = RunFields /\ r.at \in Stages
    /\ r.after \in Nat /\ r.newest \in Nat /\ r.sessions \subseteq 1 .. latest
    /\ r.hits \in SUBSET Hits /\ \A h \in r.hits : h.basis = h.day
    /\ r.at # "idle" => r.row \in DOMAIN dailyRuns /\ dailyRuns[r.row] = OpenRow /\ Covered(r.after)
    /\ r.at = "begun" => r.after = 0 \/ r.sessions = {}
    /\ r.at \in {"looked", "noop", "judged", "written"} =>
          r.after = 0 \/ r.after + 1 .. r.newest \subseteq r.sessions
    /\ r.at = "looked" => \A s \in r.sessions : r.cohort[s] \in Nat
    /\ r.at \in {"begun", "looked", "noop"} => r.hits = {}
    /\ r.at = "written" => \A h \in r.hits : Flagged(h)

\* What every stored row says it saw is accounted for, and its hits are in the table.
RowsOK ==
    \A i \in DOMAIN dailyRuns :
        Covered(dailyRuns[i].seen) /\ \A h \in dailyRuns[i].hits : Flagged(h)

RowsAreOwn ==
    \A c, d \in Clis :
        c # d /\ judging[c].at # "idle" /\ judging[d].at # "idle" => judging[c].row # judging[d].row

FlagsInv ==
    /\ latest \in Nat /\ stageDay \in Nat /\ lists \subseteq 1 .. latest
    /\ \A f \in flags : f.basis = f.day
    /\ dailyRuns \in Seq(RunRow)
    /\ RowsOK
    /\ DOMAIN judging = Clis
    /\ \A c \in Clis : RunOK(judging[c])
    /\ RowsAreOwn

LEMMA IdleIs ==
  /\ DOMAIN Idle = RunFields /\ Idle.at = "idle" /\ Idle.row = 0 /\ Idle.after = 0
  /\ Idle.sessions = {} /\ Idle.newest = 0 /\ Idle.hits = {}
BY DEF Idle, RunFields

LEMMA OpenRowIs ==
  /\ OpenRow \in RunRow /\ OpenRow.seen = 0 /\ OpenRow.hits = {}
  /\ \A s \in Nat : s > 0 => ~Covers(OpenRow, s)
BY DEF OpenRow, RunRow, Covers

\* The newest date stored is a row's, or there is none.
LEMMA LastSeenIs ==
  ASSUME FlagsInv
  PROVE  LastSeen \in Nat /\ Covered(LastSeen)
<1> DEFINE dated == {i \in DOMAIN dailyRuns : dailyRuns[i].seen > 0}
<1>1. LastSeen = IF dated = {} THEN 0 ELSE dailyRuns[Max(dated)].seen
  BY DEF LastSeen
<1>2. dated \subseteq DOMAIN dailyRuns
  OBVIOUS
<1>3. dated \in SUBSET (0 .. Len(dailyRuns)) /\ Len(dailyRuns) \in Nat
  BY DEF FlagsInv
<1> HIDE DEF dated
<1>4. CASE dated = {}
  BY <1>1, <1>4 DEF Covered
<1>5. CASE dated # {}
  <2>1. Max(dated) \in dated
    BY <1>3, <1>5, MaxIs
  <2>2. Max(dated) \in DOMAIN dailyRuns
    BY <1>2, <2>1
  <2>3. dailyRuns[Max(dated)] \in RunRow /\ Covered(dailyRuns[Max(dated)].seen)
    BY <2>2 DEF FlagsInv, RowsOK
  <2> QED
    BY <1>1, <1>5, <2>3 DEF RunRow
<1> QED
  BY <1>4, <1>5

\* A session's list is a number.
LEMMA CohortIs ==
  ASSUME FlagsInv, NEW s \in Nat
  PROVE  Cohort(s) \in Nat
<1> DEFINE older == {l \in lists : l < s} \cup {0}
<1>1. older \in SUBSET (0 .. latest) /\ older # {} /\ latest \in Nat
  <2>1. latest \in Nat /\ lists \subseteq 1 .. latest
    BY DEF FlagsInv
  <2>2. ASSUME NEW l \in older PROVE l \in 0 .. latest
    BY <2>1
  <2> QED
    BY <2>1, <2>2
<1> HIDE DEF older
<1>2. Max(older) \in older
  BY <1>1, MaxIs
<1> QED
  BY <1>1, <1>2 DEF Cohort, older

\* What a run knows stays true while its row is left alone, rows and flags only gain.
LEMMA RunKept ==
  ASSUME FlagsInv, NEW c \in Clis,
         judging'[c] = judging[c], latest' \in Nat, latest <= latest', flags \subseteq flags',
         \A n \in Nat : Covered(n) => Covered(n)',
         judging[c].at # "idle" =>
             judging[c].row \in DOMAIN dailyRuns' /\ dailyRuns'[judging[c].row] = dailyRuns[judging[c].row]
  PROVE  RunOK(judging[c])'
<1>1. RunOK(judging[c])
  BY DEF FlagsInv
<1>2. judging[c].after \in Nat /\ judging[c].sessions \subseteq 1 .. latest /\ latest \in Nat
  BY <1>1 DEF RunOK, FlagsInv
<1>3. judging[c].sessions \subseteq 1 .. latest'
  BY <1>2
<1>4. \A n \in Nat : n = judging[c].after /\ Covered(n) => Covered(judging[c].after)'
  BY DEF Covered
<1>5. \A h : Flagged(h) => \E f \in flags' : SameKey(f, h)
  BY DEF Flagged
<1>6. judging[c].at = "written" => \A h \in judging[c].hits : Flagged(h)'
  BY <1>1, <1>5 DEF RunOK, Flagged, SameKey
<1>7. judging[c].at # "idle" =>
         judging[c].row \in DOMAIN dailyRuns' /\ dailyRuns'[judging[c].row] = OpenRow /\ Covered(judging[c].after)'
  BY <1>1, <1>2, <1>4 DEF RunOK
<1> QED
  BY <1>1, <1>3, <1>6, <1>7 DEF RunOK, OpenRow
\* Sessions stay accounted for while rows are only appended, or open ones closed.
LEMMA CoveredKept ==
  ASSUME \A i \in DOMAIN dailyRuns :
            i \in DOMAIN dailyRuns' /\ (dailyRuns'[i] = dailyRuns[i] \/ dailyRuns[i] = OpenRow)
  PROVE  \A n \in Nat : Covered(n) => Covered(n)'
<1> SUFFICES ASSUME NEW n \in Nat, Covered(n), NEW s \in 1 .. n
             PROVE  \E i \in DOMAIN dailyRuns' : Covers(dailyRuns'[i], s)
  BY DEF Covered, Covers
<1>1. PICK i \in DOMAIN dailyRuns : Covers(dailyRuns[i], s)
  BY DEF Covered
<1>2. s \in Nat /\ s > 0
  OBVIOUS
<1>3. dailyRuns[i] # OpenRow
  BY <1>1, <1>2, OpenRowIs
<1> QED
  BY <1>1, <1>3

\* The rows' part of the invariant, when rows stay and flags only gain.
LEMMA RowsKept ==
  ASSUME FlagsInv, UNCHANGED dailyRuns, flags \subseteq flags'
  PROVE  dailyRuns' \in Seq(RunRow) /\ RowsOK' /\ \A n \in Nat : Covered(n) => Covered(n)'
<1>1. ASSUME NEW i \in DOMAIN dailyRuns PROVE Covered(dailyRuns[i].seen)'
  <2>1. Covered(dailyRuns[i].seen)
    BY DEF FlagsInv, RowsOK
  <2> QED
    BY <2>1 DEF Covered, Covers
<1>2. ASSUME NEW i \in DOMAIN dailyRuns, NEW h \in dailyRuns[i].hits PROVE Flagged(h)'
  <2>1. Flagged(h)
    BY DEF FlagsInv, RowsOK
  <2> QED
    BY <2>1 DEF Flagged, SameKey
<1>3. \A n \in Nat : Covered(n) => Covered(n)'
  BY DEF Covered, Covers
<1> QED
  BY <1>1, <1>2, <1>3 DEF FlagsInv, RowsOK

\* A run of process c moves on in its own row, or ends.
LEMMA RunMoves ==
  ASSUME FlagsInv, NEW c \in Clis,
         DOMAIN judging' = Clis, \A d \in Clis : d # c => judging'[d] = judging[d],
         judging'[c].at # "idle" => judging[c].at # "idle" /\ judging'[c].row = judging[c].row,
         UNCHANGED <<latest, stageDay, lists, dailyRuns>>,
         flags \subseteq flags', \A f \in flags' : f.basis = f.day,
         RunOK(judging[c])'
  PROVE  FlagsInv'
<1>1. dailyRuns' \in Seq(RunRow) /\ RowsOK' /\ \A n \in Nat : Covered(n) => Covered(n)'
  BY RowsKept
<1>2. ASSUME NEW d \in Clis PROVE RunOK(judging[d])'
  <2>1. CASE d = c
    BY <2>1
  <2>2. CASE d # c
    <3>1. latest' \in Nat /\ latest <= latest'
      BY DEF FlagsInv
    <3>2. judging[d].at # "idle" => judging[d].row \in DOMAIN dailyRuns' /\ dailyRuns'[judging[d].row] = dailyRuns[judging[d].row]
      BY DEF FlagsInv, RunOK
    <3> QED
      BY <1>1, <2>2, <3>1, <3>2, RunKept
  <2> QED
    BY <2>1, <2>2
<1>3. RowsAreOwn'
  BY DEF FlagsInv, RowsAreOwn
<1>4. latest' \in Nat /\ stageDay' \in Nat /\ lists' \subseteq 1 .. latest'
  BY DEF FlagsInv
<1> QED
  BY <1>1, <1>2, <1>3, <1>4 DEF FlagsInv
LEMMA BeginKeeps ==
  ASSUME FlagsInv, NEW c \in Clis, Begin(c)
  PROVE  FlagsInv'
<1> DEFINE n == Len(dailyRuns) + 1
<1>1. /\ judging[c].at = "idle" /\ UNCHANGED <<latest, stageDay, upstream, lists, flags>>
      /\ dailyRuns' = Append(dailyRuns, OpenRow)
  BY DEF Begin
<1>2. dailyRuns \in Seq(RunRow) /\ Len(dailyRuns) \in Nat /\ n \in Nat
  BY DEF FlagsInv
<1>3. dailyRuns' \in Seq(RunRow) /\ DOMAIN dailyRuns' = 1 .. n /\ DOMAIN dailyRuns = 1 .. Len(dailyRuns)
  BY <1>1, <1>2, OpenRowIs
<1>4. dailyRuns'[n] = OpenRow /\ n \in DOMAIN dailyRuns' /\ n \notin DOMAIN dailyRuns
  BY <1>1, <1>2, <1>3, OpenRowIs
<1>5. \A i \in DOMAIN dailyRuns : i \in DOMAIN dailyRuns' /\ dailyRuns'[i] = dailyRuns[i]
  BY <1>1, <1>2, <1>3, OpenRowIs
<1>5a. \A i \in DOMAIN dailyRuns' : i \in DOMAIN dailyRuns \/ i = n
  BY <1>2, <1>3
<1>6. \A m \in Nat : Covered(m) => Covered(m)'
  BY <1>5, CoveredKept
<1>7. RowsOK'
  <2>1. ASSUME NEW i \in DOMAIN dailyRuns', i = n
        PROVE  Covered(dailyRuns[i].seen)' /\ \A h \in dailyRuns'[i].hits : \E f \in flags' : SameKey(f, h)
    BY <1>4, <2>1, OpenRowIs DEF Covered
  <2>2. ASSUME NEW i \in DOMAIN dailyRuns
        PROVE  Covered(dailyRuns[i].seen)' /\ \A h \in dailyRuns'[i].hits : \E f \in flags' : SameKey(f, h)
    <3>1. dailyRuns'[i] = dailyRuns[i] /\ dailyRuns[i] \in RunRow
      BY <1>2, <1>5
    <3>2. Covered(dailyRuns[i].seen) /\ \A h \in dailyRuns[i].hits : Flagged(h)
      BY DEF FlagsInv, RowsOK
    <3>3. \A m \in Nat : m = dailyRuns'[i].seen /\ Covered(m) => Covered(dailyRuns[i].seen)'
      BY <1>6 DEF Covered
    <3> QED
      BY <1>1, <3>1, <3>2, <3>3 DEF Flagged, RunRow
  <2> QED
    BY <1>5a, <2>1, <2>2 DEF RowsOK, Flagged, SameKey
<1>8. /\ DOMAIN judging' = Clis
      /\ \A d \in Clis : d # c => judging'[d] = judging[d]
      /\ DOMAIN judging'[c] = RunFields /\ judging'[c].at = "begun" /\ judging'[c].row = n
      /\ judging'[c].newest = 0 /\ judging'[c].hits = {}
      /\ \/ judging'[c].after = LastSeen /\ judging'[c].sessions = {}
         \/ judging'[c].after = 0 /\ \E target \in 1 .. latest : judging'[c].sessions = {target}
  <2>1. DOMAIN judging = Clis
    BY DEF FlagsInv
  <2>2. CASE judging' = [judging EXCEPT ![c] = [Idle EXCEPT !.at = "begun", !.row = Len(dailyRuns) + 1, !.after = LastSeen]]
    BY <2>1, <2>2, IdleIs DEF RunFields
  <2>3. CASE \E target \in 1 .. latest : judging' = [judging EXCEPT ![c] =
              [Idle EXCEPT !.at = "begun", !.row = Len(dailyRuns) + 1, !.sessions = {target}]]
    <3>1. PICK target \in 1 .. latest : judging' = [judging EXCEPT ![c] =
              [Idle EXCEPT !.at = "begun", !.row = Len(dailyRuns) + 1, !.sessions = {target}]]
      BY <2>3
    <3> QED
      BY <2>1, <3>1, IdleIs DEF RunFields
  <2> QED
    BY <2>2, <2>3 DEF Begin
<1>9. RunOK(judging[c])'
  <2>1. judging'[c].after \in Nat /\ \A m \in Nat : m = judging'[c].after /\ Covered(m) => Covered(judging[c].after)'
    BY <1>6, <1>8, LastSeenIs DEF Covered
  <2>2. Covered(judging[c].after)'
    BY <1>8, <2>1, LastSeenIs DEF Covered
  <2>3. judging'[c].sessions \subseteq 1 .. latest'
    BY <1>1, <1>8
  <2> QED
    BY <1>4, <1>8, <2>1, <2>2, <2>3 DEF RunOK, Stages, OpenRow
<1>10. ASSUME NEW d \in Clis, d # c PROVE RunOK(judging[d])'
  <2>1. judging[d].at # "idle" =>
           judging[d].row \in DOMAIN dailyRuns' /\ dailyRuns'[judging[d].row] = dailyRuns[judging[d].row]
    BY <1>5 DEF FlagsInv, RunOK
  <2>2. latest' \in Nat /\ latest <= latest' /\ flags \subseteq flags' /\ judging'[d] = judging[d]
    BY <1>1, <1>8, <1>10 DEF FlagsInv
  <2> QED
    BY <1>6, <2>1, <2>2, RunKept
<1>11. RowsAreOwn'
  <2>1. \A d \in Clis : d # c /\ judging'[d].at # "idle" => judging'[d].row # n
    BY <1>4, <1>8 DEF FlagsInv, RunOK
  <2> QED
    BY <1>8, <2>1 DEF RowsAreOwn, FlagsInv
<1>12. latest' \in Nat /\ stageDay' \in Nat /\ lists' \subseteq 1 .. latest' /\ \A f \in flags' : f.basis = f.day
  BY <1>1 DEF FlagsInv
<1> QED
  BY <1>3, <1>7, <1>8, <1>9, <1>10, <1>11, <1>12 DEF FlagsInv

LEMMA LookKeeps ==
  ASSUME FlagsInv, NEW c \in Clis, Look(c)
  PROVE  FlagsInv'
<1> DEFINE r == judging[c]
           days == SessionsOf(r.after, r.sessions)
           at == IF \E s \in days : Cohort(s) > 0 THEN "looked" ELSE "noop"
           cohort == [s \in 1 .. latest |-> Cohort(s)]
           good == {x \in days \X Triggers : Job(x[2]) \in upstream[x[1]]}
<1>1. /\ r.at = "begun" /\ latest > 0 /\ UNCHANGED <<latest, stageDay, upstream, lists, flags, dailyRuns>>
      /\ judging' = [judging EXCEPT ![c] = [r EXCEPT
              !.at = at, !.sessions = days, !.newest = latest, !.cohort = cohort, !.good = good]]
  BY DEF Look
<1>2. RunOK(r) /\ DOMAIN judging = Clis /\ latest \in Nat
  BY DEF FlagsInv
<1>3. /\ days \subseteq 1 .. latest
      /\ r.after = 0 \/ (r.sessions = {} => r.after + 1 .. latest \subseteq days)
  BY <1>1, <1>2 DEF SessionsOf, RunOK
<1>4. \A s \in days : cohort[s] \in Nat
  BY <1>3, CohortIs
<1>5. at \in {"looked", "noop"}
  OBVIOUS
<1> HIDE DEF days, at, cohort, good
<1>6. /\ DOMAIN judging' = Clis
      /\ \A d \in Clis : d # c => judging'[d] = judging[d]
      /\ DOMAIN judging'[c] = RunFields /\ judging'[c].at = at /\ judging'[c].row = r.row
      /\ judging'[c].newest = latest /\ judging'[c].hits = r.hits /\ judging'[c].after = r.after
      /\ judging'[c].sessions = days /\ judging'[c].cohort = cohort
  BY <1>1, <1>2 DEF RunOK, RunFields
<1>7. Covered(r.after)'
  <2>1. Covered(r.after)
    BY <1>1, <1>2 DEF RunOK
  <2> QED
    BY <1>1, <1>6, <2>1 DEF Covered, Covers
<1>8. RunOK(judging[c])'
  <2>1. judging'[c].sessions \subseteq 1 .. latest' /\ judging'[c].newest \in Nat
    BY <1>1, <1>2, <1>3, <1>6
  <2>2. judging'[c].after = 0 \/ judging'[c].after + 1 .. judging'[c].newest \subseteq judging'[c].sessions
    BY <1>1, <1>2, <1>3, <1>6 DEF RunOK
  <2>3. judging'[c].hits = {} /\ judging'[c].after \in Nat
    BY <1>1, <1>2, <1>6 DEF RunOK
  <2>4. judging'[c].row \in DOMAIN dailyRuns' /\ dailyRuns'[judging'[c].row] = OpenRow
    BY <1>1, <1>2, <1>6 DEF RunOK
  <2>5. \A s \in judging'[c].sessions : judging'[c].cohort[s] \in Nat
    BY <1>4, <1>6
  <2>6. judging'[c].at \in Stages /\ judging'[c].at \notin {"idle", "begun", "written"}
    BY <1>5, <1>6 DEF Stages
  <2> QED
    BY <1>6, <1>7, <2>1, <2>2, <2>3, <2>4, <2>5, <2>6 DEF RunOK, OpenRow
<1>9. flags \subseteq flags' /\ \A f \in flags' : f.basis = f.day
  BY <1>1 DEF FlagsInv
<1> QED
  BY <1>1, <1>6, <1>8, <1>9, RunMoves

LEMMA JudgeKeeps ==
  ASSUME FlagsInv, NEW c \in Clis, Judge(c)
  PROVE  FlagsInv'
<1> DEFINE r == judging[c]
           pairs == {x \in r.sessions \X Triggers : Judgeable(r, x[1], x[2])}
           Found(fired) == {[list |-> r.cohort[x[1]], trigger |-> x[2], day |-> x[1],
                             basis |-> IF x[2] = "D2" THEN stageDay ELSE x[1]] : x \in fired}
           First(hits) == {h \in hits : \A g \in hits : SameKey(g, h) => h.day <= g.day}
<1>1. /\ r.at = "looked" /\ UNCHANGED <<latest, stageDay, upstream, lists, flags, dailyRuns>>
      /\ \E fired \in SUBSET pairs :
             judging' = [judging EXCEPT ![c] = [r EXCEPT !.at = "judged", !.hits = First(Found(fired))]]
  BY DEF Judge
<1>2. RunOK(r) /\ DOMAIN judging = Clis /\ latest \in Nat /\ stageDay \in Nat
  BY DEF FlagsInv
<1>3. ASSUME NEW x \in pairs
      PROVE  LET h == [list |-> r.cohort[x[1]], trigger |-> x[2], day |-> x[1],
                       basis |-> IF x[2] = "D2" THEN stageDay ELSE x[1]]
             IN h \in Hits /\ h.basis = h.day
  <2>1. x[1] \in r.sessions /\ x[2] \in Triggers /\ Judgeable(r, x[1], x[2])
    OBVIOUS
  <2>2. x[1] \in Nat /\ r.cohort[x[1]] \in Nat
    BY <1>1, <1>2, <2>1 DEF RunOK
  <2>3. x[2] = "D2" => stageDay = x[1]
    BY <2>1 DEF Judgeable, JudgeableStage
  <2> QED
    BY <1>2, <2>1, <2>2, <2>3 DEF Hits
<1>4. ASSUME NEW fired \in SUBSET pairs, NEW h \in First(Found(fired))
      PROVE  h \in Hits /\ h.basis = h.day
  <2>1. h \in Found(fired)
    OBVIOUS
  <2>2. PICK x \in fired : h = [list |-> r.cohort[x[1]], trigger |-> x[2], day |-> x[1],
                                basis |-> IF x[2] = "D2" THEN stageDay ELSE x[1]]
    BY <2>1
  <2>3. x \in pairs
    BY <2>2
  <2> QED
    BY <1>3, <2>2, <2>3
<1>5. PICK fired \in SUBSET pairs :
        judging' = [judging EXCEPT ![c] = [r EXCEPT !.at = "judged", !.hits = First(Found(fired))]]
  BY <1>1
<1> DEFINE hits == First(Found(fired))
<1>6. hits \in SUBSET Hits /\ \A h \in hits : h.basis = h.day
  BY <1>4
<1>7. judging' = [judging EXCEPT ![c] = [r EXCEPT !.at = "judged", !.hits = hits]]
  BY <1>5
<1> HIDE DEF hits, pairs, Found, First
<1>8. /\ DOMAIN judging' = Clis
      /\ \A d \in Clis : d # c => judging'[d] = judging[d]
      /\ DOMAIN judging'[c] = RunFields /\ judging'[c].at = "judged" /\ judging'[c].row = r.row
      /\ judging'[c].newest = r.newest /\ judging'[c].hits = hits /\ judging'[c].after = r.after
      /\ judging'[c].sessions = r.sessions
  BY <1>2, <1>7 DEF RunOK, RunFields
<1>9. Covered(r.after)'
  <2>1. Covered(r.after)
    BY <1>1, <1>2 DEF RunOK
  <2> QED
    BY <1>1, <1>8, <2>1 DEF Covered, Covers
<1>10. RunOK(judging[c])'
  <2>1. judging'[c].sessions \subseteq 1 .. latest' /\ judging'[c].newest \in Nat /\ judging'[c].after \in Nat
    BY <1>1, <1>2, <1>8 DEF RunOK
  <2>2. judging'[c].after = 0 \/ judging'[c].after + 1 .. judging'[c].newest \subseteq judging'[c].sessions
    BY <1>1, <1>2, <1>8 DEF RunOK
  <2>3. judging'[c].row \in DOMAIN dailyRuns' /\ dailyRuns'[judging'[c].row] = OpenRow
    BY <1>1, <1>2, <1>8 DEF RunOK
  <2> QED
    BY <1>6, <1>8, <1>9, <2>1, <2>2, <2>3 DEF RunOK, OpenRow, Stages
<1>11. flags \subseteq flags' /\ \A f \in flags' : f.basis = f.day
  BY <1>1 DEF FlagsInv
<1> QED
  BY <1>1, <1>8, <1>10, <1>11, RunMoves
LEMMA WriteKeeps ==
  ASSUME FlagsInv, NEW c \in Clis, Write(c)
  PROVE  FlagsInv'
<1> DEFINE r == judging[c]
           missing == {h \in r.hits : \A f \in flags : ~SameKey(f, h)}
<1>1. /\ r.at = "judged" /\ UNCHANGED <<latest, stageDay, upstream, lists, dailyRuns>>
      /\ flags' = flags \cup missing
      /\ judging' = [judging EXCEPT ![c] = [r EXCEPT !.at = "written"]]
  BY DEF Write
<1>2. RunOK(r) /\ DOMAIN judging = Clis
  BY DEF FlagsInv
<1>3. \A h \in r.hits : \E f \in flags' : SameKey(f, h)
  BY <1>1 DEF SameKey
<1>4. flags \subseteq flags' /\ \A f \in flags' : f.basis = f.day
  BY <1>1, <1>2 DEF FlagsInv, RunOK
<1> HIDE DEF missing
<1>5. /\ DOMAIN judging' = Clis
      /\ \A d \in Clis : d # c => judging'[d] = judging[d]
      /\ DOMAIN judging'[c] = RunFields /\ judging'[c].at = "written" /\ judging'[c].row = r.row
      /\ judging'[c].newest = r.newest /\ judging'[c].hits = r.hits /\ judging'[c].after = r.after
      /\ judging'[c].sessions = r.sessions
  BY <1>1, <1>2 DEF RunOK, RunFields
<1>6. Covered(r.after)'
  <2>1. Covered(r.after)
    BY <1>1, <1>2 DEF RunOK
  <2> QED
    BY <1>1, <1>5, <2>1 DEF Covered, Covers
<1>7. RunOK(judging[c])'
  <2>1. judging'[c].sessions \subseteq 1 .. latest' /\ judging'[c].newest \in Nat /\ judging'[c].after \in Nat
    BY <1>1, <1>2, <1>5 DEF RunOK
  <2>2. judging'[c].after = 0 \/ judging'[c].after + 1 .. judging'[c].newest \subseteq judging'[c].sessions
    BY <1>1, <1>2, <1>5 DEF RunOK
  <2>3. judging'[c].row \in DOMAIN dailyRuns' /\ dailyRuns'[judging'[c].row] = OpenRow
    BY <1>1, <1>2, <1>5 DEF RunOK
  <2>4. judging'[c].hits \in SUBSET Hits /\ \A h \in judging'[c].hits : h.basis = h.day
    BY <1>2, <1>5 DEF RunOK
  <2> QED
    BY <1>3, <1>5, <1>6, <2>1, <2>2, <2>3, <2>4 DEF RunOK, OpenRow, Stages, Flagged, SameKey
<1> QED
  BY <1>1, <1>4, <1>5, <1>7, RunMoves

LEMMA StopKeeps ==
  ASSUME FlagsInv, NEW c \in Clis, Stop(c)
  PROVE  FlagsInv'
<1>1. /\ judging[c].at # "idle" /\ UNCHANGED <<latest, stageDay, upstream, lists, flags, dailyRuns>>
      /\ judging' = [judging EXCEPT ![c] = Idle]
  BY DEF Stop
<1>2. DOMAIN judging = Clis /\ \A f \in flags : f.basis = f.day
  BY DEF FlagsInv
<1>3. DOMAIN judging' = Clis /\ judging'[c] = Idle /\ \A d \in Clis : d # c => judging'[d] = judging[d]
  BY <1>1, <1>2
<1>4. RunOK(judging[c])'
  BY <1>3, IdleIs DEF RunOK, Stages, Idle
<1>5. judging'[c].at = "idle" /\ flags \subseteq flags' /\ \A f \in flags' : f.basis = f.day
  BY <1>1, <1>2, <1>3, IdleIs
<1> QED
  BY <1>1, <1>3, <1>4, <1>5, RunMoves

LEMMA CloseKeeps ==
  ASSUME FlagsInv, NEW c \in Clis, Close(c)
  PROVE  FlagsInv'
<1> DEFINE r == judging[c]
           closed == [after |-> r.after, seen |-> r.newest, sessions |-> r.sessions, hits |-> r.hits]
<1>1. /\ r.at \in {"noop", "written"} /\ UNCHANGED <<latest, stageDay, upstream, lists, flags>>
      /\ dailyRuns' = [dailyRuns EXCEPT ![r.row] = closed]
      /\ judging' = [judging EXCEPT ![c] = Idle]
  BY DEF Close, CanClose
<1>2. RunOK(r) /\ DOMAIN judging = Clis /\ latest \in Nat /\ dailyRuns \in Seq(RunRow)
  BY DEF FlagsInv
<1>3. r.row \in DOMAIN dailyRuns /\ dailyRuns[r.row] = OpenRow /\ Covered(r.after)
  BY <1>1, <1>2 DEF RunOK
<1>4. closed \in RunRow
  BY <1>2 DEF RunOK, RunRow
<1>4a. closed.after = r.after /\ closed.seen = r.newest /\ closed.sessions = r.sessions /\ closed.hits = r.hits
  OBVIOUS
<1> HIDE DEF closed
<1>5. /\ dailyRuns' \in Seq(RunRow) /\ DOMAIN dailyRuns' = DOMAIN dailyRuns
      /\ dailyRuns'[r.row] = closed /\ \A i \in DOMAIN dailyRuns : i # r.row => dailyRuns'[i] = dailyRuns[i]
  BY <1>1, <1>2, <1>3, <1>4
<1>6. DOMAIN judging' = Clis /\ judging'[c] = Idle /\ \A d \in Clis : d # c => judging'[d] = judging[d]
  BY <1>1, <1>2
<1>7. \A m \in Nat : Covered(m) => Covered(m)'
  BY <1>3, <1>5, CoveredKept
<1>8. \A s \in 1 .. r.newest : \E i \in DOMAIN dailyRuns' : Covers(dailyRuns'[i], s)
  <2> SUFFICES ASSUME NEW s \in 1 .. r.newest PROVE \E i \in DOMAIN dailyRuns' : Covers(dailyRuns'[i], s)
    OBVIOUS
  <2>1. r.after \in Nat /\ r.newest \in Nat
    BY <1>2 DEF RunOK
  <2>2. CASE r.after = 0
    BY <1>3, <1>4a, <1>5, <2>2 DEF Covers
  <2>3. CASE r.after # 0 /\ s <= r.after
    <3>1. Covered(r.after) /\ s \in 1 .. r.after
      BY <1>3, <2>1, <2>3
    <3>2. PICK i \in DOMAIN dailyRuns : Covers(dailyRuns[i], s)
      BY <3>1 DEF Covered
    <3>3. i # r.row
      BY <1>3, <3>2, OpenRowIs
    <3> QED
      BY <1>5, <3>2, <3>3
  <2>4. CASE r.after # 0 /\ s > r.after
    <3>1. r.after + 1 .. r.newest \subseteq r.sessions
      BY <1>1, <1>2, <2>4 DEF RunOK
    <3>2. s \in r.after + 1 .. r.newest
      BY <2>1, <2>4
    <3> QED
      BY <1>3, <1>4a, <1>5, <3>1, <3>2 DEF Covers
  <2> QED
    BY <2>1, <2>2, <2>3, <2>4
<1>9. RowsOK'
  <2>1. ASSUME NEW i \in DOMAIN dailyRuns, i = r.row
        PROVE  Covered(dailyRuns[i].seen)' /\ \A h \in dailyRuns'[i].hits : \E f \in flags' : SameKey(f, h)
    <3>1. dailyRuns'[i].seen = r.newest /\ dailyRuns'[i].hits = r.hits
      BY <1>4a, <1>5, <2>1
    <3>2. \A h \in r.hits : \E f \in flags' : SameKey(f, h)
      BY <1>1, <1>2 DEF RunOK, Flagged
    <3> QED
      BY <1>8, <3>1, <3>2 DEF Covered
  <2>2. ASSUME NEW i \in DOMAIN dailyRuns, i # r.row
        PROVE  Covered(dailyRuns[i].seen)' /\ \A h \in dailyRuns'[i].hits : \E f \in flags' : SameKey(f, h)
    <3>1. dailyRuns'[i] = dailyRuns[i] /\ dailyRuns[i] \in RunRow
      BY <1>2, <1>5, <2>2
    <3>2. Covered(dailyRuns[i].seen) /\ \A h \in dailyRuns[i].hits : Flagged(h)
      BY DEF FlagsInv, RowsOK
    <3>3. \A m \in Nat : m = dailyRuns'[i].seen /\ Covered(m) => Covered(dailyRuns[i].seen)'
      BY <1>7 DEF Covered
    <3> QED
      BY <1>1, <3>1, <3>2, <3>3 DEF Flagged, RunRow
  <2> QED
    BY <1>5, <2>1, <2>2 DEF RowsOK, Flagged, SameKey
<1>10. RunOK(judging[c])'
  BY <1>6, IdleIs DEF RunOK, Stages, Idle
<1>11. ASSUME NEW d \in Clis, d # c PROVE RunOK(judging[d])'
  <2>1. judging[d].at # "idle" => judging[d].row \in DOMAIN dailyRuns /\ judging[d].row # r.row
    BY <1>1, <1>11 DEF FlagsInv, RunOK, RowsAreOwn
  <2>2. judging[d].at # "idle" =>
           judging[d].row \in DOMAIN dailyRuns' /\ dailyRuns'[judging[d].row] = dailyRuns[judging[d].row]
    BY <1>5, <2>1
  <2>3. latest' \in Nat /\ latest <= latest' /\ flags \subseteq flags' /\ judging'[d] = judging[d]
    BY <1>1, <1>2, <1>6, <1>11
  <2> QED
    BY <1>7, <2>2, <2>3, RunKept
<1>12. RowsAreOwn'
  BY <1>6, IdleIs DEF RowsAreOwn, FlagsInv
<1>13. latest' \in Nat /\ stageDay' \in Nat /\ lists' \subseteq 1 .. latest' /\ \A f \in flags' : f.basis = f.day
  BY <1>1 DEF FlagsInv
<1> QED
  BY <1>5, <1>6, <1>9, <1>10, <1>11, <1>12, <1>13 DEF FlagsInv

LEMMA FlagsStep ==
  ASSUME FlagsInv, [NextFlags]_fvars
  PROVE  FlagsInv'
<1>1. CASE NewSession \/ TrendJob \/ SignalJobs \/ WeeklyList \/ UNCHANGED fvars
  <2>1. UNCHANGED <<flags, dailyRuns, judging>>
    BY <1>1 DEF NewSession, TrendJob, SignalJobs, WeeklyList, fvars
  <2>2. latest' \in Nat /\ latest <= latest' /\ stageDay' \in Nat
    BY <1>1 DEF NewSession, TrendJob, SignalJobs, WeeklyList, fvars, FlagsInv
  <2>3. lists' \subseteq 1 .. latest'
    <3>1. latest \in Nat /\ lists \subseteq 1 .. latest
      BY DEF FlagsInv
    <3>2. lists' = lists \/ (latest > 0 /\ lists' = lists \cup {latest})
      BY <1>1 DEF NewSession, TrendJob, SignalJobs, WeeklyList, fvars
    <3>3. ASSUME NEW l \in lists' PROVE l \in 1 .. latest'
      <4>1. CASE l \in lists
        BY <2>2, <3>1, <4>1
      <4>2. CASE l = latest /\ latest > 0
        BY <2>2, <3>1, <4>2
      <4> QED
        BY <3>2, <4>1, <4>2
    <3> QED
      BY <3>3
  <2>4. dailyRuns' \in Seq(RunRow) /\ RowsOK' /\ \A n \in Nat : Covered(n) => Covered(n)'
    BY <2>1, RowsKept
  <2>5. ASSUME NEW c \in Clis PROVE RunOK(judging[c])'
    <3>1. judging[c].at # "idle" =>
             judging[c].row \in DOMAIN dailyRuns' /\ dailyRuns'[judging[c].row] = dailyRuns[judging[c].row]
      BY <2>1 DEF FlagsInv, RunOK
    <3> QED
      BY <2>1, <2>2, <2>4, <3>1, RunKept
  <2>6. RowsAreOwn' /\ DOMAIN judging' = Clis /\ \A f \in flags' : f.basis = f.day
    BY <2>1 DEF FlagsInv, RowsAreOwn
  <2> QED
    BY <2>2, <2>3, <2>4, <2>5, <2>6 DEF FlagsInv
<1>2. ASSUME NEW c \in Clis, Begin(c) \/ Look(c) \/ Judge(c) \/ Write(c) \/ Close(c) \/ Stop(c)
      PROVE  FlagsInv'
  BY <1>2, BeginKeeps, LookKeeps, JudgeKeeps, WriteKeeps, CloseKeeps, StopKeeps
<1> QED
  BY <1>1, <1>2 DEF NextFlags

LEMMA FlagsInit == InitFlags => FlagsInv
BY IdleIs DEF InitFlags, FlagsInv, RowsOK, RowsAreOwn, RunOK, Stages

\* What the scorecard counts on: however runs die, overlap or look at a single night,
\* no session is skipped that the next run takes as seen, every finished run's hits are
\* in the table, and no flag is judged on another session's figures
\* (opportunity_daily_data.py).
THEOREM FlagsAreAccountedFor == FlagsSpec => []FlagsAccountFor
<1>1. InitFlags => FlagsInv
  BY FlagsInit
<1>2. FlagsInv /\ [NextFlags]_fvars => FlagsInv'
  BY FlagsStep
<1>3. FlagsInv => FlagsAccountFor
  <2> SUFFICES ASSUME FlagsInv PROVE FlagsAccountFor
    OBVIOUS
  <2>1. NoSessionSkipped
    BY LastSeenIs DEF NoSessionSkipped, Covered, Covers
  <2>2. HitsStored
    BY DEF HitsStored, FlagsInv, RowsOK, Flagged
  <2>3. JudgedOnItsDay
    BY DEF JudgedOnItsDay, FlagsInv
  <2> QED
    BY <2>1, <2>2, <2>3 DEF FlagsAccountFor
<1> QED
  BY <1>1, <1>2, <1>3, PTL DEF FlagsSpec
-----------------------------------------------------------------------------
(* The Warren watch: what one candle does to a trade. *)

Bases == {"none", "low", "LP", "entry"}
Trade == [kind : {"none", "blue", "yellow", "gray"}, entryAt : Nat, entry : Nat, stop : Nat,
          basis : Bases, status : {"none", "active", "breached"}, signalAt : Nat]

Below(s, c) == s.stop > 0 => s.stop < c.close

\* The same trade, its stop no lower.
Held(s, a) ==
    /\ a \in Trade /\ a.entryAt = s.entryAt /\ a.kind = s.kind /\ a.status = s.status /\ a.stop >= s.stop

LEMMA CandleIs ==
  ASSUME NEW c \in Candles
  PROVE  /\ c.low \in Nat /\ c.low > 0 /\ c.close \in Nat /\ c.atr \in Nat /\ c.low <= c.close
         /\ c.supports \in Seq(Nat) /\ \A i \in DOMAIN c.supports : c.supports[i] < c.close
BY CandleAssumption

LEMMA TenPercentIs ==
  ASSUME NEW low \in Nat, low > 0
  PROVE  TenPercent(low) \in Nat /\ TenPercent(low) < low
BY DEF TenPercent

LEMMA GrayTargetIs ==
  ASSUME NEW s \in Trade
  PROVE  GrayTarget(s) \in Nat
<1>1. s.entry \in Nat
  BY DEF Trade
<1> QED
  BY <1>1 DEF GrayTarget

\* Whatever support is picked is below the close.
LEMMA SupportIs ==
  ASSUME NEW c \in Candles
  PROVE  PickSupport(c) \in Nat /\ (PickSupport(c) > 0 => PickSupport(c) < c.close)
<1> DEFINE eligible == {i \in 2 .. Len(c.supports) : c.supports[i] + c.atr <= c.close}
           first == CHOOSE i \in eligible : \A j \in eligible : i <= j
<1>1. /\ c.supports \in Seq(Nat) /\ Len(c.supports) \in Nat /\ c.atr \in Nat
      /\ \A i \in 1 .. Len(c.supports) : c.supports[i] \in Nat /\ c.supports[i] < c.close
  BY CandleIs
<1>2. PickSupport(c) = CASE Len(c.supports) < 2 -> 0
                         [] Len(c.supports) >= 2 /\ c.atr = 0 -> c.supports[2]
                         [] Len(c.supports) >= 2 /\ c.atr > 0 /\ eligible # {} -> c.supports[first]
                         [] OTHER -> 0
  BY DEF PickSupport
<1>3. eligible # {} => first \in 1 .. Len(c.supports)
  <2>1. eligible \in SUBSET Nat
    BY <1>1
  <2>2. eligible # {} => \E i \in eligible : \A j \in eligible : i <= j
    BY <2>1, LeastOf
  <2>3. eligible # {} => first \in eligible
    BY <2>2
  <2>4. eligible \subseteq 1 .. Len(c.supports)
    BY <1>1
  <2> QED
    BY <2>3, <2>4
<1> HIDE DEF eligible, first
<1>4. CASE Len(c.supports) < 2
  BY <1>1, <1>2, <1>4
<1>5. CASE Len(c.supports) >= 2 /\ c.atr = 0
  <2>1. 2 \in 1 .. Len(c.supports)
    BY <1>1, <1>5
  <2>2. PickSupport(c) = c.supports[2]
    BY <1>1, <1>2, <1>5
  <2> QED
    BY <1>1, <2>1, <2>2
<1>6. CASE Len(c.supports) >= 2 /\ c.atr > 0 /\ eligible # {}
  <2>1. PickSupport(c) = c.supports[first]
    BY <1>1, <1>2, <1>6
  <2> QED
    BY <1>1, <1>3, <1>6, <2>1
<1>7. CASE Len(c.supports) >= 2 /\ c.atr > 0 /\ eligible = {}
  BY <1>1, <1>2, <1>7
<1> QED
  BY <1>1, <1>4, <1>5, <1>6, <1>7

LEMMA RaisedIs ==
  ASSUME NEW s \in Trade, NEW level \in Nat, NEW basis \in Bases
  PROVE  /\ Held(s, Raised(s, level, basis))
         /\ Raised(s, level, basis).stop \in {s.stop, level}
<1>1. s.stop \in Nat
  BY DEF Trade
<1>2. CASE level = 0 \/ (s.stop > 0 /\ level <= s.stop)
  BY <1>1, <1>2 DEF Raised, Held
<1>3. CASE ~(level = 0 \/ (s.stop > 0 /\ level <= s.stop))
  <2> DEFINE a == [s EXCEPT !.stop = level, !.basis = basis]
  <2>1. Raised(s, level, basis) = a
    BY <1>3 DEF Raised
  <2>2. /\ a \in Trade /\ a.stop = level /\ a.entryAt = s.entryAt /\ a.kind = s.kind /\ a.status = s.status
    BY DEF Trade
  <2>3. level >= s.stop
    BY <1>1, <1>3
  <2> HIDE DEF a
  <2> QED
    BY <2>1, <2>2, <2>3 DEF Held
<1> QED
  BY <1>2, <1>3

\* A stop that was below the close, raised to a level below the close.
LEMMA RaisedBelow ==
  ASSUME NEW s \in Trade, NEW level \in Nat, NEW basis \in Bases, NEW c \in Candles,
         Below(s, c), level > 0 => level < c.close
  PROVE  Held(s, Raised(s, level, basis)) /\ Below(Raised(s, level, basis), c)
<1>1. Raised(s, level, basis).stop \in {s.stop, level}
  BY RaisedIs
<1> QED
  BY <1>1, RaisedIs DEF Below

LEMMA BreachIs ==
  ASSUME NEW s \in Trade, NEW c \in Candles
  PROVE  /\ Breach(s, c) \in Trade /\ Breach(s, c).entryAt = s.entryAt /\ Breach(s, c).kind = s.kind
         /\ Breach(s, c).stop = s.stop
         /\ Breach(s, c).status = "active" => s.status = "active" /\ Below(s, c)
         /\ s.status # "active" => Breach(s, c) = s
<1>1. s.stop \in Nat /\ c.low \in Nat /\ c.close \in Nat /\ c.low <= c.close
  BY CandleIs DEF Trade
<1>2. CASE s.status = "active" /\ s.stop > 0 /\ c.low <= s.stop
  BY <1>2 DEF Breach, Trade
<1>3. CASE ~(s.status = "active" /\ s.stop > 0 /\ c.low <= s.stop)
  <2>1. Breach(s, c) = s
    BY <1>3 DEF Breach
  <2>2. s.status = "active" => Below(s, c)
    BY <1>1, <1>3 DEF Below
  <2> QED
    BY <2>1, <2>2
<1> QED
  BY <1>2, <1>3

LEMMA UpIs ==
  ASSUME NEW s \in Trade, NEW c \in Candles, NEW kind \in {"blue", "yellow", "gray"},
         NEW first \in BOOLEAN, NEW at \in Nat, InTrade(s) => Below(s, c)
  PROVE  LET a == ApplyUp(s, kind, first, at, c)
         IN /\ a \in Trade /\ Below(a, c)
            /\ IF InTrade(s) THEN Held(s, a) ELSE a.entryAt = at
<1>1. c.low \in Nat /\ c.low > 0 /\ c.close \in Nat /\ c.low <= c.close
  BY CandleIs
<1>2. TenPercent(c.low) \in Nat /\ TenPercent(c.low) < c.close
  BY <1>1, TenPercentIs
<1> DEFINE said == [s EXCEPT !.signalAt = at]
<1>3. /\ said \in Trade /\ said.entryAt = s.entryAt /\ said.kind = s.kind /\ said.status = s.status
      /\ said.stop = s.stop
  BY DEF Trade
<1>4. ApplyUp(s, kind, first, at, c) =
        CASE ~InTrade(s) -> Opened(kind, at, c)
          [] InTrade(s) /\ kind = "yellow" /\ ~first -> RepeatYellow(said, c)
          [] OTHER -> said
  BY DEF ApplyUp
<1> HIDE DEF said
<1>5. CASE ~InTrade(s)
  <2>1. ApplyUp(s, kind, first, at, c) = Opened(kind, at, c)
    BY <1>4, <1>5
  <2>2. Opened(kind, at, c) \in Trade /\ Opened(kind, at, c).entryAt = at
    BY <1>1, <1>2 DEF Opened, Trade, Bases
  <2>3. Below(Opened(kind, at, c), c)
    BY <1>1, <1>2 DEF Opened, Below
  <2> QED
    BY <1>5, <2>1, <2>2, <2>3
<1>6. CASE InTrade(s) /\ kind = "yellow" /\ ~first
  <2> DEFINE lp == PickSupport(c)
             ten == TenPercent(c.low)
             a == RepeatYellow(said, c)
  <2>1. ApplyUp(s, kind, first, at, c) = a
    BY <1>4, <1>6
  <2>2. Below(said, c) /\ "LP" \in Bases /\ "low" \in Bases
    BY <1>3, <1>6 DEF Below, Bases
  <2>3. lp \in Nat /\ (lp > 0 => lp < c.close) /\ ten \in Nat /\ (ten > 0 => ten < c.close)
    BY <1>2, SupportIs
  <2>4. a = IF lp > 0 /\ lp < ten THEN Raised(said, lp, "LP") ELSE Raised(said, ten, "low")
    BY DEF RepeatYellow
  <2> HIDE DEF lp, ten, a
  <2>5. Held(said, Raised(said, lp, "LP")) /\ Below(Raised(said, lp, "LP"), c)
    BY <1>3, <2>2, <2>3, RaisedBelow
  <2>6. Held(said, Raised(said, ten, "low")) /\ Below(Raised(said, ten, "low"), c)
    BY <1>3, <2>2, <2>3, RaisedBelow
  <2>7. Held(said, a) /\ Below(a, c)
    BY <2>4, <2>5, <2>6
  <2> QED
    BY <1>3, <1>6, <2>1, <2>7 DEF Held
<1>7. CASE InTrade(s) /\ ~(kind = "yellow" /\ ~first)
  <2>1. ApplyUp(s, kind, first, at, c) = said
    BY <1>4, <1>7
  <2>2. s.stop \in Nat
    BY DEF Trade
  <2> QED
    BY <1>3, <1>7, <2>1, <2>2 DEF Held, Below
<1> QED
  BY <1>5, <1>6, <1>7

LEMMA DownIs ==
  ASSUME NEW s \in Trade, NEW c \in Candles, NEW kind, Below(s, c)
  PROVE  Held(s, ApplyDown(s, kind, c)) /\ Below(ApplyDown(s, kind, c), c)
<1>1. PickSupport(c) \in Nat /\ (PickSupport(c) > 0 => PickSupport(c) < c.close) /\ GrayTarget(s) \in Nat
  BY SupportIs, GrayTargetIs
<1>2. "LP" \in Bases /\ "entry" \in Bases
  BY DEF Bases
<1>3. Held(s, Raised(s, PickSupport(c), "LP")) /\ Below(Raised(s, PickSupport(c), "LP"), c)
  BY <1>1, <1>2, RaisedBelow
<1>4. GrayTarget(s) < c.close =>
         Held(s, Raised(s, GrayTarget(s), "entry")) /\ Below(Raised(s, GrayTarget(s), "entry"), c)
  BY <1>1, <1>2, RaisedBelow
<1>5. s.stop \in Nat
  BY DEF Trade
<1>6. Held(s, s)
  BY <1>5 DEF Held
<1>7. \/ ApplyDown(s, kind, c) = s
      \/ ApplyDown(s, kind, c) = Raised(s, PickSupport(c), "LP")
      \/ GrayTarget(s) < c.close /\ ApplyDown(s, kind, c) = Raised(s, GrayTarget(s), "entry")
  <2> DEFINE target == GrayTarget(s)
             calm == s.kind \in {"yellow", "gray"}
             gray == kind = "gray" /\ calm /\ target < c.close
             yellow == kind = "yellow" /\ calm
             lifted == Raised(s, PickSupport(c), "LP")
             entry == Raised(s, target, "entry")
  <2>1. ApplyDown(s, kind, c) = CASE gray -> entry [] yellow -> lifted [] kind = "blue" -> lifted [] OTHER -> s
    BY DEF ApplyDown
  <2>2. ~(gray /\ yellow) /\ ~(gray /\ kind = "blue") /\ ~(yellow /\ kind = "blue")
    OBVIOUS
  <2>3. gray => target < c.close
    OBVIOUS
  <2> HIDE DEF gray, yellow, lifted, entry, target
  <2>4. ApplyDown(s, kind, c) = s \/ ApplyDown(s, kind, c) = lifted \/ (gray /\ ApplyDown(s, kind, c) = entry)
    BY <2>1, <2>2
  <2> QED
    BY <2>3, <2>4 DEF lifted, entry, target
<1> QED
  BY <1>3, <1>4, <1>6, <1>7

LEMMA TrailIs ==
  ASSUME NEW s \in Trade, NEW c \in Candles
  PROVE  /\ Held(s, Trail(s, c))
         /\ Below(s, c) => Below(Trail(s, c), c)
         /\ s.status # "active" => Trail(s, c) = s
<1>1. PickSupport(c) \in Nat /\ (PickSupport(c) > 0 => PickSupport(c) < c.close) /\ "LP" \in Bases /\ s.stop \in Nat
  BY SupportIs DEF Bases, Trade
<1>2. Held(s, s)
  BY <1>1 DEF Held
<1>3. Held(s, Raised(s, PickSupport(c), "LP"))
  BY <1>1, RaisedIs
<1>4. Below(s, c) => Below(Raised(s, PickSupport(c), "LP"), c)
  BY <1>1, RaisedBelow
<1> QED
  BY <1>2, <1>3, <1>4 DEF Trail
\* One candle leaves a stop that is below its close, and either opens a trade or keeps
\* the one there was, its stop no lower.
LEMMA AdvanceIs ==
  ASSUME NEW s \in Trade, NEW c \in Candles, NEW at \in Nat, NEW kinds, NEW first \in BOOLEAN
  PROVE  LET a == Advance(s, at, c, kinds, first)
         IN /\ a \in Trade
            /\ InTrade(a) => Below(a, c)
            /\ \/ a.entryAt = at
               \/ a.entryAt = s.entryAt /\ a.stop >= s.stop /\ (s.status # "active" => a = s)
<1> DEFINE up == UpKind(kinds)
           down == DownKind(kinds)
           b == Breach(s, c)
           risen == IF up = "none" THEN b ELSE ApplyUp(b, up, first /\ up = "yellow", at, c)
           eased == IF down = "none" \/ ~InTrade(risen) THEN risen ELSE ApplyDown(risen, down, c)
           a == Trail(eased, c)
           Kept(x) == x.entryAt = s.entryAt /\ x.stop >= s.stop /\ (s.status # "active" => x = s)
<1>1. Advance(s, at, c, kinds, first) = a
  BY DEF Advance
<1>2. /\ b \in Trade /\ b.entryAt = s.entryAt /\ b.kind = s.kind /\ b.stop = s.stop
      /\ b.status = "active" => s.status = "active" /\ Below(s, c)
      /\ s.status # "active" => b = s
      /\ s.stop \in Nat
  BY BreachIs DEF Trade
<1>3. up = "none" \/ up \in {"blue", "yellow", "gray"}
  BY DEF UpKind
<1>4. risen \in Trade /\ (InTrade(risen) => Below(risen, c)) /\ (risen.entryAt = at \/ Kept(risen))
  <2>1. CASE up = "none"
    <3>1. risen = b
      BY <2>1
    <3>2. InTrade(b) => Below(b, c)
      BY <1>2 DEF InTrade, Below
    <3>3. Kept(b)
      BY <1>2
    <3> QED
      BY <1>2, <3>1, <3>2, <3>3
  <2>2. CASE up # "none"
    <3> DEFINE r == ApplyUp(b, up, first /\ up = "yellow", at, c)
    <3>1. InTrade(b) => s.status = "active"
      BY <1>2 DEF InTrade
    <3>1a. InTrade(b) => Below(b, c)
      BY <1>2 DEF InTrade, Below
    <3>2. up \in {"blue", "yellow", "gray"} /\ (first /\ up = "yellow") \in BOOLEAN
      BY <1>3, <2>2
    <3>3. r \in Trade /\ Below(r, c) /\ (IF InTrade(b) THEN Held(b, r) ELSE r.entryAt = at)
      <4> HIDE DEF b
      <4> DEFINE repeat == first /\ up = "yellow"
      <4>1. b \in Trade /\ repeat \in BOOLEAN
        BY <1>2, <3>2
      <4>2. r = ApplyUp(b, up, repeat, at, c)
        OBVIOUS
      <4> HIDE DEF up, repeat, r
      <4> QED
        BY <3>1a, <3>2, <4>1, <4>2, UpIs
    <3>4. risen = r
      BY <2>2
    <3> HIDE DEF up, b, r, risen
    <3>5. r.entryAt = at \/ Kept(r)
      BY <1>2, <3>1, <3>3 DEF Held
    <3> QED
      BY <3>3, <3>4, <3>5
  <2> QED
    BY <2>1, <2>2
<1> HIDE DEF up, b, risen
<1>5. eased \in Trade /\ (InTrade(eased) => Below(eased, c)) /\ (eased.entryAt = at \/ Kept(eased))
  <2>1. CASE down = "none" \/ ~InTrade(risen)
    <3>1. eased = risen
      BY <2>1
    <3> QED
      BY <1>4, <3>1
  <2>2. CASE ~(down = "none" \/ ~InTrade(risen))
    <3> DEFINE e == ApplyDown(risen, down, c)
    <3>1. eased = e
      BY <2>2
    <3>2. Held(risen, e) /\ Below(e, c)
      BY <1>4, <2>2, DownIs
    <3>3. risen.status = "active"
      BY <2>2 DEF InTrade
    <3> HIDE DEF e, eased, down
    <3>4. risen.stop \in Nat /\ e.stop \in Nat
      BY <1>4, <3>2 DEF Trade, Held
    <3>5. e.entryAt = at \/ Kept(e)
      BY <1>2, <1>4, <3>2, <3>3, <3>4 DEF Held
    <3> QED
      BY <3>1, <3>2, <3>5 DEF Held
  <2> QED
    BY <2>1, <2>2
<1> HIDE DEF eased
<1>6. Held(eased, a) /\ (Below(eased, c) => Below(a, c)) /\ (eased.status # "active" => a = eased)
  BY <1>5, TrailIs
<1> HIDE DEF a
<1>7. a \in Trade /\ eased.stop \in Nat /\ a.stop \in Nat
  BY <1>5, <1>6 DEF Held, Trade
<1>8. InTrade(a) => Below(a, c)
  BY <1>5, <1>6 DEF Held, InTrade
<1>9. a.entryAt = at \/ Kept(a)
  BY <1>2, <1>5, <1>6, <1>7 DEF Held
<1> QED
  BY <1>1, <1>7, <1>8, <1>9

-----------------------------------------------------------------------------
(* The watch row, its nightly update and its removal. *)

Row == [stored : BOOLEAN, removed : Nat, from : Nat, content : Trade]
Update == [on : BOOLEAN, stored : BOOLEAN, removed : Nat, content : Trade, new : Trade, recent : BOOLEAN]

\* A trade on a candle after the last removal, or none.
After(t) == t = None \/ t.entryAt > removedThrough

\* What the night read is what the row still says, or the row was removed since.
UpdateOK ==
    job.on => /\ job.stored = row.stored
              /\ \/ job.removed = row.removed /\ After(job.new)
                 \/ job.stored /\ job.removed = 0 /\ row.removed > 0

WatchInv ==
    /\ now \in Nat /\ row \in Row /\ job \in Update
    /\ trade \in Trade /\ trade.entryAt <= now /\ After(trade)
    /\ before \in Trade /\ (now > 0 => before.entryAt < now) /\ After(before)
    /\ InTrade(trade) => Below(trade, newest)
    /\ StopNeverLowered
    /\ removedThrough = Cut /\ (row.removed > 0 => row.removed > row.from)
    /\ ~row.stored => row.removed = 0 /\ row.from = 0
    /\ UpdateOK
    /\ RemovedStaysAway

LEMMA NoneIs ==
  /\ None \in Trade /\ None.entryAt = 0 /\ None.stop = 0 /\ None.status = "none" /\ ~InTrade(None)
BY DEF None, Trade, Bases, InTrade

\* A replay's newest candle, after one whose trade is t.
LEMMA ReplayedIs ==
  ASSUME WatchInv, NEW s \in Trade, After(s), NEW at \in Nat, s.entryAt < at,
         NEW c \in Candles, NEW kinds, NEW first \in BOOLEAN
  PROVE  LET t == Replayed(s, at, c, kinds, first)
         IN /\ t \in Trade /\ t.entryAt <= at /\ After(t)
            /\ InTrade(t) => Below(t, c)
            /\ s.entryAt > 0 /\ s.entryAt = t.entryAt =>
                  t.stop >= s.stop /\ (s.status = "breached" => t.status = "breached" /\ t.stop = s.stop)
<1> DEFINE a == Advance(s, at, c, kinds, first)
           t == Replayed(s, at, c, kinds, first)
<1>1. /\ a \in Trade
      /\ InTrade(a) => Below(a, c)
      /\ \/ a.entryAt = at
         \/ a.entryAt = s.entryAt /\ a.stop >= s.stop /\ (s.status # "active" => a = s)
  BY AdvanceIs
<1>2. t = IF at <= Cut THEN None ELSE a
  BY DEF Replayed
<1>3. removedThrough = Cut /\ removedThrough \in Nat
  BY DEF WatchInv, Cut, Row
<1>4. s.entryAt \in Nat
  BY DEF Trade
<1> HIDE DEF a, t
<1>5. CASE at <= Cut
  <2>1. t = None /\ at \in Nat /\ s.entryAt \in Nat
    BY <1>2, <1>4, <1>5
  <2>2. Replayed(s, at, c, kinds, first) = None
    BY <2>1 DEF t
  <2> QED
    BY <2>1, <2>2, NoneIs DEF After
<1>6. CASE ~(at <= Cut)
  <2>1. t = a
    BY <1>2, <1>6
  <2>2. at > removedThrough
    BY <1>3, <1>6
  <2>3. After(a)
    BY <1>1, <2>2, NoneIs DEF After
  <2>4. a.entryAt <= at
    BY <1>1, <1>4
  <2>5. s.entryAt > 0 /\ s.entryAt = a.entryAt =>
           a.stop >= s.stop /\ (s.status = "breached" => a.status = "breached" /\ a.stop = s.stop)
    BY <1>1, <1>4
  <2>6. Replayed(s, at, c, kinds, first) = a
    BY <2>1 DEF t
  <2> QED
    BY <1>1, <2>3, <2>4, <2>5, <2>6
<1> QED
  BY <1>5, <1>6
LEMMA NewCandleKeeps ==
  ASSUME WatchInv, NewCandle
  PROVE  WatchInv'
<1>1. UNCHANGED <<row, job, removedThrough>> /\ now' = now + 1 /\ before' = trade /\ ~job.on /\ now \in Nat
  BY DEF NewCandle, WatchInv
<1>2. PICK c \in Candles, kinds \in ArrowSets, first \in BOOLEAN :
        newest' = c /\ trade' = Replayed(trade, now + 1, c, kinds, first)
  BY DEF NewCandle
<1>3. trade \in Trade /\ trade.entryAt \in Nat /\ trade.entryAt < now + 1 /\ After(trade)
  BY <1>1 DEF WatchInv, Trade
<1>4. now + 1 \in Nat
  BY <1>1
<1>5. /\ trade' \in Trade /\ trade'.entryAt <= now + 1 /\ After(Replayed(trade, now + 1, c, kinds, first))
      /\ InTrade(trade') => Below(trade', c)
      /\ trade.entryAt > 0 /\ trade.entryAt = trade'.entryAt =>
            trade'.stop >= trade.stop /\ (trade.status = "breached" => trade'.status = "breached" /\ trade'.stop = trade.stop)
  BY <1>2, <1>3, <1>4, ReplayedIs
<1>6. After(trade)' /\ After(before)'
  BY <1>1, <1>2, <1>3, <1>5 DEF After
<1>7. StopNeverLowered'
  BY <1>1, <1>5 DEF StopNeverLowered
<1>8. Cut' = Cut /\ RemovedStaysAway'
  BY <1>1 DEF Cut, WatchInv, RemovedStaysAway
<1>9. UpdateOK'
  BY <1>1 DEF UpdateOK
<1>10. (InTrade(trade) => Below(trade, newest))'
  BY <1>2, <1>5 DEF InTrade, Below
<1> QED
  BY <1>1, <1>3, <1>4, <1>5, <1>6, <1>7, <1>8, <1>9, <1>10 DEF WatchInv

LEMMA ReviseKeeps ==
  ASSUME WatchInv, Revise
  PROVE  WatchInv'
<1>1. UNCHANGED <<now, before, row, job, removedThrough>> /\ ~job.on /\ now \in Nat /\ now > 0
  BY DEF Revise, WatchInv
<1>2. PICK c \in Candles, kinds \in ArrowSets, first \in BOOLEAN :
        newest' = c /\ trade' = Replayed(before, now, c, kinds, first)
  BY DEF Revise
<1>3. before \in Trade /\ before.entryAt < now /\ After(before)
  BY <1>1 DEF WatchInv
<1>5. /\ trade' \in Trade /\ trade'.entryAt <= now /\ After(Replayed(before, now, c, kinds, first))
      /\ InTrade(trade') => Below(trade', c)
      /\ before.entryAt > 0 /\ before.entryAt = trade'.entryAt =>
            trade'.stop >= before.stop /\ (before.status = "breached" => trade'.status = "breached" /\ trade'.stop = before.stop)
  BY <1>1, <1>2, <1>3, ReplayedIs
<1>6. After(trade)' /\ After(before)'
  BY <1>1, <1>2, <1>3, <1>5 DEF After
<1>7. StopNeverLowered'
  BY <1>1, <1>5 DEF StopNeverLowered
<1>8. Cut' = Cut /\ RemovedStaysAway'
  BY <1>1 DEF Cut, WatchInv, RemovedStaysAway
<1>9. UpdateOK'
  BY <1>1 DEF UpdateOK
<1>10. (InTrade(trade) => Below(trade, newest))'
  BY <1>2, <1>5 DEF InTrade, Below
<1> QED
  BY <1>1, <1>3, <1>5, <1>6, <1>7, <1>8, <1>9, <1>10 DEF WatchInv

LEMMA ReadRowKeeps ==
  ASSUME WatchInv, ReadRow
  PROVE  WatchInv'
<1>1. UNCHANGED <<now, newest, before, trade, row, removedThrough>>
  BY DEF ReadRow
<1>2. row \in Row /\ trade \in Trade /\ After(trade)
  BY DEF WatchInv
<1>3. /\ job' \in Update /\ job'.stored = row.stored /\ job'.removed = row.removed /\ job'.new = trade
  BY <1>2 DEF ReadRow, Row, Update
<1>4. UpdateOK' /\ After(trade)' /\ After(before)'
  BY <1>1, <1>2, <1>3 DEF UpdateOK, After, WatchInv
<1>5. StopNeverLowered' /\ Cut' = Cut /\ RemovedStaysAway' /\ (InTrade(trade) => Below(trade, newest))'
  BY <1>1 DEF StopNeverLowered, Cut, RemovedStaysAway, WatchInv, InTrade, Below
<1> QED
  BY <1>1, <1>3, <1>4, <1>5 DEF WatchInv

LEMMA RemoveKeeps ==
  ASSUME WatchInv, Remove
  PROVE  WatchInv'
<1>1. /\ row.stored /\ row.removed = 0 /\ trade' = None /\ before' = None
      /\ UNCHANGED <<now, newest, job>>
  BY DEF Remove
<1>2. PICK through \in {now, now + 1} :
        through > Cut /\ row' = [row EXCEPT !.removed = through] /\ removedThrough' = through
  BY DEF Remove
<1>3. through \in Nat /\ row \in Row /\ now \in Nat
  BY DEF WatchInv
<1>4. row' \in Row /\ row'.stored /\ row'.removed = through /\ row'.from = row.from
  BY <1>1, <1>2, <1>3 DEF Row
<1>5. Cut = row.from /\ Cut \in Nat
  BY <1>1, <1>3 DEF Cut, Row
<1>6. Cut' = through /\ through > 0
  BY <1>2, <1>3, <1>4, <1>5 DEF Cut
<1>7. UpdateOK'
  <2>1. job.on => job.stored = row.stored /\ job.removed = 0
    BY <1>1 DEF UpdateOK, WatchInv
  <2> QED
    BY <1>1, <1>4, <1>6, <2>1 DEF UpdateOK
<1>8. After(trade)' /\ After(before)'
  BY <1>1 DEF After
<1>9. StopNeverLowered' /\ (InTrade(trade) => Below(trade, newest))'
  BY <1>1, NoneIs DEF StopNeverLowered, InTrade
<1>10. RemovedStaysAway'
  BY <1>4, <1>6 DEF RemovedStaysAway
<1>11. now' > 0 => before'.entryAt < now'
  BY <1>1, NoneIs
<1>12. trade'.entryAt <= now'
  BY <1>1, <1>3, NoneIs
<1> QED
  BY <1>1, <1>2, <1>3, <1>4, <1>5, <1>6, <1>7, <1>8, <1>9, <1>10, <1>11, <1>12, NoneIs DEF WatchInv

LEMMA CommitKeeps ==
  ASSUME WatchInv, Commit
  PROVE  WatchInv'
<1> DEFINE created == [stored |-> TRUE, removed |-> 0, from |-> job.removed, content |-> job.new]
           changed == [row EXCEPT !.content = job.new]
<1>1. job.on /\ job' = NoJob /\ UNCHANGED <<now, newest, before, trade, removedThrough>>
  BY DEF Commit
<1>2. row \in Row /\ job \in Update /\ removedThrough = Cut /\ UpdateOK
  BY DEF WatchInv
<1>3. row' = CASE Creates -> created [] Changes -> changed [] OTHER -> row
  BY DEF Commit
<1>4. ~(Creates /\ Changes)
  BY <1>2 DEF Creates, Changes, Update
<1>5. job.removed \in Nat /\ job.new \in Trade /\ job.stored \in BOOLEAN
  BY <1>2 DEF Update
<1>6. /\ created \in Row /\ created.stored /\ created.removed = 0 /\ created.from = job.removed
      /\ created.content = job.new
  BY <1>5 DEF Row
<1>7. /\ changed \in Row /\ changed.stored = row.stored /\ changed.removed = row.removed
      /\ changed.from = row.from /\ changed.content = job.new
  BY <1>2, <1>5 DEF Row
<1> HIDE DEF created, changed
<1>8. job' \in Update /\ ~job'.on
  BY <1>1, NoneIs DEF NoJob, Update
<1>9. UpdateOK'
  BY <1>8 DEF UpdateOK
<1>10. /\ After(trade)' /\ After(before)' /\ StopNeverLowered' /\ (InTrade(trade) => Below(trade, newest))'
       /\ now' \in Nat /\ trade' \in Trade /\ before' \in Trade /\ trade'.entryAt <= now'
       /\ (now' > 0 => before'.entryAt < now')
  BY <1>1 DEF WatchInv, After, StopNeverLowered, InTrade, Below
<1>11. CASE Creates
  <2>1. row' = created
    BY <1>3, <1>4, <1>11
  <2>2. job.new # None /\ (job.stored => job.removed > 0)
    BY <1>11 DEF Creates
  <2>3. job.stored = row.stored /\ job.removed = row.removed /\ After(job.new)
    BY <1>1, <1>2, <1>5, <2>2 DEF UpdateOK
  <2>4. job.new.entryAt > removedThrough
    BY <2>2, <2>3 DEF After
  <2>5. Cut = job.removed
    BY <1>2, <1>5, <2>2, <2>3 DEF Cut, Row, WatchInv
  <2>6. Cut' = job.removed
    BY <1>5, <1>6, <2>1 DEF Cut
  <2>7. RemovedStaysAway'
    BY <1>1, <1>6, <2>1, <2>4 DEF RemovedStaysAway
  <2>8. removedThrough' = Cut'
    BY <1>1, <1>2, <2>5, <2>6
  <2> QED
    BY <1>6, <1>8, <1>9, <1>10, <2>1, <2>7, <2>8 DEF WatchInv
<1>12. CASE Changes
  <2>1. row' = changed
    BY <1>3, <1>4, <1>12
  <2>2. job.stored /\ job.removed = 0 /\ job.new # None
    BY <1>12 DEF Changes
  <2>3. row.removed = 0 => job.new.entryAt > removedThrough
    BY <1>1, <1>2, <2>2 DEF UpdateOK, After
  <2>4. Cut' = Cut
    BY <1>7, <2>1 DEF Cut
  <2>5. RemovedStaysAway'
    BY <1>1, <1>7, <2>1, <2>3 DEF RemovedStaysAway
  <2>6. /\ row'.removed > 0 => row'.removed > row'.from
        /\ ~row'.stored => row'.removed = 0 /\ row'.from = 0
    BY <1>7, <2>1 DEF WatchInv
  <2> QED
    BY <1>1, <1>2, <1>7, <1>8, <1>9, <1>10, <2>1, <2>4, <2>5, <2>6 DEF WatchInv
<1>13. CASE ~Creates /\ ~Changes
  <2>1. row' = row
    BY <1>3, <1>13
  <2>2. Cut' = Cut /\ RemovedStaysAway'
    BY <1>1, <2>1 DEF Cut, RemovedStaysAway, WatchInv
  <2> QED
    BY <1>1, <1>8, <1>9, <1>10, <2>1, <2>2 DEF WatchInv
<1> QED
  BY <1>11, <1>12, <1>13

LEMMA WatchStep ==
  ASSUME WatchInv, [NextWatch]_wvars
  PROVE  WatchInv'
<1>1. CASE UNCHANGED wvars
  BY <1>1 DEF wvars, WatchInv, After, StopNeverLowered, Cut, UpdateOK, RemovedStaysAway, InTrade, Below
<1> QED
  BY <1>1, NewCandleKeeps, ReviseKeeps, ReadRowKeeps, RemoveKeeps, CommitKeeps DEF NextWatch

LEMMA WatchInit == InitWatch => WatchInv
BY NoneIs
   DEF InitWatch, WatchInv, NoRow, NoJob, Row, Update, After, StopNeverLowered, Cut, UpdateOK, RemovedStaysAway

LEMMA WatchInvHolds == WatchSpec => []WatchInv
<1>1. InitWatch => WatchInv
  BY WatchInit
<1>2. WatchInv /\ [NextWatch]_wvars => WatchInv'
  BY WatchStep
<1> QED
  BY <1>1, <1>2, PTL DEF WatchSpec

\* The stop of an open trade is below the close of the candle it stands at, and within
\* one trade it is never taken away or lowered, whatever the candles and the arrows
\* (watch.advance).
THEOREM StopsHold == WatchSpec => []StopHolds
<1>1. WatchInv => StopHolds
  BY DEF WatchInv, StopHolds, StopBelowMarket, Below
<1> QED
  BY <1>1, WatchInvHolds, PTL

\* A visible watch row is about a trade entered after the last removal, whenever the
\* removal lands in the night's update (update_warren_watch, remove_watch_row).
THEOREM RemovedTradesStayAway == WatchSpec => []RemovedStaysAway
<1>1. WatchInv => RemovedStaysAway
  BY DEF WatchInv
<1> QED
  BY <1>1, WatchInvHolds, PTL
-----------------------------------------------------------------------------
(* The outcome rows: what one horizon's computation gives. *)

OutcomeRow == [status : {"missing", "pending", "complete", "censored"}, exit : Nat, stop : Nat, since : Nat]
Updater == [at : {"idle", "read", "committed"}, day : Nat, rows : [Horizons -> OutcomeRow], spy : Nat,
            failed : BOOLEAN]

LEMMA MissingIs ==
  /\ Missing \in OutcomeRow /\ Missing.status = "missing" /\ Missing.stop = 0
  /\ Pending \in OutcomeRow /\ Pending.status = "pending" /\ Pending.since = 0
BY DEF Missing, Pending, OutcomeRow

LEMMA NoRunIs ==
  /\ NoRun \in Updater /\ NoRun.at = "idle"
<1>1. [n \in Horizons |-> Missing] \in [Horizons -> OutcomeRow]
  BY MissingIs
<1> QED
  BY <1>1 DEF NoRun, Updater

LEMMA FirstLowIs ==
  ASSUME NEW b, NEW w \in SUBSET Nat
  PROVE  FirstLow(b, w) \in Nat
<1> DEFINE hits == {i \in w : b[i] = "low"}
<1>1. hits \in SUBSET Nat
  OBVIOUS
<1>2. FirstLow(b, w) = IF hits = {} THEN 0 ELSE Min(hits)
  BY DEF FirstLow
<1> HIDE DEF hits
<1>3. hits # {} => Min(hits) \in Nat
  BY <1>1, LeastOf
<1> QED
  BY <1>2, <1>3

\* A complete row has its session; past the grace no row is pending.
LEMMA OutcomeIs ==
  ASSUME NEW n \in Horizons, NEW b, NEW s \in Nat
  PROVE  LET o == Outcome(n, b, s)
         IN /\ o \in OutcomeRow /\ o.status \in {"pending", "complete", "censored"}
            /\ o.status = "complete" => n < s
            /\ PastGrace(n, s) => o.status # "pending"
<1> DEFINE present == {i \in Window(n, s) : b[i] # "none"}
           priced == [Pending EXCEPT !.stop = FirstLow(b, Window(n, s))]
           lost == EntryLost(b, s) \/ PastGrace(n, s)
           unentered == [Pending EXCEPT !.status = IF lost THEN "censored" ELSE "pending"]
           complete == [priced EXCEPT !.status = "complete", !.exit = n + 1]
           censored == [priced EXCEPT !.status = "censored", !.exit = Max(present)]
           done == s > 0 /\ b[1] # "none" /\ Reached(n, s) /\ n + 1 \in present
           late == s > 0 /\ b[1] # "none" /\ PastGrace(n, s) /\ n + 1 \notin present
<1>1. n \in Nat
  BY OutcomesAssumption
<1>2. Window(n, s) \in SUBSET (0 .. n + 1) /\ (s > 0 => 1 \in Window(n, s))
  BY <1>1 DEF Window
<1>3. priced \in OutcomeRow /\ priced.status = "pending"
  <2>1. FirstLow(b, Window(n, s)) \in Nat
    BY <1>2, FirstLowIs
  <2> QED
    BY <2>1, MissingIs DEF OutcomeRow
<1>4. unentered \in OutcomeRow /\ unentered.status = (IF lost THEN "censored" ELSE "pending")
  BY MissingIs DEF OutcomeRow
<1>5. complete \in OutcomeRow /\ complete.status = "complete"
  <2>1. n + 1 \in Nat
    BY <1>1
  <2> DEFINE last == n + 1
  <2>2. complete = [priced EXCEPT !.status = "complete", !.exit = last] /\ last \in Nat
    BY <2>1
  <2> HIDE DEF priced, last, complete
  <2> QED
    BY <1>3, <2>2 DEF OutcomeRow
<1>6. s > 0 /\ b[1] # "none" => censored \in OutcomeRow /\ censored.status = "censored"
  <2> SUFFICES ASSUME s > 0, b[1] # "none" PROVE censored \in OutcomeRow /\ censored.status = "censored"
    OBVIOUS
  <2> DEFINE last == n + 1
             exit == Max(present)
  <2>1. present \in SUBSET (0 .. last) /\ present # {} /\ last \in Nat
    BY <1>1, <1>2
  <2>2. censored = [priced EXCEPT !.status = "censored", !.exit = exit]
    OBVIOUS
  <2> HIDE DEF present, last
  <2>3. exit \in present
    BY <2>1, MaxIs
  <2>4. exit \in Nat
    <3>1. exit \in 0 .. last
      BY <2>1, <2>3
    <3> QED
      BY <2>1, <3>1
  <2> HIDE DEF priced, exit, censored
  <2> QED
    BY <1>3, <2>2, <2>4 DEF OutcomeRow
<1>7. Outcome(n, b, s) = CASE s = 0 -> Pending
                          [] s > 0 /\ b[1] = "none" -> unentered
                          [] done -> complete
                          [] late -> censored
                          [] OTHER -> priced
  BY DEF Outcome
<1>8. ~(done /\ late) /\ (done => s > 0 /\ b[1] # "none" /\ n < s) /\ (late => s > 0 /\ b[1] # "none")
  BY <1>1 DEF Reached
<1>9. PastGrace(n, s) => s > 0 /\ (b[1] = "none" \/ done \/ late)
  BY <1>1 DEF PastGrace, Reached
<1>10. PastGrace(n, s) => lost
  OBVIOUS
<1> HIDE DEF unentered, complete, censored, priced, done, late, lost
<1>11. CASE s = 0
  BY <1>7, <1>8, <1>9, <1>11, MissingIs
<1>12. CASE s > 0 /\ b[1] = "none"
  <2>1. Outcome(n, b, s) = unentered
    BY <1>7, <1>8, <1>12
  <2> QED
    BY <1>4, <1>10, <2>1
<1>13. CASE done
  <2>1. Outcome(n, b, s) = complete
    BY <1>7, <1>8, <1>13
  <2> QED
    BY <1>5, <1>8, <1>13, <2>1
<1>14. CASE late
  <2>1. Outcome(n, b, s) = censored
    BY <1>7, <1>8, <1>14
  <2> QED
    BY <1>6, <1>8, <1>14, <2>1
<1>15. CASE s > 0 /\ b[1] # "none" /\ ~done /\ ~late
  <2>1. Outcome(n, b, s) = priced
    BY <1>7, <1>15
  <2> QED
    BY <1>3, <1>9, <1>15, <2>1
<1> QED
  BY <1>11, <1>12, <1>13, <1>14, <1>15
-----------------------------------------------------------------------------
(* The outcome rows over an update. *)

\* A row of horizon n when SPY has s sessions.
RowSound(r, n, s) ==
    /\ r.status = "missing" => r = Missing
    /\ r.status = "complete" => n < s
    /\ r.status = "censored" => r.since > 0

Empty(rows) == \A n \in Horizons : rows[n] = Missing
Full(rows) == \A n \in Horizons : rows[n].status # "missing"

RowsSound(rows, s) ==
    /\ Empty(rows) \/ Full(rows)
    /\ \A n \in Horizons : RowSound(rows[n], n, s)
    /\ \A n, m \in Horizons : n < m /\ rows[m].status = "complete" => rows[n].status # "pending"

\* Every open row that was priced at all has been priced over s sessions.
PricedOver(s) == \A n \in Horizons : Final(orows[n], oday) \/ pricedAt[n] = 0 \/ pricedAt[n] >= s

UpdaterSound ==
    /\ updater.at # "idle" => 0 < updater.day /\ updater.day <= oday /\ updater.spy <= spy
    /\ updater.at = "read" => /\ RowsSound(updater.rows, updater.spy)
                              /\ lastSeen <= updater.spy
                              /\ Empty(orows) \/ \A n \in Horizons : orows[n] = updater.rows[n]
    /\ updater.at = "committed" /\ ~updater.failed => PricedOver(updater.spy)

OutcomesInv ==
    /\ oday \in Nat /\ oday > 0 /\ spy \in Nat /\ lastSeen \in Nat /\ lastSeen <= spy
    /\ orows \in [Horizons -> OutcomeRow] /\ pricedAt \in [Horizons -> Nat] /\ updater \in Updater
    /\ RowsSound(orows, spy)
    /\ \A n \in Horizons : orows[n] = Missing => pricedAt[n] = 0
    /\ PricedOver(lastSeen)
    /\ UpdaterSound

LEMMA FinalLasts ==
  ASSUME NEW r \in OutcomeRow, NEW d \in Nat, NEW e \in Nat, d <= e, Final(r, d)
  PROVE  Final(r, e)
<1>1. r.since \in Nat /\ ReviveDays \in Nat
  BY OutcomesAssumption DEF OutcomeRow
<1> QED
  BY <1>1 DEF Final

\* What an update does to one row.
LEMMA UpdatedIs ==
  ASSUME NEW n \in Horizons, NEW u \in Updater, u.day > 0, NEW old \in OutcomeRow, RowSound(old, n, u.spy)
  PROVE  LET new == Updated(old, n, u)
         IN /\ new \in OutcomeRow /\ new.status # "missing"
            /\ RowSound(new, n, u.spy)
            /\ RowKept(old, new)
            /\ Final(old, u.day) => new = old
            /\ u.failed => new \in {old, Pending}
            /\ u.failed /\ old.status # "missing" => new = old
            /\ ~u.failed /\ PastGrace(n, u.spy) => new.status # "pending"
<1> DEFINE new == Outcome(n, tbars, u.spy)
           stop == StopKept(old, new)
           since == Since(old, new, u.day)
           priced == [new EXCEPT !.stop = stop, !.since = since]
           final == Final(old, u.day)
           seeded == IF old.status = "missing" THEN Pending ELSE old
<1>1. u.day \in Nat /\ u.spy \in Nat /\ u.failed \in BOOLEAN
  BY DEF Updater
<1>2. /\ new \in OutcomeRow /\ new.status \in {"pending", "complete", "censored"}
      /\ new.status = "complete" => n < u.spy
      /\ PastGrace(n, u.spy) => new.status # "pending"
  BY <1>1, OutcomeIs
<1> HIDE DEF new
<1>3. stop \in Nat /\ (old.stop > 0 => stop > 0)
  BY <1>2 DEF StopKept, OutcomeRow
<1>4. /\ since \in Nat
      /\ new.status = "censored" => since > 0
      /\ old.status = "censored" /\ new.status = "censored" => since = old.since
  BY <1>1, <1>2 DEF Since, OutcomeRow, RowSound
<1>5. Updated(old, n, u) = CASE final -> old [] ~final /\ u.failed -> seeded [] OTHER -> priced
  BY DEF Updated, new
<1> HIDE DEF stop, since
<1>6. priced \in OutcomeRow /\ priced.status = new.status /\ priced.stop = stop /\ priced.since = since
  BY <1>2, <1>3, <1>4 DEF OutcomeRow
<1> HIDE DEF priced
<1>7. CASE final
  <2>1. Updated(old, n, u) = old
    BY <1>5, <1>7
  <2>2. old.status \in {"complete", "censored"}
    BY <1>7 DEF Final
  <2>3. ~u.failed => old.status # "pending"
    BY <2>2
  <2> QED
    BY <2>1, <2>2 DEF RowKept
<1>8. CASE ~final /\ u.failed
  <2>1. Updated(old, n, u) = seeded
    BY <1>5, <1>8
  <2>2. CASE old.status = "missing"
    <3>1. old = Missing /\ seeded = Pending
      BY <2>2 DEF RowSound
    <3>2. RowKept(old, Pending) /\ RowSound(Pending, n, u.spy)
      BY <3>1, MissingIs DEF RowKept, RowSound
    <3> QED
      BY <1>8, <2>1, <2>2, <3>1, <3>2, MissingIs
  <2>3. CASE old.status # "missing"
    <3>1. seeded = old /\ RowKept(old, old)
      BY <2>3 DEF RowKept
    <3> QED
      BY <1>8, <2>1, <2>3, <3>1
  <2> QED
    BY <2>2, <2>3
<1>9. CASE ~final /\ ~u.failed
  <2>1. Updated(old, n, u) = priced
    BY <1>5, <1>9
  <2>2. old.status # "complete"
    BY <1>9 DEF Final
  <2>3. RowKept(old, priced)
    BY <1>3, <1>4, <1>6, <2>2 DEF RowKept
  <2>4. RowSound(priced, n, u.spy) /\ priced.status # "missing"
    BY <1>2, <1>4, <1>6 DEF RowSound
  <2>5. PastGrace(n, u.spy) => priced.status # "pending"
    BY <1>2, <1>6
  <2> QED
    BY <1>6, <1>9, <2>1, <2>3, <2>4, <2>5
<1> QED
  BY <1>1, <1>7, <1>8, <1>9

\* Rows that settle in order still do after an update: past a longer horizon's session
\* the grace of a shorter one is over.
LEMMA UpdatedInOrder ==
  ASSUME NEW u \in Updater, u.day > 0, RowsSound(u.rows, u.spy),
         NEW n \in Horizons, NEW m \in Horizons, n < m,
         Updated(u.rows[m], m, u).status = "complete"
  PROVE  Updated(u.rows[n], n, u).status # "pending"
<1> DEFINE a == Updated(u.rows[n], n, u)
           z == Updated(u.rows[m], m, u)
<1>1. /\ u.rows[n] \in OutcomeRow /\ u.rows[m] \in OutcomeRow /\ u.spy \in Nat
      /\ RowSound(u.rows[n], n, u.spy) /\ RowSound(u.rows[m], m, u.spy)
  BY DEF Updater, RowsSound
<1>2. /\ a.status # "missing"
      /\ u.failed /\ u.rows[n].status # "missing" => a = u.rows[n]
      /\ ~u.failed /\ PastGrace(n, u.spy) => a.status # "pending"
  BY <1>1, UpdatedIs
<1>3. RowSound(z, m, u.spy) /\ (u.failed => z \in {u.rows[m], Pending}) /\ z.status = "complete"
  BY <1>1, UpdatedIs
<1> HIDE DEF a, z
<1>4. CASE u.failed
  <2>1. u.rows[m].status = "complete"
    BY <1>3, <1>4, MissingIs
  <2>2. u.rows[n].status # "pending"
    BY <2>1 DEF RowsSound
  <2>3. u.rows[n].status # "missing"
    BY <2>1, MissingIs DEF RowsSound, Empty, Full
  <2> QED
    BY <1>2, <1>4, <2>2, <2>3 DEF a
<1>5. CASE ~u.failed
  <2>1. m < u.spy
    BY <1>3 DEF RowSound
  <2>2. n \in Nat /\ m \in Nat /\ Grace \in Nat /\ m - n > Grace
    BY OutcomesAssumption
  <2>3. PastGrace(n, u.spy)
    BY <1>1, <2>1, <2>2 DEF PastGrace, Reached
  <2> QED
    BY <1>2, <1>5, <2>3 DEF a
<1> QED
  BY <1>4, <1>5
\* Rows read as existing and deleted since: all of them, after a rebuild, or none.
LEMMA GoneIs ==
  ASSUME OutcomesInv, updater.at = "read", NEW u, u.rows = updater.rows
  PROVE  \/ Gone(u) = {} /\ \A n \in Horizons : orows[n] = u.rows[n]
         \/ Gone(u) = Horizons /\ Empty(orows)
<1>1. /\ Empty(u.rows) \/ Full(u.rows)
      /\ Empty(orows) \/ \A n \in Horizons : orows[n] = u.rows[n]
  BY DEF OutcomesInv, UpdaterSound, RowsSound
<1>2. CASE \A n \in Horizons : orows[n] = u.rows[n]
  BY <1>2 DEF Gone
<1>3. CASE Empty(orows) /\ Empty(u.rows)
  BY <1>3, MissingIs DEF Empty, Gone
<1>4. CASE Empty(orows) /\ Full(u.rows)
  BY <1>4, MissingIs DEF Empty, Full, Gone
<1> QED
  BY <1>1, <1>2, <1>3, <1>4

\* The commit, with its rows written out.
LEMMA CommitRowsIs ==
  ASSUME OutcomesInv, CommitRows
  PROVE  \E u \in Updater :
            /\ updater.at = "read" /\ u.at = "committed" /\ u.day = updater.day /\ u.spy = updater.spy
            /\ u.rows = updater.rows
            /\ orows' = [n \in Horizons |-> IF n \in Gone(u) THEN Missing ELSE Updated(u.rows[n], n, u)]
            /\ pricedAt' = [n \in Horizons |->
                   IF u.failed \/ n \in Gone(u) \/ Final(u.rows[n], u.day) THEN pricedAt[n] ELSE u.spy]
            /\ updater' \in Updater /\ updater'.at = "committed" /\ updater'.day = u.day
            /\ updater'.spy = u.spy /\ updater'.failed = u.failed
            /\ UNCHANGED <<oday, spy, lastSeen>>
<1>1. PICK bad \in BOOLEAN :
        LET u == [updater EXCEPT !.at = "committed", !.failed = bad] IN
        /\ updater.at = "read"
        /\ orows' = [n \in Horizons |-> IF n \in Gone(u) THEN Missing ELSE Updated(u.rows[n], n, u)]
        /\ pricedAt' = [n \in Horizons |->
               IF bad \/ n \in Gone(u) \/ Final(u.rows[n], u.day) THEN pricedAt[n] ELSE u.spy]
        /\ updater' = [u EXCEPT !.rows = NoRun.rows]
        /\ UNCHANGED <<oday, spy, lastSeen>>
  BY DEF CommitRows
<1> DEFINE u == [updater EXCEPT !.at = "committed", !.failed = bad]
<1>2. updater \in Updater /\ NoRun.rows \in [Horizons -> OutcomeRow]
  BY NoRunIs DEF OutcomesInv, Updater
<1>3. /\ u \in Updater /\ u.at = "committed" /\ u.day = updater.day /\ u.spy = updater.spy
      /\ u.rows = updater.rows /\ u.failed = bad
  BY <1>2 DEF Updater
<1>4. /\ updater.at = "read"
      /\ orows' = [n \in Horizons |-> IF n \in Gone(u) THEN Missing ELSE Updated(u.rows[n], n, u)]
      /\ pricedAt' = [n \in Horizons |->
             IF bad \/ n \in Gone(u) \/ Final(u.rows[n], u.day) THEN pricedAt[n] ELSE u.spy]
      /\ updater' = [u EXCEPT !.rows = NoRun.rows]
      /\ UNCHANGED <<oday, spy, lastSeen>>
  BY <1>1
<1> HIDE DEF u
<1>5. /\ updater' \in Updater /\ updater'.at = "committed" /\ updater'.day = u.day
      /\ updater'.spy = u.spy /\ updater'.failed = u.failed
  BY <1>2, <1>3, <1>4 DEF Updater
<1> QED
  BY <1>3, <1>4, <1>5

LEMMA CommitRowsKeeps ==
  ASSUME OutcomesInv, CommitRows
  PROVE  OutcomesInv' /\ \A n \in Horizons : RowKept(orows[n], orows'[n])
<1>1. PICK u \in Updater :
        /\ updater.at = "read" /\ u.at = "committed" /\ u.day = updater.day /\ u.spy = updater.spy
        /\ u.rows = updater.rows
        /\ orows' = [n \in Horizons |-> IF n \in Gone(u) THEN Missing ELSE Updated(u.rows[n], n, u)]
        /\ pricedAt' = [n \in Horizons |->
               IF u.failed \/ n \in Gone(u) \/ Final(u.rows[n], u.day) THEN pricedAt[n] ELSE u.spy]
        /\ updater' \in Updater /\ updater'.at = "committed" /\ updater'.day = u.day
        /\ updater'.spy = u.spy /\ updater'.failed = u.failed
        /\ UNCHANGED <<oday, spy, lastSeen>>
  BY CommitRowsIs
<1>2. /\ oday \in Nat /\ oday > 0 /\ spy \in Nat /\ lastSeen \in Nat /\ lastSeen <= spy
      /\ 0 < u.day /\ u.day <= oday /\ u.spy <= spy /\ lastSeen <= u.spy /\ u.day \in Nat /\ u.spy \in Nat
      /\ u.failed \in BOOLEAN
  BY <1>1 DEF OutcomesInv, UpdaterSound, Updater
<1>3. RowsSound(u.rows, u.spy) /\ u.rows \in [Horizons -> OutcomeRow]
  BY <1>1 DEF OutcomesInv, UpdaterSound, Updater
<1>4. \A n \in Horizons : pricedAt[n] \in Nat /\ (orows[n] = Missing => pricedAt[n] = 0)
  BY DEF OutcomesInv
<1>5. CASE Gone(u) = Horizons /\ Empty(orows)
  <2>1. \A n \in Horizons : orows'[n] = Missing /\ pricedAt'[n] = 0
    BY <1>1, <1>4, <1>5 DEF Empty
  <2>2. orows' \in [Horizons -> OutcomeRow] /\ pricedAt' \in [Horizons -> Nat]
    BY <1>1, <1>4, <1>5, MissingIs
  <2>3. RowsSound(orows, spy)'
    BY <2>1, MissingIs DEF RowsSound, RowSound, Empty
  <2>4. PricedOver(lastSeen)' /\ UpdaterSound'
    BY <1>1, <1>2, <2>1 DEF PricedOver, UpdaterSound
  <2>5. \A n \in Horizons : RowKept(orows[n], orows'[n])
    BY <2>1, MissingIs DEF RowKept
  <2> QED
    BY <1>1, <1>2, <2>1, <2>2, <2>3, <2>4, <2>5 DEF OutcomesInv
<1>6. CASE Gone(u) = {} /\ \A n \in Horizons : orows[n] = u.rows[n]
  <2>1. \A n \in Horizons :
           /\ orows'[n] = Updated(u.rows[n], n, u)
           /\ pricedAt'[n] = IF u.failed \/ Final(u.rows[n], u.day) THEN pricedAt[n] ELSE u.spy
    BY <1>1, <1>6
  <2>2. ASSUME NEW n \in Horizons
        PROVE  /\ orows'[n] \in OutcomeRow /\ orows'[n].status # "missing"
               /\ RowSound(orows'[n], n, u.spy)
               /\ RowKept(orows[n], orows'[n])
               /\ Final(u.rows[n], u.day) => orows'[n] = u.rows[n]
               /\ u.failed => orows'[n] \in {u.rows[n], Pending}
               /\ u.failed /\ u.rows[n].status # "missing" => orows'[n] = u.rows[n]
    <3>1. u.rows[n] \in OutcomeRow /\ RowSound(u.rows[n], n, u.spy)
      BY <1>3 DEF RowsSound
    <3> QED
      BY <1>2, <1>6, <2>1, <3>1, UpdatedIs
  <2>3. orows' \in [Horizons -> OutcomeRow]
    <3>1. \A n \in Horizons : Updated(u.rows[n], n, u) \in OutcomeRow
      BY <2>1, <2>2
    <3> QED
      BY <1>1, <1>6, <3>1
  <2>4. pricedAt' \in [Horizons -> Nat]
    BY <1>1, <1>2, <1>4
  <2>5. RowsSound(orows, spy)'
    <3>1. \A n \in Horizons : orows'[n].status # "missing"
      BY <2>2
    <3>2. ASSUME NEW n \in Horizons PROVE RowSound(orows[n], n, spy)'
      <4>1. RowSound(orows'[n], n, u.spy) /\ n \in Nat
        BY <2>2, OutcomesAssumption
      <4> QED
        BY <1>1, <1>2, <4>1 DEF RowSound, Missing
    <3>3. ASSUME NEW n \in Horizons, NEW m \in Horizons, n < m, orows'[m].status = "complete"
          PROVE  orows'[n].status # "pending"
      BY <1>2, <1>3, <2>1, <3>3, UpdatedInOrder
    <3> QED
      BY <3>1, <3>2, <3>3 DEF RowsSound, Full
  <2>6. ASSUME NEW n \in Horizons
        PROVE  Final(orows'[n], oday') \/ pricedAt'[n] = 0 \/ pricedAt'[n] >= lastSeen
    <3>1. CASE Final(u.rows[n], u.day)
      BY <1>1, <1>2, <2>2, <3>1, FinalLasts
    <3>2. CASE ~Final(u.rows[n], u.day) /\ ~u.failed
      BY <1>2, <2>1, <3>2
    <3>3. CASE ~Final(u.rows[n], u.day) /\ u.failed
      <4>1. pricedAt'[n] = pricedAt[n]
        BY <2>1, <3>3
      <4>2. CASE u.rows[n].status = "missing"
        <5>1. orows[n] = Missing
          BY <1>3, <1>6, <4>2 DEF RowsSound, RowSound
        <5> QED
          BY <1>4, <4>1, <5>1
      <4>3. CASE u.rows[n].status # "missing"
        <5>1. orows'[n] = orows[n]
          BY <1>6, <2>2, <3>3, <4>3
        <5>2. Final(orows[n], oday) \/ pricedAt[n] = 0 \/ pricedAt[n] >= lastSeen
          BY DEF OutcomesInv, PricedOver
        <5> QED
          BY <1>1, <4>1, <5>1, <5>2
      <4> QED
        BY <4>2, <4>3
    <3> QED
      BY <1>2, <3>1, <3>2, <3>3
  <2>7. PricedOver(lastSeen)'
    BY <1>1, <2>6 DEF PricedOver, Final
  <2>8. ASSUME ~u.failed, NEW n \in Horizons
        PROVE  Final(orows'[n], oday') \/ pricedAt'[n] = 0 \/ pricedAt'[n] >= u.spy
    <3>1. CASE Final(u.rows[n], u.day)
      BY <1>1, <1>2, <2>2, <3>1, FinalLasts
    <3>2. CASE ~Final(u.rows[n], u.day)
      BY <1>2, <2>1, <2>8, <3>2
    <3> QED
      BY <3>1, <3>2
  <2>9. UpdaterSound'
    BY <1>1, <1>2, <2>8 DEF UpdaterSound, PricedOver, Final
  <2>10. \A n \in Horizons : orows'[n] = Missing => pricedAt'[n] = 0
    BY <2>2, MissingIs
  <2> QED
    BY <1>1, <1>2, <2>2, <2>3, <2>4, <2>5, <2>7, <2>9, <2>10 DEF OutcomesInv
<1> QED
  BY <1>1, <1>5, <1>6, GoneIs
\* The rows' part of the invariant while time passes and rows stay.
LEMMA RowsWait ==
  ASSUME OutcomesInv, UNCHANGED <<orows, pricedAt, lastSeen>>,
         oday' \in Nat, oday <= oday', spy' \in Nat, spy <= spy'
  PROVE  /\ RowsSound(orows, spy)' /\ PricedOver(lastSeen)' /\ lastSeen' <= spy'
         /\ \A t \in Nat : PricedOver(t) => PricedOver(t)'
         /\ \A n \in Horizons : orows'[n] = Missing => pricedAt'[n] = 0
<1>1. /\ oday \in Nat /\ spy \in Nat /\ lastSeen \in Nat /\ lastSeen <= spy
      /\ \A n \in Horizons : orows[n] \in OutcomeRow
  BY DEF OutcomesInv
<1>2. ASSUME NEW n \in Horizons, Final(orows[n], oday) PROVE Final(orows[n], oday')
  BY <1>1, <1>2, FinalLasts
<1>3. \A t \in Nat : PricedOver(t) =>
         \A n \in Horizons : Final(orows[n], oday') \/ pricedAt[n] = 0 \/ pricedAt[n] >= t
  BY <1>2 DEF PricedOver
<1>4. \A t \in Nat : PricedOver(t) => PricedOver(t)'
  BY <1>3 DEF PricedOver, Final
<1>5. PricedOver(lastSeen)'
  BY <1>1, <1>3 DEF PricedOver, Final, OutcomesInv
<1>6. ASSUME NEW n \in Horizons PROVE RowSound(orows[n], n, spy)'
  <2>1. RowSound(orows[n], n, spy) /\ n \in Nat
    BY OutcomesAssumption DEF OutcomesInv, RowsSound
  <2> QED
    BY <1>1, <2>1 DEF RowSound, Missing
<1>7. RowsSound(orows, spy)'
  BY <1>6 DEF RowsSound, Empty, Full, Missing, OutcomesInv
<1> QED
  BY <1>1, <1>4, <1>5, <1>7 DEF OutcomesInv

LEMMA TimeKeeps ==
  ASSUME OutcomesInv, NextDay \/ BarChanges \/ UNCHANGED ovars
  PROVE  OutcomesInv' /\ UNCHANGED orows
<1>1. UNCHANGED <<orows, lastSeen, pricedAt, updater>>
  BY DEF NextDay, BarChanges, ovars
<1>2. oday \in Nat /\ oday > 0 /\ spy \in Nat
  BY DEF OutcomesInv
<1>3. oday' \in Nat /\ oday <= oday' /\ spy' \in Nat /\ spy <= spy'
  BY <1>2 DEF NextDay, BarChanges, ovars
<1>4. /\ RowsSound(orows, spy)' /\ PricedOver(lastSeen)' /\ lastSeen' <= spy'
      /\ \A t \in Nat : PricedOver(t) => PricedOver(t)'
      /\ \A n \in Horizons : orows'[n] = Missing => pricedAt'[n] = 0
  BY <1>1, <1>3, RowsWait
<1>5. UpdaterSound'
  <2>1. updater \in Updater /\ updater.day \in Nat /\ updater.spy \in Nat
    BY DEF OutcomesInv, Updater
  <2>2. updater'.at # "idle" => 0 < updater'.day /\ updater'.day <= oday' /\ updater'.spy <= spy'
    BY <1>1, <1>2, <1>3, <2>1 DEF OutcomesInv, UpdaterSound
  <2>3. updater'.at = "read" =>
           /\ RowsSound(updater.rows, updater.spy)'
           /\ lastSeen' <= updater'.spy
           /\ Empty(orows)' \/ \A n \in Horizons : orows'[n] = updater'.rows[n]
    BY <1>1 DEF OutcomesInv, UpdaterSound, RowsSound, RowSound, Empty, Full, Missing
  <2>4. updater'.at = "committed" /\ ~updater'.failed => PricedOver(updater.spy)'
    <3>1. updater.at = "committed" /\ ~updater.failed => PricedOver(updater.spy)
      BY DEF OutcomesInv, UpdaterSound
    <3>2. \A t \in Nat : t = updater.spy /\ PricedOver(t) => PricedOver(updater.spy)'
      BY <1>1, <1>4 DEF PricedOver
    <3> QED
      BY <1>1, <2>1, <3>1, <3>2
  <2> QED
    BY <2>2, <2>3, <2>4 DEF UpdaterSound
<1> QED
  BY <1>1, <1>2, <1>3, <1>4, <1>5 DEF OutcomesInv

LEMMA BeginUpdateKeeps ==
  ASSUME OutcomesInv, BeginUpdate
  PROVE  OutcomesInv' /\ UNCHANGED orows
<1>1. /\ updater' = [NoRun EXCEPT !.at = "read", !.day = oday, !.rows = orows, !.spy = spy]
      /\ UNCHANGED <<oday, spy, orows, lastSeen, pricedAt>>
  BY DEF BeginUpdate
<1>2. oday \in Nat /\ oday > 0 /\ spy \in Nat /\ lastSeen <= spy /\ orows \in [Horizons -> OutcomeRow]
  BY DEF OutcomesInv
<1>3. /\ updater' \in Updater /\ updater'.at = "read" /\ updater'.day = oday /\ updater'.rows = orows
      /\ updater'.spy = spy
  BY <1>1, <1>2, NoRunIs DEF Updater
<1>4. /\ RowsSound(orows, spy)' /\ PricedOver(lastSeen)' /\ lastSeen' <= spy'
      /\ \A n \in Horizons : orows'[n] = Missing => pricedAt'[n] = 0
  BY <1>1, <1>2, RowsWait
<1>5. RowsSound(updater.rows, updater.spy)'
  BY <1>1, <1>3, <1>4 DEF RowsSound, RowSound, Empty, Full
<1>6. UpdaterSound'
  BY <1>1, <1>2, <1>3, <1>5 DEF UpdaterSound
<1> QED
  BY <1>1, <1>2, <1>3, <1>4, <1>6 DEF OutcomesInv

LEMMA UpdateEnds ==
  ASSUME OutcomesInv, CloseUpdate \/ UpdateDies
  PROVE  OutcomesInv' /\ UNCHANGED orows
<1>1. updater' = NoRun /\ UNCHANGED <<oday, spy, orows, pricedAt>>
  BY DEF CloseUpdate, UpdateDies
<1>2. /\ oday \in Nat /\ oday > 0 /\ spy \in Nat /\ lastSeen \in Nat /\ lastSeen <= spy
      /\ updater \in Updater
  BY DEF OutcomesInv
<1>3. updater.spy \in Nat
  BY <1>2 DEF Updater
<1>4. \/ UNCHANGED lastSeen
      \/ /\ updater.at = "committed" /\ ~updater.failed /\ lastSeen' = updater.spy
         /\ updater.spy <= spy /\ PricedOver(updater.spy)
  BY DEF CloseUpdate, UpdateDies, StoresDate, OutcomesInv, UpdaterSound
<1>5. lastSeen' \in Nat /\ lastSeen' <= spy
  BY <1>2, <1>3, <1>4
<1>6. PricedOver(lastSeen)'
  BY <1>1, <1>4 DEF PricedOver, Final, OutcomesInv
<1>7. UpdaterSound' /\ updater' \in Updater
  BY <1>1, NoRunIs DEF UpdaterSound
<1>8. RowsSound(orows, spy)'
  BY <1>1 DEF RowsSound, RowSound, Empty, Full, Missing, OutcomesInv
<1> QED
  BY <1>1, <1>2, <1>5, <1>6, <1>7, <1>8 DEF OutcomesInv

LEMMA RebuildKeeps ==
  ASSUME OutcomesInv, Rebuild
  PROVE  OutcomesInv' /\ \A n \in Horizons : RowKept(orows[n], orows'[n])
<1>1. /\ orows' = [n \in Horizons |-> Missing] /\ pricedAt' = [n \in Horizons |-> 0]
      /\ UNCHANGED <<oday, spy, lastSeen, updater>>
  BY DEF Rebuild
<1>2. \A n \in Horizons : orows'[n] = Missing /\ pricedAt'[n] = 0
  BY <1>1
<1>3. orows' \in [Horizons -> OutcomeRow] /\ pricedAt' \in [Horizons -> Nat]
  BY <1>1, MissingIs
<1>4. RowsSound(orows, spy)'
  BY <1>2, MissingIs DEF RowsSound, RowSound, Empty
<1>5. PricedOver(lastSeen)' /\ PricedOver(updater.spy)' /\ Empty(orows)'
  BY <1>2 DEF PricedOver, Empty
<1>6. updater'.at = "read" => RowsSound(updater.rows, updater.spy)'
  BY <1>1 DEF OutcomesInv, UpdaterSound, RowsSound, RowSound, Empty, Full, Missing
<1>7. UpdaterSound'
  BY <1>1, <1>5, <1>6 DEF OutcomesInv, UpdaterSound
<1>8. \A n \in Horizons : RowKept(orows[n], orows'[n])
  BY <1>2, MissingIs DEF RowKept
<1> QED
  BY <1>1, <1>2, <1>3, <1>4, <1>5, <1>7, <1>8 DEF OutcomesInv

LEMMA OutcomesStep ==
  ASSUME OutcomesInv, [NextOutcomes]_ovars
  PROVE  OutcomesInv' /\ \A n \in Horizons : RowKept(orows[n], orows'[n])
<1>1. UNCHANGED orows => \A n \in Horizons : RowKept(orows[n], orows'[n])
  BY DEF RowKept
<1>2. CASE NextDay \/ BarChanges \/ UNCHANGED ovars
  BY <1>1, <1>2, TimeKeeps
<1>3. CASE BeginUpdate
  BY <1>1, <1>3, BeginUpdateKeeps
<1>4. CASE CloseUpdate \/ UpdateDies
  BY <1>1, <1>4, UpdateEnds
<1> QED
  BY <1>2, <1>3, <1>4, CommitRowsKeeps, RebuildKeeps DEF NextOutcomes

LEMMA OutcomesInit == InitOutcomes => OutcomesInv
<1> SUFFICES ASSUME InitOutcomes PROVE OutcomesInv
  OBVIOUS
<1>1. \A n \in Horizons : orows[n] = Missing /\ pricedAt[n] = 0
  BY DEF InitOutcomes
<1>2. /\ oday = 1 /\ spy = 0 /\ lastSeen = 0 /\ updater = NoRun
      /\ orows \in [Horizons -> OutcomeRow] /\ pricedAt \in [Horizons -> Nat]
  BY MissingIs DEF InitOutcomes
<1>3. RowsSound(orows, spy) /\ PricedOver(lastSeen)
  BY <1>1, MissingIs DEF RowsSound, RowSound, Empty, PricedOver
<1>4. UpdaterSound
  BY <1>2, NoRunIs DEF UpdaterSound
<1> QED
  BY <1>1, <1>2, <1>3, <1>4, NoRunIs DEF OutcomesInv

LEMMA OutcomesInvHolds == OutcomesSpec => []OutcomesInv
<1>1. InitOutcomes => OutcomesInv
  BY OutcomesInit
<1>2. OutcomesInv /\ [NextOutcomes]_ovars => OutcomesInv'
  BY OutcomesStep
<1> QED
  BY <1>1, <1>2, PTL DEF OutcomesSpec

\* Rows settle in the order of their horizons, and no run that stopped early, failed on
\* the ticker or ran over a rebuild lets the short-circuit leave a priced row behind
\* (opportunity_outcome_data.py).
THEOREM OutcomesKeepUp == OutcomesSpec => []RowsKeepUp
<1>1. OutcomesInv => RowsKeepUp
  <2> SUFFICES ASSUME OutcomesInv PROVE RowsKeepUp
    OBVIOUS
  <2>1. SettleInOrder
    BY DEF SettleInOrder, OutcomesInv, RowsSound
  <2>2. NoopHidesNothing
    <3> SUFFICES ASSUME NoNewBar, NEW n \in Horizons
                 PROVE  Final(orows[n], oday) \/ pricedAt[n] = 0 \/ pricedAt[n] >= spy
      BY DEF NoopHidesNothing
    <3>1. spy = lastSeen
      BY DEF NoNewBar, OutcomesInv
    <3> QED
      BY <3>1 DEF OutcomesInv, PricedOver
  <2> QED
    BY <2>1, <2>2 DEF RowsKeepUp
<1> QED
  BY <1>1, OutcomesInvHolds, PTL

\* Short of a rebuild a complete row stays as it is, a recorded stop is never lost and
\* a row that stays censored keeps its clock, whatever becomes of the bars (_update_one).
THEOREM SettledRowsStay == OutcomesSpec => SettledStays
<1>1. OutcomesInv /\ [NextOutcomes]_ovars => [\A n \in Horizons : RowKept(orows[n], orows'[n])]_ovars
  BY OutcomesStep
<1> QED
  BY <1>1, OutcomesInvHolds, PTL DEF OutcomesSpec, SettledStays
-----------------------------------------------------------------------------
(* The types of the seven machines. *)

LEMMA CronTypeStep ==
  ASSUME CronInv, CronTypeOK, [NextCron]_cvars
  PROVE  CronTypeOK'
<1> DEFINE LogType == [started : 1 .. MaxHour + 1, finished : 0 .. MaxHour + 1, status : Statuses]
<1>1. /\ MaxHour \in Nat /\ MaxStarts \in Nat /\ hour \in 0 .. MaxHour /\ starts \in Nat /\ starts <= MaxStarts
      /\ log \in Seq(LogRow) /\ Len(log) \in Nat /\ Len(log) <= starts /\ alive \subseteq 0 .. Len(log)
      /\ alive \subseteq 0 .. MaxStarts /\ doneAt \in 0 .. MaxHour + 1
  BY CronAssumption DEF CronInv, CronTypeOK
<1>2. Clock \in 1 .. MaxHour + 1 /\ \A i \in DOMAIN log : log[i] \in LogType
  BY <1>1 DEF Clock, CronTypeOK
<1>3. CASE Start
  <2>1. starts < MaxStarts /\ starts' = starts + 1 /\ UNCHANGED <<hour, doneAt>>
    BY <1>3 DEF Start
  <2>2. CASE alive' = alive \cup {0} /\ UNCHANGED log
    <3>1. alive' \subseteq 0 .. MaxStarts
      <4>1. 0 \in 0 .. MaxStarts /\ alive' = alive \cup {0}
        BY <1>1, <2>2
      <4> QED
        BY <1>1, <4>1
    <3>2. starts' \in Len(log') .. MaxStarts
      BY <1>1, <2>1, <2>2
    <3>3. \A i \in DOMAIN log' : log'[i] \in LogType
      BY <1>2, <2>2
    <3> QED
      BY <1>1, <2>1, <3>1, <3>2, <3>3 DEF CronTypeOK
  <2>3. CASE /\ log' = Append(log, [started |-> Clock, finished |-> 0, status |-> "running"])
             /\ alive' = alive \cup {Len(log) + 1}
    <3> DEFINE new == [started |-> Clock, finished |-> 0, status |-> "running"]
    <3>1. new \in LogType /\ new \in LogRow
      BY <1>1, <1>2 DEF LogRow, Statuses
    <3> HIDE DEF new
    <3>2. Len(log') = Len(log) + 1 /\ \A i \in DOMAIN log' : (i \in DOMAIN log /\ log'[i] = log[i]) \/ log'[i] = new
      BY <1>1, <2>3, <3>1 DEF new
    <3>3. \A i \in DOMAIN log' : log'[i] \in LogType
      BY <1>2, <3>1, <3>2
    <3>4. alive' \subseteq 0 .. MaxStarts
      <4>1. Len(log) + 1 \in 0 .. MaxStarts /\ alive' = alive \cup {Len(log) + 1}
        <5>1. starts' \in Nat /\ Len(log) + 1 <= MaxStarts
          BY <1>1, <2>1
        <5> QED
          BY <1>1, <2>3, <5>1
      <4> QED
        BY <1>1, <4>1
    <3>5. starts' \in Len(log') .. MaxStarts
      BY <1>1, <2>1, <3>2
    <3> QED
      BY <1>1, <2>1, <3>3, <3>4, <3>5 DEF CronTypeOK
  <2> QED
    BY <1>3, <2>2, <2>3 DEF Start
<1>4. CASE Hour
  <2>1. hour' \in 0 .. MaxHour /\ UNCHANGED <<log, alive, starts, doneAt>>
    BY <1>1, <1>4 DEF Hour
  <2> QED
    BY <2>1 DEF CronTypeOK
<1>5. ASSUME NEW run \in alive, End(run) PROVE CronTypeOK'
  <2>1. PICK way \in Ends, count \in Counts :
          LET end == Judged(way, count)
          IN /\ doneAt' = IF end \in {"returns", "exit0"} THEN Clock ELSE doneAt
             /\ \/ run > 0 /\ end # "sigkill" /\ log' = [log EXCEPT ![run] = Closed(log[run], end)]
                \/ UNCHANGED log
    BY <1>5 DEF End
  <2> PICK end : end = Judged(way, count)
    OBVIOUS
  <2>2. StatusOf(end) \in Statuses
    BY DEF StatusOf, CleanEnd, Statuses
  <2>3. doneAt' \in 0 .. MaxHour + 1
    BY <1>1, <1>2, <2>1
  <2>4. UNCHANGED <<hour, starts>> /\ alive' \subseteq alive
    BY <1>5 DEF End
  <2>5. CASE run > 0 /\ log' = [log EXCEPT ![run] = Closed(log[run], end)]
    <3>1. run \in DOMAIN log
      BY <1>1, <2>5
    <3> PICK new : new = Closed(log[run], end)
      OBVIOUS
    <3>2. log[run] \in LogType
      BY <1>2, <3>1
    <3>3. new \in LogType
      <4> DEFINE First == 1 .. MaxHour + 1
                 Any == 0 .. MaxHour + 1
      <4>1. Clock \in Any
        BY <1>1, <1>2
      <4>2. log[run] \in [started : First, finished : Any, status : Statuses]
        BY <3>2
      <4> HIDE DEF First, Any
      <4>3. new \in [started : First, finished : Any, status : Statuses]
        BY <2>2, <4>1, <4>2 DEF Closed
      <4> QED
        BY <4>3 DEF First, Any
    <3>4. DOMAIN log' = DOMAIN log /\ Len(log') = Len(log) /\ \A i \in DOMAIN log : log'[i] = log[i] \/ log'[i] = new
      BY <1>1, <2>5, <3>1
    <3>5. \A i \in DOMAIN log' : log'[i] \in LogType
      BY <1>2, <3>3, <3>4
    <3> QED
      BY <1>1, <2>3, <2>4, <3>4, <3>5 DEF CronTypeOK
  <2>6. CASE UNCHANGED log
    BY <1>1, <1>2, <2>3, <2>4, <2>6 DEF CronTypeOK
  <2> QED
    BY <2>1, <2>5, <2>6
<1>6. CASE UNCHANGED cvars
  BY <1>6 DEF cvars, CronTypeOK
<1> QED
  BY <1>3, <1>4, <1>5, <1>6 DEF NextCron

\* Every step of the universe keeps to the tickers, the kinds and the days there are.
LEMMA UniverseTypeStep ==
  ASSUME UniverseInv, UniverseTypeOK, [NextUniverse]_uvars
  PROVE  UniverseTypeOK'
<1> DEFINE Passes == [on : BOOLEAN, today : 0 .. LastDay + 1, added : SUBSET Tickers, todo : SUBSET Tickers]
<1>1. /\ LastDay \in Nat /\ day \in 0 .. LastDay /\ Today \in 1 .. LastDay + 1
      /\ stored \subseteq Tickers /\ delisted \subseteq stored /\ added \subseteq Tickers
      /\ protections \in [Tickers -> SUBSET Kinds] /\ viewed \in [Tickers -> 0 .. LastDay + 1]
      /\ opening \subseteq Tickers /\ adding \subseteq Tickers /\ pass \in Passes
  BY UniverseAssumption DEF UniverseTypeOK, Today
<1>2. CASE PassBegins
  <2>1. PICK todo \in SUBSET Candidates : pass' = [on |-> TRUE, today |-> Today, added |-> added, todo |-> todo]
    BY <1>2 DEF PassBegins
  <2>2. todo \subseteq Tickers
    BY DEF Candidates
  <2>3. pass' \in Passes
    BY <1>1, <2>1, <2>2
  <2>4. UNCHANGED <<day, stored, delisted, protections, viewed, added, opening, adding>>
    BY <1>2 DEF PassBegins
  <2> QED
    BY <1>1, <2>3, <2>4 DEF UniverseTypeOK
<1>3. CASE Tomorrow
  <2>1. day' \in 0 .. LastDay
    BY <1>1, <1>3 DEF Tomorrow
  <2> QED
    BY <1>3, <2>1 DEF Tomorrow, UniverseTypeOK
<1>4. ASSUME NEW t \in Tickers,
             \/ OpenPage(t) \/ PageShown(t) \/ AddChecked(t) \/ AddCommitted(t) \/ RemoveAdded(t)
             \/ Protect(t) \/ Unprotect(t) \/ Delisted(t) \/ ApplyWipe(t) \/ ApplyAdopt(t) \/ ApplySkipped(t)
      PROVE  UniverseTypeOK'
  <2>1. day' = day
    BY <1>4 DEF OpenPage, PageShown, AddChecked, AddCommitted, RemoveAdded, Protect, Unprotect, Delisted,
                ApplyWipe, ApplyAdopt, ApplySkipped
  <2>2. stored' \subseteq Tickers /\ delisted' \subseteq stored'
    BY <1>1, <1>4 DEF OpenPage, PageShown, AddChecked, AddCommitted, RemoveAdded, Protect, Unprotect, Delisted,
                ApplyWipe, ApplyAdopt, ApplySkipped
  <2>3. added' \subseteq Tickers /\ opening' \subseteq Tickers /\ adding' \subseteq Tickers
    BY <1>1, <1>4 DEF OpenPage, PageShown, AddChecked, AddCommitted, RemoveAdded, Protect, Unprotect, Delisted,
                ApplyWipe, ApplyAdopt, ApplySkipped
  <2>4. protections' \in [Tickers -> SUBSET Kinds]
    BY <1>1, <1>4 DEF OpenPage, PageShown, AddChecked, AddCommitted, RemoveAdded, Protect, Unprotect, Delisted,
                ApplyWipe, ApplyAdopt, ApplySkipped
  <2>5. viewed' \in [Tickers -> 0 .. LastDay + 1]
    <3>1. \/ viewed' = viewed
          \/ \E v \in 0 .. LastDay + 1 : viewed' = [viewed EXCEPT ![t] = v]
      <4>1. viewed[t] \in 0 .. LastDay + 1 /\ 0 \in 0 .. LastDay + 1 /\ pass.today \in 0 .. LastDay + 1 /\ Today \in 0 .. LastDay + 1
        BY <1>1
      <4>2. CASE OpenPage(t)
        BY <4>1, <4>2 DEF OpenPage, Touched
      <4>3. CASE PageShown(t)
        BY <4>1, <4>3 DEF PageShown
      <4>4. CASE AddCommitted(t)
        BY <4>1, <4>4 DEF AddCommitted
      <4>5. CASE ApplyWipe(t) \/ ApplyAdopt(t)
        BY <4>1, <4>5 DEF ApplyWipe, ApplyAdopt, NoView
      <4>6. CASE AddChecked(t) \/ RemoveAdded(t) \/ Protect(t) \/ Unprotect(t) \/ Delisted(t) \/ ApplySkipped(t)
        BY <4>6 DEF AddChecked, RemoveAdded, Protect, Unprotect, Delisted, ApplySkipped
      <4> QED
        BY <1>4, <4>2, <4>3, <4>4, <4>5, <4>6
    <3> QED
      BY <1>1, <3>1
  <2>6. pass' \in Passes
    <3>1. CASE UNCHANGED pass
      BY <1>1, <3>1
    <3>2. CASE pass' = Done(t)
      <4>1. pass.todo \ {t} \in SUBSET Tickers /\ (pass.todo # {t}) \in BOOLEAN
        BY <1>1
      <4> QED
        BY <1>1, <3>2, <4>1 DEF Done
    <3> QED
      BY <1>4, <3>1, <3>2 DEF OpenPage, PageShown, AddChecked, AddCommitted, RemoveAdded, Protect, Unprotect, Delisted,
                ApplyWipe, ApplyAdopt, ApplySkipped
  <2> QED
    BY <1>1, <2>1, <2>2, <2>3, <2>4, <2>5, <2>6 DEF UniverseTypeOK
<1>5. CASE UNCHANGED uvars
  BY <1>5 DEF uvars, UniverseTypeOK
<1> QED
  BY <1>2, <1>3, <1>4, <1>5 DEF NextUniverse


\* What a process's run has read is not ahead of SPY's bars, and a list is judged on later sessions only.
RunTyped(r) ==
    /\ r.row \in 0 .. Len(dailyRuns) /\ r.newest <= latest
    /\ r.at = "looked" => \A s \in r.sessions : r.cohort[s] < s
    /\ \A h \in r.hits : h.list < h.day /\ h.day <= latest

FlagsTyped ==
    /\ FlagsTypeOK /\ DOMAIN upstream = 1 .. MaxSession /\ flags \subseteq Hits
    /\ \A c \in Clis : RunTyped(judging[c])

\* A list older than the session.
LEMMA CohortIsOlder ==
  ASSUME FlagsInv, NEW s \in Nat, s > 0
  PROVE  Cohort(s) \in Nat /\ Cohort(s) < s
<1> DEFINE older == {l \in lists : l < s} \cup {0}
<1>1. older \in SUBSET (0 .. latest) /\ older # {} /\ latest \in Nat /\ \A l \in older : l < s
  <2>1. latest \in Nat /\ lists \subseteq 1 .. latest
    BY DEF FlagsInv
  <2>2. ASSUME NEW l \in older PROVE l \in 0 .. latest
    BY <2>1
  <2> QED
    BY <2>1, <2>2
<1> HIDE DEF older
<1>2. Max(older) \in older
  BY <1>1, MaxIs
<1> QED
  BY <1>1, <1>2 DEF Cohort, older

\* One process moves, the world does not.
LEMMA RunTypeMoves ==
  ASSUME FlagsInv, FlagsTyped, NEW c \in Clis, UNCHANGED <<latest, stageDay, upstream, lists>>,
         \A d \in Clis : d # c => judging'[d] = judging[d],
         Len(dailyRuns) \in Nat, Len(dailyRuns') \in Nat, Len(dailyRuns) <= Len(dailyRuns'),
         \A i \in DOMAIN dailyRuns' : dailyRuns'[i].seen <= latest,
         \A f \in flags' : f \in Hits /\ f.list < f.day /\ f.day <= latest,
         RunTyped(judging[c])'
  PROVE  FlagsTyped'
<1>1. ASSUME NEW d \in Clis PROVE RunTyped(judging[d])'
  <2>1. CASE d # c
    <3>1. judging'[d] = judging[d] /\ RunTyped(judging[d]) /\ latest' = latest
      BY <2>1 DEF FlagsTyped
    <3> QED
      BY <3>1 DEF RunTyped
  <2> QED
    BY <2>1
<1>2. ASSUME NEW d \in Clis PROVE judging'[d].row <= Len(dailyRuns')
  BY <1>1 DEF RunTyped
<1> QED
  BY <1>1, <1>2 DEF FlagsTyped, FlagsTypeOK

LEMMA FlagsTypeStep ==
  ASSUME FlagsInv, FlagsTyped, [NextFlags]_fvars
  PROVE  FlagsTyped'
<1>1. /\ latest \in 0 .. MaxSession /\ MaxSession \in Nat /\ stageDay \in 0 .. latest /\ latest \in Nat
      /\ \A s \in 1 .. MaxSession : upstream[s] \subseteq {"trend", "signals"}
      /\ DOMAIN upstream = 1 .. MaxSession /\ lists \subseteq 1 .. latest
      /\ flags \subseteq Hits /\ \A f \in flags : f \in Hits /\ f.list < f.day /\ f.day <= latest
      /\ \A i \in DOMAIN dailyRuns : dailyRuns[i].seen <= latest
      /\ dailyRuns \in Seq(RunRow) /\ Len(dailyRuns) \in Nat
  BY FlagsAssumption DEF FlagsTyped, FlagsTypeOK, FlagsInv
<1>2. CASE NewSession \/ TrendJob \/ SignalJobs \/ WeeklyList \/ UNCHANGED fvars
  <2>1. UNCHANGED <<flags, dailyRuns, judging>>
    BY <1>2 DEF NewSession, TrendJob, SignalJobs, WeeklyList, fvars
  <2>2. latest' \in 0 .. MaxSession /\ latest <= latest' /\ stageDay' \in 0 .. latest'
    BY <1>1, <1>2 DEF NewSession, TrendJob, SignalJobs, WeeklyList, fvars
  <2>3. DOMAIN upstream' = 1 .. MaxSession /\ \A s \in 1 .. MaxSession : upstream'[s] \subseteq {"trend", "signals"}
    BY <1>1, <1>2 DEF NewSession, TrendJob, SignalJobs, WeeklyList, fvars
  <2>4. lists' \subseteq 1 .. latest'
    <3>1. lists' = lists \/ (latest > 0 /\ lists' = lists \cup {latest})
      BY <1>2 DEF NewSession, TrendJob, SignalJobs, WeeklyList, fvars
    <3>2. ASSUME NEW l \in lists' PROVE l \in 1 .. latest'
      <4>1. CASE l \in lists
        <5>1. l \in 1 .. latest /\ latest \in Nat /\ latest' \in Nat
          BY <1>1, <2>2, <4>1
        <5> QED
          BY <2>2, <5>1
      <4>2. CASE l = latest /\ latest > 0
        BY <1>1, <2>2, <4>2
      <4> QED
        BY <3>1, <4>1, <4>2
    <3> QED
      BY <3>2
  <2>5. ASSUME NEW f \in flags' PROVE f \in Hits /\ f.list < f.day /\ f.day <= latest'
    <3>1. f \in Hits /\ f.list < f.day /\ f.day <= latest /\ f.day \in Nat
      BY <1>1, <2>1, <2>5 DEF Hits
    <3> QED
      BY <1>1, <2>2, <3>1
  <2>6. ASSUME NEW i \in DOMAIN dailyRuns' PROVE dailyRuns'[i].seen <= latest'
    <3>1. dailyRuns[i] \in RunRow /\ dailyRuns[i].seen <= latest
      BY <1>1, <2>1
    <3>2. dailyRuns[i].seen \in Nat
      BY <3>1 DEF RunRow
    <3> QED
      BY <1>1, <2>1, <2>2, <3>1, <3>2
  <2>7. ASSUME NEW c \in Clis PROVE RunTyped(judging[c])'
    <3>1. RunTyped(judging[c]) /\ RunOK(judging[c])
      BY DEF FlagsTyped, FlagsInv
    <3>2. judging[c].newest \in Nat /\ \A h \in judging[c].hits : h.day \in Nat
      BY <3>1 DEF RunOK, Hits
    <3> QED
      BY <1>1, <2>1, <2>2, <3>1, <3>2 DEF RunTyped
  <2>8. \A c \in Clis : judging'[c].row <= Len(dailyRuns')
    BY <2>7 DEF RunTyped
  <2> QED
    BY <2>2, <2>3, <2>4, <2>5, <2>6, <2>7, <2>8 DEF FlagsTyped, FlagsTypeOK
<1>3. ASSUME NEW c \in Clis, Begin(c) PROVE FlagsTyped'
  <2>1. /\ UNCHANGED <<latest, stageDay, upstream, lists, flags>> /\ dailyRuns' = Append(dailyRuns, OpenRow)
        /\ Len(dailyRuns') = Len(dailyRuns) + 1
    <3>1. UNCHANGED <<latest, stageDay, upstream, lists, flags>> /\ dailyRuns' = Append(dailyRuns, OpenRow)
      BY <1>3 DEF Begin
    <3> QED
      BY <1>1, <3>1, OpenRowIs
  <2>2. \A i \in DOMAIN dailyRuns' : dailyRuns'[i].seen <= latest
    <3>1. \A i \in DOMAIN dailyRuns' : (i \in DOMAIN dailyRuns /\ dailyRuns'[i] = dailyRuns[i]) \/ dailyRuns'[i] = OpenRow
      BY <1>1, <2>1, OpenRowIs
    <3> QED
      BY <1>1, <3>1, OpenRowIs
  <2>3. /\ \A d \in Clis : d # c => judging'[d] = judging[d]
        /\ judging'[c].row = Len(dailyRuns) + 1 /\ judging'[c].newest = 0 /\ judging'[c].hits = {} /\ judging'[c].at = "begun"
    <3>1. DOMAIN judging = Clis
      BY DEF FlagsInv
    <3>2. CASE judging' = [judging EXCEPT ![c] = [Idle EXCEPT !.at = "begun", !.row = Len(dailyRuns) + 1, !.after = LastSeen]]
      BY <3>1, <3>2, IdleIs DEF RunFields
    <3>3. CASE \E target \in 1 .. latest : judging' = [judging EXCEPT ![c] =
                [Idle EXCEPT !.at = "begun", !.row = Len(dailyRuns) + 1, !.sessions = {target}]]
      <4>1. PICK target \in 1 .. latest : judging' = [judging EXCEPT ![c] =
                [Idle EXCEPT !.at = "begun", !.row = Len(dailyRuns) + 1, !.sessions = {target}]]
        BY <3>3
      <4> QED
        BY <3>1, <4>1, IdleIs DEF RunFields
    <3> QED
      BY <1>3, <3>2, <3>3 DEF Begin
  <2>4. RunTyped(judging[c])'
    BY <1>1, <2>1, <2>3 DEF RunTyped
  <2>5. Len(dailyRuns') \in Nat /\ Len(dailyRuns) <= Len(dailyRuns') /\ \A f \in flags' : f \in Hits /\ f.list < f.day /\ f.day <= latest
    BY <1>1, <2>1
  <2> QED
    BY <1>1, <2>1, <2>2, <2>3, <2>4, <2>5, RunTypeMoves
<1>4. ASSUME NEW c \in Clis, Look(c) PROVE FlagsTyped'
  <2> PICK r : r = judging[c]
    OBVIOUS
  <2> DEFINE days == SessionsOf(r.after, r.sessions)
             at == IF \E s \in days : Cohort(s) > 0 THEN "looked" ELSE "noop"
             cohort == [s \in 1 .. latest |-> Cohort(s)]
             good == {x \in days \X Triggers : Job(x[2]) \in upstream[x[1]]}
  <2>1. /\ r.at = "begun" /\ latest > 0 /\ UNCHANGED <<latest, stageDay, upstream, lists, flags, dailyRuns>>
        /\ judging' = [judging EXCEPT ![c] = [r EXCEPT
              !.at = at, !.sessions = days, !.newest = latest, !.cohort = cohort, !.good = good]]
    BY <1>4 DEF Look
  <2>2. RunOK(r) /\ RunTyped(r) /\ DOMAIN judging = Clis
    BY DEF FlagsInv, FlagsTyped
  <2>3. days \subseteq 1 .. latest
    BY <1>1, <2>1, <2>2 DEF SessionsOf, RunOK
  <2>4. \A s \in days : cohort[s] < s
    BY <1>1, <2>3, CohortIsOlder
  <2> HIDE DEF days, at, cohort, good
  <2>5. /\ \A d \in Clis : d # c => judging'[d] = judging[d]
        /\ judging'[c].row = r.row /\ judging'[c].newest = latest /\ judging'[c].hits = r.hits
        /\ judging'[c].sessions = days /\ judging'[c].cohort = cohort
    BY <2>1, <2>2 DEF RunOK, RunFields
  <2>6. RunTyped(judging[c])'
    BY <1>1, <2>1, <2>2, <2>4, <2>5 DEF RunTyped
  <2>8. /\ Len(dailyRuns') \in Nat /\ Len(dailyRuns) <= Len(dailyRuns')
        /\ \A i \in DOMAIN dailyRuns' : dailyRuns'[i].seen <= latest
        /\ \A f \in flags' : f \in Hits /\ f.list < f.day /\ f.day <= latest
    BY <1>1, <2>1
  <2> QED
    BY <1>1, <2>1, <2>5, <2>6, <2>8, RunTypeMoves
<1>5. ASSUME NEW c \in Clis, Judge(c) PROVE FlagsTyped'
  <2> DEFINE r == judging[c]
             Found(fired) == {[list |-> r.cohort[x[1]], trigger |-> x[2], day |-> x[1],
                               basis |-> IF x[2] = "D2" THEN stageDay ELSE x[1]] : x \in fired}
             First(found) == {h \in found : \A g \in found : SameKey(g, h) => h.day <= g.day}
             pairs == {x \in r.sessions \X Triggers : Judgeable(r, x[1], x[2])}
  <2>1. /\ r.at = "looked" /\ UNCHANGED <<latest, stageDay, upstream, lists, flags, dailyRuns>>
        /\ \E fired \in SUBSET pairs :
               judging' = [judging EXCEPT ![c] = [r EXCEPT !.at = "judged", !.hits = First(Found(fired))]]
    BY <1>5 DEF Judge
  <2>2. RunOK(r) /\ RunTyped(r) /\ DOMAIN judging = Clis
    BY DEF FlagsInv, FlagsTyped
  <2>3. PICK fired \in SUBSET pairs :
          judging' = [judging EXCEPT ![c] = [r EXCEPT !.at = "judged", !.hits = First(Found(fired))]]
    BY <2>1
  <2> DEFINE hits == First(Found(fired))
  <2>4. ASSUME NEW h \in hits PROVE h.list < h.day /\ h.day <= latest
    <3>1. h \in Found(fired)
      OBVIOUS
    <3>2. PICK x \in fired : h = [list |-> r.cohort[x[1]], trigger |-> x[2], day |-> x[1],
                                  basis |-> IF x[2] = "D2" THEN stageDay ELSE x[1]]
      BY <3>1
    <3>3. x[1] \in r.sessions /\ h.list = r.cohort[x[1]] /\ h.day = x[1]
      BY <3>2
    <3>4. x[1] \in 1 .. latest /\ r.cohort[x[1]] < x[1]
      BY <2>1, <2>2, <3>3 DEF RunOK, RunTyped
    <3> QED
      BY <1>1, <3>3, <3>4
  <2>5. judging' = [judging EXCEPT ![c] = [r EXCEPT !.at = "judged", !.hits = hits]]
    BY <2>3
  <2> HIDE DEF hits, pairs, Found, First
  <2>6. /\ \A d \in Clis : d # c => judging'[d] = judging[d]
        /\ judging'[c].row = r.row /\ judging'[c].newest = r.newest /\ judging'[c].hits = hits /\ judging'[c].at = "judged"
    BY <2>2, <2>5 DEF RunOK, RunFields
  <2>7. RunTyped(judging[c])'
    BY <1>1, <2>1, <2>2, <2>4, <2>6 DEF RunTyped
  <2>8. /\ Len(dailyRuns') \in Nat /\ Len(dailyRuns) <= Len(dailyRuns')
        /\ \A i \in DOMAIN dailyRuns' : dailyRuns'[i].seen <= latest
        /\ \A f \in flags' : f \in Hits /\ f.list < f.day /\ f.day <= latest
    BY <1>1, <2>1
  <2> QED
    BY <1>1, <2>1, <2>6, <2>7, <2>8, RunTypeMoves
<1>6. ASSUME NEW c \in Clis, Write(c) PROVE FlagsTyped'
  <2> PICK r : r = judging[c]
    OBVIOUS
  <2>1. /\ r.at = "judged" /\ UNCHANGED <<latest, stageDay, upstream, lists, dailyRuns>>
        /\ flags' \subseteq flags \cup r.hits
        /\ judging' = [judging EXCEPT ![c] = [r EXCEPT !.at = "written"]]
    BY <1>6 DEF Write
  <2>2. RunOK(r) /\ RunTyped(r) /\ DOMAIN judging = Clis
    BY DEF FlagsInv, FlagsTyped
  <2>3. \A f \in flags' : f \in Hits /\ f.list < f.day /\ f.day <= latest
    BY <1>1, <2>1, <2>2 DEF RunTyped, RunOK
  <2>4. /\ \A d \in Clis : d # c => judging'[d] = judging[d]
        /\ judging'[c].row = r.row /\ judging'[c].newest = r.newest /\ judging'[c].hits = r.hits /\ judging'[c].at = "written"
    BY <2>1, <2>2 DEF RunOK, RunFields
  <2>5. RunTyped(judging[c])'
    BY <1>1, <2>1, <2>2, <2>4 DEF RunTyped
  <2> QED
    BY <1>1, <2>1, <2>3, <2>4, <2>5, RunTypeMoves
<1>7. ASSUME NEW c \in Clis, Close(c) \/ Stop(c) PROVE FlagsTyped'
  <2> PICK r : r = judging[c]
    OBVIOUS
  <2>1. UNCHANGED <<latest, stageDay, upstream, lists, flags>> /\ judging' = [judging EXCEPT ![c] = Idle]
    BY <1>7 DEF Close, Stop
  <2>2. RunOK(r) /\ RunTyped(r) /\ DOMAIN judging = Clis
    BY DEF FlagsInv, FlagsTyped
  <2>3. /\ \A d \in Clis : d # c => judging'[d] = judging[d]
        /\ judging'[c] = Idle
    BY <2>1, <2>2
  <2>4. Len(dailyRuns') = Len(dailyRuns) /\ \A i \in DOMAIN dailyRuns' : dailyRuns'[i].seen <= latest
    <3>1. CASE UNCHANGED dailyRuns
      BY <1>1, <3>1
    <3>2. CASE Close(c)
      <4>1. dailyRuns' = [dailyRuns EXCEPT ![r.row] =
               [after |-> r.after, seen |-> r.newest, sessions |-> r.sessions, hits |-> r.hits]]
        BY <3>2 DEF Close
      <4> PICK closed : closed = [after |-> r.after, seen |-> r.newest, sessions |-> r.sessions, hits |-> r.hits]
        OBVIOUS
      <4>2. closed.seen <= latest
        BY <2>2 DEF RunTyped
      <4>3. Len(dailyRuns') = Len(dailyRuns) /\ \A i \in DOMAIN dailyRuns' : (i \in DOMAIN dailyRuns /\ dailyRuns'[i] = dailyRuns[i]) \/ dailyRuns'[i] = closed
        BY <1>1, <4>1
      <4> QED
        BY <1>1, <4>2, <4>3
    <3> QED
      BY <1>7, <3>1, <3>2 DEF Stop
  <2>5. RunTyped(judging[c])'
    BY <1>1, <2>1, <2>3, <2>4, IdleIs DEF RunTyped
  <2>6. Len(dailyRuns') \in Nat /\ Len(dailyRuns) <= Len(dailyRuns') /\ \A f \in flags' : f \in Hits /\ f.list < f.day /\ f.day <= latest
    BY <1>1, <2>1, <2>4
  <2> QED
    BY <1>1, <2>1, <2>3, <2>4, <2>5, <2>6, RunTypeMoves
<1> QED
  BY <1>2, <1>3, <1>4, <1>5, <1>6, <1>7 DEF NextFlags


\* A candle's rules leave the trade's last signal, or make the candle it.
LEMMA RaisedSignal ==
  ASSUME NEW s \in Trade, NEW level, NEW basis
  PROVE  Raised(s, level, basis).signalAt = s.signalAt
BY DEF Raised, Trade

LEMMA RepeatSignal ==
  ASSUME NEW s \in Trade, NEW c
  PROVE  RepeatYellow(s, c).signalAt = s.signalAt
<1> PICK lp, ten : lp = PickSupport(c) /\ ten = TenPercent(c.low)
  OBVIOUS
<1>1. RepeatYellow(s, c) = Raised(s, lp, "LP") \/ RepeatYellow(s, c) = Raised(s, ten, "low")
  BY DEF RepeatYellow
<1> QED
  BY <1>1, RaisedSignal

LEMMA UpSignal ==
  ASSUME NEW s \in Trade, NEW c \in Candles, NEW kind, NEW first, NEW at \in Nat
  PROVE  ApplyUp(s, kind, first, at, c).signalAt = at
<1> PICK said : said = [s EXCEPT !.signalAt = at]
  OBVIOUS
<1>1. said \in Trade /\ said.signalAt = at
  BY DEF Trade
<1>2. \/ ApplyUp(s, kind, first, at, c) = Opened(kind, at, c)
      \/ ApplyUp(s, kind, first, at, c) = RepeatYellow(said, c)
      \/ ApplyUp(s, kind, first, at, c) = said
  BY Zenon DEF ApplyUp
<1>3. Opened(kind, at, c).signalAt = at
  BY DEF Opened
<1>4. RepeatYellow(said, c).signalAt = at
  BY <1>1, RepeatSignal
<1> QED
  BY <1>1, <1>2, <1>3, <1>4

LEMMA DownSignal ==
  ASSUME NEW s \in Trade, NEW c \in Candles, NEW kind
  PROVE  ApplyDown(s, kind, c).signalAt = s.signalAt
<1> PICK lp, target : lp = PickSupport(c) /\ target = GrayTarget(s)
  OBVIOUS
<1>1. \/ ApplyDown(s, kind, c) = s \/ ApplyDown(s, kind, c) = Raised(s, lp, "LP")
      \/ ApplyDown(s, kind, c) = Raised(s, target, "entry")
  BY Zenon DEF ApplyDown
<1> QED
  BY <1>1, RaisedSignal

LEMMA AdvanceSignal ==
  ASSUME NEW s \in Trade, NEW c \in Candles, NEW at \in Nat, NEW kinds, NEW first \in BOOLEAN
  PROVE  Advance(s, at, c, kinds, first).signalAt \in {s.signalAt, at}
<1> PICK up, down : up = UpKind(kinds) /\ down = DownKind(kinds)
  OBVIOUS
<1> PICK b : b = Breach(s, c)
  OBVIOUS
<1> PICK risen : risen = IF up = "none" THEN b ELSE ApplyUp(b, up, first /\ up = "yellow", at, c)
  OBVIOUS
<1> PICK eased : eased = IF down = "none" \/ ~InTrade(risen) THEN risen ELSE ApplyDown(risen, down, c)
  OBVIOUS
<1>1. b \in Trade /\ b.signalAt = s.signalAt
  BY BreachIs DEF Breach, Trade
<1>2. InTrade(b) => Below(b, c)
  BY BreachIs DEF InTrade, Below
<1>3. up = "none" \/ up \in {"blue", "yellow", "gray"}
  BY DEF UpKind
<1>4. risen \in Trade /\ (InTrade(risen) => Below(risen, c)) /\ risen.signalAt \in {s.signalAt, at}
  <2>1. CASE up = "none"
    BY <1>1, <1>2, <2>1
  <2>2. CASE up # "none"
    <3> PICK repeat \in BOOLEAN : repeat = (first /\ up = "yellow")
      OBVIOUS
    <3>1. risen = ApplyUp(b, up, repeat, at, c)
      BY <2>2
    <3>2. ApplyUp(b, up, repeat, at, c).signalAt = at
      BY <1>1, UpSignal
    <3>3. ApplyUp(b, up, repeat, at, c) \in Trade /\ Below(ApplyUp(b, up, repeat, at, c), c)
      BY <1>1, <1>2, <1>3, <2>2, UpIs
    <3> QED
      BY <3>1, <3>2, <3>3
  <2> QED
    BY <2>1, <2>2
<1>5. eased \in Trade /\ eased.signalAt \in {s.signalAt, at}
  <2>1. CASE down = "none" \/ ~InTrade(risen)
    BY <1>4, <2>1
  <2>2. CASE ~(down = "none" \/ ~InTrade(risen))
    <3>1. eased = ApplyDown(risen, down, c) /\ Below(risen, c)
      BY <1>4, <2>2
    <3>2. ApplyDown(risen, down, c) \in Trade
      BY <1>4, <3>1, DownIs DEF Held
    <3>3. ApplyDown(risen, down, c).signalAt = risen.signalAt
      BY <1>4, DownSignal
    <3> QED
      BY <1>4, <3>1, <3>2, <3>3
  <2> QED
    BY <2>1, <2>2
<1>6. Advance(s, at, c, kinds, first) = Trail(eased, c)
  BY DEF Advance
<1>7. Trail(eased, c) = eased \/ Trail(eased, c) = Raised(eased, PickSupport(c), "LP")
  BY DEF Trail
<1>8. Raised(eased, PickSupport(c), "LP").signalAt = eased.signalAt
  BY <1>5, RaisedSignal
<1> QED
  BY <1>5, <1>6, <1>7, <1>8

LEMMA TradesAre ==
  ASSUME NEW t
  PROVE  t \in Trades <=> t \in Trade /\ t.entryAt <= MaxCandle /\ t.signalAt <= MaxCandle
BY CandleAssumption DEF Trades, Trade, Bases

LEMMA ReplayedTyped ==
  ASSUME NEW s \in Trades, NEW at \in 1 .. MaxCandle, NEW c \in Candles, NEW kinds, NEW first \in BOOLEAN
  PROVE  Replayed(s, at, c, kinds, first) \in Trades
<1> PICK a : a = Advance(s, at, c, kinds, first)
  OBVIOUS
<1>1. s \in Trade /\ s.entryAt <= MaxCandle /\ s.signalAt <= MaxCandle /\ at \in Nat /\ at <= MaxCandle
  BY TradesAre, CandleAssumption
<1>2. a \in Trade /\ a.entryAt \in {s.entryAt, at} /\ a.signalAt \in {s.signalAt, at}
  BY <1>1, AdvanceIs, AdvanceSignal
<1>3. a \in Trades
  BY <1>1, <1>2, TradesAre
<1>4. None \in Trades
  <2>1. None.signalAt = 0
    BY DEF None
  <2> QED
    BY <2>1, NoneIs, TradesAre, CandleAssumption
<1> QED
  BY <1>3, <1>4 DEF Replayed

LEMMA WatchTypeStep ==
  ASSUME WatchInv, WatchTypeOK, [NextWatch]_wvars
  PROVE  WatchTypeOK'
<1> DEFINE Bound == 0 .. MaxCandle + 1
           RowType == [stored : BOOLEAN, removed : Bound, from : Bound, content : Trades]
           JobType == [on : BOOLEAN, stored : BOOLEAN, removed : Bound, content : Trades, new : Trades, recent : BOOLEAN]
<1>1. /\ MaxCandle \in Nat /\ now \in 0 .. MaxCandle /\ newest \in Candles \cup {NoCandle}
      /\ before \in Trades /\ trade \in Trades /\ lastUp \in 0 .. now /\ upBefore \in 0 .. now
      /\ row \in RowType /\ job \in JobType /\ removedThrough \in Bound
  BY CandleAssumption DEF WatchTypeOK
<1>0. None \in Trades
  <2>1. None.signalAt = 0
    BY DEF None
  <2> QED
    BY <2>1, NoneIs, TradesAre, CandleAssumption
<1>2. CASE NewCandle
  <2>1. UNCHANGED <<row, job, removedThrough>> /\ now' = now + 1 /\ before' = trade /\ now < MaxCandle /\ upBefore' = lastUp
    BY <1>2 DEF NewCandle
  <2>2. PICK c \in Candles, kinds \in ArrowSets, first \in BOOLEAN :
          newest' = c /\ trade' = Replayed(trade, now + 1, c, kinds, first)
    BY <1>2 DEF NewCandle
  <2>3. lastUp' \in {now + 1, lastUp}
    BY <1>2 DEF NewCandle
  <2>4. now + 1 \in 1 .. MaxCandle
    BY <1>1, <2>1
  <2>5. trade' \in Trades
    BY <1>1, <2>2, <2>4, ReplayedTyped
  <2>6. lastUp' \in 0 .. now' /\ upBefore' \in 0 .. now' /\ now' \in 0 .. MaxCandle
    BY <1>1, <2>1, <2>3
  <2>7. newest' \in Candles \cup {NoCandle}
    BY <2>2
  <2> HIDE DEF Bound, RowType, JobType
  <2> QED
    BY <1>1, <2>1, <2>5, <2>6, <2>7 DEF WatchTypeOK, Bound, RowType, JobType
<1>3. CASE Revise
  <2>1. UNCHANGED <<now, before, upBefore, row, job, removedThrough>> /\ now > 0
    BY <1>3 DEF Revise
  <2>2. PICK c \in Candles, kinds \in ArrowSets, first \in BOOLEAN :
          newest' = c /\ trade' = Replayed(before, now, c, kinds, first)
    BY <1>3 DEF Revise
  <2>3. lastUp' \in {now, upBefore}
    BY <1>3 DEF Revise
  <2>4. now \in 1 .. MaxCandle
    BY <1>1, <2>1
  <2>5. trade' \in Trades
    BY <1>1, <2>2, <2>4, ReplayedTyped
  <2>6. lastUp' \in 0 .. now' /\ upBefore' \in 0 .. now' /\ now' \in 0 .. MaxCandle
    BY <1>1, <2>1, <2>3
  <2>7. newest' \in Candles \cup {NoCandle}
    BY <2>2
  <2> QED
    BY <1>1, <2>1, <2>5, <2>6, <2>7 DEF WatchTypeOK
<1>4. CASE ReadRow
  <2>1. UNCHANGED <<now, newest, before, trade, lastUp, upBefore, row, removedThrough>>
    BY <1>4 DEF ReadRow
  <2>2. job' \in JobType
    <3> PICK recent \in BOOLEAN : recent = (lastUp > 0 /\ now < lastUp + RowWindow)
      OBVIOUS
    <3>1. job' = [on |-> TRUE, stored |-> row.stored, removed |-> row.removed, content |-> row.content,
                  new |-> trade, recent |-> recent]
      BY <1>4 DEF ReadRow
    <3> HIDE DEF Bound
    <3> QED
      BY <1>1, <3>1
  <2> QED
    BY <1>1, <2>1, <2>2 DEF WatchTypeOK
<1>5. CASE Remove
  <2>1. trade' = None /\ before' = None /\ UNCHANGED <<now, newest, lastUp, upBefore, job>>
    BY <1>5 DEF Remove
  <2>2. PICK through \in {now, now + 1} : row' = [row EXCEPT !.removed = through] /\ removedThrough' = through
    BY <1>5 DEF Remove
  <2>3. through \in Bound
    BY <1>1
  <2>4. row' \in RowType
    <3> HIDE DEF Bound
    <3> QED
      BY <1>1, <2>2, <2>3
  <2> QED
    BY <1>0, <1>1, <2>1, <2>2, <2>3, <2>4 DEF WatchTypeOK
<1>6. CASE Commit
  <2>1. job' = NoJob /\ UNCHANGED <<now, newest, before, trade, lastUp, upBefore, removedThrough>>
    BY <1>6 DEF Commit
  <2>2. job' \in JobType
    <3>1. 0 \in Bound
      BY <1>1
    <3> HIDE DEF Bound
    <3> QED
      BY <1>0, <2>1, <3>1 DEF NoJob
  <2>3. row' \in RowType
    <3> DEFINE created == [stored |-> TRUE, removed |-> 0, from |-> job.removed, content |-> job.new]
               changed == [row EXCEPT !.content = job.new]
    <3>1. row' = CASE Creates -> created [] Changes -> changed [] OTHER -> row
      BY <1>6 DEF Commit
    <3>2. ~(Creates /\ Changes)
      BY <1>6 DEF Commit, Creates, Changes, WatchInv, UpdateOK, Update
    <3>3. 0 \in Bound
      BY <1>1
    <3> HIDE DEF Bound
    <3>4. created \in RowType /\ changed \in RowType
      BY <1>1, <3>3
    <3> HIDE DEF created, changed, RowType
    <3> QED
      BY <1>1, <3>1, <3>2, <3>4
  <2> QED
    BY <1>1, <2>1, <2>2, <2>3 DEF WatchTypeOK
<1>7. CASE UNCHANGED wvars
  BY <1>7 DEF wvars, WatchTypeOK
<1> QED
  BY <1>2, <1>3, <1>4, <1>5, <1>6, <1>7 DEF NextWatch


\* A row's clock runs from a day that has been, and only while it is censored; a complete
\* row has its exit.
RowTyped(r, n, d) ==
    /\ r.since <= d /\ (r.since > 0 <=> r.status = "censored")
    /\ r.status = "complete" => r.exit = n + 1

OutcomesTyped ==
    /\ oday \in 1 .. MaxDay /\ spy \in 0 .. MaxSpy /\ tbars \in [1 .. MaxSpy -> BarKinds]
    /\ \A n \in Horizons : RowTyped(orows[n], n, oday)
    /\ updater.at = "read" => \A n \in Horizons : RowTyped(updater.rows[n], n, oday)

LEMMA OutcomeExit ==
  ASSUME NEW n \in Horizons, NEW b, NEW s \in Nat, Outcome(n, b, s).status = "complete"
  PROVE  Outcome(n, b, s).exit = n + 1
<1> DEFINE present == {i \in Window(n, s) : b[i] # "none"}
           priced == [Pending EXCEPT !.stop = FirstLow(b, Window(n, s))]
           unentered == [Pending EXCEPT !.status = IF EntryLost(b, s) \/ PastGrace(n, s) THEN "censored" ELSE "pending"]
           complete == [priced EXCEPT !.status = "complete", !.exit = n + 1]
           censored == [priced EXCEPT !.status = "censored", !.exit = Max(present)]
<1>1. Outcome(n, b, s) = CASE s = 0 -> Pending
                           [] s > 0 /\ b[1] = "none" -> unentered
                           [] s > 0 /\ b[1] # "none" /\ Reached(n, s) /\ n + 1 \in present -> complete
                           [] s > 0 /\ b[1] # "none" /\ PastGrace(n, s) /\ n + 1 \notin present -> censored
                           [] OTHER -> priced
  BY DEF Outcome
<1>2. Pending.status = "pending" /\ unentered.status # "complete" /\ censored.status = "censored" /\ priced.status = "pending"
  BY DEF Pending, Missing
<1>3. complete.exit = n + 1
  BY DEF Pending, Missing
<1> HIDE DEF present, priced, unentered, complete, censored
<1>4. \/ Outcome(n, b, s) = Pending \/ Outcome(n, b, s) = unentered \/ Outcome(n, b, s) = complete
      \/ Outcome(n, b, s) = censored \/ Outcome(n, b, s) = priced
  BY <1>1
<1> QED
  BY <1>2, <1>3, <1>4

LEMMA UpdatedTyped ==
  ASSUME NEW n \in Horizons, NEW u \in Updater, u.day > 0, NEW d \in Nat, u.day <= d,
         NEW old \in OutcomeRow, RowTyped(old, n, d)
  PROVE  RowTyped(Updated(old, n, u), n, d)
<1> PICK new : new = Outcome(n, tbars, u.spy)
  OBVIOUS
<1> PICK stop, since : stop = StopKept(old, new) /\ since = Since(old, new, u.day)
  OBVIOUS
<1>1. u.day \in Nat /\ u.spy \in Nat /\ old.since \in Nat
  BY DEF Updater, OutcomeRow
<1>2. new \in OutcomeRow /\ (new.status = "complete" => new.exit = n + 1)
  BY <1>1, OutcomeIs, OutcomeExit
<1>3. since <= d /\ (since > 0 <=> new.status = "censored")
  BY <1>1 DEF Since, RowTyped
<1> PICK priced : priced = [new EXCEPT !.stop = stop, !.since = since]
  OBVIOUS
<1>4. priced.status = new.status /\ priced.exit = new.exit /\ priced.since = since
  BY <1>2 DEF OutcomeRow
<1>5. RowTyped(priced, n, d)
  BY <1>2, <1>3, <1>4 DEF RowTyped
<1>6. RowTyped(Pending, n, d)
  BY MissingIs DEF RowTyped
<1>7. \/ Updated(old, n, u) = old \/ Updated(old, n, u) = Pending \/ Updated(old, n, u) = priced
  <2> DEFINE final == Final(old, u.day)
             seeded == IF old.status = "missing" THEN Pending ELSE old
  <2>1. Updated(old, n, u) = CASE final -> old [] ~final /\ u.failed -> seeded [] OTHER -> priced
    BY DEF Updated
  <2>2. seeded = old \/ seeded = Pending
    OBVIOUS
  <2> HIDE DEF final, seeded
  <2> QED
    BY <2>1, <2>2
<1> QED
  BY <1>5, <1>6, <1>7

LEMMA OutcomesTypeStep ==
  ASSUME OutcomesInv, OutcomesTyped, [NextOutcomes]_ovars
  PROVE  OutcomesTyped'
<1>1. /\ MaxDay \in Nat /\ MaxSpy \in Nat /\ oday \in 1 .. MaxDay /\ spy \in 0 .. MaxSpy
      /\ tbars \in [1 .. MaxSpy -> BarKinds] /\ oday \in Nat /\ updater \in Updater
      /\ \A n \in Horizons : orows[n] \in OutcomeRow /\ RowTyped(orows[n], n, oday)
      /\ updater.at = "read" => \A n \in Horizons : RowTyped(updater.rows[n], n, oday)
      /\ updater.at # "idle" => 0 < updater.day /\ updater.day <= oday
  BY OutcomesAssumption DEF OutcomesTyped, OutcomesInv, UpdaterSound
<1>2. CASE NextDay
  <2>1. oday < MaxDay /\ oday' = oday + 1 /\ UNCHANGED <<orows, updater>>
    BY <1>2 DEF NextDay
  <2>2. spy' \in 0 .. MaxSpy /\ tbars' \in [1 .. MaxSpy -> BarKinds]
    BY <1>1, <1>2 DEF NextDay
  <2>3. ASSUME NEW n \in Horizons, NEW r \in OutcomeRow, RowTyped(r, n, oday) PROVE RowTyped(r, n, oday + 1)
    <3>1. r.since \in Nat
      BY <2>3 DEF OutcomeRow
    <3> QED
      BY <1>1, <2>3, <3>1 DEF RowTyped
  <2>4. \A n \in Horizons : RowTyped(orows[n], n, oday + 1)
    BY <1>1, <2>3
  <2>5. updater.at = "read" => \A n \in Horizons : RowTyped(updater.rows[n], n, oday + 1)
    BY <1>1, <2>3 DEF Updater
  <2> QED
    BY <1>1, <2>1, <2>2, <2>4, <2>5 DEF OutcomesTyped, RowTyped
<1>3. CASE BarChanges
  <2>1. UNCHANGED <<oday, spy, orows, updater>>
    BY <1>3 DEF BarChanges
  <2>2. tbars' \in [1 .. MaxSpy -> BarKinds]
    BY <1>1, <1>3 DEF BarChanges
  <2> QED
    BY <1>1, <2>1, <2>2 DEF OutcomesTyped, RowTyped
<1>4. CASE Rebuild
  <2>1. UNCHANGED <<oday, spy, tbars, updater>> /\ orows' = [n \in Horizons |-> Missing]
    BY <1>4 DEF Rebuild
  <2>2. \A n \in Horizons : orows'[n] = Missing /\ RowTyped(Missing, n, oday)
    BY <1>1, <2>1 DEF RowTyped, Missing
  <2> QED
    BY <1>1, <2>1, <2>2 DEF OutcomesTyped, RowTyped
<1>5. CASE BeginUpdate
  <2>1. UNCHANGED <<oday, spy, tbars, orows>> /\ updater'.rows = orows
    BY <1>5, NoRunIs DEF BeginUpdate, NoRun
  <2> QED
    BY <1>1, <2>1 DEF OutcomesTyped, RowTyped
<1>6. CASE CloseUpdate \/ UpdateDies
  <2>1. UNCHANGED <<oday, spy, tbars, orows>> /\ updater' = NoRun
    BY <1>6 DEF CloseUpdate, UpdateDies
  <2> QED
    BY <1>1, <2>1, NoRunIs DEF OutcomesTyped, RowTyped
<1>7. CASE CommitRows
  <2>1. PICK u \in Updater :
        /\ updater.at = "read" /\ u.at = "committed" /\ u.day = updater.day /\ u.spy = updater.spy
        /\ u.rows = updater.rows
        /\ orows' = [n \in Horizons |-> IF n \in Gone(u) THEN Missing ELSE Updated(u.rows[n], n, u)]
        /\ pricedAt' = [n \in Horizons |->
               IF u.failed \/ n \in Gone(u) \/ Final(u.rows[n], u.day) THEN pricedAt[n] ELSE u.spy]
        /\ updater' \in Updater /\ updater'.at = "committed" /\ updater'.day = u.day
        /\ updater'.spy = u.spy /\ updater'.failed = u.failed
        /\ UNCHANGED <<oday, spy, lastSeen>>
    BY <1>7, CommitRowsIs
  <2>2. tbars' = tbars
    BY <1>7 DEF CommitRows
  <2>3. ASSUME NEW n \in Horizons PROVE RowTyped(orows'[n], n, oday)
    <3>1. orows'[n] = Missing \/ orows'[n] = Updated(u.rows[n], n, u)
      BY <2>1
    <3>2. RowTyped(Missing, n, oday)
      BY <1>1 DEF RowTyped, Missing
    <3>3. u.rows[n] \in OutcomeRow /\ RowTyped(u.rows[n], n, oday) /\ u.day > 0 /\ u.day <= oday
      BY <1>1, <2>1 DEF Updater
    <3>4. RowTyped(Updated(u.rows[n], n, u), n, oday)
      BY <1>1, <3>3, UpdatedTyped
    <3> QED
      BY <3>1, <3>2, <3>4
  <2> QED
    BY <1>1, <2>1, <2>2, <2>3 DEF OutcomesTyped, RowTyped
<1>8. CASE UNCHANGED ovars
  BY <1>1, <1>8 DEF ovars, OutcomesTyped, RowTyped
<1> QED
  BY <1>2, <1>3, <1>4, <1>5, <1>6, <1>7, <1>8 DEF NextOutcomes

LEMMA OutcomesAreTyped ==
  ASSUME OutcomesInv, OutcomesTyped
  PROVE  OutcomesTypeOK
<1>1. lastSeen \in 0 .. spy
  BY DEF OutcomesInv
<1>2. ASSUME NEW n \in Horizons
      PROVE  /\ orows[n].status \in {"missing", "pending", "complete", "censored"}
             /\ orows[n].since \in 0 .. oday /\ (orows[n].since > 0) = (orows[n].status = "censored")
             /\ orows[n].status = "complete" => orows[n].exit = n + 1
  <2>1. orows[n] \in OutcomeRow /\ RowTyped(orows[n], n, oday) /\ oday \in Nat
    BY DEF OutcomesInv, OutcomesTyped
  <2>2. orows[n].since \in Nat /\ orows[n].status \in {"missing", "pending", "complete", "censored"}
    BY <2>1 DEF OutcomeRow
  <2>3. orows[n].since \in 0 .. oday /\ (orows[n].status = "complete" => orows[n].exit = n + 1)
    BY <2>1, <2>2 DEF RowTyped
  <2>4. orows[n].since > 0 <=> orows[n].status = "censored"
    BY <2>1 DEF RowTyped
  <2> QED
    BY <2>2, <2>3, <2>4
<1> QED
  BY <1>1, <1>2 DEF OutcomesTyped, OutcomesTypeOK
-----------------------------------------------------------------------------
(***************************************************************************)
(* WarrenReplay.  A stop is counted only when armed (two triggers since    *)
(* the Blue) and once per trigger: the counters of stops and of triggers   *)
(* move together, and the latch says whether a trigger came between.       *)
(***************************************************************************)
StopsNeedYellows ==
    /\ stops >= 1 => yellows >= 2
    /\ stops = 2 => yellows >= 3
    /\ stops = 1 /\ ~latched => yellows >= 3

ReplayInv ==
    /\ R!TypeOK
    /\ rsi \in Seq(Levels)
    /\ StopsNeedYellows
    /\ R!GrayIsFourthYellow

LEMMA ReplayInit == ASSUME R!InitReplay PROVE ReplayInv
  <1>1. rsi = <<>> /\ held = 0 /\ yellows = 0 /\ latched = FALSE /\ stops = 0
        BY DEF R!InitReplay
  <1>2. seen = {} /\ sinceBlue = BlueWithin + 1 /\ arrows = {} /\ firstYellow = FALSE
        BY DEF R!InitReplay
  <1>3. Len(rsi) <= 3 /\ rsi \in Seq(Levels) /\ \A i \in DOMAIN rsi : rsi[i] \in Levels
        BY <1>1
  <1>4. yellows \in 0 .. YellowCap /\ stops \in 0 .. 2 /\ sinceBlue \in 0 .. BlueWithin + 1
        BY <1>1, <1>2, ReplayAssumption
  <1>5. R!TypeOK BY <1>1, <1>2, <1>3, <1>4 DEF R!TypeOK
  <1> QED BY <1>1, <1>2, <1>3, <1>5 DEF ReplayInv, StopsNeedYellows, R!GrayIsFourthYellow

LEMMA CappedRange ==
    ASSUME NEW n \in Nat, NEW cap \in Nat
    PROVE /\ R!Capped(n, cap) \in 0 .. cap
          /\ n <= cap => R!Capped(n, cap) = n
          /\ \A m \in Nat : m <= cap /\ m <= n => m <= R!Capped(n, cap)
  BY DEF R!Capped

\* The window of the last three RSI values.
LEMMA RsiWindow ==
    ASSUME NEW w \in Seq(Levels), Len(w) <= 3, NEW level \in Levels
    PROVE LET t == SubSeq(<<level>> \o w, 1, R!Capped(Len(w) + 1, 3))
          IN t \in Seq(Levels) /\ Len(t) <= 3
  <1> DEFINE k == R!Capped(Len(w) + 1, 3)
             long == <<level>> \o w
  <1>1. k \in 0 .. 3 /\ k <= Len(w) + 1 BY DEF R!Capped
  <1>2. long \in Seq(Levels) /\ Len(long) = Len(w) + 1
    <2>1. <<level>> \in Seq(Levels) /\ Len(<<level>>) = 1 OBVIOUS
    <2> QED BY <2>1
  <1> HIDE DEF k, long
  <1>3. SubSeq(long, 1, k) \in Seq(Levels) /\ Len(SubSeq(long, 1, k)) <= 3
    <2>1. \A i \in 1 .. k : long[i] \in Levels BY <1>1, <1>2
    <2> QED BY <1>1, <1>2, <2>1
  <1> QED BY <1>3 DEF k, long

\* A candle preserves the replay's invariant.
LEMMA ReplayStep == ASSUME ReplayInv, R!NextReplay PROVE ReplayInv'
  <1>1. PICK level \in Levels, low \in Lows, quiet \in BOOLEAN : R!Candle(level, low, quiet)
        BY Zenon DEF R!NextReplay
  <1> DEFINE scan3 == R!PivotLowMajor(level)
             scan4 == R!Blue
             count == R!YellowsAfter(scan3, scan4)
             raw   == R!RawStopHit(scan3, count, low)
             reset == scan4 \/ R!Bear1
             total == R!StopsAfter(reset, R!StopEvent(raw))
             gray  == total >= 2
             since == IF scan4 THEN 0 ELSE R!Capped(sinceBlue + 1, BlueWithin + 1)
             up    == {k \in R!Ups : \/ k = "blue_up" /\ scan4
                                     \/ k = "yellow_up" /\ scan3 /\ ~gray
                                     \/ k = "gray_up" /\ scan3 /\ gray}
             asks  == {k \in R!Downs : \/ k = "blue_down" /\ R!Bear1
                                       \/ k = "yellow_down" /\ R!YellowCond(level, quiet)
                                       \/ k = "gray_down" /\ R!PivotHigh(level)}
  <1>2. /\ held' = (IF scan3 THEN low ELSE held)
        /\ yellows' = count
        /\ latched' = (~scan3 /\ (raw \/ latched))
        /\ stops' = total
        /\ sinceBlue' = since
        /\ arrows' = up \cup (asks \ seen)
        /\ seen' = (IF up \cap {"blue_up", "yellow_up"} # {} THEN {} ELSE seen \cup asks)
        /\ firstYellow' = (scan3 /\ ~gray /\ count = 1 /\ since <= BlueWithin)
        /\ rsi' = SubSeq(<<level>> \o rsi, 1, R!Capped(Len(rsi) + 1, 3))
        BY <1>1 DEF R!Candle
  <1>3. /\ rsi \in Seq(Levels) /\ Len(rsi) <= 3 /\ held \in Lows \cup {0}
        /\ latched \in BOOLEAN /\ yellows \in 0 .. YellowCap /\ stops \in 0 .. 2
        /\ seen \subseteq R!Downs /\ sinceBlue \in 0 .. BlueWithin + 1
        BY DEF ReplayInv, R!TypeOK
  <1>4. rsi' \in Seq(Levels) /\ Len(rsi') <= 3 BY <1>2, <1>3, RsiWindow
  <1>5. \A i \in DOMAIN rsi' : rsi'[i] \in Levels BY <1>4
  <1>6. /\ up \subseteq R!Ups /\ asks \subseteq R!Downs
        /\ "gray_up" \in up => scan3 /\ gray
        /\ "gray_up" \notin asks
        BY DEF R!Ups, R!Downs
  <1>7. scan4 => count = 0 BY DEF R!YellowsAfter
  <1>8. scan3 /\ ~scan4 => count = R!Capped(yellows + 1, YellowCap)
        BY DEF R!YellowsAfter
  <1>9. ~scan3 /\ ~scan4 => count = yellows BY DEF R!YellowsAfter
  <1>10. raw => ~scan3 /\ count > 1 BY DEF R!RawStopHit
  <1>11. reset => total = 0 BY DEF R!StopsAfter
  <1>12. ~reset /\ raw /\ ~latched => total = R!Capped(stops + 1, 2)
         BY DEF R!StopsAfter, R!StopEvent
  <1>13. ~reset /\ ~(raw /\ ~latched) => total = stops
         BY DEF R!StopsAfter, R!StopEvent
  <1>14. since \in 0 .. BlueWithin + 1
    <2>1. sinceBlue + 1 \in Nat /\ BlueWithin + 1 \in Nat BY <1>3, ReplayAssumption
    <2>2. R!Capped(sinceBlue + 1, BlueWithin + 1) \in 0 .. BlueWithin + 1
          BY ONLY <2>1, CappedRange
    <2> QED BY <2>2, ReplayAssumption
  <1>15. scan4 => reset OBVIOUS
  <1>16. (scan3 \in BOOLEAN) /\ (raw \in BOOLEAN) /\ (scan4 \in BOOLEAN) /\ (reset \in BOOLEAN)
    <2>1. scan3 <=> (scan3 = TRUE) OBVIOUS
    <2> QED BY DEF R!PivotLowMajor, R!RawStopHit, R!Blue, R!Bear1
  <1> HIDE DEF scan3, scan4, count, raw, reset, total, since, up, asks
  <1>20. count \in 0 .. YellowCap /\ (scan3 /\ ~scan4 => \A m \in 1 .. 4 : yellows >= m - 1 => count >= m)
    <2>1. CASE scan4 BY <2>1, <1>7, ReplayAssumption
    <2>2. CASE scan3 /\ ~scan4
      <3>1. yellows + 1 \in Nat /\ YellowCap \in Nat /\ YellowCap >= 4 BY <1>3, ReplayAssumption
      <3>2. count = IF yellows + 1 > YellowCap THEN YellowCap ELSE yellows + 1
            BY <2>2, <1>8 DEF R!Capped
      <3> QED BY <3>1, <3>2, <1>3
    <2>3. CASE ~scan3 /\ ~scan4 BY <2>3, <1>9, <1>3
    <2> QED BY <2>1, <2>2, <2>3
  <1>21. total \in 0 .. 2
    <2>1. ~reset /\ raw /\ ~latched => total = IF stops + 1 > 2 THEN 2 ELSE stops + 1
          BY <1>12 DEF R!Capped
    <2> QED BY <2>1, <1>11, <1>13, <1>3
  <1>22. ~reset /\ raw /\ ~latched => total = IF stops + 1 > 2 THEN 2 ELSE stops + 1
         BY <1>12 DEF R!Capped
  <1>30. latched' <=> ~scan3 /\ (raw \/ latched) BY <1>2
  <1>31. StopsNeedYellows'
    <2>1. StopsNeedYellows BY DEF ReplayInv
    <2>2. /\ total >= 1 => count >= 2
          /\ total = 2 => count >= 3
          /\ total = 1 /\ ~(~scan3 /\ (raw \/ latched)) => count >= 3
      <3>1. CASE reset BY <3>1, <1>11
      <3>2. CASE ~reset /\ scan3
        <4>1. ~raw /\ ~scan4 BY <3>2, <1>10, <1>15
        <4>2. total = stops BY <4>1, <3>2, <1>13
        <4>3. \A m \in 1 .. 4 : yellows >= m - 1 => count >= m BY <4>1, <3>2, <1>20
        <4>4. (yellows >= 1 => count >= 2) /\ (yellows >= 2 => count >= 3)
              BY <4>3, <1>3
        <4> QED BY <4>2, <4>4, <2>1, <1>3, <1>20 DEF StopsNeedYellows
      <3>3. CASE ~reset /\ ~scan3
        <4>1. count = yellows BY <3>3, <1>9, <1>15
        <4>2. CASE raw /\ ~latched
          <5>1. total = IF stops + 1 > 2 THEN 2 ELSE stops + 1 BY <3>3, <4>2, <1>22
          <5>2. count > 1 BY <4>2, <1>10
          <5> QED BY <5>1, <5>2, <4>1, <4>2, <3>3, <2>1, <1>3 DEF StopsNeedYellows
        <4>3. CASE ~(raw /\ ~latched)
          <5>1. total = stops BY <3>3, <4>3, <1>13
          <5> QED BY <5>1, <4>1, <4>3, <3>3, <2>1, <1>3 DEF StopsNeedYellows
        <4> QED BY <4>2, <4>3
      <3> QED BY <3>1, <3>2, <3>3
    <2>3. yellows' = count /\ stops' = total BY <1>2
    <2> QED BY <2>2, <2>3, <1>30 DEF StopsNeedYellows
  <1>32. (R!GrayIsFourthYellow)'
    <2>1. "gray_up" \in arrows' => scan3 /\ total >= 2 BY <1>2, <1>6
    <2>2. ASSUME scan3, total >= 2 PROVE count >= 4
      <3>1. ~reset BY <2>2, <1>11
      <3>2. ~raw /\ ~scan4 BY <2>2, <3>1, <1>10, <1>15
      <3>3. stops = 2 BY <3>1, <3>2, <2>2, <1>13, <1>3
      <3>4. yellows >= 3 BY <3>3 DEF ReplayInv, StopsNeedYellows
      <3> QED BY <3>2, <3>4, <2>2, <1>20
    <2>3. yellows' = count BY <1>2
    <2> QED BY <2>1, <2>2, <2>3 DEF R!GrayIsFourthYellow
  <1>33. (R!TypeOK)'
    <2>1. held' \in Lows \cup {0} BY <1>2, <1>3
    <2>2. latched' \in BOOLEAN /\ firstYellow' \in BOOLEAN BY <1>2, <1>16
    <2>3. seen' \subseteq R!Downs
      <3>1. seen' = {} \/ seen' = seen \cup asks BY <1>2
      <3> QED BY <3>1, <1>3, <1>6
    <2>4. arrows' \subseteq R!Ups \cup R!Downs
      <3>1. arrows' = up \cup (asks \ seen) BY <1>2
      <3> QED BY <3>1, <1>6
    <2>5. yellows' \in 0 .. YellowCap /\ stops' \in 0 .. 2 /\ sinceBlue' \in 0 .. BlueWithin + 1
          BY <1>2, <1>14, <1>20, <1>21
    <2> QED BY <2>1, <2>2, <2>3, <2>4, <2>5, <1>4, <1>5 DEF R!TypeOK
  <1> QED BY <1>4, <1>31, <1>32, <1>33 DEF ReplayInv
-----------------------------------------------------------------------------
(* Induction along 0 .. n, and functions defined by recursion over it.     *)

LEMMA Climb ==
    ASSUME NEW n \in Nat, NEW good, 0 \in good,
           \A i \in 1 .. n : i - 1 \in good => i \in good
    PROVE \A i \in 0 .. n : i \in good
  <1> DEFINE bad == (0 .. n) \ good
  <1>1. SUFFICES ASSUME bad # {} PROVE FALSE OBVIOUS
  <1>2. PICK m \in bad : \A d \in bad : m <= d
    <2>1. bad \in SUBSET Nat OBVIOUS
    <2> QED BY ONLY <1>1, <2>1, LeastOf, Zenon
  <1>3. m \in 1 .. n /\ m - 1 \in 0 .. n BY <1>2
  <1>4. m - 1 \notin bad BY <1>2, <1>3
  <1> QED BY <1>2, <1>3, <1>4

\* A recursive function over 0 .. n exists.
Climbs(n, set, base, step) ==
    \E f \in [0 .. n -> set] : f[0] = base /\ \A i \in 1 .. n : f[i] = step[i][f[i - 1]]

LEMMA Climbing ==
    ASSUME NEW n \in Nat, NEW set, NEW base \in set, NEW step \in [1 .. n -> [set -> set]]
    PROVE Climbs(n, set, base, step)
  <1> DEFINE Upto(k, f) == f \in [0 .. k -> set] /\ f[0] = base /\ \A i \in 1 .. k : f[i] = step[i][f[i - 1]]
             good == {k \in 0 .. n : \E f \in [0 .. k -> set] : Upto(k, f)}
  <1>1. 0 \in good
    <2> DEFINE f == [i \in 0 .. 0 |-> base]
    <2>1. f \in [0 .. 0 -> set] /\ Upto(0, f) OBVIOUS
    <2>2. 0 \in 0 .. n OBVIOUS
    <2> HIDE DEF Upto, f
    <2> QED BY <2>1, <2>2
  <1>2. ASSUME NEW k \in 1 .. n, k - 1 \in good PROVE k \in good
    <2>1. PICK f \in [0 .. k - 1 -> set] : Upto(k - 1, f) BY <1>2
    <2> DEFINE g == [i \in 0 .. k |-> IF i = k THEN step[k][f[k - 1]] ELSE f[i]]
    <2>2. f[k - 1] \in set /\ step[k] \in [set -> set] OBVIOUS
    <2>3. step[k][f[k - 1]] \in set BY <2>2
    <2>4. g \in [0 .. k -> set]
      <3>1. ASSUME NEW i \in 0 .. k, i # k PROVE f[i] \in set
        <4>1. i \in 0 .. k - 1 BY <3>1
        <4> QED BY <4>1
      <3> QED BY <2>3, <3>1
    <2>5. g[0] = base
      <3>1. g[0] = f[0] OBVIOUS
      <3> QED BY <3>1, <2>1
    <2>6. ASSUME NEW i \in 1 .. k PROVE g[i] = step[i][g[i - 1]]
      <3>1. g[i - 1] = f[i - 1] OBVIOUS
      <3>2. CASE i = k BY <3>1, <3>2
      <3>3. CASE i # k
        <4>1. i \in 1 .. k - 1 BY <3>3
        <4>2. g[i] = f[i] BY <3>3
        <4> QED BY <2>1, <3>1, <4>1, <4>2
      <3> QED BY <3>2, <3>3
    <2>7. Upto(k, g) BY <2>4, <2>5, <2>6
    <2> HIDE DEF Upto, g
    <2> QED BY <2>4, <2>7
  <1> HIDE DEF good
  <1>3. \A i \in 0 .. n : i \in good BY ONLY <1>1, <1>2, Climb, n \in Nat
  <1> USE DEF good
  <1>4. n \in good BY <1>3
  <1> QED BY <1>4 DEF Climbs

-----------------------------------------------------------------------------
(***************************************************************************)
(* WeinsteinStage.                                                         *)
(***************************************************************************)

\* The total of a window of prices is a number.
LEMMA TotalIsNat == ASSUME NEW s \in Seq(Nat) PROVE S!Total(s) \in Nat
  <1> DEFINE n == Len(s)
             body(f) == [i \in 0 .. n |-> IF i = 0 THEN 0 ELSE f[i - 1] + s[i]]
             sum == CHOOSE f : f = body(f)
             step == [i \in 1 .. n |-> [x \in Nat |-> x + s[i]]]
  <1>1. n \in Nat OBVIOUS
  <1>2. step \in [1 .. n -> [Nat -> Nat]] OBVIOUS
  <1>3. PICK f \in [0 .. n -> Nat] : f[0] = 0 /\ \A i \in 1 .. n : f[i] = step[i][f[i - 1]]
    <2> HIDE DEF n, step
    <2>1. 0 \in Nat OBVIOUS
    <2>2. Climbs(n, Nat, 0, step) BY ONLY <1>1, <1>2, <2>1, Climbing, Zenon
    <2> QED BY <2>2 DEF Climbs
  <1>4. f = body(f)
    <2>1. ASSUME NEW i \in 0 .. n PROVE f[i] = body(f)[i]
      <3>1. CASE i = 0 BY <1>3, <3>1
      <3>2. CASE i # 0
        <4>1. i \in 1 .. n /\ i - 1 \in 0 .. n BY <3>2
        <4>2. f[i - 1] \in Nat BY <4>1, <1>3
        <4>3. f[i] = step[i][f[i - 1]] BY <4>1, <1>3
        <4>4. step[i] = [x \in Nat |-> x + s[i]] BY <4>1
        <4> QED BY <4>2, <4>3, <4>4, <3>2
      <3> QED BY <3>1, <3>2
    <2> QED BY <2>1, <1>3
  <1>5. sum = body(sum)
    <2> HIDE DEF body
    <2> QED BY <1>4
  <1>6. S!Total(s) = sum[n] BY Zenon DEF S!Total
  <1> HIDE DEF sum
  <1>7. \A i \in 0 .. n : sum[i] = IF i = 0 THEN 0 ELSE sum[i - 1] + s[i] BY <1>5
  <1> DEFINE good == {i \in 0 .. n : sum[i] \in Nat}
  <1>8. 0 \in good BY <1>7
  <1>9. \A i \in 1 .. n : i - 1 \in good => i \in good
    <2> SUFFICES ASSUME NEW i \in 1 .. n, i - 1 \in good PROVE i \in good OBVIOUS
    <2>1. sum[i] = sum[i - 1] + s[i] BY <1>7
    <2> QED BY <2>1
  <1> HIDE DEF good, n
  <1>10. \A i \in 0 .. n : i \in good BY <1>1, <1>8, <1>9, Climb
  <1>11. n \in good BY <1>1, <1>10
  <1> QED BY <1>11, <1>6 DEF good

StageInv ==
    /\ S!TypeOK
    /\ closes \in Seq(Closes)
    /\ Len(closes) = IF weeks < S!Window THEN weeks ELSE S!Window

LEMMA WindowIsNat ==
    S!Window \in Nat /\ S!Window >= 1 /\ Length \in Nat /\ Lookback \in Nat /\ Length >= 1
      /\ S!Window = Length + Lookback /\ S!MinWeeks \in Nat /\ S!MinWeeks >= S!Window
  BY StageAssumption DEF S!Window, S!MinWeeks

\* The averages of a full window are numbers: it cannot both rise and fall.
LEMMA OneWay ==
    ASSUME NEW s \in Seq(Nat), S!Valid(s)
    PROVE ~ (S!Rising(s) /\ S!Falling(s))
  <1>1. Len(s) = Length + Lookback BY WindowIsNat DEF S!Valid
  <1>2. S!LastOf(s, Length) \in Seq(Nat)
    <2>1. S!LastOf(s, Length) = SubSeq(s, Len(s) - Length + 1, Len(s)) BY DEF S!LastOf
    <2>2. \A i \in Len(s) - Length + 1 .. Len(s) : s[i] \in Nat BY <1>1, WindowIsNat
    <2> QED BY <2>1, <2>2, <1>1, WindowIsNat
  <1>3. SubSeq(s, Len(s) - Length - Lookback + 1, Len(s) - Lookback) \in Seq(Nat)
    <2>1. \A i \in Len(s) - Length - Lookback + 1 .. Len(s) - Lookback : s[i] \in Nat
          BY <1>1, WindowIsNat
    <2> QED BY <2>1, <1>1, WindowIsNat
  <1>4. S!Average(s) \in Nat BY <1>2, TotalIsNat DEF S!Average
  <1>5. S!AverageThen(s) \in Nat BY <1>3, TotalIsNat DEF S!AverageThen
  <1> QED BY <1>4, <1>5 DEF S!Rising, S!Falling

\* One week of the machine: it never leaves the four stages, and it enters
\* Advance or Decline exactly in a week that confirms it.
LEMMA StageOf == ASSUME NEW prev, NEW s PROVE S!NextState(prev, s) \in 1 .. 4
  BY DEF S!NextState

LEMMA EntersWhenConfirmed ==
    ASSUME NEW prev \in 0 .. 4, NEW s \in Seq(Nat), S!Valid(s), NEW target \in {2, 4}, prev # target
    PROVE S!NextState(prev, s) = target <=> S!Confirms(target, s)
  <1>1. ~ (S!Rising(s) /\ S!Falling(s)) BY OneWay
  <1>2. CASE target = 2 BY <1>1, <1>2 DEF S!NextState, S!Confirms
  <1>3. CASE target = 4 BY <1>1, <1>3 DEF S!NextState, S!Confirms
  <1> QED BY <1>2, <1>3

LEMMA StageInit == ASSUME S!InitStage PROVE StageInv
  BY WindowIsNat DEF S!InitStage, StageInv, S!TypeOK

LEMMA StageStep == ASSUME StageInv, S!Week PROVE StageInv'
  <1>1. PICK c \in Closes :
            /\ closes' = S!Shifted(closes, c)
            /\ stage' = S!Stepped(stage, closes')
            /\ weeks' = IF weeks < S!MinWeeks THEN weeks + 1 ELSE weeks
        BY Zenon DEF S!Week
  <1>2. closes \in Seq(Closes) /\ weeks \in 0 .. S!MinWeeks /\ stage \in 0 .. 4
        /\ Len(closes) = IF weeks < S!Window THEN weeks ELSE S!Window
        BY DEF StageInv, S!TypeOK
  <1>3. closes' \in Seq(Closes) /\ Len(closes') = IF Len(closes) = S!Window THEN Len(closes) ELSE Len(closes) + 1
    <2>1. CASE S!Valid(closes)
      <3>1. Len(closes) = S!Window BY <2>1 DEF S!Valid
      <3>2. closes # <<>> BY <3>1, WindowIsNat
      <3>3. Tail(closes) \in Seq(Closes) /\ Len(Tail(closes)) = Len(closes) - 1 BY <3>2, <1>2
      <3>4. closes' = Append(Tail(closes), c) BY <2>1, <1>1 DEF S!Shifted
      <3> QED BY <3>1, <3>3, <3>4, <1>2
    <2>2. CASE ~S!Valid(closes)
      <3>1. closes' = Append(closes, c) BY <2>2, <1>1 DEF S!Shifted
      <3> QED BY <2>2, <3>1, <1>2 DEF S!Valid
    <2> QED BY <2>1, <2>2
  <1>4. weeks' \in 0 .. S!MinWeeks /\ Len(closes') = IF weeks' < S!Window THEN weeks' ELSE S!Window
        BY <1>1, <1>2, <1>3, WindowIsNat
  <1>5. stage' \in 0 .. 4
    <2>1. S!Stepped(stage, closes') \in 0 .. 4 BY <1>2, StageOf DEF S!Stepped
    <2> QED BY <2>1, <1>1
  <1>6. Len(closes') <= S!Window BY <1>4, WindowIsNat
  <1>7. \A i \in DOMAIN closes' : closes'[i] \in Closes BY <1>3
  <1>8. S!Window' = S!Window /\ S!MinWeeks' = S!MinWeeks BY DEF S!Window, S!MinWeeks
  <1> QED BY <1>3, <1>4, <1>5, <1>6, <1>7, <1>8 DEF StageInv, S!TypeOK

\* The window after n more weeks at the latest close is a full window.
LEMMA FlatIsValid ==
    ASSUME StageInv, S!Shown, NEW n \in Nat
    PROVE S!Flat(n) \in Seq(Nat) /\ S!Valid(S!Flat(n))
  <1>1. Len(closes) = S!Window /\ closes \in Seq(Nat)
    <2>1. weeks = S!MinWeeks BY DEF S!Shown
    <2>2. closes \in Seq(Closes) /\ Len(closes) = IF weeks < S!Window THEN weeks ELSE S!Window
          BY DEF StageInv
    <2>3. Len(closes) = S!Window BY <2>1, <2>2, WindowIsNat
    <2>4. closes \in Seq(Nat)
      <3>1. Len(closes) \in Nat /\ closes \in [1 .. Len(closes) -> Closes] BY <2>2
      <3>2. closes \in [1 .. Len(closes) -> Nat] BY <3>1, StageAssumption
      <3> QED BY ONLY <3>1, <3>2, SMT
    <2> QED BY <2>3, <2>4
  <1> DEFINE w == S!Window
             more == [i \in 1 .. n |-> closes[Len(closes)]]
             long == closes \o more
  <1>2. w \in Nat /\ w >= 1 BY WindowIsNat
  <1>3. closes[Len(closes)] \in Nat BY <1>1, <1>2
  <1>4. more \in Seq(Nat) /\ Len(more) = n BY <1>3
  <1> HIDE DEF w, more
  <1>5. long \in Seq(Nat) /\ Len(long) = w + n BY <1>1, <1>4 DEF w
  <1>6. S!Flat(n) = SubSeq(long, Len(long) - w + 1, Len(long))
        BY Zenon DEF S!Flat, S!LastOf, w, more
  <1> HIDE DEF long
  <1>7. \A i \in n + 1 .. w + n : long[i] \in Nat BY <1>2, <1>5
  <1>8. S!Flat(n) = SubSeq(long, n + 1, w + n) BY <1>2, <1>5, <1>6
  <1>9. S!Flat(n) \in Seq(Nat) /\ Len(S!Flat(n)) = w BY <1>2, <1>5, <1>7, <1>8
  <1> QED BY <1>9 DEF S!Valid, w

\* The machine's own weeks at the latest close.
LEMMA StageAfterSteps ==
    ASSUME StageInv, S!Shown
    PROVE /\ S!StageAfter[0] = stage
          /\ \A i \in 1 .. Horizon : S!StageAfter[i] = S!NextState(S!StageAfter[i - 1], S!Flat(i))
  <1> DEFINE body(f) == [i \in 0 .. Horizon |-> IF i = 0 THEN stage ELSE S!Stepped(f[i - 1], S!Flat(i))]
             after == CHOOSE f : f = body(f)
             step == [i \in 1 .. Horizon |-> [x \in 0 .. 4 |-> S!NextState(x, S!Flat(i))]]
  <1>1. Horizon \in Nat BY StageAssumption
  <1>2. stage \in 0 .. 4 BY DEF StageInv, S!TypeOK
  <1>3. \A i \in 1 .. Horizon : S!Valid(S!Flat(i)) BY <1>1, FlatIsValid
  <1>4. \A i \in 1 .. Horizon : \A x : S!Stepped(x, S!Flat(i)) = S!NextState(x, S!Flat(i))
        BY <1>3 DEF S!Stepped
  <1>5. step \in [1 .. Horizon -> [0 .. 4 -> 0 .. 4]]
    <2>1. ASSUME NEW i \in 1 .. Horizon, NEW x \in 0 .. 4 PROVE S!NextState(x, S!Flat(i)) \in 0 .. 4
      <3>1. S!NextState(x, S!Flat(i)) \in 1 .. 4 BY StageOf
      <3> QED BY <3>1
    <2> QED BY <2>1
  <1>6. PICK f \in [0 .. Horizon -> 0 .. 4] : f[0] = stage /\ \A i \in 1 .. Horizon : f[i] = step[i][f[i - 1]]
    <2> HIDE DEF step
    <2>1. Climbs(Horizon, 0 .. 4, stage, step) BY ONLY <1>1, <1>2, <1>5, Climbing, Zenon
    <2> QED BY <2>1 DEF Climbs
  <1>7. f = body(f)
    <2>1. ASSUME NEW i \in 0 .. Horizon PROVE f[i] = body(f)[i]
      <3>1. CASE i = 0 BY <1>6, <3>1
      <3>2. CASE i # 0
        <4>1. i \in 1 .. Horizon /\ i - 1 \in 0 .. Horizon BY <3>2, <1>1
        <4>2. f[i - 1] \in 0 .. 4 BY <4>1, <1>6
        <4>3. f[i] = step[i][f[i - 1]] BY <4>1, <1>6
        <4>4. step[i] = [x \in 0 .. 4 |-> S!NextState(x, S!Flat(i))] BY <4>1
        <4>5. step[i][f[i - 1]] = S!NextState(f[i - 1], S!Flat(i)) BY <4>2, <4>4
        <4>6. S!Stepped(f[i - 1], S!Flat(i)) = S!NextState(f[i - 1], S!Flat(i)) BY <4>1, <1>4
        <4> QED BY <4>3, <4>5, <4>6, <3>2
      <3> QED BY <3>1, <3>2
    <2> QED BY <2>1, <1>6
  <1>8. after = body(after)
    <2> HIDE DEF body
    <2> QED BY <1>7
  <1>9. S!StageAfter = after BY Zenon DEF S!StageAfter
  <1> HIDE DEF after
  <1>10. \A i \in 0 .. Horizon : after[i] = IF i = 0 THEN stage ELSE S!Stepped(after[i - 1], S!Flat(i))
         BY <1>8
  <1>11. after[0] = stage BY <1>1, <1>10
  <1>12. ASSUME NEW i \in 1 .. Horizon PROVE after[i] = S!NextState(after[i - 1], S!Flat(i))
    <2>1. i \in 0 .. Horizon /\ i # 0 BY <1>1
    <2>2. after[i] = S!Stepped(after[i - 1], S!Flat(i)) BY <2>1, <1>10
    <2> QED BY <2>2, <1>4
  <1> QED BY <1>9, <1>11, <1>12

\* WeeksAway names the first week that confirms, and no week when none does.
LEMMA FirstConfirming ==
    ASSUME NEW target
    PROVE /\ S!WeeksAway(target) = 0 => \A m \in 1 .. Horizon : ~ S!Confirms(target, S!Flat(m))
          /\ S!WeeksAway(target) # 0 =>
                /\ S!WeeksAway(target) \in 1 .. Horizon
                /\ S!Confirms(target, S!Flat(S!WeeksAway(target)))
                /\ \A m \in 1 .. S!WeeksAway(target) - 1 : ~ S!Confirms(target, S!Flat(m))
          /\ S!WeeksAway(target) \in 0 .. Horizon
  <1> DEFINE hits == {n \in 1 .. Horizon : S!Confirms(target, S!Flat(n))}
             first == CHOOSE n \in hits : \A m \in hits : n <= m
  <1>1. S!WeeksAway(target) = IF hits = {} THEN 0 ELSE first BY Zenon DEF S!WeeksAway
  <1>2. hits \subseteq 1 .. Horizon /\ Horizon \in Nat BY StageAssumption
  <1>3. CASE hits = {} BY <1>1, <1>2, <1>3
  <1>4. CASE hits # {}
    <2>1. \E n \in hits : \A m \in hits : n <= m
      <3>1. hits \in SUBSET Nat BY <1>2
      <3> HIDE DEF hits
      <3> QED BY ONLY <3>1, <1>4, LeastOf, Zenon
    <2>2. first \in hits /\ \A m \in hits : first <= m
      <3> HIDE DEF hits
      <3> QED BY <2>1
    <2> HIDE DEF first
    <2>3. S!WeeksAway(target) = first BY <1>1, <1>4
    <2>4. first \in 1 .. Horizon /\ S!Confirms(target, S!Flat(first)) BY <2>2
    <2>5. \A m \in 1 .. first - 1 : ~ S!Confirms(target, S!Flat(m))
      <3> SUFFICES ASSUME NEW m \in 1 .. first - 1, S!Confirms(target, S!Flat(m)) PROVE FALSE OBVIOUS
      <3>1. m \in hits BY <2>4, <1>2
      <3> QED BY <3>1, <2>2, <2>4, <1>2
    <2> QED BY <2>3, <2>4, <2>5, <1>2
  <1> QED BY <1>3, <1>4

\* A pending ticker is shown and not yet in the stage it is about to enter.
LEMMA PendingMeans ==
    ASSUME S!Pending # 0
    PROVE S!Pending \in {2, 4} /\ S!Shown /\ stage # S!Pending
  BY DEF S!Pending

LEMMA ProjectionTrue == ASSUME StageInv PROVE S!ProjectionComesTrue
  <1> SUFFICES ASSUME S!Pending # 0
               PROVE LET n == S!WeeksAway(S!Pending)
                         last == IF n = 0 THEN Horizon ELSE n - 1
                     IN /\ n > 0 => S!StageAfter[n] = S!Pending
                        /\ \A m \in 1 .. last : S!StageAfter[m] # S!Pending
      BY DEF S!ProjectionComesTrue
  <1> DEFINE target == S!Pending
             n == S!WeeksAway(target)
             last == IF n = 0 THEN Horizon ELSE n - 1
             after == S!StageAfter
             good == {i \in 0 .. last : after[i] \in 0 .. 4 /\ after[i] # target}
  <1>1. target \in {2, 4} /\ S!Shown /\ stage # target BY PendingMeans
  <1>2. Horizon \in Nat /\ stage \in 0 .. 4 BY StageAssumption DEF StageInv, S!TypeOK
  <1>3. /\ n = 0 => \A m \in 1 .. Horizon : ~ S!Confirms(target, S!Flat(m))
        /\ n # 0 => /\ n \in 1 .. Horizon
                    /\ S!Confirms(target, S!Flat(n))
                    /\ \A m \in 1 .. n - 1 : ~ S!Confirms(target, S!Flat(m))
        /\ n \in 0 .. Horizon
    <2> HIDE DEF target
    <2> QED BY FirstConfirming
  <1>4. after[0] = stage /\ \A i \in 1 .. Horizon : after[i] = S!NextState(after[i - 1], S!Flat(i))
        BY <1>1, StageAfterSteps
  <1>5. \A i \in 1 .. Horizon : S!Flat(i) \in Seq(Nat) /\ S!Valid(S!Flat(i))
        BY <1>1, <1>2, FlatIsValid
  <1> HIDE DEF target, n, after
  <1>6. last \in 0 .. Horizon /\ \A m \in 1 .. last : ~ S!Confirms(target, S!Flat(m))
        BY <1>2, <1>3
  <1>7. ASSUME NEW i \in 1 .. Horizon, after[i - 1] \in 0 .. 4, after[i - 1] # target
        PROVE after[i] \in 0 .. 4 /\ (after[i] = target <=> S!Confirms(target, S!Flat(i)))
    <2>1. after[i] = S!NextState(after[i - 1], S!Flat(i)) BY <1>4
    <2>2. S!NextState(after[i - 1], S!Flat(i)) \in 1 .. 4 BY StageOf
    <2>3. S!NextState(after[i - 1], S!Flat(i)) = target <=> S!Confirms(target, S!Flat(i))
          BY <1>1, <1>5, <1>7, EntersWhenConfirmed
    <2>4. after[i] \in 0 .. 4 BY <2>1, <2>2
    <2> QED BY <2>1, <2>3, <2>4
  <1> HIDE DEF last
  <1>8. 0 \in good BY <1>1, <1>2, <1>4, <1>6
  <1>9. \A i \in 1 .. last : i - 1 \in good => i \in good
    <2> SUFFICES ASSUME NEW i \in 1 .. last, i - 1 \in good PROVE i \in good OBVIOUS
    <2>1. i \in 1 .. Horizon /\ i \in 0 .. last BY <1>2, <1>6
    <2>2. after[i - 1] \in 0 .. 4 /\ after[i - 1] # target OBVIOUS
    <2>3. after[i] \in 0 .. 4 /\ (after[i] = target <=> S!Confirms(target, S!Flat(i))) BY <2>1, <2>2, <1>7
    <2> QED BY <2>1, <2>3, <1>6
  <1>10. \A i \in 0 .. last : i \in good
    <2>1. last \in Nat BY <1>2, <1>6
    <2> HIDE DEF good
    <2> QED BY ONLY <2>1, <1>8, <1>9, Climb
  <1>11. \A m \in 1 .. last : after[m] # target
    <2> SUFFICES ASSUME NEW m \in 1 .. last PROVE after[m] # target OBVIOUS
    <2>1. m \in 0 .. last BY <1>2, <1>6
    <2> QED BY <2>1, <1>10
  <1>12. n > 0 => after[n] = target
    <2> SUFFICES ASSUME n > 0 PROVE after[n] = target OBVIOUS
    <2>1. n \in 1 .. Horizon /\ n # 0 /\ S!Confirms(target, S!Flat(n)) BY <1>2, <1>3
    <2>2. n - 1 \in 0 .. last BY <2>1, <1>2 DEF last
    <2>3. after[n - 1] \in 0 .. 4 /\ after[n - 1] # target BY <2>2, <1>10
    <2> QED BY <2>1, <2>3, <1>7
  <1> QED BY <1>11, <1>12 DEF target, n, after, last
-----------------------------------------------------------------------------
(***************************************************************************)
(* The seven machines together: every machine keeps its invariant and its  *)
(* types, the one that runs by its own steps, the others by standing still.*)
(***************************************************************************)
MachinesInv ==
    /\ ReplayInv /\ StageInv
    /\ WatchInv /\ WatchTypeOK
    /\ CronInv /\ CronTypeOK
    /\ UniverseInv /\ UniverseTypeOK
    /\ FlagsInv /\ FlagsTyped
    /\ OutcomesInv /\ OutcomesTyped

LEMMA WatchTypeInit == InitWatch => WatchTypeOK
  <1> SUFFICES ASSUME InitWatch PROVE WatchTypeOK OBVIOUS
  <1>1. None \in Trades
    <2>1. None.entryAt = 0 /\ None.signalAt = 0 BY DEF None
    <2> QED BY <2>1, NoneIs, TradesAre, CandleAssumption
  <1>2. 0 \in 0 .. MaxCandle /\ 0 \in 0 .. MaxCandle + 1 /\ MaxCandle + 1 \in Nat BY CandleAssumption
  <1>3. /\ now = 0 /\ newest = NoCandle /\ before = None /\ trade = None /\ lastUp = 0 /\ upBefore = 0
        /\ row = NoRow /\ job = NoJob /\ removedThrough = 0
        BY DEF InitWatch
  <1> DEFINE spanTo == 0 .. MaxCandle + 1
  <1>4. row \in [stored : BOOLEAN, removed : spanTo, from : spanTo, content : Trades]
    <2> HIDE DEF spanTo
    <2>1. 0 \in spanTo BY <1>2 DEF spanTo
    <2> QED BY <1>1, <1>3, <2>1 DEF NoRow
  <1>5. job \in [on : BOOLEAN, stored : BOOLEAN, removed : spanTo, content : Trades,
                 new : Trades, recent : BOOLEAN]
    <2> HIDE DEF spanTo
    <2>1. 0 \in spanTo BY <1>2 DEF spanTo
    <2> QED BY <1>1, <1>3, <2>1 DEF NoJob
  <1>6. lastUp \in 0 .. now /\ upBefore \in 0 .. now BY <1>3
  <1> QED BY <1>1, <1>2, <1>3, <1>4, <1>5, <1>6 DEF WatchTypeOK

LEMMA FlagsTypeInit == InitFlags => FlagsTyped
  <1> SUFFICES ASSUME InitFlags PROVE FlagsTyped OBVIOUS
  <1>1. /\ latest = 0 /\ stageDay = 0 /\ upstream = [s \in 1 .. MaxSession |-> {}] /\ lists = {}
        /\ flags = {} /\ dailyRuns = <<>> /\ judging = [c \in Clis |-> Idle]
        BY DEF InitFlags
  <1>2. \A c \in Clis : judging[c] = Idle BY <1>1
  <1>3. \A c \in Clis : RunTyped(judging[c]) BY <1>1, <1>2, IdleIs DEF RunTyped
  <1>4. FlagsTypeOK BY <1>1, <1>2, IdleIs, FlagsAssumption DEF FlagsTypeOK
  <1> QED BY <1>1, <1>3, <1>4 DEF FlagsTyped

LEMMA OutcomesTypeInit == InitOutcomes => OutcomesTyped
  <1> SUFFICES ASSUME InitOutcomes PROVE OutcomesTyped OBVIOUS
  <1>1. /\ oday = 1 /\ spy = 0 /\ tbars = [s \in 1 .. MaxSpy |-> "none"]
        /\ orows = [n \in Horizons |-> Missing] /\ updater = NoRun
        BY DEF InitOutcomes
  <1>2. \A n \in Horizons : RowTyped(orows[n], n, oday) BY <1>1 DEF RowTyped, Missing
  <1>3. oday \in 1 .. MaxDay /\ spy \in 0 .. MaxSpy BY <1>1, OutcomesAssumption
  <1>4. tbars \in [1 .. MaxSpy -> BarKinds] BY <1>1 DEF BarKinds
  <1> QED BY <1>1, <1>2, <1>3, <1>4, NoRunIs DEF OutcomesTyped

LEMMA MachinesInit == Init => MachinesInv
  <1> SUFFICES ASSUME Init PROVE MachinesInv OBVIOUS
  <1>1. /\ R!InitReplay /\ S!InitStage /\ InitWatch /\ InitCron /\ InitUniverse /\ InitFlags /\ InitOutcomes
        BY DEF Init
  <1>2. ReplayInv /\ StageInv BY <1>1, ReplayInit, StageInit
  <1>3. WatchInv /\ WatchTypeOK BY <1>1, WatchInit, WatchTypeInit
  <1>4. CronInv /\ CronTypeOK
    <2>1. CronTypeOK BY <1>1, CronAssumption DEF InitCron, CronTypeOK
    <2> QED BY <1>1, <2>1, CronInit
  <1>5. UniverseInv /\ UniverseTypeOK
    <2>1. UniverseTypeOK
          BY <1>1, UniverseAssumption DEF InitUniverse, UniverseTypeOK, NoPass, NoView
    <2> QED BY <1>1, <2>1, UniverseInit
  <1>6. FlagsInv /\ FlagsTyped BY <1>1, FlagsInit, FlagsTypeInit
  <1>7. OutcomesInv /\ OutcomesTyped BY <1>1, OutcomesInit, OutcomesTypeInit
  <1> QED BY <1>2, <1>3, <1>4, <1>5, <1>6, <1>7 DEF MachinesInv

\* Each machine either steps or stands still.
LEMMA MachinesMove ==
    ASSUME [Next]_<<part, rvars, wvars, svars, cvars, uvars, fvars, ovars>>
    PROVE /\ R!NextReplay \/ UNCHANGED rvars
          /\ S!Week \/ UNCHANGED svars
          /\ [NextWatch]_wvars /\ [NextCron]_cvars /\ [NextUniverse]_uvars
          /\ [NextFlags]_fvars /\ [NextOutcomes]_ovars
  <1>1. CASE UNCHANGED <<part, rvars, wvars, svars, cvars, uvars, fvars, ovars>> BY <1>1
  <1>2. CASE Replay BY <1>2 DEF Replay
  <1>3. CASE Watch BY <1>3 DEF Watch
  <1>4. CASE Stage BY <1>4 DEF Stage
  <1>5. CASE Cron BY <1>5 DEF Cron
  <1>6. CASE Universe BY <1>6 DEF Universe
  <1>7. CASE Flags BY <1>7 DEF Flags
  <1>8. CASE Outcomes BY <1>8 DEF Outcomes
  <1> QED BY <1>1, <1>2, <1>3, <1>4, <1>5, <1>6, <1>7, <1>8 DEF Next

LEMMA MachinesStep ==
    ASSUME MachinesInv, [Next]_<<part, rvars, wvars, svars, cvars, uvars, fvars, ovars>>
    PROVE MachinesInv'
  <1>1. /\ R!NextReplay \/ UNCHANGED rvars
        /\ S!Week \/ UNCHANGED svars
        /\ [NextWatch]_wvars /\ [NextCron]_cvars /\ [NextUniverse]_uvars
        /\ [NextFlags]_fvars /\ [NextOutcomes]_ovars
        BY MachinesMove
  <1>2. /\ ReplayInv /\ StageInv /\ WatchInv /\ WatchTypeOK /\ CronInv /\ CronTypeOK
        /\ UniverseInv /\ UniverseTypeOK /\ FlagsInv /\ FlagsTyped /\ OutcomesInv /\ OutcomesTyped
        BY DEF MachinesInv
  <1>3. ReplayInv'
    <2>1. CASE R!NextReplay BY <1>2, <2>1, ReplayStep
    <2>2. CASE UNCHANGED rvars
          BY <1>2, <2>2 DEF rvars, ReplayInv, StopsNeedYellows, R!TypeOK, R!GrayIsFourthYellow,
                            R!Ups, R!Downs
    <2> QED BY <1>1, <2>1, <2>2
  <1>4. StageInv'
    <2>1. CASE S!Week BY <1>2, <2>1, StageStep
    <2>2. CASE UNCHANGED svars
          BY <1>2, <2>2 DEF svars, StageInv, S!TypeOK, S!Window, S!MinWeeks
    <2> QED BY <1>1, <2>1, <2>2
  <1>5. (WatchInv /\ WatchTypeOK)' BY <1>1, <1>2, WatchStep, WatchTypeStep
  <1>6. (CronInv /\ CronTypeOK)' BY <1>1, <1>2, CronStep, CronTypeStep
  <1>7. (UniverseInv /\ UniverseTypeOK)' BY <1>1, <1>2, UniverseStep, UniverseTypeStep
  <1>8. (FlagsInv /\ FlagsTyped)' BY <1>1, <1>2, FlagsStep, FlagsTypeStep
  <1>9. (OutcomesInv /\ OutcomesTyped)' BY <1>1, <1>2, OutcomesStep, OutcomesTypeStep
  <1> QED BY <1>3, <1>4, <1>5, <1>6, <1>7, <1>8, <1>9 DEF MachinesInv

LEMMA MachinesInvHolds == Spec => []MachinesInv
  BY MachinesInit, MachinesStep, PTL DEF Spec

\* The seven machines keep their types, for any number of hours, days, candles, tickers,
\* sessions and horizons: the wipe leaves no delisted ticker without rows
\* (ticker_universe), no run of the flags or of the heartbeat names a row that is not
\* there, and an outcome row has its clock exactly while it is censored
\* (opportunity_outcome_data.py).
THEOREM MachinesAreTyped == Spec => []TypeOK
  <1>1. MachinesInv => TypeOK
    <2> SUFFICES ASSUME MachinesInv PROVE TypeOK OBVIOUS
    <2>1. R!TypeOK /\ S!TypeOK BY DEF MachinesInv, ReplayInv, StageInv
    <2>2. FlagsTypeOK BY DEF MachinesInv, FlagsTyped
    <2>3. OutcomesTypeOK BY OutcomesAreTyped DEF MachinesInv
    <2> QED BY <2>1, <2>2, <2>3 DEF MachinesInv, TypeOK
  <1> QED BY <1>1, MachinesInvHolds, PTL

\* A Gray Up is never an early signal: it is at least the fourth yellow trigger since the
\* Blue (_replay_from_signals); and a pending stage change is confirmed in exactly the
\* week the flat scenario names, if the price holds (_project_confirmation_eta), for any
\* length of the average, slope, band and horizon.
THEOREM IndicatorsAreTrue == Spec => []IndicatorsHold
  <1>1. MachinesInv => IndicatorsHold
    <2> SUFFICES ASSUME MachinesInv PROVE IndicatorsHold OBVIOUS
    <2>1. R!GrayIsFourthYellow BY DEF MachinesInv, ReplayInv
    <2>2. S!ProjectionComesTrue BY ProjectionTrue DEF MachinesInv
    <2> QED BY <2>1, <2>2 DEF IndicatorsHold
  <1> QED BY <1>1, MachinesInvHolds, PTL
=============================================================================
