-------------------------------- MODULE Backups --------------------------------
(***************************************************************************)
(* The backup job (pipeline/backup_db.py): the temp files it writes, the   *)
(* file it renames into place and the tiered retention, with a run by hand *)
(* beside the scheduled one, runs that are refused, fail, hang or die, and *)
(* files another run has deleted already.                                  *)
(*                                                                         *)
(* A file is named by its start: DayOf of it is its date, and two runs may *)
(* start in a day.  What is in a file is its being whole.                  *)
(***************************************************************************)
EXTENDS Integers, FiniteSets

CONSTANTS
    KEEP_DAILY,    \* BACKUP_KEEP_DAILY
    KEEP_WEEKLY,   \* BACKUP_KEEP_WEEKLY
    Week,          \* days of a week
    Runs,          \* who may run it
    LastDay,       \* days of a behaviour
    Mishaps        \* departures from one good run a night

VARIABLES
    clock,   \* the next start's name, and the mishaps left
    disk     \* finished files, temp files, runs, and what is remembered of the files written

bvars == <<clock, disk>>

Job(at, name, seen, doomed) == [at |-> at, name |-> name, seen |-> seen, doomed |-> doomed]
NoJob == Job("idle", 0, {}, {})
DayOf(f) == f \div 2
WeekOf(d) == d \div Week

Above(S, x) == {y \in S : y > x}
Newest(S, n) == {x \in S : Cardinality(Above(S, x)) < n}

-----------------------------------------------------------------------------
(***************************************************************************)
(* select_backups_to_prune, a decision on the names alone.                 *)
(***************************************************************************)
Dates(files) == {DayOf(f) : f \in files}
Daily(files) == Newest(Dates(files), KEEP_DAILY)
LastOfWeek(files) == {d \in Dates(files) : \A e \in Dates(files) : WeekOf(e) = WeekOf(d) => e <= d}

\* The weekly copies are carved out of the daily window: a slip.
CarvedWeekly(files) == Newest(LastOfWeek(files), KEEP_WEEKLY) \ Daily(files)

Weekly(files) == Newest(LastOfWeek(files) \ Daily(files), KEEP_WEEKLY)

\* A weekly date keeps its first file: a slip.
OldestSurplus(files) == {f \in files : DayOf(f) \in Weekly(files) /\ \E g \in files : DayOf(g) = DayOf(f) /\ g < f}

Surplus(files) == {f \in files : DayOf(f) \in Weekly(files) /\ \E g \in files : DayOf(g) = DayOf(f) /\ g > f}

\* A weekly date keeps all its files: a slip.
DroppedOnly(files) == {f \in files : DayOf(f) \notin Daily(files) \cup Weekly(files)}

SelectToPrune(files) == Surplus(files) \cup {f \in files : DayOf(f) \notin Daily(files) \cup Weekly(files)}

-----------------------------------------------------------------------------
\* Every temp file is taken for a stranded one: a slip.
AnyTemp(temps) == temps

\* Older than six hours: of an earlier day.
StaleTemps(temps) == {f \in temps : DayOf(f) < DayOf(clock.next)}

Busy == {p \in Runs : disk.jobs[p].at # "idle"}
Pay(n) == n <= clock.mishaps

\* The sweep and the free-space check, before anything is written.
Begin(p) ==
    LET name == clock.next
        cost == Cardinality(Busy) + (name % 2)
    IN /\ disk.jobs[p].at = "idle"
       /\ clock.free
       /\ \E refused \in BOOLEAN :
             LET paid == cost + IF refused THEN 1 ELSE 0 IN
             /\ Pay(paid)
             /\ clock' = [next |-> name - (name % 2) + 1, free |-> name % 2 = 0, mishaps |-> clock.mishaps - paid]
             /\ disk' = [disk EXCEPT
                   !.temps = (@ \ StaleTemps(@)) \cup (IF refused THEN {} ELSE {name}),
                   !.sweptOn = DayOf(name),
                   !.jobs = IF refused THEN @ ELSE [@ EXCEPT ![p] = Job("writing", name, {}, {})]]

\* A temp file that was swept away is not missed: a slip.
NeverMissed(f) == TRUE

Intact(f) == f \in disk.temps

\* The copy and its compression are through; a temp file that was swept away fails the run.
Writes(p) ==
    LET f == disk.jobs[p].name IN
    /\ disk.jobs[p].at = "writing"
    /\ IF Intact(f)
       THEN disk' = [disk EXCEPT !.files = @ \cup {f}, !.whole = @ \cup (disk.temps \cap {f}), !.ever = @ \cup {f}, !.unpruned = @ \cup {f},
                                 !.temps = @ \ {f}, !.jobs[p].at = "written"]
       ELSE disk' = [disk EXCEPT !.jobs[p] = NoJob]
    /\ UNCHANGED clock

\* A step of the copy raises: the temp files are removed.
WriteFails(p) ==
    /\ disk.jobs[p].at = "writing" /\ Pay(1)
    /\ clock' = [clock EXCEPT !.mishaps = @ - 1]
    /\ disk' = [disk EXCEPT !.temps = @ \ {disk.jobs[p].name}, !.jobs[p] = NoJob]

Selects(p) ==
    /\ disk.jobs[p].at = "written"
    /\ disk' = [disk EXCEPT !.jobs[p] = Job("pruning", disk.jobs[p].name, disk.files, SelectToPrune(disk.files))]
    /\ UNCHANGED clock

\* One file a step, in name order; one that is gone already ends the run.
Unlinks(p) ==
    \E f \in disk.jobs[p].doomed :
        /\ \A g \in disk.jobs[p].doomed : f <= g
        /\ IF f \in disk.files
           THEN disk' = [disk EXCEPT !.files = @ \ {f}, !.whole = @ \ {f}, !.jobs[p].doomed = @ \ {f}]
           ELSE disk' = [disk EXCEPT !.jobs[p] = NoJob]
        /\ UNCHANGED clock

Ends(p) ==
    /\ disk.jobs[p].at = "pruning" /\ disk.jobs[p].doomed = {}
    /\ disk' = [disk EXCEPT !.unpruned = @ \ disk.jobs[p].seen, !.jobs[p] = NoJob]
    /\ UNCHANGED clock

\* Killed: no cleanup.
Killed(p) ==
    /\ disk.jobs[p].at # "idle" /\ Pay(1)
    /\ clock' = [clock EXCEPT !.mishaps = @ - 1]
    /\ disk' = [disk EXCEPT !.jobs[p] = NoJob]

\* A night without a run, and a run that hangs into the next day, are mishaps.
NextNight ==
    LET cost == Cardinality(Busy) + (IF clock.next % 2 = 0 THEN 1 ELSE 0) IN
    /\ DayOf(clock.next) < LastDay /\ Pay(cost)
    /\ clock' = [next |-> 2 * (DayOf(clock.next) + 1), free |-> TRUE, mishaps |-> clock.mishaps - cost]
    /\ UNCHANGED disk

InitBackups ==
    /\ clock = [next |-> 2, free |-> TRUE, mishaps |-> Mishaps]
    /\ disk = [files |-> {}, whole |-> {}, temps |-> {}, ever |-> {}, unpruned |-> {}, sweptOn |-> 0, jobs |-> [p \in Runs |-> NoJob]]

NextBackups ==
    \/ NextNight
    \/ \E p \in Runs : Begin(p) \/ Writes(p) \/ WriteFails(p) \/ Selects(p) \/ Unlinks(p) \/ Ends(p) \/ Killed(p)

-----------------------------------------------------------------------------
BackupTypeOK ==
    /\ disk.files \subseteq disk.ever /\ disk.whole \subseteq disk.files
    /\ \A p \in Runs : disk.jobs[p].doomed \subseteq disk.jobs[p].seen

\* How many of the dates ever backed up are newer than d, and how many weeks after
\* d's ended before the days the daily copies cover.
NewerDates(d) == Above(Dates(disk.ever), d)
IsLast(d) == \A e \in NewerDates(d) : WeekOf(e) # WeekOf(d)
NewerWeeks(d) == {e \in NewerDates(d) : IsLast(e) /\ Cardinality(NewerDates(e)) >= KEEP_DAILY}

(***************************************************************************)
(* Whatever nights failed, whoever ran beside it and whichever prune died  *)
(* half way: all files of the newest dates ever backed up are there, and   *)
(* the last file of the last date of each of the newest weeks before them  *)
(* ("so one bad night can't cost a whole week", backup_db.py:38).          *)
(***************************************************************************)
GoodCopiesStay ==
    \A f \in disk.ever :
        LET d == DayOf(f) IN
        f \notin disk.files =>
            /\ Cardinality(NewerDates(d)) >= KEEP_DAILY
            /\ \/ ~IsLast(d)
               \/ Cardinality(NewerWeeks(d)) >= KEEP_WEEKLY
               \/ \E g \in disk.ever : DayOf(g) = d /\ g > f

\* A finished name is a whole file, whenever a run died.
NameMeansWhole == disk.files = disk.whole

\* Once the newest files went through a prune that ended, nothing beyond the two tiers
\* is left: at most two files a daily date and one a week.
PruneLeavesTiers ==
    disk.unpruned = {} =>
        Cardinality({f \in disk.files : Cardinality(NewerDates(DayOf(f))) >= KEEP_DAILY}) <= KEEP_WEEKLY

\* A run of today still has its temp file, whoever else starts, and nothing stranded
\* before today outlives a start of today.
SweepSparesLive ==
    /\ \A p \in Runs : disk.jobs[p].at = "writing" /\ DayOf(disk.jobs[p].name) = DayOf(clock.next) => disk.jobs[p].name \in disk.temps
    /\ \A f \in disk.temps : DayOf(f) >= disk.sweptOn

BackupsHold == GoodCopiesStay /\ NameMeansWhole /\ PruneLeavesTiers /\ SweepSparesLive
=============================================================================
