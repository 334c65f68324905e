------------------------------ MODULE OutcomeRun ------------------------------
(***************************************************************************)
(* One invocation of the outcome updater prices three tables in turn: the  *)
(* weekly lists' rows, the daily flags' and the pool's unlisted names      *)
(* (pipeline/opportunity_outcome_update.py), merges what happened in each  *)
(* and stores the SPY date the next scheduled run skips by.  Lists are     *)
(* built and rebuilt, flags raised and sessions come while it runs, a run  *)
(* by hand may target one list, and tickers fail, runs die.                *)
(*                                                                         *)
(* A table holds one name a list.  A row is its status and the sessions of *)
(* SPY it was priced over; how one row is priced, stopped and censored is  *)
(* OpportunityOutcomes' matter.                                            *)
(***************************************************************************)
EXTENDS Integers, FiniteSets, Sequences

CONSTANTS
    Lists,      \* the weekly lists, by the session each is as of
    Horizon,    \* sessions a row needs to be complete
    MaxSpy,     \* sessions in a behaviour
    Mishaps     \* departures from scheduled runs that go well

VARIABLES
    shop,    \* SPY's sessions, the lists and flags there are, the mishaps left
    book     \* the outcome rows, the runs under way and the log

ovars == <<shop, book>>

Tables == <<"listed", "flags", "pool">>
Items == {Tables[i] : i \in DOMAIN Tables} \X Lists
Runs == {"cron", "hand"}

Missing == [status |-> "missing", at |-> 0]
NoPart == [status |-> "none", spy |-> 0, failed |-> {}]
Run(at, id, from, target, dry, seen) ==
    [at |-> at, id |-> id, from |-> from, target |-> target, dry |-> dry, seen |-> seen, part |-> 1,
     read |-> [i \in Items |-> Missing], work |-> {}, spy |-> 0, parts |-> [p \in 1 .. 3 |-> NoPart], result |-> NoPart]

NoRun == Run("idle", 0, 0, {}, FALSE, 0)
NoEnd == [status |-> "none", parts |-> NoRun.parts, dry |-> FALSE]

Pay(n) == n <= shop.mishaps
Spend(n) == shop' = [shop EXCEPT !.mishaps = @ - n]

-----------------------------------------------------------------------------
\* What a table tracks: the listed and the unlisted names of the lists there are, and
\* the flags raised.
Tracked(table) == {i \in Items : i[1] = table /\ i[2] \in (IF table = "flags" THEN DOMAIN shop.flags ELSE shop.lists)}
Base(i) == IF i[1] = "flags" THEN shop.flags[i[2]] ELSE i[2]

IsFinal(row) == row.status = "complete"
Priced(i, s) == [status |-> IF s - Base(i) >= Horizon THEN "complete" ELSE "pending", at |-> s]

Work(items, rows) == {i \in items : ~IsFinal(rows[i])}

\* Rows that were never seeded do not count as work of their own: a slip.
NothingNew(target, seen, work, rows, s) == target = Lists /\ seen > 0 /\ s <= seen

\* A scheduled run skips a table when SPY has no newer bar and no row is missing.
NoNewBar(target, seen, work, rows, s) ==
    target = Lists /\ seen > 0 /\ s <= seen /\ \A i \in work : rows[i].status # "missing"

-----------------------------------------------------------------------------
(***************************************************************************)
(* A scheduled run skips by the date of the last run begun that stored     *)
(* one; the weekly and the flag part share one read of it and the pool     *)
(* part reads its own.                                                     *)
(***************************************************************************)
Begin(r) ==
    \E target \in {Lists} \cup {{l} : l \in Lists}, dry \in BOOLEAN :
        LET cost == (IF target = Lists THEN 0 ELSE 1) + (IF dry THEN 1 ELSE 0) + (IF r = "hand" THEN 1 ELSE 0) IN
        /\ book.runs[r].at = "idle"
        /\ r = "cron" => target = Lists /\ ~dry
        /\ r = "cron" => book.ranOn < shop.night
        /\ Pay(cost) /\ Spend(cost)
        /\ book' = [book EXCEPT
             !.ranOn = IF r = "cron" THEN shop.night ELSE @,
             !.begun = @ + 1,
             !.runs[r] = Run("reads", book.begun + 1, shop.spy, target, dry, book.last.spy)]

Merged(result, part) ==
    [status |-> CASE part.status = "noop" -> result.status
                  [] part.status # "noop" /\ result.status = "noop" -> part.status
                  [] part.status = "partial" /\ result.status = "success" -> "partial"
                  [] OTHER -> result.status,
     spy |-> IF result.spy = 0 THEN part.spy ELSE result.spy,
     failed |-> result.failed \cup part.failed]

\* Only the first part's status is kept: a slip.
FirstStatus(run, part) == IF run.part = 1 THEN part ELSE [Merged(run.result, part) EXCEPT !.status = run.result.status]

Result(run, part) == IF run.part = 1 THEN part ELSE Merged(run.result, part)

Closes(run, part) ==
    [run EXCEPT !.at = IF run.part = 3 THEN "ends" ELSE "reads", !.part = IF run.part = 3 THEN 3 ELSE @ + 1,
                !.result = Result(run, part), !.parts = [@ EXCEPT ![run.part] = part],
                !.read = NoRun.read, !.work = {}, !.spy = 0]

\* A part reads its rows and SPY, and may have nothing to do.
ReadsPart(r) ==
    LET run == book.runs[r]
        items == {i \in Tracked(Tables[run.part]) : i[2] \in run.target}
        work == Work(items, book.rows)
        seen == IF run.part = 3 THEN book.last.spy ELSE run.seen
    IN /\ run.at = "reads"
       /\ book' = [book EXCEPT !.runs[r] =
            CASE work = {} -> Closes(run, [status |-> "noop", spy |-> 0, failed |-> {}])
              [] work # {} /\ NoNewBar(run.target, seen, work, book.rows, shop.spy) ->
                    Closes(run, [status |-> "noop", spy |-> shop.spy, failed |-> {}])
              [] OTHER -> [run EXCEPT !.at = "prices", !.read = book.rows, !.work = work, !.spy = shop.spy]]
       /\ UNCHANGED shop

\* A failed name keeps its row, or is seeded pending.
NewRow(i, read, s, failed) ==
    CASE i \notin failed -> Priced(i, s)
      [] i \in failed /\ read.status = "missing" -> [status |-> "pending", at |-> 0]
      [] OTHER -> read

Later(now, new) == [now EXCEPT !.at = IF new.at > @ THEN new.at ELSE @]

\* Every column is written, what another run stored meanwhile with them: a slip.
WholeRow(now, read, new) == new

\* Only changed columns are written: a row another run completed meanwhile stays so.
Stored(now, read, new) == IF new.status = read.status THEN Later(now, new) ELSE new

\* Rows another run seeded, or a rebuild deleted, since they were read.
Seeded(run) == {i \in run.work : run.read[i].status = "missing" /\ book.rows[i].status # "missing"}
Deleted(run) == {i \in run.work : run.read[i].status # "missing" /\ book.rows[i].status = "missing"}

\* A part's commit fails on a row seeded twice, and on a deleted one it has to change
\* (a row that stays pending may have nothing to change).
Collides(run, failed) ==
    \/ Seeded(run) # {}
    \/ \E i \in Deleted(run) : NewRow(i, run.read[i], run.spy, failed).status # run.read[i].status

\* A part with failed names is a success: a slip.
AlwaysSuccess(run, failed) == IF run.dry THEN "dry_run" ELSE "success"

PartStatus(run, failed) == IF run.dry THEN "dry_run" ELSE IF failed # {} THEN "partial" ELSE "success"

PricesPart(r) ==
    LET run == book.runs[r] IN
    \E failed \in SUBSET run.work :
        LET cost == IF failed = {} THEN 0 ELSE 1
            part == [status |-> PartStatus(run, failed), spy |-> run.spy, failed |-> failed]
            rows == [i \in Items |->
                IF i \in run.work \ Deleted(run) /\ ~run.dry
                THEN Stored(book.rows[i], run.read[i], NewRow(i, run.read[i], run.spy, failed)) ELSE book.rows[i]]
        IN /\ run.at = "prices"
           /\ ~run.dry => ~Collides(run, failed)
           /\ Pay(cost) /\ Spend(cost)
           /\ book' = [book EXCEPT !.rows = rows, !.runs[r] = Closes(run, part),
                             !.done = @ \cup {i \in Items : IsFinal(rows[i])}]

\* A partial run stores its date too: a slip.
StoresAnyDate(result) == result.spy

StoredDate(result) == IF result.status = "partial" THEN 0 ELSE result.spy

\* The log row is closed; a run that stores no date leaves the last one in force.
End(r) ==
    LET run == book.runs[r]
        date == IF run.dry THEN 0 ELSE StoredDate(run.result)
    IN /\ run.at = "ends"
       /\ book' = [book EXCEPT
            !.last = IF date > 0 /\ run.id > @.id THEN [id |-> run.id, spy |-> date] ELSE @,
            !.partly = @ \/ (date > 0 /\ (run.target # Lists \/ run.from < shop.spy)),
            !.ended = [status |-> run.result.status, parts |-> run.parts, dry |-> run.dry],
            !.runs[r] = NoRun]
       /\ UNCHANGED shop

\* An exception (a collision among them) or a kill: the parts committed stay, no date.
Dies(r) ==
    LET run == book.runs[r]
        cost == IF run.at = "prices" /\ ~run.dry /\ Seeded(run) \cup Deleted(run) # {} THEN 0 ELSE 1
    IN /\ run.at # "idle" /\ Pay(cost) /\ Spend(cost)
       /\ book' = [book EXCEPT !.runs[r] = NoRun]

-----------------------------------------------------------------------------
(***************************************************************************)
(* What the other jobs do.                                                 *)
(***************************************************************************)
NextSession ==
    LET cost == IF \E r \in Runs : book.runs[r].at # "idle" THEN 1 ELSE 0 IN
    /\ shop.spy < MaxSpy /\ Pay(cost)
    /\ shop' = [shop EXCEPT !.spy = @ + 1, !.night = @ + 1, !.mishaps = @ - cost,
                            !.lists = @ \cup {l \in Lists : l = shop.spy + 1}]
    /\ book' = [book EXCEPT !.partly = FALSE, !.rebuilt = {}, !.ended = NoEnd]

\* A night without a new session: a weekend, or bars that did not move.
QuietNight ==
    /\ Pay(1) /\ book.ranOn = shop.night
    /\ shop' = [shop EXCEPT !.night = @ + 1, !.mishaps = @ - 1]
    /\ UNCHANGED book

RaisesFlag(l) ==
    /\ l \in shop.lists /\ l \notin DOMAIN shop.flags /\ Pay(1)
    /\ shop' = [shop EXCEPT !.flags = [k \in DOMAIN @ \cup {l} |-> IF k = l THEN shop.spy ELSE @[k]], !.mishaps = @ - 1]
    /\ UNCHANGED book

\* Rows that go with a rebuilt list; the flags and their outcomes stay.
Rebuilt(l) == {<<"listed", l>>, <<"pool", l>>}

Rebuild(l) ==
    /\ l \in shop.lists /\ Pay(1) /\ Spend(1)
    /\ book' = [book EXCEPT !.rows = [i \in Items |-> IF i \in Rebuilt(l) THEN Missing ELSE @[i]],
                             !.done = @ \ Rebuilt(l), !.rebuilt = @ \cup Rebuilt(l)]

InitOutcomeRun ==
    /\ shop = [spy |-> 1, night |-> 1, lists |-> {l \in Lists : l <= 1}, flags |-> [l \in {} |-> 0], mishaps |-> Mishaps]
    /\ book = [rows |-> [i \in Items |-> Missing], done |-> {}, runs |-> [r \in Runs |-> NoRun], last |-> [id |-> 0, spy |-> 0], begun |-> 0,
               partly |-> FALSE, rebuilt |-> {}, ranOn |-> 0, ended |-> NoEnd]

NextOutcomeRun ==
    \/ NextSession \/ QuietNight
    \/ \E r \in Runs : Begin(r) \/ ReadsPart(r) \/ PricesPart(r) \/ End(r) \/ Dies(r)
    \/ \E l \in Lists : RaisesFlag(l) \/ Rebuild(l)

-----------------------------------------------------------------------------
OutcomeRunTypeOK ==
    /\ shop.mishaps \in 0 .. Mishaps /\ book.last.spy \in 0 .. shop.spy
    /\ \A i \in Items : book.rows[i].status \in {"missing", "pending", "complete"} /\ book.rows[i].at \in 0 .. shop.spy

\* A row that was complete once stays complete until its list is rebuilt, although two
\* runs price the rows they read before either commits.
CompleteStays == \A i \in book.done : IsFinal(book.rows[i])

\* While the next scheduled run would skip a table, every row in it has been priced over
\* all of SPY's bars: no part of an invocation stores a date for another that failed or
\* died.  The exceptions, until SPY's next session: a date stored by a run that went over
\* one list, or had begun before the last session; and the rows of a list that was rebuilt,
\* which a failing or an older run may seed again.
SkippedTablesAreCurrent ==
    \A p \in 1 .. 3 :
        LET work == Work(Tracked(Tables[p]), book.rows) IN
        NoNewBar(Lists, book.last.spy, work, book.rows, shop.spy) /\ ~book.partly =>
            \A i \in work \ book.rebuilt : Base(i) < shop.spy => book.rows[i].at = shop.spy

\* The invocation's one status tells of all three parts: partial if any name failed, a
\* no-op only if every part was one.
StatusTellsParts ==
    LET e == book.ended
        statuses == {e.parts[p].status : p \in 1 .. 3}
    IN e.status # "none" =>
        /\ (e.status = "noop") = (statuses = {"noop"})
        /\ ~e.dry => ((e.status = "partial") = (\E p \in 1 .. 3 : e.parts[p].failed # {}))

OutcomeRunsHold == CompleteStays /\ SkippedTablesAreCurrent /\ StatusTellsParts
=============================================================================
