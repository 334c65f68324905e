-------------------------- MODULE StartupMigrations --------------------------
(***************************************************************************)
(* The start of a process on the database of an earlier version            *)
(* (core/db.py, init_db).  start.sh, the API and every cron script run the *)
(* same steps, some of them at the same time and any of them may be        *)
(* killed.  A step reads what is left to do before its transaction begins  *)
(* (SQLite opens one only for a write), so a step can be done by another   *)
(* process in between: a statement that cannot be repeated then fails and  *)
(* ends the start, and the next start goes on.  The unique index, which is *)
(* created only if it is missing, is left out.                             *)
(***************************************************************************)
EXTENDS Naturals, FiniteSets

CONSTANTS
    Starters,      \* processes
    Mapped,        \* tickers picked from a weekly run that still exists
    Unmapped,      \* tickers picked from one that was deleted
    Names,         \* names of saved Screener views
    Known,         \* tickers with a profile, a score, a watchlist or an index
    Ddl,           \* missing tables, missing columns and obsolete columns, by step
    MaxStarts, LastDay,
    Never

ASSUME StartAssumption ==
    /\ MaxStarts \in Nat /\ LastDay \in Nat \ {0} /\ Never \notin 1 .. LastDay
    /\ DOMAIN Ddl = {"create", "columns", "obsolete"}

VARIABLES
    startAt,       \* the next step of each process
    startSeen,     \* what it read for that step
    starts,
    today,
    todo,          \* the DDL that is left, by step
    picks,         \* opportunitypick: its key, its rows, the table kept aside
    views,         \* savedscreenerfilter: unique per kind?, its rows
    multiplier,    \* narrow_moat_multiplier
    overall,       \* the saved Overall weights
    debt,          \* the saved Debt weights
    touched        \* tickerview: the day a ticker was last viewed

mvars == <<startAt, startSeen, starts, today, todo, picks, views, multiplier, overall, debt, touched>>

DdlSteps == {"create", "columns", "obsolete"}

After(step) ==
    CASE step = "picks" -> "create" [] step = "create" -> "views" [] step = "views" -> "columns"
      [] step = "columns" -> "moat" [] step = "moat" -> "overall" [] step = "overall" -> "debt"
      [] step = "debt" -> "obsolete" [] step = "obsolete" -> "seed" [] OTHER -> "up"

Steps == {"picks", "views", "moat", "overall", "debt", "seed"} \cup DdlSteps

\* What a step reads: what is left of it.
Reads(step) ==
    CASE step = "picks" -> {"run"} \cap {picks.key}
      [] step = "views" -> IF views.perKind THEN {} ELSE {"rebuild"}
      [] step \in DdlSteps -> todo[step]
      [] step = "moat" -> {"null"} \cap {multiplier}
      [] step = "overall" -> {"oldDefaults", "oldCustom"} \cap {overall}
      [] step = "debt" -> {"stale"} \cap {debt}
      [] step = "seed" -> IF \A t \in Known : touched[t] = Never THEN {"empty"} ELSE {}

Goto(p, step) ==
    /\ startAt' = [startAt EXCEPT ![p] = step]
    /\ startSeen' = [startSeen EXCEPT ![p] = {}]

\* A failed statement rolls its transaction back and ends the process; so does a kill.
Fail(p) == Goto(p, "off") /\ UNCHANGED <<starts, today, todo, picks, views, multiplier, overall, debt, touched>>

Boot(p) ==
    /\ startAt[p] = "off"
    /\ starts < MaxStarts
    /\ starts' = starts + 1
    /\ Goto(p, "picks")
    /\ UNCHANGED <<today, todo, picks, views, multiplier, overall, debt, touched>>

Look(p) ==
    /\ startAt[p] \in Steps
    /\ startSeen[p] = {}
    /\ IF Reads(startAt[p]) = {}
       THEN Goto(p, After(startAt[p]))
       ELSE startSeen' = [startSeen EXCEPT ![p] = Reads(startAt[p])] /\ UNCHANGED startAt
    /\ UNCHANGED <<starts, today, todo, picks, views, multiplier, overall, debt, touched>>

Found(p, step) == startAt[p] = step /\ startSeen[p] # {}

-----------------------------------------------------------------------------
\* Mutant: the old table is always dropped.
DropOldPicks(rows) == {}

\* The old table is kept when a pick of it has no run to take its date from.
KeptAside(rows) == IF rows \subseteq Mapped THEN {} ELSE rows

RebuildPicks(p) ==
    /\ Found(p, "picks")
    /\ IF picks.key = "run"
       THEN /\ picks' = [key |-> "date", rows |-> picks.rows \cap Mapped, aside |-> KeptAside(picks.rows)]
            /\ Goto(p, "create")
            /\ UNCHANGED <<starts, today, todo, views, multiplier, overall, debt, touched>>
       ELSE Fail(p)

\* Each statement commits on its own; one that was already run fails.
RunDdl(p) ==
    \E step \in DdlSteps :
        /\ Found(p, step)
        /\ \E x \in startSeen[p] :
               IF x \in todo[step]
               THEN /\ todo' = [todo EXCEPT ![step] = @ \ {x}]
                    /\ IF startSeen[p] = {x} THEN Goto(p, After(step))
                       ELSE startSeen' = [startSeen EXCEPT ![p] = @ \ {x}] /\ UNCHANGED startAt
                    /\ UNCHANGED <<starts, today, picks, views, multiplier, overall, debt, touched>>
               ELSE Fail(p)

StockView(n) == [name |-> n, kind |-> "stock"]

\* Every row of the table found is copied as a stock view; two of one name collide.
RebuildViews(p) ==
    /\ Found(p, "views")
    /\ IF \A r, s \in views.rows : r.name = s.name => r = s
       THEN /\ views' = [perKind |-> TRUE, rows |-> {StockView(r.name) : r \in views.rows}]
            /\ Goto(p, "columns")
            /\ UNCHANGED <<starts, today, todo, picks, multiplier, overall, debt, touched>>
       ELSE Fail(p)

\* The set that replaces one of the old total of 69.
Rescaled(set) == IF set = "oldDefaults" THEN "defaults" ELSE "rescaled"

\* Mutant: the step ends with the multiplier.
MultiplierOnly(p) ==
    /\ Found(p, "moat")
    /\ multiplier' = (IF multiplier = "null" THEN "default" ELSE multiplier)
    /\ Goto(p, "debt")
    /\ UNCHANGED <<starts, today, todo, picks, views, overall, debt, touched>>

\* The write of the multiplier opens the transaction in which the weights are then read.
MoatAndOverall(p) ==
    /\ Found(p, "moat")
    /\ multiplier' = (IF multiplier = "null" THEN "default" ELSE multiplier)
    /\ overall' = (IF overall \in {"oldDefaults", "oldCustom"} THEN Rescaled(overall) ELSE overall)
    /\ Goto(p, "debt")
    /\ UNCHANGED <<starts, today, todo, picks, views, debt, touched>>

\* Without that write the weights are read outside any transaction.
OverallAlone(p) ==
    /\ Found(p, "overall")
    /\ \E set \in startSeen[p] : overall' = Rescaled(set)
    /\ Goto(p, "debt")
    /\ UNCHANGED <<starts, today, todo, picks, views, multiplier, debt, touched>>

DebtWeights(p) ==
    /\ Found(p, "debt")
    /\ debt' = "valid"
    /\ Goto(p, "obsolete")
    /\ UNCHANGED <<starts, today, todo, picks, views, multiplier, overall, touched>>

\* INSERT OR IGNORE.
Seeded(old) == [t \in Known |-> IF old[t] = Never THEN today ELSE old[t]]

SeedViews(p) ==
    /\ Found(p, "seed")
    /\ touched' = Seeded(touched)
    /\ Goto(p, "up")
    /\ UNCHANGED <<starts, today, todo, picks, views, multiplier, overall, debt>>

Dies(p) == startAt[p] # "off" /\ Fail(p)

-----------------------------------------------------------------------------
(***************************************************************************)
(* The user, once a process serves the API.                                *)
(***************************************************************************)
Serving == \E p \in Starters : startAt[p] = "up"

SavesWeights ==
    /\ Serving
    /\ overall' = "user" /\ debt' = "valid"
    /\ UNCHANGED <<startAt, startSeen, starts, today, todo, picks, views, multiplier, touched>>

SavesMultiplier ==
    /\ Serving
    /\ multiplier' = "user"
    /\ UNCHANGED <<startAt, startSeen, starts, today, todo, picks, views, overall, debt, touched>>

SavesView ==
    /\ Serving
    /\ \E n \in Names, k \in {"stock", "etf"} : views' = [views EXCEPT !.rows = @ \cup {[name |-> n, kind |-> k]}]
    /\ UNCHANGED <<startAt, startSeen, starts, today, todo, picks, multiplier, overall, debt, touched>>

OpensTicker ==
    /\ Serving
    /\ \E t \in Known : touched' = [touched EXCEPT ![t] = today]
    /\ UNCHANGED <<startAt, startSeen, starts, today, todo, picks, views, multiplier, overall, debt>>

Midnight ==
    /\ today < LastDay
    /\ today' = today + 1
    /\ UNCHANGED <<startAt, startSeen, starts, todo, picks, views, multiplier, overall, debt, touched>>

-----------------------------------------------------------------------------
\* The database of any earlier version.
InitStart ==
    /\ startAt = [p \in Starters |-> "off"] /\ startSeen = [p \in Starters |-> {}]
    /\ starts = 0 /\ today = 1
    /\ todo = Ddl
    /\ \E rows \in SUBSET (Mapped \cup Unmapped) : picks = [key |-> "run", rows |-> rows, aside |-> {}]
    /\ \E names \in SUBSET Names : views = [perKind |-> FALSE, rows |-> {StockView(n) : n \in names}]
    /\ multiplier \in {"null", "user"}
    /\ overall \in {"oldDefaults", "oldCustom", "user"}
    /\ debt \in {"stale", "valid"}
    /\ touched = [t \in Known |-> Never]

StartStep ==
    \E p \in Starters :
        \/ Boot(p) \/ Look(p) \/ RebuildPicks(p) \/ RunDdl(p) \/ RebuildViews(p) \/ MoatAndOverall(p)
        \/ OverallAlone(p) \/ DebtWeights(p) \/ SeedViews(p) \/ Dies(p)

NextStart == StartStep \/ SavesWeights \/ SavesMultiplier \/ SavesView \/ OpensTicker \/ Midnight

StartSpec == InitStart /\ [][NextStart]_mvars

-----------------------------------------------------------------------------
StartTypeOK ==
    /\ \A p \in Starters : startAt[p] \in {"off", "up"} \cup Steps
    /\ \A step \in DdlSteps : todo[step] \subseteq Ddl[step]
    /\ picks.key \in {"run", "date"}
    /\ {r.kind : r \in views.rows} \subseteq {"stock", "etf"}
    /\ \A t \in Known : touched[t] \in {Never} \cup 1 .. LastDay

(***************************************************************************)
(* A process that has come up works on a wholly migrated database, however *)
(* its start was interleaved with others and whichever of them died.       *)
(***************************************************************************)
UpMeansMigrated ==
    Serving =>
        /\ picks.key = "date" /\ views.perKind
        /\ \A step \in DdlSteps : todo[step] = {}
        /\ multiplier # "null" /\ overall \notin {"oldDefaults", "oldCustom"} /\ debt = "valid"
        /\ \A t \in Known : touched[t] # Never

Picked == picks.rows \cup picks.aside
ViewNames == {r.name : r \in views.rows}

(***************************************************************************)
(* No step of a start loses a pick or a saved view, whose rows two         *)
(* processes may copy one after the other, and none moves the date a       *)
(* ticker has been given: "the grace dates never move on a repeated call,  *)
(* a restart or a cron job's init_db()" (core/db.py:210).                  *)
(***************************************************************************)
StartLosesNothing ==
    [][startAt' # startAt =>
          /\ Picked \subseteq Picked'
          /\ ViewNames \subseteq ViewNames'
          /\ \A t \in Known : touched[t] # Never => touched'[t] = touched[t]]_mvars
=============================================================================
