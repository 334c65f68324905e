------------------------- MODULE MCStatementRecheck -------------------------
(***************************************************************************)
(* A small instance of StatementRecheck for TLC, and beside it what else   *)
(* works through the tickers a job or a request at a time: the database    *)
(* backups, the price target snapshots, the outcome updater, and the       *)
(* readers of a ticker's price.  They share no state, so a behaviour is    *)
(* one part's; the other four use the same two variables, the world and    *)
(* the archive, and the recheck's stay as they were.                       *)
(***************************************************************************)
EXTENDS StatementRecheck, Sequences

CONSTANTS
    \* of Backups
    KEEP_DAILY, KEEP_WEEKLY, Week, Starters, LastNight, BackupMishaps,
    \* of PriceTargets
    Order, News, PriceDays, PRICE_TARGET_STALENESS_DAYS, TAB_STALENESS_DAYS, SNAPSHOT_TOLERANCE_DAYS, Month,
    LIVE_DAY, LEGACY_DAY, FirstDay, LastDay, TargetMishaps,
    \* of OutcomeRun
    Lists, Horizon, MaxSpy, RunMishaps,
    \* of TickerHeader
    Companies, Prices, LastMoment, cache_staleness, profile_staleness

VARIABLES part, world, archive

K == INSTANCE Backups WITH
        clock <- world, disk <- archive,
        Runs <- Starters, LastDay <- LastNight, Mishaps <- BackupMishaps
P == INSTANCE PriceTargets WITH
        desk <- world, shelf <- archive, Mishaps <- TargetMishaps
O == INSTANCE OutcomeRun WITH
        shop <- world, book <- archive, Mishaps <- RunMishaps
H == INSTANCE TickerHeader WITH desk <- world, shelf <- archive

\* What the proofs need of the constants: how many copies of which tier are kept ...
ASSUME BackupAssumption == KEEP_DAILY \in Nat /\ KEEP_WEEKLY \in Nat /\ Week \in Nat \ {0}

\* ... analysts' actions with a firm and a day each, a job that takes a cached consensus
\* for a day at most, and a history tagged before it began to grow ...
ASSUME TargetAssumption ==
    /\ Order \in Seq(P!Followed)
    /\ News \subseteq [P!Followed -> SUBSET [firm : STRING, day : Nat \ {0}]]
    /\ PriceDays \subseteq Nat /\ SNAPSHOT_TOLERANCE_DAYS \in Nat
    /\ PRICE_TARGET_STALENESS_DAYS \in 0 .. 1 /\ TAB_STALENESS_DAYS \in Nat /\ Month \in Nat \ {0}
    /\ FirstDay \in Nat \ {0} /\ LastDay \in Nat /\ FirstDay <= LastDay /\ TargetMishaps \in Nat
    /\ LIVE_DAY \in Nat /\ LEGACY_DAY \in Nat /\ LIVE_DAY < FirstDay /\ LEGACY_DAY # LIVE_DAY

\* ... lists by the session they are made in ...
ASSUME OutcomeAssumption == Lists \subseteq Nat /\ Horizon \in Nat /\ RunMishaps \in Nat

\* ... and prices that are positive.
ASSUME HeaderAssumption ==
    /\ LastMoment \in Nat \ {0}
    /\ Prices \in [1 .. LastMoment -> Nat \ {0}]
    /\ Companies \subseteq [eps : Int, adr : BOOLEAN, ownPe : Int, fair : Nat]
    /\ cache_staleness \in Nat /\ profile_staleness \in Nat

-----------------------------------------------------------------------------
(* The instance. *)

CONSTANTS t1

MCTickers == {t1}
MCKinds   == {"income", "cash"}
MCQuarterDays == {0, 5}

MCStarters == {"cron", "hand"}

\* Two ratings of one firm, one of another and one without a name, for one of two
\* tickers.
MCOrder == <<"A", "B">>
Rating(firm, d) == [firm |-> firm, day |-> d]
MCNews == {[A |-> {Rating("x", 2), Rating("x", 5), Rating("y", 4), Rating("", 1)}, B |-> {}]}
MCPriceDays == {4, 5, 8}

MCLists == {1, 2}

\* A company with a profit and one with a loss, and one that reports in another currency.
MCCompanies == {[eps |-> 1, adr |-> FALSE, ownPe |-> 0, fair |-> 100],
                [eps |-> -1, adr |-> FALSE, ownPe |-> 0, fair |-> 0],
                [eps |-> 1, adr |-> TRUE, ownPe |-> 7, fair |-> 100]}
MCPrices == <<100, 120, 80, 90>>

jobVars == <<day, reported, rows, filed, fetched, chronic, state, night, part, world, archive>>

-----------------------------------------------------------------------------
Idle == world = 0 /\ archive = 0

\* One of the recheck's initial states, for the parts that do not look at it.
Resting == Init /\ chronic = [t \in Tickers |-> FALSE]

InitJobs ==
    \/ part = "recheck" /\ Init /\ Idle
    \/ part = "backups" /\ K!InitBackups /\ Resting
    \/ part = "targets" /\ P!InitTargets /\ Resting
    \/ part = "outcomes" /\ O!InitOutcomeRun /\ Resting
    \/ part = "header" /\ H!InitHeader /\ Resting

RecheckStep == part = "recheck" /\ Next /\ UNCHANGED <<part, world, archive>>

BackupStep == part = "backups" /\ K!NextBackups /\ UNCHANGED <<part, day, reported, rows, filed, fetched, chronic, state, night>>

TargetStep == part = "targets" /\ P!NextTargets /\ UNCHANGED <<part, day, reported, rows, filed, fetched, chronic, state, night>>

OutcomeStep == part = "outcomes" /\ O!NextOutcomeRun /\ UNCHANGED <<part, day, reported, rows, filed, fetched, chronic, state, night>>

HeaderStep == part = "header" /\ H!NextHeader /\ UNCHANGED <<part, day, reported, rows, filed, fetched, chronic, state, night>>

NextJob == RecheckStep \/ BackupStep \/ TargetStep \/ OutcomeStep \/ HeaderStep

\* The recheck's own fairness; the other parts promise nothing.
JobsSpec ==
    /\ InitJobs /\ [][NextJob]_jobVars
    /\ WF_vars(part = "recheck" /\ NextDay) /\ WF_vars(part = "recheck" /\ Scan)
    /\ WF_vars(part = "recheck" /\ Settle) /\ WF_vars(part = "recheck" /\ Done)
    /\ WF_vars(part = "recheck" /\ \E t \in Tickers : Recheck(t))
    /\ WF_vars(part = "recheck" /\ \E k \in Kinds : Fails(k) \/ \E row \in Row : Answered(k, row))

-----------------------------------------------------------------------------
\* What each of the four archives promises (Backups, PriceTargets, OutcomeRun,
\* TickerHeader): the copies that are kept, the consensus rows that are told, the runs
\* that are logged, the price that is shown beside what was reckoned from it.
ArchivesHold ==
    /\ part = "backups" => K!BackupTypeOK /\ K!BackupsHold
    /\ part = "targets" => P!TargetsTypeOK /\ P!TargetsHold
    /\ part = "outcomes" => O!OutcomeRunTypeOK /\ O!OutcomeRunsHold
    /\ part = "header" => H!HeaderTypeOK /\ H!HeaderHolds
=============================================================================
