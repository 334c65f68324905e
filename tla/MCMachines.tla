----------------------------- MODULE MCMachines -----------------------------
(***************************************************************************)
(* Seven machines of the repository that share no state: one behaviour     *)
(* runs one of them (part), and the others stay at their initial state.    *)
(* The state graph is the disjoint union of the seven, so a run over it    *)
(* says of each machine what a run of its own would.                       *)
(***************************************************************************)
EXTENDS CronHeartbeat, TrackedUniverse, WarrenWatch, OpportunityFlags, OpportunityOutcomes

CONSTANTS
    Levels, Lows, BlueWithin, YellowCap,                \* of WarrenReplay
    Closes, Length, Lookback, Band, Margin, Horizon,    \* of WeinsteinStage
    t1, t2, f1, f2

\* The code compares the yellow counter with 1 and 2, the promise of the gray
\* arrow with 4: a counter that saturates earlier could not tell.
ASSUME ReplayAssumption == Lows \subseteq Nat /\ BlueWithin \in Nat /\ YellowCap \in Nat /\ YellowCap >= 4

ASSUME StageAssumption ==
    /\ Closes \subseteq Nat /\ Length \in Nat \ {0} /\ Lookback \in Nat
    /\ Band \in Nat /\ Margin \in Nat /\ Horizon \in Nat

VARIABLES
    part,
    rsi, held, yellows, latched, stops, seen, sinceBlue, arrows, firstYellow, \* of WarrenReplay
    closes, weeks, stage                                                      \* of WeinsteinStage

-----------------------------------------------------------------------------
MCLevels == {10, 20, 40, 72, 76, 86}
MCLows == {1000, 880}

MCCandles == {
    [low |-> 1000, close |-> 1020, supports |-> <<1000, 950>>, atr |-> 50],
    [low |-> 1100, close |-> 1150, supports |-> <<1120, 1080, 1000>>, atr |-> 100],
    [low |-> 890, close |-> 940, supports |-> <<920>>, atr |-> 20],
    [low |-> 1090, close |-> 1110, supports |-> <<1100, 1095>>, atr |-> 0]}

MCArrowSets == {
    {}, {"blue_up"}, {"yellow_up"}, {"gray_up"}, {"blue_down"}, {"yellow_down"}, {"gray_down"},
    {"yellow_up", "gray_down"}, {"blue_up", "yellow_down"}}

MCCloses == {80, 97, 100, 120}

\* Under and over both halves of the failure threshold.
MCCounts == {<<25, 2>>, <<40, 1>>, <<3, 3>>}

MCTickers == {t1, t2}
MCKinds == {"watchlist"}
MCClis == {f1, f2}
MCByHand == {f2}
MCHorizons == {1, 3}

R == INSTANCE WarrenReplay
S == INSTANCE WeinsteinStage

rvars == <<rsi, held, yellows, latched, stops, seen, sinceBlue, arrows, firstYellow>>
svars == <<closes, weeks, stage>>

-----------------------------------------------------------------------------
Init ==
    /\ part \in {"replay", "watch", "stage", "cron", "universe", "flags", "outcomes"}
    /\ R!InitReplay /\ InitWatch /\ S!InitStage /\ InitCron /\ InitUniverse
    /\ InitFlags /\ InitOutcomes

Replay ==
    /\ part = "replay" /\ R!NextReplay
    /\ UNCHANGED <<part, wvars, svars, cvars, uvars, fvars, ovars>>

Watch ==
    /\ part = "watch" /\ NextWatch
    /\ UNCHANGED <<part, rvars, svars, cvars, uvars, fvars, ovars>>

Stage ==
    /\ part = "stage" /\ S!Week
    /\ UNCHANGED <<part, rvars, wvars, cvars, uvars, fvars, ovars>>

Cron ==
    /\ part = "cron" /\ NextCron
    /\ UNCHANGED <<part, rvars, wvars, svars, uvars, fvars, ovars>>

Universe ==
    /\ part = "universe" /\ NextUniverse
    /\ UNCHANGED <<part, rvars, wvars, svars, cvars, fvars, ovars>>

Flags ==
    /\ part = "flags" /\ NextFlags
    /\ UNCHANGED <<part, rvars, wvars, svars, cvars, uvars, ovars>>

Outcomes ==
    /\ part = "outcomes" /\ NextOutcomes
    /\ UNCHANGED <<part, rvars, wvars, svars, cvars, uvars, fvars>>

Next == Replay \/ Watch \/ Stage \/ Cron \/ Universe \/ Flags \/ Outcomes

Spec == Init /\ [][Next]_<<part, rvars, wvars, svars, cvars, uvars, fvars, ovars>>

-----------------------------------------------------------------------------
\* Only the running machine's invariants need a look: the others are at their
\* initial states, which the initial states of the run cover.
TypeOK ==
    /\ part = "replay" => R!TypeOK
    /\ part = "watch" => WatchTypeOK
    /\ part = "stage" => S!TypeOK
    /\ part = "cron" => CronTypeOK
    /\ part = "universe" => UniverseTypeOK
    /\ part = "flags" => FlagsTypeOK
    /\ part = "outcomes" => OutcomesTypeOK

\* The replay's gray arrow and the stage's projection (WarrenReplay, WeinsteinStage).
IndicatorsHold ==
    /\ part = "replay" => R!GrayIsFourthYellow
    /\ part = "stage" => S!ProjectionComesTrue
=============================================================================
