---------------------------- MODULE WarrenReplay ----------------------------
(***************************************************************************)
(* The bar-by-bar replay behind the Warren arrows                          *)
(* (analysis/warren_signal/state_machine.py), over one ticker's completed  *)
(* 2h candles.  A candle is what the replay compares: its RSI, its low and *)
(* whether volatility and trend are both quiet (WVF <= 0.40 and ADX < 40). *)
(* The RSI is one of a few Levels; the triggers look up to three candles   *)
(* back, as the code does.  ANY-TICKER profile (Blue is RSI[1] <= 12).     *)
(***************************************************************************)
EXTENDS Naturals, Sequences, SequencesExt

CONSTANTS
    Levels,        \* RSI values a candle may have
    Lows,          \* lows a candle may have
    BlueWithin,    \* how many candles after a Blue a Yellow still counts as its first
    YellowCap      \* the replay's counters saturate here (the code compares with 1 and 2)

VARIABLES
    rsi,           \* RSI of the last candles, newest first, at most three
    held,          \* low of the last yellow trigger (0: none yet)
    yellows,       \* yellow triggers since the last Blue
    latched,       \* the stop of the current trigger has been counted
    stops,         \* stops counted since the last reset
    seen,          \* down arrows already drawn since the last buy
    sinceBlue,     \* candles since the last Blue
    arrows,        \* the arrows of the newest candle
    firstYellow    \* the newest candle is the first Yellow after a Blue

rvars == <<rsi, held, yellows, latched, stops, seen, sinceBlue, arrows, firstYellow>>

Ups   == {"blue_up", "yellow_up", "gray_up"}
Downs == {"blue_down", "yellow_down", "gray_down"}

\* The RSI k candles before the newest, as the pandas shift gives it: every
\* comparison with a missing value is False, so a trigger needs Known(k).
Known(k)   == Len(rsi) >= k
Back(k)    == rsi[k]
StopOf(low) == (low * 9) \div 10
Capped(n, cap) == IF n > cap THEN cap ELSE n

(***************************************************************************)
(* The triggers of a candle with RSI value now.                            *)
(***************************************************************************)
PivotLowMajor(now) ==
    /\ Known(3)
    /\ \A k \in 1 .. 3 : Back(k) < 30
    /\ now > 30

PivotHigh(now) ==
    /\ Known(3)
    /\ 70 < Back(3) /\ Back(3) < Back(2) /\ Back(2) < Back(1)
    /\ Back(1) > now /\ now > 70

Blue  == Known(1) /\ Back(1) <= 12
Bear1 == Known(1) /\ Back(1) >= 81
YellowCond(now, quiet) == (quiet /\ PivotHigh(now)) \/ now >= 85

-----------------------------------------------------------------------------
InitReplay ==
    /\ rsi = <<>>
    /\ held = 0
    /\ yellows = 0
    /\ latched = FALSE
    /\ stops = 0
    /\ seen = {}
    /\ sinceBlue = BlueWithin + 1
    /\ arrows = {}
    /\ firstYellow = FALSE

\* The counter of yellow triggers: a Blue on the same candle wins and the
\* trigger is not counted.
YellowsAfter(scan3, scan4) ==
    CASE scan4 -> 0
      [] scan3 /\ ~scan4 -> Capped(yellows + 1, YellowCap)
      [] OTHER -> yellows

\* The stop of the last trigger is hit: armed by a second trigger since the
\* Blue, never on the trigger's own candle.
RawStopHit(scan3, count, low) == ~scan3 /\ held > 0 /\ count > 1 /\ low <= StopOf(held)

\* Mutant: every candle under the stop counts.
StopEveryCandle(raw) == raw

StopEvent(raw) == raw /\ ~latched

StopsAfter(reset, event) ==
    CASE reset -> 0
      [] event /\ ~reset -> Capped(stops + 1, 2)
      [] OTHER -> stops

\* One candle of _replay_from_signals.
Candle(now, low, quiet) ==
    LET scan3 == PivotLowMajor(now)
        scan4 == Blue
        over  == PivotHigh(now)
        ycond == YellowCond(now, quiet)
        count == YellowsAfter(scan3, scan4)
        raw   == RawStopHit(scan3, count, low)
        total == StopsAfter(scan4 \/ Bear1, StopEvent(raw))
        gray  == total >= 2
        since == IF scan4 THEN 0 ELSE Capped(sinceBlue + 1, BlueWithin + 1)
        up    == {k \in Ups : \/ k = "blue_up" /\ scan4
                              \/ k = "yellow_up" /\ scan3 /\ ~gray
                              \/ k = "gray_up" /\ scan3 /\ gray}
        asks  == {k \in Downs : \/ k = "blue_down" /\ Bear1
                                \/ k = "yellow_down" /\ ycond
                                \/ k = "gray_down" /\ over}
    IN /\ held' = IF scan3 THEN low ELSE held
       /\ yellows' = count
       /\ latched' = (~scan3 /\ (raw \/ latched))
       /\ stops' = total
       /\ sinceBlue' = since
       /\ arrows' = up \cup (asks \ seen)
       /\ seen' = IF up \cap {"blue_up", "yellow_up"} # {} THEN {} ELSE seen \cup asks
       /\ firstYellow' = (scan3 /\ ~gray /\ count = 1 /\ since <= BlueWithin)
       /\ rsi' = SubSeq(<<now>> \o rsi, 1, Capped(Len(rsi) + 1, 3))

NextReplay == \E now \in Levels, low \in Lows, quiet \in BOOLEAN : Candle(now, low, quiet)

ReplaySpec == InitReplay /\ [][NextReplay]_rvars

-----------------------------------------------------------------------------
TypeOK ==
    /\ Len(rsi) <= 3 /\ \A i \in DOMAIN rsi : rsi[i] \in Levels
    /\ held \in Lows \cup {0}
    /\ latched \in BOOLEAN /\ firstYellow \in BOOLEAN
    /\ yellows \in 0 .. YellowCap
    /\ stops \in 0 .. 2
    /\ seen \subseteq Downs
    /\ sinceBlue \in 0 .. BlueWithin + 1
    /\ arrows \subseteq Ups \cup Downs

(***************************************************************************)
(* "Two stop-outs in a row, higher risk": a Gray Up is never an early      *)
(* signal.  A stop counts only once it is armed by a second trigger, only  *)
(* once per trigger and never on the trigger's own candle, so the first    *)
(* Gray after a Blue is at least the fourth yellow trigger since it.       *)
(***************************************************************************)
GrayIsFourthYellow == "gray_up" \in arrows => yellows >= 4
=============================================================================
