----------------------------- MODULE WarrenWatch -----------------------------
(***************************************************************************)
(* One ticker's row of the Warren Signals watch table: the rules that fold *)
(* 2h candles and their arrows into a trade (analysis/warren_signal/       *)
(* watch.py), the nightly job that replays them from a fixed anchor and    *)
(* rewrites the row (data/warren_watch_data.py), and the administrator who *)
(* removes it.  The job reads the row and the bars in one step and commits *)
(* in a later one; a removal may land in between, and the prices of the    *)
(* newest candle may be revised after a night has used them.  Arrows are   *)
(* any the six kinds allow: WarrenReplay says which of them come when.     *)
(***************************************************************************)
EXTENDS Naturals, Sequences, FiniteSets

CONSTANTS
    Candles,       \* prices of a candle: [low, close, supports, atr]
    ArrowSets,     \* sets of arrows a candle may carry
    MaxCandle,     \* candles in a behaviour
    RowWindow      \* ROW_MONTHS, in candles

\* A candle's kept supports lie below its close.
ASSUME CandleAssumption ==
    /\ MaxCandle \in Nat /\ RowWindow \in Nat
    /\ \A c \in Candles :
          /\ c.low \in Nat \ {0} /\ c.close \in Nat /\ c.atr \in Nat /\ c.low <= c.close
          /\ c.supports \in Seq(Nat) /\ \A i \in DOMAIN c.supports : c.supports[i] < c.close

VARIABLES
    now,           \* completed 2h candles so far; candle now is the newest
    newest,        \* prices of the newest candle
    before,        \* the replay up to the candle before the newest
    trade,         \* the replay up to the newest candle
    lastUp,        \* newest candle with an up arrow (0: none), whatever the cut
    upBefore,      \* the same, up to the candle before the newest
    row,           \* the stored row
    job,           \* the nightly update of this ticker
    removedThrough \* every candle up to here belongs to a removed row

wvars == <<now, newest, before, trade, lastUp, upBefore, row, job, removedThrough>>

None == [kind |-> "none", entryAt |-> 0, entry |-> 0, stop |-> 0,
         basis |-> "none", status |-> "none", signalAt |-> 0]

NoCandle == [low |-> 1, close |-> 1, supports |-> <<>>, atr |-> 0]
NoJob == [on |-> FALSE, stored |-> FALSE, removed |-> 0, content |-> None, new |-> None, recent |-> FALSE]
NoRow == [stored |-> FALSE, removed |-> 0, from |-> 0, content |-> None]

InTrade(s) == s.status = "active" /\ s.kind # "none"

-----------------------------------------------------------------------------
(***************************************************************************)
(* Prices.  A stop of 0 is no stop.                                        *)
(***************************************************************************)
TenPercent(low) == (low * 9) \div 10
GrayTarget(s) == (s.entry * 101) \div 100

\* The selected support: the 2nd nearest, or a lower one, at least one ATR
\* below the close; 0 when none is.  Without an ATR the plain 2nd.
PickSupport(c) ==
    LET eligible == {i \in 2 .. Len(c.supports) : c.supports[i] + c.atr <= c.close}
    IN CASE Len(c.supports) < 2 -> 0
         [] Len(c.supports) >= 2 /\ c.atr = 0 -> c.supports[2]
         [] Len(c.supports) >= 2 /\ c.atr > 0 /\ eligible # {} ->
                c.supports[CHOOSE i \in eligible : \A j \in eligible : i <= j]
         [] OTHER -> 0

\* A stop that only rises: a level that is not higher changes nothing.
Raised(s, level, basis) ==
    IF level = 0 \/ (s.stop > 0 /\ level <= s.stop) THEN s
    ELSE [s EXCEPT !.stop = level, !.basis = basis]

\* A first stop is 90 % of the low; "low" is the code's basis "10%".
Opened(kind, at, c) ==
    [kind |-> kind, entryAt |-> at, entry |-> c.close,
     stop |-> IF kind = "blue" THEN 0 ELSE TenPercent(c.low),
     basis |-> IF kind = "blue" THEN "none" ELSE "low",
     status |-> "active", signalAt |-> at]

\* The candle's low is tested against the stop as the candle found it.
Breach(s, c) ==
    IF s.status = "active" /\ s.stop > 0 /\ c.low <= s.stop THEN [s EXCEPT !.status = "breached"] ELSE s

UpKind(arrows) ==
    CASE "blue_up" \in arrows -> "blue"
      [] "yellow_up" \in arrows /\ "blue_up" \notin arrows -> "yellow"
      [] "gray_up" \in arrows /\ {"blue_up", "yellow_up"} \cap arrows = {} -> "gray"
      [] OTHER -> "none"

DownKind(arrows) ==
    CASE "yellow_down" \in arrows -> "yellow"
      [] "blue_down" \in arrows /\ "yellow_down" \notin arrows -> "blue"
      [] "gray_down" \in arrows /\ {"yellow_down", "blue_down"} \cap arrows = {} -> "gray"
      [] OTHER -> "none"

\* Mutant: the repeat Yellow sets its stop even when that is lower.
RepeatYellowSets(s, c) == [s EXCEPT !.stop = TenPercent(c.low), !.basis = "low"]

\* A repeat Yellow on an open trade: the lower of the support and 90 % of the
\* low, and never below the stop there is.
RepeatYellow(s, c) ==
    LET lp == PickSupport(c)
        ten == TenPercent(c.low)
    IN IF lp > 0 /\ lp < ten THEN Raised(s, lp, "LP") ELSE Raised(s, ten, "low")

ApplyUp(s, kind, first, at, c) ==
    LET said == [s EXCEPT !.signalAt = at]
    IN CASE ~InTrade(s) -> Opened(kind, at, c)
         [] InTrade(s) /\ kind = "yellow" /\ ~first -> RepeatYellow(said, c)
         [] OTHER -> said

\* Mutant: the entry stop of a Gray Down without its "only below the close" test.
ApplyDownUnguarded(s, kind, c) ==
    CASE kind = "gray" /\ s.kind \in {"yellow", "gray"} -> Raised(s, GrayTarget(s), "entry")
      [] kind = "blue" \/ (kind = "yellow" /\ s.kind # "blue") -> Raised(s, PickSupport(c), "LP")
      [] OTHER -> s

ApplyDown(s, kind, c) ==
    LET target == GrayTarget(s)
        calm == s.kind \in {"yellow", "gray"}
    IN CASE kind = "gray" /\ calm /\ target < c.close -> Raised(s, target, "entry")
         [] kind = "yellow" /\ calm -> Raised(s, PickSupport(c), "LP")
         [] kind = "blue" -> Raised(s, PickSupport(c), "LP")
         [] OTHER -> s

Trail(s, c) ==
    IF s.status = "active" /\ s.basis = "LP" /\ s.stop > 0 THEN Raised(s, PickSupport(c), "LP") ELSE s

\* One candle of advance: breach, up arrow, down arrow, trailing stop.
Advance(s, at, c, arrows, first) ==
    LET up == UpKind(arrows)
        down == DownKind(arrows)
        breached == Breach(s, c)
        risen == IF up = "none" THEN breached ELSE ApplyUp(breached, up, first /\ up = "yellow", at, c)
        eased == IF down = "none" \/ ~InTrade(risen) THEN risen ELSE ApplyDown(risen, down, c)
    IN Trail(eased, c)

-----------------------------------------------------------------------------
(***************************************************************************)
(* The bars.                                                               *)
(***************************************************************************)
\* The candle the row's replay starts after: the anchor (0), the removal a
\* woken row came back from, or the removal of a removed one.
Cut == IF row.removed > row.from THEN row.removed ELSE row.from

\* The replay with the newest candle at: a candle at or before the cut is
\* not read.
Replayed(s, at, c, arrows, first) ==
    IF at <= Cut THEN None ELSE Advance(s, at, c, arrows, first)

IsUp(arrows) == UpKind(arrows) # "none"

\* The night's update of one ticker takes seconds, after the session: no bar
\* comes or changes during it.
NewCandle ==
    /\ ~job.on /\ now < MaxCandle
    /\ now' = now + 1
    /\ \E c \in Candles, arrows \in ArrowSets, first \in BOOLEAN :
          /\ first => "yellow_up" \in arrows
          /\ newest' = c
          /\ before' = trade
          /\ trade' = Replayed(trade, now + 1, c, arrows, first)
          /\ upBefore' = lastUp
          /\ lastUp' = IF IsUp(arrows) THEN now + 1 ELSE lastUp
    /\ UNCHANGED <<row, job, removedThrough>>

\* The provider revises the newest candle; the next night sees it.
Revise ==
    /\ ~job.on /\ now > 0
    /\ \E c \in Candles, arrows \in ArrowSets, first \in BOOLEAN :
          /\ first => "yellow_up" \in arrows
          /\ c # newest
          /\ newest' = c
          /\ trade' = Replayed(before, now, c, arrows, first)
          /\ lastUp' = IF IsUp(arrows) THEN now ELSE upBefore
    /\ UNCHANGED <<now, before, upBefore, row, job, removedThrough>>

-----------------------------------------------------------------------------
(***************************************************************************)
(* The nightly update, and the removal.                                    *)
(***************************************************************************)
\* update_warren_watch up to its outcome: the row is read, the replay run.
ReadRow ==
    /\ ~job.on /\ now > 0
    /\ job' = [on |-> TRUE, stored |-> row.stored, removed |-> row.removed, content |-> row.content,
               new |-> trade, recent |-> lastUp > 0 /\ now < lastUp + RowWindow]
    /\ UNCHANGED <<now, newest, before, trade, lastUp, upBefore, row, removedThrough>>

\* The outcome is "created" for a first row with a recent up arrow, and for a
\* removed row that an arrow after its removal woke.
Creates ==
    /\ job.new # None
    /\ IF job.stored THEN job.removed > 0 ELSE job.recent

\* "changed": a visible row whose content differs from the replay's.  A
\* replay that gives no row leaves the stored one alone.
Changes == job.stored /\ job.removed = 0 /\ job.new # None /\ job.new # job.content

\* Mutant: the whole row is written, removed_at as the job read it.
CommitWholeRow ==
    /\ job.on
    /\ row' = CASE Creates -> [stored |-> TRUE, removed |-> 0, from |-> job.removed, content |-> job.new]
                [] Changes -> [row EXCEPT !.content = job.new, !.removed = job.removed]
                [] OTHER -> row
    /\ job' = NoJob
    /\ UNCHANGED <<now, newest, before, trade, lastUp, upBefore, removedThrough>>

\* Only the columns that changed are written: a removal that landed since the
\* read keeps its removed_at.
Commit ==
    /\ job.on
    /\ row' = CASE Creates -> [stored |-> TRUE, removed |-> 0, from |-> job.removed, content |-> job.new]
                [] Changes -> [row EXCEPT !.content = job.new]
                [] OTHER -> row
    /\ job' = NoJob
    /\ UNCHANGED <<now, newest, before, trade, lastUp, upBefore, removedThrough>>

\* remove_watch_row, overnight (through = now) or while candle now + 1 is
\* forming, whose start is then before the removal.  Candles up to the
\* removal no longer belong to the row's replay.
Remove ==
    /\ row.stored /\ row.removed = 0
    /\ \E through \in {now, now + 1} :
          /\ through > Cut
          /\ row' = [row EXCEPT !.removed = through]
          /\ removedThrough' = through
    /\ trade' = None
    /\ before' = None
    /\ UNCHANGED <<now, newest, lastUp, upBefore, job>>

InitWatch ==
    /\ now = 0
    /\ newest = NoCandle
    /\ before = None
    /\ trade = None
    /\ lastUp = 0
    /\ upBefore = 0
    /\ row = NoRow
    /\ job = NoJob
    /\ removedThrough = 0

NextWatch == NewCandle \/ Revise \/ ReadRow \/ Commit \/ Remove

WatchSpec == InitWatch /\ [][NextWatch]_wvars

-----------------------------------------------------------------------------
Trades == [kind : {"none", "blue", "yellow", "gray"}, entryAt : 0 .. MaxCandle, entry : Nat, stop : Nat,
           basis : {"none", "low", "LP", "entry"}, status : {"none", "active", "breached"},
           signalAt : 0 .. MaxCandle]

WatchTypeOK ==
    /\ now \in 0 .. MaxCandle
    /\ newest \in Candles \cup {NoCandle}
    /\ before \in Trades /\ trade \in Trades
    /\ lastUp \in 0 .. now /\ upBefore \in 0 .. now
    /\ row \in [stored : BOOLEAN, removed : 0 .. MaxCandle + 1, from : 0 .. MaxCandle + 1, content : Trades]
    /\ job \in [on : BOOLEAN, stored : BOOLEAN, removed : 0 .. MaxCandle + 1, content : Trades,
                new : Trades, recent : BOOLEAN]
    /\ removedThrough \in 0 .. MaxCandle + 1

(***************************************************************************)
(* The stop of an open trade is below the market: after any candle, with   *)
(* any arrows, an active row's stop is under the candle's close.  Nothing  *)
(* compares the two; it follows from the breach test on the stop the       *)
(* candle found and from every rule's own level being below the close, and *)
(* it is what keeps a trade from being stopped out by its own stop move.   *)
(***************************************************************************)
StopBelowMarket == InTrade(trade) /\ trade.stop > 0 => trade.stop < newest.close

(***************************************************************************)
(* Within one trade a stop, once there, is never taken away or lowered,    *)
(* whatever the arrows, and a trade that was stopped out keeps its stop.   *)
(***************************************************************************)
StopNeverLowered ==
    before.entryAt > 0 /\ before.entryAt = trade.entryAt =>
        /\ trade.stop >= before.stop
        /\ before.status = "breached" => trade.status = "breached" /\ trade.stop = before.stop

(***************************************************************************)
(* Both halves of what the stop of a trade promises, over the same arrows. *)
(***************************************************************************)
StopHolds == StopBelowMarket /\ StopNeverLowered

(***************************************************************************)
(* A removed trade never comes back: whatever is removed while a night is  *)
(* computing, and on every later night, a visible row is about a trade     *)
(* entered on a candle after the last removal.                             *)
(***************************************************************************)
RemovedStaysAway == row.stored /\ row.removed = 0 => row.content.entryAt > removedThrough
=============================================================================
