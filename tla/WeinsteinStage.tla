--------------------------- MODULE WeinsteinStage ---------------------------
(***************************************************************************)
(* The weekly Weinstein stage of one ticker and its "pending confirmation" *)
(* (analysis/trend_structure/weinstein.py, weinstein_pending.py).  The     *)
(* sticky stage machine steps once a week; a ticker whose price has        *)
(* cleared the band while its average has not turned yet is pending, and   *)
(* the flat scenario projects the week the change would be confirmed if    *)
(* the price held.  SMA variant; prices are whole numbers.                 *)
(***************************************************************************)
EXTENDS Naturals, Sequences

CONSTANTS
    Closes,        \* weekly closes
    Length,        \* ma_length, in weeks
    Lookback,      \* slope_lookback, in weeks
    Band,          \* within_range_pct
    Margin,        \* weeks of history beyond the first slope before a stage is shown
    Horizon        \* PROJECTION_HORIZON_WEEKS

VARIABLES
    closes,        \* the newest Length + Lookback closes, newest last
    weeks,         \* weeks of history, counted up to the minimum required
    stage          \* 0 none yet, 1 base, 2 advance, 3 top, 4 decline

svars == <<closes, weeks, stage>>

Window == Length + Lookback
MinWeeks == Window + Margin

Total(s) ==
    LET sum[i \in 0 .. Len(s)] == IF i = 0 THEN 0 ELSE sum[i - 1] + s[i]
    IN sum[Len(s)]
LastOf(s, n) == SubSeq(s, Len(s) - n + 1, Len(s))

\* Flags of the week a window of closes ends in.  The average is Total / Length,
\* so both tests are on whole numbers.
Valid(s) == Len(s) = Window
Average(s) == Total(LastOf(s, Length))
AverageThen(s) == Total(SubSeq(s, Len(s) - Length - Lookback + 1, Len(s) - Lookback))
Rising(s) == Average(s) > AverageThen(s)
Falling(s) == Average(s) < AverageThen(s)
Above(s) == s[Len(s)] * Length * 100 > Average(s) * (100 + Band)
Below(s) == s[Len(s)] * Length * 100 < Average(s) * (100 - Band)

NextState(prev, s) ==
    LET up == Rising(s) /\ Above(s)
        down == Falling(s) /\ Below(s)
    IN CASE prev = 2 -> IF down THEN 4 ELSE IF Rising(s) THEN 2 ELSE 3
         [] prev = 3 -> IF up THEN 2 ELSE IF down THEN 4 ELSE 3
         [] prev = 4 -> IF up THEN 2 ELSE IF Falling(s) THEN 4 ELSE 1
         [] prev = 1 -> IF down THEN 4 ELSE IF up THEN 2 ELSE 1
         [] OTHER -> IF up THEN 2 ELSE IF down THEN 4 ELSE IF Rising(s) \/ Above(s) THEN 3 ELSE 1

Shifted(s, c) == IF Valid(s) THEN Append(Tail(s), c) ELSE Append(s, c)

\* One step of compute_stage_series: a week without a valid slope leaves the
\* machine as it is.
Stepped(prev, s) == IF Valid(s) THEN NextState(prev, s) ELSE prev

Week ==
    \E c \in Closes :
        /\ closes' = Shifted(closes, c)
        /\ stage' = Stepped(stage, closes')
        /\ weeks' = IF weeks < MinWeeks THEN weeks + 1 ELSE weeks

InitStage == closes = <<>> /\ weeks = 0 /\ stage = 0

StageSpec == InitStage /\ [][Week]_svars

-----------------------------------------------------------------------------
(***************************************************************************)
(* Pending confirmation.                                                   *)
(***************************************************************************)
Shown == weeks = MinWeeks

\* The stage a pending ticker is about to enter (0: not pending).
Pending ==
    CASE Shown /\ stage # 2 /\ Above(closes) /\ ~Rising(closes) -> 2
      [] Shown /\ stage # 4 /\ Below(closes) /\ ~Falling(closes) -> 4
      [] OTHER -> 0

\* The window after n more weeks at the latest close.
Flat(n) == LastOf(closes \o [i \in 1 .. n |-> closes[Len(closes)]], Window)

\* Mutant: the week the average turns, whatever the band says by then.
ConfirmsOnSlope(target, s) == IF target = 2 THEN Rising(s) ELSE Falling(s)

Confirms(target, s) ==
    IF target = 2 THEN Rising(s) /\ Above(s) ELSE Falling(s) /\ Below(s)

\* _project_confirmation_eta, flat scenario: the first week both conditions
\* hold together; 0 when the horizon is exceeded.
WeeksAway(target) ==
    LET hits == {n \in 1 .. Horizon : Confirms(target, Flat(n))}
    IN IF hits = {} THEN 0 ELSE CHOOSE n \in hits : \A m \in hits : n <= m

-----------------------------------------------------------------------------
TypeOK ==
    /\ Len(closes) <= Window /\ \A i \in DOMAIN closes : closes[i] \in Closes
    /\ weeks \in 0 .. MinWeeks
    /\ stage \in 0 .. 4

\* The stage the machine itself reaches after n weeks at the latest close.
StageAfter ==
    LET after[n \in 0 .. Horizon] == IF n = 0 THEN stage ELSE Stepped(after[n - 1], Flat(n))
    IN after

(***************************************************************************)
(* The projection tells the truth under its own assumption: if the price   *)
(* holds, the stage machine enters the pending stage in exactly the week   *)
(* the projection names and not before, and never within the horizon when  *)
(* it names none.  The projection looks at the two conditions only, the    *)
(* machine also moves through Base and Top on the way.                     *)
(***************************************************************************)
ProjectionComesTrue ==
    Pending # 0 =>
        LET n == WeeksAway(Pending)
            last == IF n = 0 THEN Horizon ELSE n - 1
        IN /\ n > 0 => StageAfter[n] = Pending
           /\ \A m \in 1 .. last : StageAfter[m] # Pending
=============================================================================
