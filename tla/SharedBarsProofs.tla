-------------------------- MODULE SharedBarsProofs --------------------------
(***************************************************************************)
(* What TLC checks of the safety of SharedBars for one job, a handful of   *)
(* sessions and a day, proved for any calendar, look-backs, tiers, plans   *)
(* and retention that the assumptions of the module admit: the types and   *)
(* the width of the fetches for any number of jobs, the one price basis    *)
(* for jobs that do not overlap.                                           *)
(***************************************************************************)
EXTENDS SharedBars, FiniteSetTheorems, WellFoundedInduction, TLAPS

-----------------------------------------------------------------------------
(* The least and the greatest of a set of days. *)

LEMMA LeastDay ==
  ASSUME NEW S \in SUBSET Nat, S # {}
  PROVE  Min(S) \in S /\ \A d \in S : Min(S) <= d
<1>1. \E m \in S : \A d \in S : ~ (<<d, m>> \in OpToRel(<, Nat))
  BY NatLessThanWellFounded, WFMin, Zenon
<1>2. \E m \in S : \A d \in S : ~ (d < m)
  BY <1>1, Zenon DEF OpToRel
<1>3. \E m \in S : \A d \in S : m <= d
  BY <1>2
<1> QED
  BY <1>3 DEF Min

LEMMA GreatestDay ==
  ASSUME NEW n \in Nat, NEW S \in SUBSET (0 .. n), S # {}
  PROVE  Max(S) \in S /\ \A d \in S : d <= Max(S)
<1> DEFINE T == {n - d : d \in S}
<1>1. T \in SUBSET Nat /\ T # {}
  <2>1. ASSUME NEW d \in S PROVE n - d \in Nat
    OBVIOUS
  <2> QED
    BY <2>1
<1>2. Min(T) \in T /\ \A e \in T : Min(T) <= e
  BY <1>1, LeastDay
<1>3. PICK m \in S : Min(T) = n - m
  BY <1>2
<1>4. ASSUME NEW d \in S PROVE d <= m
  <2>1. n - d \in T /\ n \in Int /\ m \in Int /\ d \in Int
    OBVIOUS
  <2>2. Min(T) <= n - d
    BY <1>2, <2>1
  <2> QED
    BY <1>3, <2>1, <2>2
<1>5. \E x \in S : \A y \in S : x >= y
  BY <1>4
<1>6. Max(S) \in S /\ \A y \in S : Max(S) >= y
  BY <1>5 DEF Max
<1> QED
  BY <1>6

LEMMA LeastOfTwo ==
  ASSUME NEW a \in Int, NEW b \in Int
  PROVE  Min({a, b}) = IF a <= b THEN a ELSE b
  BY DEF Min

LEMMA GreatestOfTwo ==
  ASSUME NEW a \in Int, NEW b \in Int
  PROVE  Max({a, b}) = IF a >= b THEN a ELSE b
  BY DEF Max

\* A set of the assumptions has a greatest element.
LEMMA GreatestGiven ==
  ASSUME NEW D \in {Lookbacks, Tiers, HourTiers, Plans}
  PROVE  Max(D) \in D /\ D \subseteq Nat /\ \A d \in D : d <= Max(D)
<1>1. PICK m \in D : D \subseteq 0 .. m
  BY BarAssumption
<1>2. m \in Nat /\ D \in SUBSET (0 .. m) /\ D # {}
  BY <1>1
<1>3. Max(D) \in D /\ \A d \in D : d <= Max(D)
  BY <1>2, GreatestDay
<1>4. D \subseteq Nat
  BY <1>2
<1> QED
  BY <1>3, <1>4

-----------------------------------------------------------------------------
(* Days and the three phases of each. *)

LEMMA DayOf ==
  ASSUME NEW t \in Nat
  PROVE  t \div 3 \in Nat /\ 3 * (t \div 3) <= t /\ t <= 3 * (t \div 3) + 2
  OBVIOUS

LEMMA DaysPass ==
  ASSUME NEW t \in Nat, NEW u \in Nat, u <= t, t <= u + 3
  PROVE  u \div 3 <= t \div 3 /\ t \div 3 <= u \div 3 + 1
  BY DayOf

LEMMA SessionsAreDays ==
  /\ Trading \in SUBSET (0 .. MaxDay) /\ MaxDay \in Nat
  /\ 0 \in Trading /\ \A s \in Trading : s \in Nat
  BY BarAssumption DEF Trading

\* The newest session that is over.
LEMMA CompletedIs ==
  ASSUME NEW t \in Nat
  PROVE  /\ Completed(t) \in Trading /\ Completed(t) <= t \div 3
         /\ \A s \in Trading : 3 * s + 1 <= t => s <= Completed(t)
         /\ Completed(t) = 0 \/ 3 * Completed(t) + 1 <= t
<1> DEFINE Over == {0} \cup {s \in Trading : CloseOf(s) <= t}
<1>1. Over \in SUBSET (0 .. MaxDay) /\ Over # {} /\ Over \subseteq Trading
  BY SessionsAreDays
<1>2. Completed(t) \in Over /\ \A d \in Over : d <= Completed(t)
  BY <1>1, SessionsAreDays, GreatestDay DEF Completed
<1>3. Completed(t) <= t \div 3
  <2>1. CASE Completed(t) = 0
    BY <2>1, DayOf
  <2>2. CASE 3 * Completed(t) + 1 <= t /\ Completed(t) \in Nat
    BY <2>2, DayOf
  <2> QED
    BY <1>1, <1>2, <2>1, <2>2, SessionsAreDays DEF CloseOf
<1>4. ASSUME NEW s \in Trading, 3 * s + 1 <= t PROVE s <= Completed(t)
  <2>1. s \in Over
    BY <1>4 DEF CloseOf
  <2> QED
    BY <1>2, <2>1
<1>5. Completed(t) = 0 \/ 3 * Completed(t) + 1 <= t
  BY <1>2 DEF CloseOf
<1> QED
  BY <1>1, <1>2, <1>3, <1>4, <1>5

LEMMA CompletedGrows ==
  ASSUME NEW t \in Nat
  PROVE  Completed(t) <= Completed(t + 1) /\ Completed(t) \in Nat /\ Completed(t + 1) \in Nat
<1>1. /\ Completed(t) \in Trading /\ Completed(t + 1) \in Trading
      /\ Completed(t) = 0 \/ 3 * Completed(t) + 1 <= t
      /\ 3 * Completed(t) + 1 <= t + 1 => Completed(t) <= Completed(t + 1)
  BY CompletedIs
<1>2. Completed(t) \in Nat /\ Completed(t + 1) \in Nat
  BY <1>1, SessionsAreDays
<1> QED
  BY <1>1, <1>2

-----------------------------------------------------------------------------
(* The inductive invariant. *)

Bar      == [basis : 0 .. Legacy, final : BOOLEAN]
Days     == Trading \cup {NoDay}
Frames   == UNION {[D -> Bar] : D \in SUBSET Trading}
Question == [pc : {"asked"}, at : Nat, width : Nat, full : BOOLEAN, first : Days, last : Days]
Reply    == [pc : {"answered"}, at : Nat, width : Nat, full : BOOLEAN, first : Days, last : Days,
             frame : Frames]

\* Without a gap: a session between two of them is one of them.
Convex(D) == \A a, b \in D : \A s \in Trading : a <= s /\ s <= b => s \in D

World ==
    /\ interval \in Intervals
    /\ time \in 3 * FirstDay .. 3 * MaxDay + 2
    /\ published \in Trading /\ published <= Completed(time) /\ Today - published <= MaxGap
    /\ basis \in 0 .. MaxBasis /\ plan \in Plans
    /\ written \in 0 .. time

\* The cache is never far behind, and of daily bars the prune leaves no more than
\* the retention and the slack.
Series ==
    /\ bars \in [Trading -> Bar \cup {NoBar}]
    /\ \A s \in Cached : s <= published
    /\ \A s \in Cached : \E r \in Cached : Today - r <= MaxGap + 1
    /\ interval = "1d" => \A s \in Cached : Today - s <= Retention + Slack + 1

AskedOn(j) == job[j].at \div 3

\* What an answer holds: whatever lies between the overlap and the newest session the
\* job saw, on one basis.
FrameOK(j) ==
    LET frame == job[j].frame
        D     == DOMAIN frame
    IN  /\ \A s \in D : From(j) <= s /\ s <= AskedOn(j) /\ s <= published
        /\ \E s \in D : AskedOn(j) - MaxGap <= s
        /\ Convex(D)
        /\ \A a, b \in D : frame[a].basis = frame[b].basis
        /\ \A s \in Trading : From(j) <= s /\ job[j].last - Overlap <= s /\ s <= job[j].last
              => s \in D

LastOK(j) ==
    /\ AskedOn(j) - MaxGap - 1 <= job[j].last
    /\ job[j].last <= AskedOn(j) /\ job[j].last <= published

JobOK(j) ==
    job[j] # Idle =>
       /\ job[j].at <= time /\ time <= job[j].at + 3
       /\ job[j].width <= Max(Lookbacks)
       /\ job[j].last = NoDay => job[j].full
       /\ job[j].last # NoDay => LastOK(j)
       /\ \E s \in Trading : AskedOn(j) - MaxGap <= s /\ s <= AskedOn(j) /\ s <= published
       /\ job[j].pc = "answered" => FrameOK(j)

Inv ==
    /\ World /\ Series
    /\ job \in [Jobs -> {Idle} \cup Question \cup Reply]
    /\ \A j \in Jobs : JobOK(j)

-----------------------------------------------------------------------------
(* What it says of a state. *)

LEMMA GivenNumbers ==
  /\ FirstDay \in Nat /\ MaxDay \in Nat /\ Slack \in Nat /\ Overlap \in Nat /\ MinFull \in Nat
  /\ Retention \in Nat /\ MaxGap \in Nat /\ MaxBasis \in Nat /\ Legacy \in Nat
  /\ Max(Lookbacks) \in Nat /\ Max(Plans) \in Plans /\ Plans \subseteq Nat
<1>1. Max(Lookbacks) \in Nat /\ Max(Plans) \in Plans /\ Plans \subseteq Nat
  BY GreatestGiven
<1> QED
  BY <1>1, BarAssumption DEF Legacy

LEMMA DaysAreNumbers ==
  ASSUME NEW d \in Days
  PROVE  d \in Int /\ (d # NoDay => d \in Trading /\ d \in Nat)
  BY SessionsAreDays DEF Days, NoDay

LEMMA TimeIs ==
  ASSUME World
  PROVE  /\ time \in Nat /\ Today \in Nat /\ published \in Nat /\ published <= Today
         /\ Completed(time) \in Nat /\ Today - published <= MaxGap
<1>1. time \in Nat
  BY GivenNumbers DEF World
<1>2. Today \in Nat
  BY <1>1, DayOf DEF Today
<1>3. Completed(time) \in 0 .. MaxDay /\ Completed(time) <= Today /\ published \in 0 .. MaxDay
  BY <1>1, CompletedIs, SessionsAreDays DEF Today, World
<1> QED
  BY <1>1, <1>2, <1>3, SessionsAreDays DEF World

LEMMA CachedEnds ==
  ASSUME Cached # {}
  PROVE  /\ First \in Cached /\ Last \in Cached /\ First \in Nat /\ Last \in Nat
         /\ \A s \in Cached : First <= s /\ s <= Last
<1>1. Cached \in SUBSET (0 .. MaxDay) /\ MaxDay \in Nat
  BY SessionsAreDays DEF Cached
<1>2. Cached \in SUBSET Nat
  BY <1>1
<1>3. First \in Cached /\ \A s \in Cached : First <= s
  BY <1>2, LeastDay DEF First
<1>4. Last \in Cached /\ \A s \in Cached : s <= Last
  BY <1>1, GreatestDay DEF Last
<1> QED
  BY <1>2, <1>3, <1>4

\* The kind of record a job in flight is.
LEMMA InFlight ==
  ASSUME Inv, NEW j \in Jobs, job[j] # Idle
  PROVE  /\ job[j].at \in Nat /\ job[j].width \in Nat /\ job[j].full \in BOOLEAN
         /\ job[j].first \in Days /\ job[j].last \in Days
         /\ AskedOn(j) \in Nat /\ AskedOn(j) <= Today /\ Today <= AskedOn(j) + 1
         /\ JobOK(j)
         /\ \/ job[j] \in Question /\ job[j].pc = "asked"
            \/ job[j] \in Reply /\ job[j].pc = "answered"
<1>1. job[j] \in Question \/ job[j] \in Reply
  BY DEF Inv
<1>2. /\ job[j].at \in Nat /\ job[j].width \in Nat /\ job[j].full \in BOOLEAN
      /\ job[j].first \in Days /\ job[j].last \in Days
  BY <1>1 DEF Question, Reply
<1>3. JobOK(j)
  BY DEF Inv
<1>4. time \in Nat /\ job[j].at <= time /\ time <= job[j].at + 3
  BY <1>3, TimeIs DEF Inv, JobOK
<1>5. AskedOn(j) \in Nat /\ AskedOn(j) <= Today /\ Today <= AskedOn(j) + 1
  BY <1>2, <1>4, DayOf, DaysPass DEF AskedOn, Today
<1>6. \/ job[j] \in Question /\ job[j].pc = "asked"
      \/ job[j] \in Reply /\ job[j].pc = "answered"
  BY <1>1 DEF Question, Reply
<1> QED
  BY <1>2, <1>3, <1>5, <1>6

LEMMA FromIsDay ==
  ASSUME Inv, NEW j \in Jobs, job[j] # Idle
  PROVE  /\ From(j) \in Int
         /\ ~ job[j].full => job[j].last # NoDay /\ From(j) = job[j].last - Overlap
         /\ job[j].full => From(j) <= AskedOn(j) - job[j].width
         /\ job[j].full /\ interval = "1d" => From(j) = AskedOn(j) - job[j].width
         /\ job[j].full /\ interval = "60m" /\ job[j].first # NoDay => From(j) <= job[j].first
         /\ job[j].full => From(j) = AskedOn(j) - job[j].width
                           \/ (interval = "60m" /\ job[j].first # NoDay /\ From(j) = job[j].first)
<1>1. /\ AskedOn(j) \in Int /\ job[j].width \in Int /\ job[j].last \in Int /\ job[j].first \in Int
      /\ job[j].full \in BOOLEAN /\ Overlap \in Int
  <2>1. /\ AskedOn(j) \in Nat /\ job[j].width \in Nat /\ job[j].full \in BOOLEAN
        /\ job[j].first \in Days /\ job[j].last \in Days
    BY InFlight
  <2>2. job[j].first \in Int /\ job[j].last \in Int
    BY <2>1, DaysAreNumbers
  <2> QED
    BY <2>1, <2>2, GivenNumbers
<1>2. job[j].last = NoDay => job[j].full
  BY InFlight DEF JobOK
<1> DEFINE window == AskedOn(j) - job[j].width
<1>3. window \in Int /\ Min({window, job[j].first}) = IF window <= job[j].first THEN window ELSE job[j].first
  BY <1>1, LeastOfTwo
<1>4. From(j) = IF ~ job[j].full THEN job[j].last - Overlap
                ELSE IF interval = "60m" /\ job[j].first # NoDay THEN Min({window, job[j].first})
                ELSE window
  BY DEF From, AskedOn
<1> HIDE DEF window
<1>5. CASE ~ job[j].full
  BY <1>1, <1>2, <1>4, <1>5
<1>6. CASE job[j].full /\ interval = "60m" /\ job[j].first # NoDay
  BY <1>1, <1>3, <1>4, <1>6 DEF window
<1>7. CASE job[j].full /\ ~ (interval = "60m" /\ job[j].first # NoDay)
  <2>1. From(j) = window
    BY <1>4, <1>7
  <2> QED
    BY <1>1, <1>7, <2>1 DEF window
<1> QED
  BY <1>1, <1>5, <1>6, <1>7

\* The cache and its ends, in a step that leaves the bars alone.
LEMMA SameBars ==
  ASSUME UNCHANGED bars
  PROVE  Cached' = Cached /\ First' = First /\ Last' = Last
<1>1. Cached' = Cached
  BY DEF Cached
<1> QED
  BY <1>1 DEF First, Last

\* A job that waits, while time passes and sessions are published.
LEMMA Waits ==
  ASSUME Inv, NEW k \in Jobs,
         UNCHANGED <<interval, job[k]>>,
         published' \in Nat, published <= published', time' \in Nat, time <= time',
         job[k] # Idle => time' <= job[k].at + 3
  PROVE  JobOK(k)'
<1> SUFFICES ASSUME job[k] # Idle
             PROVE  JobOK(k)'
  BY DEF JobOK
<1>1. From(k)' = From(k) /\ AskedOn(k)' = AskedOn(k)
  BY DEF From, AskedOn
<1>2. JobOK(k) /\ job[k].at \in Nat /\ AskedOn(k) \in Nat /\ job[k].last \in Days
  BY InFlight
<1>3. job[k].last \in Int
  BY <1>2, DaysAreNumbers
<1>4. published \in Nat /\ time \in Nat
  BY TimeIs DEF Inv
<1>5. job[k].at <= time' /\ time' <= job[k].at + 3
  BY <1>2, <1>4 DEF JobOK
<1>6. job[k].last # NoDay => LastOK(k)'
  BY <1>1, <1>2, <1>3, <1>4 DEF JobOK, LastOK
<1>7. \E s \in Trading : AskedOn(k) - MaxGap <= s /\ s <= AskedOn(k) /\ s <= published'
  <2>1. PICK s \in Trading : AskedOn(k) - MaxGap <= s /\ s <= AskedOn(k) /\ s <= published
    BY <1>2 DEF JobOK
  <2>2. s <= published'
    BY <2>1, <1>4, SessionsAreDays
  <2> QED
    BY <2>1, <2>2
<1>8. ASSUME job[k].pc = "answered" PROVE FrameOK(k)'
  <2>1. FrameOK(k)
    BY <1>2, <1>8 DEF JobOK
  <2>2. job[k] \in Reply
    BY <1>8, InFlight
  <2>3. DOMAIN job[k].frame \in SUBSET Trading
    BY <2>2 DEF Reply, Frames
  <2>4. ASSUME NEW s \in DOMAIN job[k].frame PROVE s <= published'
    <3>1. s <= published
      BY <2>1 DEF FrameOK
    <3>2. s \in Nat
      BY <2>3, SessionsAreDays
    <3> QED
      BY <3>1, <3>2, <1>4
  <2> QED
    BY <2>1, <2>4, <1>1 DEF FrameOK, Convex
<1> QED
  BY <1>1, <1>2, <1>5, <1>6, <1>7, <1>8 DEF JobOK

LEMMA InitHolds ==
  ASSUME Init
  PROVE  Inv
<1>1. time \in Nat /\ time = 3 * FirstDay /\ Today = FirstDay
  BY GivenNumbers, DayOf DEF Init, Today
<1>2. Completed(time) \in Trading
  BY <1>1, CompletedIs
<1>3. Today - Completed(time) <= MaxGap
  <2>1. PICK s \in Sessions : s < FirstDay /\ FirstDay - s <= MaxGap
    BY StartAssumption
  <2>2. s \in Trading /\ s \in Nat
    BY <2>1, BarAssumption, GivenNumbers DEF Trading
  <2>3. s <= Completed(time)
    BY <1>1, <2>1, <2>2, CompletedIs, GivenNumbers
  <2>4. Completed(time) \in Nat
    BY <1>2, SessionsAreDays
  <2> QED
    BY <1>1, <2>1, <2>2, <2>3, <2>4, GivenNumbers
<1>4. World
  <2>1. 3 * FirstDay \in 3 * FirstDay .. 3 * MaxDay + 2
    BY BarAssumption
  <2>2. 0 \in 0 .. MaxBasis /\ 0 \in 0 .. time
    BY <1>1, GivenNumbers
  <2>3. Completed(time) \in Nat
    BY <1>2, SessionsAreDays
  <2> QED
    BY <1>1, <1>2, <1>3, <2>1, <2>2, <2>3, GivenNumbers DEF Init, World
<1>5. Series
  <2>1. PICK held \in {{}, {s \in Trading : s < FirstDay}} :
           /\ held = {} \/ interval = "60m"
           /\ bars = [s \in Trading |-> IF s \in held THEN [basis |-> Legacy, final |-> TRUE] ELSE NoBar]
    BY DEF Init
  <2>2. [basis |-> Legacy, final |-> TRUE] \in Bar
    BY GivenNumbers DEF Bar
  <2>3. bars \in [Trading -> Bar \cup {NoBar}]
    BY <2>1, <2>2
  <2>4. Cached \subseteq held
    BY <2>1 DEF Cached
  <2>5. ASSUME NEW s \in Cached PROVE s <= published /\ \E r \in Cached : Today - r <= MaxGap + 1
    <3>1. s \in Trading /\ s < FirstDay /\ held = {x \in Trading : x < FirstDay}
      BY <2>1, <2>4, <2>5
    <3>2. s \in Nat
      BY <3>1, SessionsAreDays
    <3>3. s <= published
      BY <1>1, <3>1, <3>2, CompletedIs, GivenNumbers DEF Init
    <3>4. PICK r \in Sessions : r < FirstDay /\ FirstDay - r <= MaxGap
      BY StartAssumption
    <3>5. r \in Trading /\ r \in Nat
      BY <3>4, BarAssumption, GivenNumbers DEF Trading
    <3>6. bars[r] = [basis |-> Legacy, final |-> TRUE]
      BY <2>1, <3>1, <3>4, <3>5
    <3>7. bars[r] # NoBar
      BY <3>6, GivenNumbers DEF NoBar
    <3>8. r \in Cached
      BY <3>5, <3>7 DEF Cached
    <3> QED
      BY <1>1, <3>3, <3>4, <3>5, <3>8, GivenNumbers
  <2>6. interval = "1d" => Cached = {}
    BY <2>1, <2>4
  <2> QED
    BY <2>3, <2>5, <2>6 DEF Series
<1>6. job \in [Jobs -> {Idle} \cup Question \cup Reply] /\ \A j \in Jobs : JobOK(j)
  BY DEF Init, JobOK
<1> QED
  BY <1>4, <1>5, <1>6 DEF Inv

LEMMA TickHolds ==
  ASSUME Inv, Tick
  PROVE  Inv'
<1> USE DEF Tick
<1>0. Cached # {} => /\ Today - First <= Retention + Slack
                     /\ (time + 1) \div 3 - Last <= MaxGap
  OBVIOUS
<1>1. time \in Nat /\ time' = time + 1 /\ Today \in Nat /\ Today' = (time + 1) \div 3
  BY TimeIs DEF Inv, Today
<1>2. Today' \in Nat /\ Today' <= Today + 1 /\ Today <= Today'
  BY <1>1, DaysPass, DayOf DEF Today
<1>3. World'
  <2>1. Completed(time') = Completed(time)'
    BY DEF Completed
  <2>2. published <= Completed(time')
    BY <1>1, TimeIs, CompletedGrows DEF Inv, World
  <2>3. time' \in 3 * FirstDay .. 3 * MaxDay + 2 /\ written \in 0 .. time'
    BY <1>1, GivenNumbers DEF Inv, World
  <2>4. Today' - published <= MaxGap
    BY <1>1
  <2> QED
    BY <2>1, <2>2, <2>3, <2>4 DEF Inv, World
<1>4. Cached' = Cached /\ First' = First /\ Last' = Last
  BY SameBars
<1>5. Series'
  <2>1. ASSUME NEW s \in Cached PROVE \E r \in Cached : Today' - r <= MaxGap + 1
    <3>1. Last \in Cached /\ Last \in Nat
      BY CachedEnds
    <3>2. (time + 1) \div 3 - Last <= MaxGap
      BY <1>0
    <3> QED
      BY <1>1, <1>2, <3>1, <3>2, GivenNumbers
  <2>2. ASSUME NEW s \in Cached PROVE Today' - s <= Retention + Slack + 1
    <3>1. First \in Nat /\ First <= s /\ s \in Nat
      BY CachedEnds, SessionsAreDays DEF Cached
    <3>2. Today - First <= Retention + Slack
      OBVIOUS
    <3> QED
      BY <1>1, <1>2, <3>1, <3>2, GivenNumbers
  <2> QED
    BY <1>4, <2>1, <2>2 DEF Inv, Series
<1>6. ASSUME NEW k \in Jobs PROVE JobOK(k)'
  <2>1. job[k] # Idle => time' <= job[k].at + 3
    <3> SUFFICES ASSUME job[k] # Idle PROVE time' <= job[k].at + 3
      OBVIOUS
    <3>1. job[k].at \in Nat
      BY InFlight
    <3>2. time + 1 - job[k].at <= 3
      OBVIOUS
    <3> QED
      BY <1>1, <3>1, <3>2
  <2> QED
    BY <1>1, <2>1, Waits, TimeIs DEF Inv
<1> QED
  BY <1>3, <1>5, <1>6 DEF Inv

LEMMA WorldHolds ==
  ASSUME Inv, UNCHANGED <<interval, time, published, written>>,
         basis' \in 0 .. MaxBasis, plan' \in Plans
  PROVE  World'
<1>1. Today' = Today /\ Completed(time)' = Completed(time)
  BY DEF Today, Completed
<1> QED
  BY <1>1 DEF Inv, World

LEMMA SeriesHolds ==
  ASSUME Inv, UNCHANGED <<interval, time, bars>>, published' \in Nat, published <= published'
  PROVE  Series'
<1>1. Today' = Today /\ Cached' = Cached
  BY SameBars DEF Today
<1>2. ASSUME NEW s \in Cached PROVE s <= published'
  <2>1. s <= published /\ s \in Nat /\ published \in Nat
    BY SessionsAreDays, TimeIs DEF Inv, Series, Cached
  <2> QED
    BY <2>1
<1> QED
  BY <1>1, <1>2 DEF Inv, Series

LEMMA PublishHolds ==
  ASSUME Inv, Publish
  PROVE  Inv'
<1> USE DEF Publish
<1> DEFINE New == {s \in Trading : s > published}
<1>1. /\ time \in Nat /\ published \in Nat /\ Completed(time) \in Trading
      /\ Today \in Nat /\ Today - published <= MaxGap
  BY TimeIs, CompletedIs DEF Inv
<1>2. Completed(time) \in Nat /\ New \in SUBSET Nat
  BY <1>1, SessionsAreDays
<1>3. Completed(time) \in New
  BY <1>1, <1>2
<1>4. published' \in New /\ published' <= Completed(time)
  BY <1>2, <1>3, LeastDay
<1>5. published' \in Nat /\ published <= published' /\ published' \in Trading
  BY <1>1, <1>2, <1>4
<1>6. Today' = Today /\ Completed(time)' = Completed(time)
  BY DEF Today, Completed
<1>7. World'
  <2>1. Today - published' <= MaxGap
    BY <1>1, <1>5, GivenNumbers
  <2> QED
    BY <1>4, <1>5, <1>6, <2>1 DEF Inv, World
<1>8. Series'
  BY <1>5, SeriesHolds
<1>9. ASSUME NEW k \in Jobs PROVE JobOK(k)'
  <2>1. job[k] # Idle => time <= job[k].at + 3
    BY DEF Inv, JobOK
  <2> QED
    BY <1>1, <1>5, <2>1, Waits
<1> QED
  BY <1>7, <1>8, <1>9 DEF Inv

LEMMA OthersWait ==
  ASSUME Inv, UNCHANGED <<interval, time, published>>, NEW k \in Jobs, job'[k] = job[k]
  PROVE  JobOK(k)'
<1>1. time \in Nat /\ published \in Nat
  BY TimeIs DEF Inv
<1>2. job[k] # Idle => time <= job[k].at + 3
  BY DEF Inv, JobOK
<1> QED
  BY <1>1, <1>2, Waits

LEMMA FmpHolds ==
  ASSUME Inv, Restate \/ ChangePlan
  PROVE  Inv'
<1>1. UNCHANGED <<interval, time, published, written, bars, job>>
  BY DEF Restate, ChangePlan
<1>2. basis' \in 0 .. MaxBasis /\ plan' \in Plans
  <2>1. CASE Restate
    BY <2>1, GivenNumbers DEF Restate, Inv, World
  <2>2. CASE ChangePlan
    BY <2>2 DEF ChangePlan, Inv, World
  <2> QED
    BY <2>1, <2>2
<1>3. World' /\ Series'
  BY <1>1, <1>2, WorldHolds, SeriesHolds, TimeIs DEF Inv
<1>4. \A k \in Jobs : JobOK(k)'
  BY <1>1, OthersWait
<1> QED
  BY <1>1, <1>3, <1>4 DEF Inv

\* A job ends.
LEMMA UnservedHolds ==
  ASSUME Inv, NEW j \in Jobs, Unserved(j)
  PROVE  Inv'
<1> USE DEF Unserved
<1>1. World' /\ Series'
  BY WorldHolds, SeriesHolds, TimeIs DEF Inv, World
<1>2. job' \in [Jobs -> {Idle} \cup Question \cup Reply]
  BY DEF Inv
<1>3. ASSUME NEW k \in Jobs PROVE JobOK(k)'
  <2>1. CASE k = j
    <3>1. job'[k] = Idle
      BY <2>1 DEF Inv
    <3> QED
      BY <3>1 DEF JobOK
  <2>2. CASE k # j
    BY <2>2, OthersWait DEF Inv
  <2> QED
    BY <2>1, <2>2
<1> QED
  BY <1>1, <1>2, <1>3 DEF Inv

LEMMA PruneHolds ==
  ASSUME Inv, PruneOldBars
  PROVE  Inv'
<1> USE DEF PruneOldBars
<1>1. World'
  BY WorldHolds DEF Inv, World
<1>2. \A k \in Jobs : JobOK(k)'
  BY OthersWait
<1>3. Today \in Nat
  BY TimeIs DEF Inv
<1>4. Cached' = {s \in Cached : ~ (s < Today - Retention)}
  <2>1. \A s \in Trading : bars'[s] = IF s < Today - Retention THEN NoBar ELSE bars[s]
    OBVIOUS
  <2> QED
    BY <2>1 DEF Cached
<1>5. Series'
  <2>1. bars' \in [Trading -> Bar \cup {NoBar}]
    BY DEF Inv, Series
  <2>2. ASSUME NEW s \in Cached, ~ (s < Today - Retention)
        PROVE  \E r \in Cached : ~ (r < Today - Retention) /\ Today - r <= MaxGap + 1
    <3>1. PICK r \in Cached : Today - r <= MaxGap + 1
      BY DEF Inv, Series
    <3>2. Last \in Cached /\ Last \in Nat /\ r <= Last /\ s <= Last
      BY CachedEnds
    <3>3. r \in Nat /\ s \in Nat
      BY SessionsAreDays DEF Cached
    <3>4. ~ (Last < Today - Retention) /\ Today - Last <= MaxGap + 1
      BY <1>3, <2>2, <3>1, <3>2, <3>3, GivenNumbers
    <3> QED
      BY <3>2, <3>4
  <2>3. Today' = Today
    BY DEF Today
  <2> QED
    BY <1>4, <2>1, <2>2, <2>3 DEF Inv, Series
<1> QED
  BY <1>1, <1>2, <1>5 DEF Inv

-----------------------------------------------------------------------------
(* A fetch. *)

\* The width kept never exceeds the widest consumer's.
LEMMA WidthBound ==
  ASSUME Inv, Cached # {}
  PROVE  PreservedWidth \in Nat /\ PreservedWidth <= Max(Lookbacks)
<1> DEFINE span == Last - First + 1
           tiers == {d \in PeriodSteps : span >= d - Slack}
<1>1. /\ First \in Cached /\ Last \in Cached /\ First \in Nat /\ Last \in Nat /\ First <= Last
      /\ Last <= Today /\ Today \in Nat
  <2>1. First \in Cached /\ Last \in Cached /\ First \in Nat /\ Last \in Nat /\ First <= Last
    BY CachedEnds
  <2>2. Last <= published
    BY <2>1 DEF Inv, Series
  <2> QED
    BY <2>1, <2>2, TimeIs DEF Inv
<1>2. span \in Nat
  BY <1>1
<1>3. PICK m \in PeriodSteps : PeriodSteps \subseteq 0 .. m
  BY BarAssumption DEF PeriodSteps
<1>4. m \in Nat /\ PeriodSteps \subseteq Nat
  BY <1>3
<1>5. ASSUME NEW d \in tiers PROVE d <= Max(Lookbacks)
  <2>1. CASE interval = "1d"
    <3>1. Today - First <= Retention + Slack + 1
      BY <1>1, <2>1 DEF Inv, Series
    <3>2. d <= span + Slack /\ d \in Nat
      BY <1>2, <1>4, GivenNumbers
    <3>3. d <= Retention + 2 * Slack + 2
      BY <1>1, <3>1, <3>2, GivenNumbers
    <3>4. d <= Max(Lookbacks) \/ d > Retention + 2 * Slack + 2
      BY <2>1, RetentionAssumption DEF PeriodSteps
    <3> QED
      BY <3>2, <3>3, <3>4, GivenNumbers
  <2>2. CASE interval # "1d"
    BY <2>2, RetentionAssumption DEF PeriodSteps
  <2> QED
    BY <2>1, <2>2
<1>6. PreservedWidth = IF tiers = {} THEN span ELSE Max(tiers)
  BY DEF PreservedWidth
<1>7. CASE tiers = {}
  <2>1. PICK d \in PeriodSteps : d <= Max(Lookbacks)
    <3>1. CASE interval = "1d"
      BY <3>1, RetentionAssumption DEF PeriodSteps
    <3>2. CASE interval # "1d"
      BY <3>2, <1>3, RetentionAssumption DEF PeriodSteps
    <3> QED
      BY <3>1, <3>2
  <2>2. d \in Nat /\ ~ (span >= d - Slack)
    BY <1>4, <1>7
  <2>3. span <= Max(Lookbacks)
    BY <1>2, <2>1, <2>2, GivenNumbers
  <2> QED
    BY <1>2, <1>6, <1>7, <2>3
<1>8. CASE tiers # {}
  <2>1. tiers \in SUBSET (0 .. m)
    BY <1>3
  <2>2. Max(tiers) \in tiers
    BY <1>4, <1>8, <2>1, GreatestDay
  <2> QED
    BY <1>4, <1>5, <1>6, <1>8, <2>2
<1> QED
  BY <1>7, <1>8

\* What a job may go on to: the invariant from that of its new record.
LEMMA JobHolds ==
  ASSUME Inv, NEW j \in Jobs, NEW q \in {Idle} \cup Question \cup Reply,
         UNCHANGED <<interval, time, published, basis, plan, bars, written>>,
         job' = [job EXCEPT ![j] = q],
         JobOK(j)'
  PROVE  Inv'
<1>1. World' /\ Series'
  BY WorldHolds, SeriesHolds, TimeIs DEF Inv, World
<1>2. job' \in [Jobs -> {Idle} \cup Question \cup Reply]
  BY DEF Inv
<1>3. ASSUME NEW k \in Jobs, k # j PROVE JobOK(k)'
  BY <1>3, OthersWait DEF Inv
<1> QED
  BY <1>1, <1>2, <1>3 DEF Inv

LEMMA AskHolds ==
  ASSUME Inv, NEW j \in Jobs, NEW days \in Lookbacks, NEW force \in BOOLEAN, Ask(j, days, force)
  PROVE  Inv'
<1> DEFINE width == IF Cached = {} THEN days ELSE Max({days, PreservedWidth})
           full  == force \/ Cached = {} \/ Uncovered(width) \/ HoldsLegacy
           first == IF Cached = {} THEN NoDay ELSE First
           last  == IF Cached = {} THEN NoDay ELSE Last
           q     == [pc |-> "asked", at |-> time, width |-> width, full |-> full,
                     first |-> first, last |-> last]
<1>1. /\ job' = [job EXCEPT ![j] = q]
      /\ UNCHANGED <<interval, time, published, basis, plan, bars, written>>
  BY DEF Ask
<1>2. time \in Nat /\ Today \in Nat /\ published \in Nat /\ Today - published <= MaxGap
      /\ published <= Today /\ published \in Trading
  BY TimeIs DEF Inv, World
<1>3. width \in Nat /\ width <= Max(Lookbacks)
  <2>1. days \in Nat /\ days <= Max(Lookbacks)
    BY GreatestGiven
  <2>2. CASE Cached = {}
    BY <2>1, <2>2
  <2>3. CASE Cached # {}
    <3>1. PreservedWidth \in Nat /\ PreservedWidth <= Max(Lookbacks)
      BY <2>3, WidthBound
    <3>2. Max({days, PreservedWidth}) = IF days >= PreservedWidth THEN days ELSE PreservedWidth
      BY <2>1, <3>1, GreatestOfTwo
    <3> QED
      BY <2>1, <2>3, <3>1, <3>2
  <2> QED
    BY <2>2, <2>3
<1>4. first \in Days /\ last \in Days /\ full \in BOOLEAN
  <2>1. Cached # {} => First \in Trading /\ Last \in Trading
    BY CachedEnds DEF Cached
  <2>2. full \in BOOLEAN
    OBVIOUS
  <2> QED
    BY <2>1, <2>2 DEF Days
<1>5. last = NoDay => full
  <2>1. Cached # {} => last \in Nat
    BY CachedEnds
  <2> QED
    BY <2>1 DEF NoDay
<1>6. last # NoDay => Today - MaxGap - 1 <= last /\ last <= published
  <2> SUFFICES ASSUME Cached # {}
               PROVE  Today - MaxGap - 1 <= Last /\ Last <= published
    OBVIOUS
  <2>1. Last \in Cached /\ Last \in Nat /\ \A s \in Cached : s <= Last
    BY CachedEnds
  <2>2. PICK r \in Cached : Today - r <= MaxGap + 1
    BY <2>1 DEF Inv, Series
  <2>3. r \in Nat /\ r <= Last
    BY <2>1, SessionsAreDays DEF Cached
  <2>4. Last <= published
    BY <2>1 DEF Inv, Series
  <2> QED
    BY <1>2, <2>1, <2>2, <2>3, <2>4, GivenNumbers
<1>7. last \in Int
  BY <1>4, DaysAreNumbers
<1>8. q \in Question
  <2> HIDE DEF width, full, first, last
  <2> QED
    BY <1>2, <1>3, <1>4 DEF Question
<1>9. job'[j] = q
  BY <1>1 DEF Inv
<1>10. JobOK(j)'
  <2> HIDE DEF width, full, first, last
  <2>1. job'[j].at = time /\ job'[j].width = width /\ job'[j].full = full
        /\ job'[j].last = last /\ job'[j].pc = "asked"
    BY <1>9
  <2>2. AskedOn(j)' = Today
    BY <2>1 DEF AskedOn, Today
  <2>3. time' = time /\ published' = published
    BY <1>1
  <2>4. job'[j].last # NoDay => LastOK(j)'
    BY <1>2, <1>6, <1>7, <2>1, <2>2, <2>3 DEF LastOK
  <2>5. \E s \in Trading : Today - MaxGap <= s /\ s <= Today /\ s <= published
    BY <1>2, GivenNumbers
  <2>6. time <= time /\ time <= time + 3
    BY <1>2
  <2> QED
    BY <1>3, <1>5, <2>1, <2>2, <2>3, <2>4, <2>5, <2>6 DEF JobOK
<1> HIDE DEF q
<1> QED
  BY <1>1, <1>8, <1>10, JobHolds

LEMMA AskAgainHolds ==
  ASSUME Inv, NEW j \in Jobs, AskAgain(j)
  PROVE  Inv'
<1> DEFINE q == [job[j] EXCEPT !.full = TRUE]
<1>1. /\ job[j].pc = "asked"
      /\ job' = [job EXCEPT ![j] = q]
      /\ UNCHANGED <<interval, time, published, basis, plan, bars, written>>
  BY DEF AskAgain
<1>2. job[j] # Idle
  BY <1>1 DEF Idle
<1>3. job[j] \in Question /\ JobOK(j)
  BY <1>1, <1>2, InFlight
<1>4. q \in Question /\ q.at = job[j].at /\ q.width = job[j].width /\ q.last = job[j].last
      /\ q.pc = "asked" /\ q.full = TRUE
  BY <1>3 DEF Question
<1>5. job'[j] = q
  BY <1>1 DEF Inv
<1>6. JobOK(j)'
  <2> HIDE DEF q
  <2>1. AskedOn(j)' = AskedOn(j)
    BY <1>4, <1>5 DEF AskedOn
  <2>2. LastOK(j)' <=> LastOK(j)
    BY <1>1, <1>4, <1>5, <2>1 DEF LastOK
  <2> QED
    BY <1>1, <1>2, <1>3, <1>4, <1>5, <2>1, <2>2 DEF JobOK
<1> HIDE DEF q
<1> QED
  BY <1>1, <1>4, <1>6, JobHolds

\* The sessions of an answer.
LEMMA AnswerIs ==
  ASSUME Inv, NEW j \in Jobs, job[j] # Idle
  PROVE  Answer(j) = {s \in Trading : /\ From(j) <= s /\ Today - plan <= s
                                      /\ s <= published /\ s <= AskedOn(j)}
<1>1. /\ From(j) \in Int /\ Today \in Nat /\ plan \in Nat /\ published \in Nat /\ AskedOn(j) \in Nat
  BY FromIsDay, InFlight, TimeIs, GivenNumbers DEF Inv, World
<1>2. Max({From(j), Today - plan}) = IF From(j) >= Today - plan THEN From(j) ELSE Today - plan
  BY <1>1, GreatestOfTwo
<1>3. Min({published, AskedOn(j)}) = IF published <= AskedOn(j) THEN published ELSE AskedOn(j)
  BY <1>1, LeastOfTwo
<1>4. ASSUME NEW s \in Trading
      PROVE  /\ s >= Max({From(j), Today - plan}) <=> From(j) <= s /\ Today - plan <= s
             /\ s <= Min({published, AskedOn(j)}) <=> s <= published /\ s <= AskedOn(j)
  <2>1. s \in Nat
    BY SessionsAreDays
  <2> QED
    BY <1>1, <1>2, <1>3, <2>1
<1> QED
  BY <1>4, Zenon DEF Answer, AskedOn

\* An answer reaches to the newest sessions, and back to the overlap.
LEMMA AnswerSpans ==
  ASSUME Inv, NEW j \in Jobs, job[j] # Idle, Answer(j) # {}
  PROVE  /\ \E s \in Answer(j) : AskedOn(j) - MaxGap <= s
         /\ Convex(Answer(j))
         /\ \A s \in Trading : From(j) <= s /\ job[j].last - Overlap <= s /\ s <= job[j].last
               => s \in Answer(j)
<1>1. /\ From(j) \in Int /\ Today \in Nat /\ plan \in Nat /\ published \in Nat /\ AskedOn(j) \in Nat
      /\ AskedOn(j) <= Today /\ Today <= AskedOn(j) + 1 /\ JobOK(j)
      /\ job[j].last \in Days /\ plan \in Plans
  BY FromIsDay, InFlight, TimeIs, GivenNumbers DEF Inv, World
<1>2. \A s \in Trading : s \in Answer(j) <=> /\ From(j) <= s /\ Today - plan <= s
                                             /\ s <= published /\ s <= AskedOn(j)
  BY AnswerIs
<1>3. Answer(j) \subseteq Trading /\ \A s \in Trading : s \in Nat
  BY SessionsAreDays DEF Answer
<1>4. \E s \in Answer(j) : AskedOn(j) - MaxGap <= s
  <2>1. PICK r \in Answer(j) : TRUE
    OBVIOUS
  <2>2. PICK s \in Trading : AskedOn(j) - MaxGap <= s /\ s <= AskedOn(j) /\ s <= published
    BY <1>1 DEF JobOK
  <2>3. CASE s \in Answer(j)
    BY <2>2, <2>3
  <2>4. CASE s \notin Answer(j)
    <3>1. r \in Nat /\ s \in Nat /\ From(j) <= r /\ Today - plan <= r
      BY <1>2, <1>3, <2>2
    <3>2. ~ (From(j) <= s /\ Today - plan <= s)
      BY <1>2, <2>2, <2>4
    <3>3. s < r
      BY <1>1, <3>1, <3>2
    <3> QED
      BY <1>1, <2>2, <3>1, <3>3, GivenNumbers
  <2> QED
    BY <2>3, <2>4
<1>5. ASSUME NEW a \in Answer(j), NEW b \in Answer(j), NEW s \in Trading, a <= s, s <= b
      PROVE  s \in Answer(j)
  <2>1. a \in Nat /\ b \in Nat /\ s \in Nat
    BY <1>3
  <2>2. From(j) <= a /\ Today - plan <= a /\ b <= published /\ b <= AskedOn(j)
    BY <1>2, <1>3
  <2>3. From(j) <= s /\ Today - plan <= s /\ s <= published /\ s <= AskedOn(j)
    BY <1>1, <1>5, <2>1, <2>2
  <2> QED
    BY <1>2, <2>3
<1>6. ASSUME NEW s \in Trading, From(j) <= s, job[j].last - Overlap <= s, s <= job[j].last
      PROVE  s \in Answer(j)
  <2>1. s \in Nat /\ job[j].last \in Int
    BY <1>1, <1>3, DaysAreNumbers
  <2>2. job[j].last # NoDay
    BY <1>6, <2>1 DEF NoDay
  <2>3. AskedOn(j) - MaxGap - 1 <= job[j].last /\ job[j].last <= AskedOn(j) /\ job[j].last <= published
    BY <1>1, <2>2 DEF JobOK, LastOK
  <2>4. plan > MaxGap + Overlap + 1
    BY <1>1, OverlapAssumption
  <2>5. Today - plan <= s /\ s <= published /\ s <= AskedOn(j)
    BY <1>1, <1>6, <2>1, <2>3, <2>4, GivenNumbers
  <2> QED
    BY <1>2, <1>6, <2>5
<1> QED
  BY <1>4, <1>5, <1>6 DEF Convex

LEMMA ReceiveHolds ==
  ASSUME Inv, NEW j \in Jobs, Receive(j)
  PROVE  /\ Inv'
         /\ job'[j].pc = "answered" /\ DOMAIN job'[j].frame = Answer(j)
         /\ \A s \in Answer(j) : job'[j].frame[s].basis = basis
<1> DEFINE frame == [s \in Answer(j) |-> [basis |-> basis, final |-> SettledOf(s) <= time]]
           q == [pc |-> "answered", at |-> job[j].at, width |-> job[j].width, full |-> job[j].full,
                 first |-> job[j].first, last |-> job[j].last, frame |-> frame]
<1>1. /\ job[j].pc = "asked" /\ Answer(j) # {}
      /\ job' = [job EXCEPT ![j] = q]
      /\ UNCHANGED <<interval, time, published, basis, plan, bars, written>>
  BY DEF Receive
<1>2. job[j] # Idle
  BY <1>1 DEF Idle
<1>3. job[j] \in Question /\ JobOK(j)
  BY <1>1, <1>2, InFlight
<1>4. frame \in [Answer(j) -> Bar]
  <2>1. basis \in 0 .. Legacy
    BY GivenNumbers DEF Inv, World, Legacy
  <2> QED
    BY <2>1 DEF Bar
<1>5. frame \in Frames
  <2>1. Answer(j) \in SUBSET Trading
    BY DEF Answer
  <2> QED
    BY <1>4, <2>1 DEF Frames
<1>6. DOMAIN frame = Answer(j) /\ \A s \in Answer(j) : frame[s].basis = basis
  OBVIOUS
<1> HIDE DEF frame
<1>7. q \in Reply /\ q.at = job[j].at /\ q.width = job[j].width /\ q.full = job[j].full
      /\ q.first = job[j].first /\ q.last = job[j].last /\ q.pc = "answered" /\ q.frame = frame
  BY <1>3, <1>5 DEF Question, Reply
<1> HIDE DEF q
<1>8. job'[j] = q
  BY <1>1 DEF Inv
<1>9. FrameOK(j)'
  <2>0. /\ job'[j].at = job[j].at /\ job'[j].width = job[j].width /\ job'[j].full = job[j].full
        /\ job'[j].first = job[j].first /\ job'[j].last = job[j].last /\ interval' = interval
    BY <1>1, <1>7, <1>8
  <2>1. AskedOn(j)' = AskedOn(j) /\ From(j)' = From(j)
    BY <2>0 DEF AskedOn, From
  <2>2. \A s \in Answer(j) : From(j) <= s /\ s <= AskedOn(j) /\ s <= published
    BY <1>2, AnswerIs
  <2>3. /\ \E s \in Answer(j) : AskedOn(j) - MaxGap <= s
        /\ Convex(Answer(j))
        /\ \A s \in Trading : From(j) <= s /\ job[j].last - Overlap <= s /\ s <= job[j].last
              => s \in Answer(j)
    BY <1>1, <1>2, AnswerSpans
  <2>4. \A a, b \in Answer(j) : frame[a].basis = frame[b].basis
    BY <1>6
  <2>5. job'[j].frame = frame /\ job'[j].last = job[j].last /\ published' = published
    BY <1>1, <1>7, <1>8
  <2> QED
    BY <1>6, <2>1, <2>2, <2>3, <2>4, <2>5 DEF FrameOK, Convex
<1>10. JobOK(j)'
  <2>1. AskedOn(j)' = AskedOn(j)
    BY <1>7, <1>8 DEF AskedOn
  <2>2. LastOK(j)' <=> LastOK(j)
    BY <1>1, <1>7, <1>8, <2>1 DEF LastOK
  <2> QED
    BY <1>1, <1>2, <1>3, <1>7, <1>8, <1>9, <2>1, <2>2 DEF JobOK
<1>11. Inv'
  BY <1>1, <1>7, <1>10, JobHolds
<1> QED
  BY <1>6, <1>7, <1>8, <1>11

\* What a write leaves: its answer, and the older bars it keeps.
Kept(j) == IF job[j].full /\ ~ ShorterAnswerKeepsHistory(j) THEN {} ELSE Cached

LEMMA WriteLeaves ==
  ASSUME Inv, NEW j \in Jobs, Write(j)
  PROVE  /\ job[j] # Idle /\ job[j].pc = "answered" /\ job[j] \in Reply /\ FrameOK(j)
         /\ job[j].frame \in [DOMAIN job[j].frame -> Bar] /\ DOMAIN job[j].frame \in SUBSET Trading
         /\ Kept(j) \subseteq Cached
         /\ Cached' = DOMAIN job[j].frame \cup Kept(j)
         /\ \A s \in DOMAIN job[j].frame : bars'[s] = job[j].frame[s]
         /\ \A s \in Cached \ DOMAIN job[j].frame : s \in Cached' => s \in Kept(j) /\ bars'[s] = bars[s]
         /\ bars' \in [Trading -> Bar \cup {NoBar}]
<1> DEFINE frame == job[j].frame
           D == DOMAIN frame
<1>1. job[j].pc = "answered" /\ job[j] # Idle
  BY DEF Write, Idle
<1>2. job[j] \in Reply /\ FrameOK(j)
  BY <1>1, InFlight DEF JobOK
<1>3. frame \in Frames
  BY <1>2 DEF Reply
<1>4. frame \in [D -> Bar] /\ D \in SUBSET Trading
  BY <1>3 DEF Frames
<1>5. Kept(j) \subseteq Cached
  BY DEF Kept
<1>6. bars' = [s \in Trading |-> IF s \in D THEN frame[s] ELSE IF s \in Kept(j) THEN bars[s] ELSE NoBar]
  BY DEF Write, Kept
<1> HIDE DEF D, frame
<1>7. \A s \in D : frame[s] \in Bar /\ bars'[s] = frame[s]
  BY <1>4, <1>6
<1>8. \A b \in Bar : b # NoBar
  BY GivenNumbers DEF Bar, NoBar
<1>9. \A s \in Trading : s \in D \/ bars'[s] = IF s \in Kept(j) THEN bars[s] ELSE NoBar
  BY <1>6
<1>10. Cached' = D \cup Kept(j)
  BY <1>4, <1>5, <1>7, <1>8, <1>9 DEF Cached
<1>11. \A s \in Cached \ D : s \in Cached' => s \in Kept(j) /\ bars'[s] = bars[s]
  BY <1>9, <1>10 DEF Cached
<1>12. bars' \in [Trading -> Bar \cup {NoBar}]
  BY <1>4, <1>6 DEF Inv, Series
<1> QED
  BY <1>1, <1>2, <1>4, <1>5, <1>7, <1>10, <1>11, <1>12 DEF D, frame

LEMMA WriteHolds ==
  ASSUME Inv, NEW j \in Jobs, Write(j)
  PROVE  Inv'
<1> DEFINE D == DOMAIN job[j].frame
<1>1. /\ job' = [job EXCEPT ![j] = Idle]
      /\ UNCHANGED <<interval, time, published, basis, plan>>
      /\ written' = Max({written, job[j].at})
  BY DEF Write
<1>2. /\ job[j] # Idle /\ FrameOK(j) /\ D \in SUBSET Trading
      /\ Kept(j) \subseteq Cached /\ Cached' = D \cup Kept(j)
      /\ bars' \in [Trading -> Bar \cup {NoBar}]
  BY WriteLeaves
<1>3. /\ job[j].at \in Nat /\ job[j].width \in Nat /\ job[j].last \in Days /\ job[j].full \in BOOLEAN
      /\ AskedOn(j) \in Nat /\ AskedOn(j) <= Today /\ Today <= AskedOn(j) + 1
      /\ JobOK(j) /\ Today \in Nat /\ time \in Nat /\ published \in Nat
  BY <1>2, InFlight, TimeIs DEF Inv
<1>4. /\ \A s \in D : From(j) <= s /\ s <= published /\ s \in Nat
      /\ \E s \in D : AskedOn(j) - MaxGap <= s
  BY <1>2, SessionsAreDays DEF FrameOK
<1>5. World'
  <2>1. job[j].at <= time /\ written \in Nat /\ written <= time
    BY <1>2, <1>3 DEF JobOK, Inv, World
  <2>2. written' = IF written >= job[j].at THEN written ELSE job[j].at
    BY <1>1, <1>3, <2>1, GreatestOfTwo
  <2>3. written' \in 0 .. time
    BY <1>3, <2>1, <2>2
  <2>4. Today' = Today /\ Completed(time)' = Completed(time)
    BY <1>1 DEF Today, Completed
  <2> QED
    BY <1>1, <2>3, <2>4 DEF Inv, World
<1>6. Series'
  <2>1. ASSUME NEW s \in D \cup Kept(j) PROVE s <= published
    BY <1>2, <1>4 DEF Inv, Series
  <2>2. \E r \in D \cup Kept(j) : Today - r <= MaxGap + 1
    <3>1. PICK r \in D : AskedOn(j) - MaxGap <= r
      BY <1>4
    <3>2. r \in Nat
      BY <1>4
    <3> QED
      BY <1>3, <3>1, <3>2, GivenNumbers
  <2>3. ASSUME interval = "1d", NEW s \in D PROVE Today - s <= Retention + Slack + 1
    <3>1. s \in Nat /\ From(j) <= s /\ From(j) \in Int
      BY <1>2, <1>4, FromIsDay
    <3>2. CASE job[j].full
      <4>1. From(j) = AskedOn(j) - job[j].width /\ job[j].width <= Max(Lookbacks)
        BY <1>2, <1>3, <2>3, <3>2, FromIsDay DEF JobOK
      <4>2. Max(Lookbacks) <= Retention + Slack
        BY RetentionAssumption
      <4> QED
        BY <1>3, <3>1, <4>1, <4>2, GivenNumbers
    <3>3. CASE ~ job[j].full
      <4>1. From(j) = job[j].last - Overlap /\ job[j].last # NoDay
        BY <1>2, <3>3, FromIsDay
      <4>2. AskedOn(j) - MaxGap - 1 <= job[j].last
        BY <1>2, <1>3, <4>1 DEF JobOK, LastOK
      <4>3. job[j].last \in Int
        BY <1>3, DaysAreNumbers
      <4>4. MaxGap + Overlap < Retention + Slack
        BY RetentionAssumption
      <4> QED
        BY <1>3, <3>1, <4>1, <4>2, <4>3, <4>4, GivenNumbers
    <3> QED
      BY <1>3, <3>2, <3>3
  <2>4. interval = "1d" => \A s \in D \cup Kept(j) : Today - s <= Retention + Slack + 1
    BY <1>2, <2>3 DEF Inv, Series
  <2>5. Today' = Today
    BY <1>1 DEF Today
  <2> QED
    BY <1>1, <1>2, <2>1, <2>2, <2>4, <2>5 DEF Series
<1>7. job' \in [Jobs -> {Idle} \cup Question \cup Reply]
  BY <1>1 DEF Inv
<1>8. ASSUME NEW k \in Jobs PROVE JobOK(k)'
  <2>1. CASE k = j
    <3>1. job'[k] = Idle
      BY <1>1, <2>1 DEF Inv
    <3> QED
      BY <3>1 DEF JobOK
  <2>2. CASE k # j
    BY <1>1, <2>2, OthersWait DEF Inv
  <2> QED
    BY <2>1, <2>2
<1> QED
  BY <1>5, <1>6, <1>7, <1>8 DEF Inv

-----------------------------------------------------------------------------
(* The types and the width of the fetches. *)

LEMMA Stutters ==
  ASSUME Inv, UNCHANGED vars
  PROVE  Inv'
<1>1. World' /\ Series'
  BY WorldHolds, SeriesHolds, TimeIs DEF Inv, World, vars
<1>2. \A k \in Jobs : JobOK(k)'
  BY OthersWait DEF vars
<1> QED
  BY <1>1, <1>2 DEF Inv, vars

LEMMA StepHolds ==
  ASSUME Inv, [Next]_vars
  PROVE  Inv'
<1>1. CASE Tick
  BY <1>1, TickHolds
<1>2. CASE Publish
  BY <1>2, PublishHolds
<1>3. CASE Restate \/ ChangePlan
  BY <1>3, FmpHolds
<1>4. CASE PruneOldBars
  BY <1>4, PruneHolds
<1>5. ASSUME NEW j \in Jobs, AskFor(j) PROVE Inv'
  BY <1>5, AskHolds DEF AskFor
<1>6. ASSUME NEW j \in Jobs, AskAgain(j) PROVE Inv'
  BY <1>6, AskAgainHolds
<1>7. ASSUME NEW j \in Jobs, Receive(j) PROVE Inv'
  BY <1>7, ReceiveHolds
<1>8. ASSUME NEW j \in Jobs, Unserved(j) PROVE Inv'
  BY <1>8, UnservedHolds
<1>9. ASSUME NEW j \in Jobs, Write(j) PROVE Inv'
  BY <1>9, WriteHolds
<1>10. CASE UNCHANGED vars
  BY <1>10, Stutters
<1> QED
  BY <1>1, <1>2, <1>3, <1>4, <1>5, <1>6, <1>7, <1>8, <1>9, <1>10 DEF Next

LEMMA InvariantHolds == Spec => []Inv
<1>1. Init => Inv
  BY InitHolds
<1>2. Inv /\ [Next]_vars => Inv'
  BY StepHolds
<1> QED
  BY <1>1, <1>2, PTL DEF Spec

\* The types: FMP serves no session that is not over, and the cache holds none FMP
\* has not served; no write is stamped in the future.
THEOREM TypeCorrect == Spec => []TypeOK
<1>1. Inv => TypeOK
  <2> SUFFICES ASSUME Inv PROVE TypeOK
    OBVIOUS
  <2>1. ASSUME NEW s \in Trading
        PROVE  bars[s] = NoBar \/ (bars[s].basis \in 0 .. Legacy /\ s <= published)
    BY DEF Inv, Series, Cached, Bar
  <2>2. \A j \in Jobs : job[j] = Idle \/ job[j].pc \in {"asked", "answered"}
    BY InFlight
  <2> QED
    BY <2>1, <2>2 DEF Inv, World, TypeOK
<1> QED
  BY <1>1, InvariantHolds, PTL

\* However long the cache lives and however the jobs and the prune meet, no fetch is
\* wider than the widest consumer's: the width preserved from what is stored is snapped
\* down to a tier (_preserved_period_days), and what is stored beyond the widest window
\* stays below the next one.
THEOREM FetchesStayNarrow == Spec => []NoRatchet
<1>1. Inv => NoRatchet
  BY DEF Inv, JobOK, NoRatchet
<1> QED
  BY <1>1, InvariantHolds, PTL

-----------------------------------------------------------------------------
(* One price basis, for fetches that do not overlap: two that do may splice the series,
   when an answer on the old basis lands between another job's whole series on the new
   one and its next increment. *)

NoOverlap == \A i, j \in Jobs : job[i] # Idle /\ job[j] # Idle => i = j

\* The series has no gap and is on one basis, nobody has added to it since the job read
\* it, and an incremental answer is on the basis of all it does not replace.
JobSees(j) ==
    job[j] # Idle =>
       /\ job[j].first = NoDay => job[j].last = NoDay
       /\ \A s \in Cached : job[j].first <= s /\ s <= job[j].last
       /\ Cached # {} => job[j].last \in Cached
       /\ job[j].pc = "answered" /\ ~ job[j].full =>
             \A s \in Cached : s < job[j].last =>
                \A d \in DOMAIN job[j].frame : bars[s].basis = job[j].frame[d].basis

OneSeries ==
    /\ Convex(Cached)
    /\ \A a, b \in Cached : bars[a].basis = bars[b].basis
    /\ \A j \in Jobs : JobSees(j)

LEMMA SeriesUntouched ==
  ASSUME Inv, OneSeries, UNCHANGED bars, \A j \in Jobs : JobSees(j)'
  PROVE  OneSeries'
<1>1. Cached' = Cached
  BY SameBars
<1> QED
  BY <1>1 DEF OneSeries, Convex

LEMMA JobUntouched ==
  ASSUME OneSeries, UNCHANGED bars, NEW j \in Jobs, job'[j] = job[j]
  PROVE  JobSees(j)'
<1>1. Cached' = Cached
  BY SameBars
<1> QED
  BY <1>1 DEF OneSeries, JobSees

LEMMA SeriesBegins ==
  ASSUME Init
  PROVE  OneSeries
<1>1. PICK held \in {{}, {s \in Trading : s < FirstDay}} :
         /\ held = {} \/ interval = "60m"
         /\ bars = [s \in Trading |-> IF s \in held THEN [basis |-> Legacy, final |-> TRUE] ELSE NoBar]
  BY DEF Init
<1>2. Cached = held /\ \A s \in Cached : bars[s].basis = Legacy
  <2>1. held \subseteq Trading
    OBVIOUS
  <2>2. \A s \in held : bars[s] = [basis |-> Legacy, final |-> TRUE]
    BY <1>1, <2>1
  <2>3. [basis |-> Legacy, final |-> TRUE] # NoBar
    BY GivenNumbers DEF NoBar
  <2>4. \A s \in Trading : bars[s] # NoBar <=> s \in held
    BY <1>1, <2>2, <2>3
  <2> QED
    BY <2>1, <2>2, <2>4 DEF Cached
<1>3. Convex(Cached)
  <2>1. ASSUME NEW a \in held, NEW b \in held, NEW s \in Trading, a <= s, s <= b PROVE s \in held
    <3>1. held = {x \in Trading : x < FirstDay}
      BY <2>1
    <3>2. s \in Nat /\ b \in Nat /\ b < FirstDay
      BY <3>1, SessionsAreDays
    <3>3. s < FirstDay
      BY <2>1, <3>2, GivenNumbers
    <3> QED
      BY <3>1, <3>3
  <2> QED
    BY <1>2, <2>1 DEF Convex
<1>4. \A j \in Jobs : JobSees(j)
  BY DEF Init, JobSees
<1> QED
  BY <1>2, <1>3, <1>4 DEF OneSeries

LEMMA SeriesPruned ==
  ASSUME Inv, OneSeries, PruneOldBars
  PROVE  OneSeries'
<1> DEFINE cut == Today - Retention
<1>1. bars' = [s \in Trading |-> IF s < cut THEN NoBar ELSE bars[s]] /\ UNCHANGED job
  BY DEF PruneOldBars
<1>2. Today \in Nat /\ cut \in Int
  BY TimeIs, GivenNumbers DEF Inv
<1> HIDE DEF cut
<1>3. Cached' = {s \in Cached : ~ (s < cut)} /\ \A s \in Cached' : bars'[s] = bars[s]
  <2>1. \A s \in Trading : bars'[s] = IF s < cut THEN NoBar ELSE bars[s]
    BY <1>1
  <2> QED
    BY <2>1 DEF Cached
<1>4. Convex(Cached)'
  <2>1. ASSUME NEW a \in Cached', NEW b \in Cached', NEW s \in Trading, a <= s, s <= b
        PROVE  s \in Cached'
    <3>1. s \in Cached
      BY <1>3, <2>1 DEF OneSeries, Convex
    <3>2. a \in Nat /\ s \in Nat /\ ~ (a < cut)
      BY <1>3, SessionsAreDays DEF Cached
    <3> QED
      BY <1>2, <1>3, <2>1, <3>1, <3>2
  <2> QED
    BY <2>1 DEF Convex
<1>5. ASSUME NEW j \in Jobs PROVE JobSees(j)'
  <2> SUFFICES ASSUME job[j] # Idle PROVE JobSees(j)'
    BY <1>1 DEF JobSees
  <2>1. JobSees(j)
    BY DEF OneSeries
  <2>2. Cached' # {} => job[j].last \in Cached'
    <3> SUFFICES ASSUME NEW s \in Cached' PROVE job[j].last \in Cached'
      OBVIOUS
    <3>1. s \in Cached /\ ~ (s < cut)
      BY <1>3
    <3>2. job[j].last \in Cached /\ s <= job[j].last
      BY <2>1, <3>1 DEF JobSees
    <3>3. job[j].last \in Nat /\ s \in Nat
      BY <3>1, <3>2, SessionsAreDays DEF Cached
    <3>4. ~ (job[j].last < cut)
      BY <1>2, <3>1, <3>2, <3>3
    <3> QED
      BY <1>3, <3>2, <3>4
  <2> QED
    BY <1>1, <1>3, <2>1, <2>2 DEF JobSees
<1> QED
  BY <1>3, <1>4, <1>5 DEF OneSeries

\* A job begins: what it sees is what is there.
LEMMA SeriesAsked ==
  ASSUME Inv, OneSeries, NEW j \in Jobs, NEW days \in Lookbacks, NEW force \in BOOLEAN,
         Ask(j, days, force)
  PROVE  OneSeries'
<1>1. PICK width, full :
        /\ job' = [job EXCEPT ![j] = [pc |-> "asked", at |-> time, width |-> width, full |-> full,
                    first |-> IF Cached = {} THEN NoDay ELSE First,
                    last |-> IF Cached = {} THEN NoDay ELSE Last]]
        /\ UNCHANGED bars
  BY DEF Ask
<1>2. Cached' = Cached
  BY <1>1, SameBars
<1>3. /\ job'[j].first = IF Cached = {} THEN NoDay ELSE First
      /\ job'[j].last = IF Cached = {} THEN NoDay ELSE Last
      /\ job'[j].pc = "asked"
  BY <1>1 DEF Inv
<1>4. JobSees(j)'
  <2>1. CASE Cached = {}
    BY <1>2, <1>3, <2>1 DEF JobSees
  <2>2. CASE Cached # {}
    <3>1. First \in Nat /\ Last \in Cached /\ \A s \in Cached : First <= s /\ s <= Last
      BY <2>2, CachedEnds
    <3>2. First # NoDay
      BY <3>1 DEF NoDay
    <3> QED
      BY <1>2, <1>3, <2>2, <3>1, <3>2 DEF JobSees
  <2> QED
    BY <2>1, <2>2
<1>5. ASSUME NEW k \in Jobs, k # j PROVE JobSees(k)'
  BY <1>1, <1>5, JobUntouched DEF Inv
<1> QED
  BY <1>1, <1>4, <1>5, SeriesUntouched

LEMMA SeriesAskedAgain ==
  ASSUME Inv, OneSeries, NEW j \in Jobs, AskAgain(j)
  PROVE  OneSeries'
<1> DEFINE q == [job[j] EXCEPT !.full = TRUE]
<1>1. job[j].pc = "asked" /\ job' = [job EXCEPT ![j] = q] /\ UNCHANGED bars
  BY DEF AskAgain
<1>2. job[j] # Idle /\ job[j] \in Question
  BY <1>1, InFlight DEF Idle
<1>3. q.first = job[j].first /\ q.last = job[j].last /\ q.pc = "asked"
  BY <1>1, <1>2 DEF Question
<1> HIDE DEF q
<1>4. job'[j] = q
  BY <1>1 DEF Inv
<1>5. Cached' = Cached
  BY <1>1, SameBars
<1>6. JobSees(j)'
  BY <1>1, <1>2, <1>3, <1>4, <1>5 DEF OneSeries, JobSees
<1>7. ASSUME NEW k \in Jobs, k # j PROVE JobSees(k)'
  BY <1>1, <1>7, JobUntouched DEF Inv
<1> QED
  BY <1>1, <1>6, <1>7, SeriesUntouched

LEMMA SeriesUnserved ==
  ASSUME Inv, OneSeries, NEW j \in Jobs, Unserved(j)
  PROVE  OneSeries'
<1>1. job' = [job EXCEPT ![j] = Idle] /\ UNCHANGED bars
  BY DEF Unserved
<1>2. JobSees(j)'
  BY <1>1 DEF JobSees, Inv
<1>3. ASSUME NEW k \in Jobs, k # j PROVE JobSees(k)'
  BY <1>1, <1>3, JobUntouched DEF Inv
<1> QED
  BY <1>1, <1>2, <1>3, SeriesUntouched

\* An incremental answer that agrees with the cache where they overlap is on the basis
\* of all of it: the overlap holds a session before the newest, if the cache does.
LEMMA OverlapTells ==
  ASSUME Inv, OneSeries, NEW j \in Jobs, job[j] # Idle, ~ job[j].full, ~ Restated(j),
         NEW s \in Cached, s < job[j].last
  PROVE  bars[s].basis = basis
<1>1. JobSees(j)
  BY DEF OneSeries
<1> DEFINE last == job[j].last
<1>2. last \in Cached /\ last \in Trading /\ last \in Nat /\ s \in Trading /\ s \in Nat
  BY <1>1, SessionsAreDays DEF JobSees, Cached
<1>3. last # NoDay
  BY <1>2 DEF NoDay
<1>4. /\ AskedOn(j) \in Nat /\ AskedOn(j) <= Today /\ Today <= AskedOn(j) + 1 /\ Today \in Nat
      /\ LastOK(j) /\ From(j) = last - Overlap /\ plan \in Nat /\ plan > MaxGap + Overlap + 1
      /\ published \in Nat
  <2>1. JobOK(j)
    BY InFlight
  <2>2. LastOK(j)
    BY <1>3, <2>1 DEF JobOK
  <2>3. plan \in Plans
    BY DEF Inv, World
  <2>4. plan \in Nat /\ plan > MaxGap + Overlap + 1
    BY <2>3, GivenNumbers, OverlapAssumption
  <2> QED
    BY <2>2, <2>4, InFlight, TimeIs, FromIsDay DEF Inv
<1> HIDE DEF last
<1>5. PICK r \in Sessions : last - Overlap <= r /\ r < last
  <2>1. last \in Sessions \ {0}
    BY <1>2 DEF Trading, last
  <2> QED
    BY <2>1, OverlapAssumption
<1>6. r \in Trading /\ r \in Nat
  <2>1. r \in Nat
    BY BarAssumption
  <2>2. last <= MaxDay /\ MaxDay \in Nat
    BY <1>2, SessionsAreDays
  <2>3. r <= MaxDay
    BY <1>2, <1>5, <2>1, <2>2
  <2> QED
    BY <2>1, <2>2, <2>3 DEF Trading
<1>7. \E x \in Cached : x < last /\ last - Overlap <= x
  <2>1. CASE r < s
    BY <1>2, <1>5, <1>6, <2>1, GivenNumbers DEF last
  <2>2. CASE s <= r
    <3>1. r \in Cached
      BY <1>2, <1>5, <1>6, <2>2 DEF OneSeries, Convex
    <3> QED
      BY <1>5, <3>1
  <2> QED
    BY <1>2, <1>6, <2>1, <2>2
<1>8. PICK x \in Cached : x < last /\ last - Overlap <= x
  BY <1>7
<1>9. x \in Trading /\ x \in Nat /\ x <= published
  BY SessionsAreDays DEF Cached, Inv, Series
<1>10. Today - plan <= x /\ x <= AskedOn(j)
  BY <1>2, <1>4, <1>8, <1>9, GivenNumbers DEF LastOK, last
<1>11. x \in Answer(j)
  BY <1>4, <1>8, <1>9, <1>10, AnswerIs
<1>12. x \in Since(last - Overlap)
  BY <1>8, <1>9, <1>2, GivenNumbers DEF Since
<1>13. bars[x].basis = basis
  BY <1>8, <1>11, <1>12 DEF Restated, last
<1> QED
  BY <1>13 DEF OneSeries

LEMMA SeriesReceived ==
  ASSUME Inv, OneSeries, NEW j \in Jobs, Receive(j)
  PROVE  OneSeries'
<1>1. /\ job[j].pc = "asked" /\ job[j] # Idle /\ job[j] \in Question
      /\ job[j].full \/ ~ Restated(j)
      /\ UNCHANGED bars /\ Cached' = Cached
  BY InFlight, SameBars DEF Receive, Idle
<1>2. /\ job'[j].pc = "answered" /\ DOMAIN job'[j].frame = Answer(j)
      /\ \A s \in Answer(j) : job'[j].frame[s].basis = basis
  BY ReceiveHolds
<1>3. job'[j].full = job[j].full /\ job'[j].first = job[j].first /\ job'[j].last = job[j].last
  BY DEF Receive, Inv
<1>4. JobSees(j)'
  <2>1. JobSees(j)
    BY DEF OneSeries
  <2>2. ASSUME ~ job[j].full, NEW s \in Cached, s < job[j].last, NEW d \in DOMAIN job'[j].frame
        PROVE  bars[s].basis = job'[j].frame[d].basis
    <3>1. bars[s].basis = basis
      BY <1>1, <2>2, OverlapTells
    <3> QED
      BY <1>2, <2>2, <3>1
  <2> QED
    BY <1>1, <1>2, <1>3, <2>1, <2>2 DEF JobSees
<1>5. ASSUME NEW k \in Jobs, k # j PROVE JobSees(k)'
  <2>1. job'[k] = job[k]
    BY <1>5 DEF Receive, Inv
  <2> QED
    BY <1>1, <2>1, JobUntouched
<1> QED
  BY <1>1, <1>4, <1>5, SeriesUntouched

\* A shorter answer that is kept next to the older bars reaches into them, far enough
\* for the comparison to have seen one.
LEMMA ShorterJoins ==
  ASSUME Inv, OneSeries, NEW j \in Jobs, Write(j), job[j].full, ShorterAnswerKeepsHistory(j)
  PROVE  /\ job[j].last \in DOMAIN job[j].frame
         /\ \A s \in Cached, d \in DOMAIN job[j].frame : bars[s].basis = job[j].frame[d].basis
<1> DEFINE frame == job[j].frame
           D == DOMAIN frame
           start == Min(D)
           asked == AskedOn(j) - job[j].width
           requestedFrom == IF interval = "60m" THEN Min({asked, First}) ELSE asked
           last == job[j].last
<1>1. /\ job[j] # Idle /\ FrameOK(j) /\ D \in SUBSET Trading
  BY WriteLeaves
<1>2. /\ Cached # {} /\ start > First + Slack /\ start > requestedFrom + Slack
      /\ \A s \in D \cap Cached : s < Last => bars[s].basis = frame[s].basis
  BY DEF ShorterAnswerKeepsHistory, AskedOn
<1>3. JobSees(j)
  BY DEF OneSeries
<1>4. /\ First \in Nat /\ First \in Cached /\ Last \in Cached /\ Last \in Nat
      /\ last \in Cached /\ last \in Trading /\ last \in Nat /\ Last = last
      /\ job[j].first # NoDay /\ job[j].first <= First /\ job[j].first \in Int
  <2>1. /\ First \in Nat /\ First \in Cached /\ Last \in Cached /\ Last \in Nat
        /\ \A s \in Cached : s <= Last
    BY <1>2, CachedEnds
  <2>2. last \in Cached /\ Last <= last /\ job[j].first <= First
    BY <1>1, <1>2, <1>3, <2>1 DEF JobSees
  <2>3. last \in Trading /\ last \in Nat /\ last <= Last
    BY <2>1, <2>2, SessionsAreDays DEF Cached
  <2>4. job[j].first \in Int
    BY <1>1, InFlight, DaysAreNumbers
  <2>5. job[j].first # NoDay
    BY <1>1, <1>3, <2>3 DEF JobSees, NoDay
  <2>6. Last = last
    BY <2>1, <2>2, <2>3
  <2> QED
    BY <2>1, <2>2, <2>3, <2>4, <2>5, <2>6
<1>5. /\ AskedOn(j) \in Nat /\ job[j].width \in Nat /\ asked \in Int
      /\ AskedOn(j) - MaxGap - 1 <= last
      /\ From(j) \in Int /\ From(j) <= asked
      /\ interval = "60m" => From(j) <= job[j].first
  <2>1. AskedOn(j) \in Nat /\ job[j].width \in Nat /\ JobOK(j)
    BY <1>1, InFlight
  <2>2. last # NoDay
    BY <1>4 DEF NoDay
  <2>3. AskedOn(j) - MaxGap - 1 <= last
    BY <1>1, <2>1, <2>2 DEF JobOK, LastOK
  <2> QED
    BY <1>1, <1>4, <2>1, <2>3, FromIsDay
<1>6. requestedFrom \in Int /\ From(j) <= requestedFrom
  <2>1. CASE interval = "60m"
    <3>1. Min({asked, First}) = IF asked <= First THEN asked ELSE First
      BY <1>4, <1>5, LeastOfTwo
    <3> QED
      BY <1>4, <1>5, <2>1, <3>1
  <2>2. CASE interval # "60m"
    BY <1>5, <2>2
  <2> QED
    BY <2>1, <2>2
<1>7. start \in D /\ start \in Trading /\ start \in Nat /\ \A d \in D : start <= d
  <2>1. D \in SUBSET Nat /\ D # {}
    BY <1>1, SessionsAreDays DEF FrameOK
  <2> QED
    BY <1>1, <2>1, LeastDay
<1>8. start <= AskedOn(j)
  BY <1>1, <1>7 DEF FrameOK
<1> HIDE DEF start, asked, requestedFrom, last
<1>9. From(j) <= last
  <2>1. MaxGap <= Slack
    BY OverlapAssumption
  <2> QED
    BY <1>2, <1>4, <1>5, <1>6, <1>7, <1>8, <2>1, GivenNumbers
<1>10. ASSUME NEW s \in Trading, From(j) <= s, last - Overlap <= s, s <= last PROVE s \in D
  BY <1>1, <1>10 DEF FrameOK, last
<1>11. last \in D
  BY <1>4, <1>9, <1>10, GivenNumbers
<1>12. start < last
  <2> SUFFICES ASSUME start = last PROVE FALSE
    BY <1>4, <1>7, <1>11
  <2>1. last \in Sessions \ {0}
    BY <1>2, <1>4, <1>7, GivenNumbers DEF Trading
  <2>2. PICK r \in Sessions : last - Overlap <= r /\ r < last
    BY <2>1, OverlapAssumption
  <2>3. r \in Nat /\ r <= MaxDay
    <3>1. r \in Nat
      BY BarAssumption
    <3>2. last <= MaxDay
      BY <1>4, SessionsAreDays
    <3> QED
      BY <1>4, <2>2, <3>1, <3>2, SessionsAreDays
  <2>4. r \in Trading
    BY <2>2, <2>3, SessionsAreDays DEF Trading
  <2>5. From(j) <= r
    BY <1>2, <1>4, <1>5, <1>6, <1>7, <2>2, <2>3, OverlapAssumption, GivenNumbers
  <2>6. r \in D
    BY <1>4, <1>10, <2>2, <2>3, <2>4, <2>5
  <2> QED
    BY <1>4, <1>7, <2>2, <2>3, <2>6
<1>13. start \in Cached
  <2>1. First <= start /\ start <= last
    BY <1>2, <1>4, <1>7, <1>12, GivenNumbers
  <2> QED
    BY <1>4, <1>7, <2>1 DEF OneSeries, Convex
<1>14. bars[start].basis = frame[start].basis
  BY <1>2, <1>4, <1>7, <1>12, <1>13
<1>15. ASSUME NEW s \in Cached, NEW d \in D PROVE bars[s].basis = frame[d].basis
  <2>1. bars[s].basis = bars[start].basis
    BY <1>13 DEF OneSeries
  <2>2. frame[d].basis = frame[start].basis
    BY <1>1, <1>7 DEF FrameOK
  <2> QED
    BY <1>14, <2>1, <2>2
<1> QED
  BY <1>11, <1>15 DEF last

\* Where a write keeps older bars, its answer holds the newest of them, and they are on
\* its basis.
LEMMA WriteJoins ==
  ASSUME Inv, OneSeries, NEW j \in Jobs, Write(j), Kept(j) # {}
  PROVE  /\ Kept(j) = Cached /\ \E s \in Cached : s \in DOMAIN job[j].frame
         /\ \A s \in Cached \ DOMAIN job[j].frame, d \in DOMAIN job[j].frame :
               bars[s].basis = job[j].frame[d].basis
<1>1. job[j] # Idle /\ job[j].pc = "answered" /\ FrameOK(j)
  BY WriteLeaves
<1>2. Kept(j) = Cached /\ Cached # {} /\ (job[j].full => ShorterAnswerKeepsHistory(j))
  BY DEF Kept
<1>3. JobSees(j)
  BY DEF OneSeries
<1>4. job[j].last \in Cached /\ job[j].last \in Nat /\ job[j].last \in Trading
      /\ \A s \in Cached : s \in Nat /\ s <= job[j].last
  BY <1>1, <1>2, <1>3, SessionsAreDays DEF JobSees, Cached
<1>5. job[j].full \in BOOLEAN
  BY <1>1, InFlight
<1>6. CASE job[j].full
  BY <1>2, <1>4, <1>6, ShorterJoins
<1>7. CASE ~ job[j].full
  <2>1. From(j) = job[j].last - Overlap
    BY <1>1, <1>7, FromIsDay
  <2>2. From(j) <= job[j].last /\ job[j].last - Overlap <= job[j].last
    BY <1>4, <2>1, GivenNumbers
  <2>3. job[j].last \in DOMAIN job[j].frame
    BY <1>1, <1>4, <2>2 DEF FrameOK
  <2>4. ASSUME NEW s \in Cached \ DOMAIN job[j].frame, NEW d \in DOMAIN job[j].frame
        PROVE  bars[s].basis = job[j].frame[d].basis
    <3>1. s < job[j].last
      BY <1>4, <2>3
    <3> QED
      BY <1>1, <1>3, <1>7, <3>1 DEF JobSees
  <2> QED
    BY <1>2, <1>4, <2>3, <2>4
<1> QED
  BY <1>5, <1>6, <1>7

LEMMA SeriesWritten ==
  ASSUME NoOverlap, Inv, OneSeries, NEW j \in Jobs, Write(j)
  PROVE  OneSeries'
<1> DEFINE frame == job[j].frame
           D == DOMAIN frame
<1>0. /\ job' = [job EXCEPT ![j] = Idle]
      /\ \A k \in Jobs : k # j => job[k] = Idle
  BY WriteLeaves DEF NoOverlap, Write
<1>1. /\ FrameOK(j) /\ D \in SUBSET Trading /\ Kept(j) \subseteq Cached
      /\ Cached' = D \cup Kept(j)
      /\ \A s \in D : bars'[s] = frame[s]
      /\ \A s \in Cached \ D : s \in Cached' => s \in Kept(j) /\ bars'[s] = bars[s]
  BY WriteLeaves
<1>2. Convex(D) /\ \A a, b \in D : frame[a].basis = frame[b].basis
  BY <1>1 DEF FrameOK
<1>3. CASE Kept(j) = {}
  <2>1. Cached' = D
    BY <1>1, <1>3
  <2>2. Convex(Cached')
    BY <1>2, <2>1
  <2>3. \A a, b \in Cached' : bars'[a].basis = bars'[b].basis
    BY <1>1, <1>2, <2>1
  <2>4. \A k \in Jobs : JobSees(k)'
    <3>1. ASSUME NEW k \in Jobs PROVE job'[k] = Idle
      BY <1>0 DEF Inv
    <3> QED
      BY <3>1 DEF JobSees
  <2> QED
    BY <2>2, <2>3, <2>4 DEF OneSeries, Convex
<1>4. CASE Kept(j) # {}
  <2>1. /\ Kept(j) = Cached
        /\ \E s \in Cached : s \in D
        /\ \A s \in Cached \ D, d \in D : bars[s].basis = frame[d].basis
    BY <1>4, WriteJoins
  <2>2. Cached' = D \cup Cached
    BY <1>1, <2>1
  <2>3. PICK m \in Cached : m \in D
    BY <2>1
  <2>4. \A s \in D \cup Cached : s \in Trading /\ s \in Nat
    BY <1>1, SessionsAreDays DEF Cached
  <2>5. ASSUME NEW a \in D \cup Cached, NEW b \in D \cup Cached, NEW s \in Trading, a <= s, s <= b
        PROVE  s \in D \cup Cached
    <3>1. a \in Nat /\ b \in Nat /\ s \in Nat /\ m \in Nat
      BY <2>3, <2>4, SessionsAreDays
    <3>2. CASE s <= m
      <4>1. CASE a \in D
        BY <1>2, <2>3, <2>5, <3>2, <4>1 DEF Convex
      <4>2. CASE a \in Cached
        BY <2>3, <2>5, <3>2, <4>2 DEF OneSeries, Convex
      <4> QED
        BY <4>1, <4>2
    <3>3. CASE m <= s
      <4>1. CASE b \in D
        BY <1>2, <2>3, <2>5, <3>3, <4>1 DEF Convex
      <4>2. CASE b \in Cached
        BY <2>3, <2>5, <3>3, <4>2 DEF OneSeries, Convex
      <4> QED
        BY <4>1, <4>2
    <3> QED
      BY <3>1, <3>2, <3>3
  <2>6. ASSUME NEW a \in D \cup Cached PROVE bars'[a].basis = frame[m].basis
    <3>1. CASE a \in D
      BY <1>1, <1>2, <2>3, <3>1
    <3>2. CASE a \in Cached \ D
      BY <1>1, <2>1, <2>2, <2>3, <3>2
    <3> QED
      BY <3>1, <3>2
  <2>7. \A k \in Jobs : JobSees(k)'
    <3>1. ASSUME NEW k \in Jobs PROVE job'[k] = Idle
      BY <1>0 DEF Inv
    <3> QED
      BY <3>1 DEF JobSees
  <2>8. \A a, b \in Cached' : bars'[a].basis = bars'[b].basis
    BY <2>2, <2>6
  <2> QED
    BY <2>2, <2>5, <2>7, <2>8 DEF OneSeries, Convex
<1> QED
  BY <1>3, <1>4

LEMMA SeriesStep ==
  ASSUME NoOverlap, Inv, OneSeries, [Next]_vars
  PROVE  OneSeries'
<1>1. CASE Tick \/ Publish \/ Restate \/ ChangePlan \/ UNCHANGED vars
  <2>1. UNCHANGED <<bars, job>>
    BY <1>1 DEF Tick, Publish, Restate, ChangePlan, vars
  <2> QED
    BY <2>1, JobUntouched, SeriesUntouched
<1>2. CASE PruneOldBars
  BY <1>2, SeriesPruned
<1>3. ASSUME NEW j \in Jobs, AskFor(j) PROVE OneSeries'
  BY <1>3, SeriesAsked DEF AskFor
<1>4. ASSUME NEW j \in Jobs, AskAgain(j) PROVE OneSeries'
  BY <1>4, SeriesAskedAgain
<1>5. ASSUME NEW j \in Jobs, Receive(j) PROVE OneSeries'
  BY <1>5, SeriesReceived
<1>6. ASSUME NEW j \in Jobs, Unserved(j) PROVE OneSeries'
  BY <1>6, SeriesUnserved
<1>7. ASSUME NEW j \in Jobs, Write(j) PROVE OneSeries'
  BY <1>7, SeriesWritten
<1> QED
  BY <1>1, <1>2, <1>3, <1>4, <1>5, <1>6, <1>7 DEF Next

\* One price basis: whatever FMP restates between a job's look at the cache, its
\* question, the answer and the write, and whatever the plan serves by then, the series
\* a job leaves is on one basis (FMPDailySource._restated compares the overlap,
\* _shorter_answer_keeps_cached_history what it keeps), however many jobs there are, as
\* long as no two of them have a fetch of the ticker in flight at once.
THEOREM BasisIsOne == Spec /\ []NoOverlap => []OneBasis
<1>1. Init => Inv /\ OneSeries
  BY InitHolds, SeriesBegins
<1>2. NoOverlap /\ Inv /\ OneSeries /\ [Next]_vars => (Inv /\ OneSeries)'
  BY StepHolds, SeriesStep
<1>3. Inv /\ OneSeries => OneBasis
  <2> SUFFICES ASSUME OneSeries PROVE Cardinality(Bases) \in {0, 1}
    BY DEF OneBasis, Spliced
  <2>1. CASE Cached = {}
    BY <2>1, FS_EmptySet DEF Bases
  <2>2. CASE Cached # {}
    <3>1. PICK m \in Cached : TRUE
      BY <2>2
    <3>2. Bases = {bars[m].basis}
      BY <3>1 DEF Bases, OneSeries
    <3> QED
      BY <3>2, FS_Singleton
  <2> QED
    BY <2>1, <2>2
<1> QED
  BY <1>1, <1>2, <1>3, PTL DEF Spec

-----------------------------------------------------------------------------
(* The width: every job asks for the widest tier it saw, and a full answer reaches as
   far back as it asked for, as the plan serves and as there are sessions. *)

Reaches(j) ==
    job[j] # Idle =>
       /\ job[j].first # NoDay =>
             \A d \in PeriodSteps : job[j].last - job[j].first + 1 >= d - Slack => d <= job[j].width
       /\ job[j].pc = "answered" => \A s \in DOMAIN job[j].frame : job[j].frame[s].basis # Legacy
       /\ job[j].pc = "answered" /\ job[j].full =>
             \A d \in Nat : d <= job[j].width /\ d <= plan =>
                \E s \in DOMAIN job[j].frame : s = 0 \/ s < Today - d + Overlap

LEMMA ReachStays ==
  ASSUME Inv, Inv', NEW j \in Jobs, Reaches(j), job'[j] = job[j], interval' = interval,
         Today <= Today', plan' <= plan
  PROVE  Reaches(j)'
<1>1. PeriodSteps' = PeriodSteps
  BY DEF PeriodSteps
<1>2. /\ Today \in Nat /\ Today' \in Nat /\ plan \in Nat /\ plan' \in Nat
  <2>1. Today \in Nat /\ plan \in Plans
    BY TimeIs DEF Inv, World
  <2>2. time' \in Nat /\ plan' \in Plans
    BY GivenNumbers DEF Inv, World
  <2>3. Today' \in Nat
    BY <2>2, DayOf DEF Today
  <2> QED
    BY <2>1, <2>2, <2>3, GivenNumbers
<1>3. ASSUME job[j] # Idle, job[j].pc = "answered", job[j].full,
             NEW d \in Nat, d <= job[j].width, d <= plan'
      PROVE  \E s \in DOMAIN job[j].frame : s = 0 \/ s < Today' - d + Overlap
  <2>1. PICK s \in DOMAIN job[j].frame : s = 0 \/ s < Today - d + Overlap
    BY <1>2, <1>3 DEF Reaches
  <2>2. s \in Nat
    <3>1. job[j] \in Reply
      BY <1>3, InFlight
    <3>2. DOMAIN job[j].frame \in SUBSET Trading
      BY <3>1 DEF Reply, Frames
    <3> QED
      BY <3>2, SessionsAreDays
  <2> QED
    BY <1>2, <2>1, <2>2, GivenNumbers
<1> QED
  BY <1>1, <1>3 DEF Reaches

LEMMA AskReaches ==
  ASSUME Inv, Inv', NEW j \in Jobs, NEW days \in Lookbacks, NEW force \in BOOLEAN, Ask(j, days, force)
  PROVE  Reaches(j)'
<1> DEFINE width == IF Cached = {} THEN days ELSE Max({days, PreservedWidth})
           full  == force \/ Cached = {} \/ Uncovered(width) \/ HoldsLegacy
           q     == [pc |-> "asked", at |-> time, width |-> width, full |-> full,
                     first |-> IF Cached = {} THEN NoDay ELSE First,
                     last |-> IF Cached = {} THEN NoDay ELSE Last]
<1>1. job' = [job EXCEPT ![j] = q] /\ interval' = interval
  BY DEF Ask
<1>2. job'[j] = q
  BY <1>1 DEF Inv
<1>3. ASSUME Cached # {}, NEW d \in PeriodSteps, Last - First + 1 >= d - Slack
      PROVE  d <= width
  <2> DEFINE tiers == {e \in PeriodSteps : Last - First + 1 >= e - Slack}
  <2>1. PICK m \in PeriodSteps : PeriodSteps \subseteq 0 .. m
    BY <1>3, BarAssumption DEF PeriodSteps
  <2>2. m \in Nat /\ tiers \in SUBSET (0 .. m) /\ d \in tiers /\ d \in Nat
    <3>1. m \in Nat /\ d \in Nat
      BY <1>3, <2>1
    <3>2. d \in tiers
      BY <1>3
    <3>3. tiers \in SUBSET (0 .. m)
      BY <2>1
    <3> QED
      BY <3>1, <3>2, <3>3
  <2>3. d <= Max(tiers)
    BY <2>2, GreatestDay
  <2>4. PreservedWidth = Max(tiers)
    BY <1>3, <2>2 DEF PreservedWidth
  <2>5. PreservedWidth \in Nat
    BY <1>3, WidthBound
  <2>6. days \in Nat
    BY GreatestGiven
  <2>7. width = IF days >= PreservedWidth THEN days ELSE PreservedWidth
    BY <1>3, <2>5, <2>6, GreatestOfTwo
  <2> HIDE DEF tiers, width
  <2> QED
    BY <2>2, <2>3, <2>4, <2>5, <2>6, <2>7
<1>4. PeriodSteps' = PeriodSteps
  BY <1>1 DEF PeriodSteps
<1> HIDE DEF width, full
<1>5. /\ job'[j].pc = "asked" /\ job'[j].width = width
      /\ job'[j].first # NoDay => Cached # {} /\ job'[j].first = First /\ job'[j].last = Last
  BY <1>2
<1> QED
  BY <1>3, <1>4, <1>5 DEF Reaches

\* The oldest session of an answer is within an overlap of where it was to begin.
LEMMA ReceiveReaches ==
  ASSUME Inv, NEW j \in Jobs, Reaches(j), Receive(j)
  PROVE  Reaches(j)'
<1>1. /\ Inv' /\ job'[j].pc = "answered" /\ DOMAIN job'[j].frame = Answer(j)
      /\ \A s \in Answer(j) : job'[j].frame[s].basis = basis
  BY ReceiveHolds
<1>2. /\ job[j].pc = "asked" /\ job[j] # Idle /\ Answer(j) # {}
      /\ UNCHANGED <<interval, time, plan>>
      /\ job' = [job EXCEPT ![j] =
            [pc |-> "answered", at |-> job[j].at, width |-> job[j].width, full |-> job[j].full,
             first |-> job[j].first, last |-> job[j].last,
             frame |-> [s \in Answer(j) |-> [basis |-> basis, final |-> SettledOf(s) <= time]]]]
  BY DEF Receive, Idle
<1>3. /\ job'[j].first = job[j].first /\ job'[j].last = job[j].last
      /\ job'[j].width = job[j].width /\ job'[j].full = job[j].full
  BY <1>2 DEF Inv
<1>4. basis # Legacy
  BY GivenNumbers DEF Inv, World, Legacy
<1>5. /\ Today \in Nat /\ plan \in Nat /\ From(j) \in Int /\ AskedOn(j) \in Nat /\ AskedOn(j) <= Today
      /\ job[j].width \in Nat
      /\ job[j].full => From(j) <= AskedOn(j) - job[j].width
  BY <1>2, InFlight, FromIsDay, TimeIs, GivenNumbers DEF Inv, World
<1>6. ASSUME job[j].full, NEW d \in Nat, d <= job[j].width, d <= plan
      PROVE  \E s \in Answer(j) : s = 0 \/ s < Today - d + Overlap
  <2>1. Answer(j) \in SUBSET Nat
    BY SessionsAreDays DEF Answer
  <2> DEFINE s == Min(Answer(j))
  <2>2. s \in Answer(j) /\ \A r \in Answer(j) : s <= r
    BY <1>2, <2>1, LeastDay
  <2> HIDE DEF s
  <2>3. CASE s # 0
    <3>1. s \in Sessions /\ s \in Nat /\ s <= MaxDay /\ s <= published /\ s <= AskedOn(j)
      BY <1>2, <2>1, <2>2, AnswerIs, SessionsAreDays DEF Trading
    <3>2. PICK r \in Sessions : s - Overlap <= r /\ r < s
      BY <2>3, <3>1, OverlapAssumption
    <3>3. published \in Nat
      BY TimeIs DEF Inv
    <3>4. r \in Nat /\ r \in Trading /\ r <= published /\ r <= AskedOn(j)
      BY <1>5, <3>1, <3>2, <3>3, BarAssumption DEF Trading
    <3>5. r \notin Answer(j)
      BY <2>2, <3>1, <3>2, <3>4
    <3>6. ~ (From(j) <= r /\ Today - plan <= r)
      BY <1>2, <3>4, <3>5, AnswerIs
    <3>7. r < Today - d
      BY <1>5, <1>6, <3>4, <3>6
    <3> QED
      BY <1>5, <2>2, <3>1, <3>2, <3>4, <3>7, GivenNumbers
  <2> QED
    BY <2>2, <2>3
<1>7. PeriodSteps' = PeriodSteps /\ Today' = Today /\ plan' = plan
  BY <1>2 DEF PeriodSteps, Today
<1> QED
  BY <1>1, <1>2, <1>3, <1>4, <1>6, <1>7 DEF Reaches, Legacy

LEMMA ReachInit ==
  ASSUME Init, NEW j \in Jobs
  PROVE  Reaches(j)
  BY DEF Init, Reaches

LEMMA ReachStep ==
  ASSUME Inv, [Next]_vars, \A j \in Jobs : Reaches(j)
  PROVE  \A j \in Jobs : Reaches(j)'
<1>1. Inv'
  BY StepHolds
<1>2. /\ time \in Nat /\ plan \in Nat /\ Today \in Nat
  BY TimeIs, GivenNumbers DEF Inv, World
<1>3. ASSUME NEW k \in Jobs, job'[k] = job[k], interval' = interval,
             time' = time \/ time' = time + 1, plan' = plan \/ plan' < plan
      PROVE  Reaches(k)'
  <2>1. plan' \in Nat
    BY <1>1, GivenNumbers DEF Inv, World
  <2>2. plan' <= plan
    BY <1>2, <1>3, <2>1
  <2>3. Today <= Today'
    BY <1>2, <1>3 DEF Today
  <2> QED
    BY <1>1, <1>3, <2>2, <2>3, ReachStays
<1>4. CASE Tick \/ Publish \/ Restate \/ ChangePlan \/ PruneOldBars \/ UNCHANGED vars
  <2>1. /\ UNCHANGED <<interval, job>>
        /\ time' = time \/ time' = time + 1
        /\ plan' = plan \/ plan' < plan
    BY <1>4 DEF Tick, Publish, Restate, ChangePlan, PruneOldBars, vars
  <2> QED
    BY <1>3, <2>1
<1>5. ASSUME NEW j \in Jobs, AskFor(j) \/ AskAgain(j) \/ Receive(j) \/ Unserved(j) \/ Write(j)
      PROVE  \A k \in Jobs : Reaches(k)'
  <2>1. /\ UNCHANGED <<interval, time, plan>>
        /\ \A k \in Jobs \ {j} : job'[k] = job[k]
    BY <1>5 DEF AskFor, Ask, AskAgain, Receive, Unserved, Write, Inv
  <2>2. \A k \in Jobs \ {j} : Reaches(k)'
    BY <1>3, <2>1
  <2>3. ASSUME AskFor(j) PROVE Reaches(j)'
    BY <1>1, <2>3, AskReaches DEF AskFor
  <2>4. ASSUME AskAgain(j) PROVE Reaches(j)'
    <3> DEFINE q == [job[j] EXCEPT !.full = TRUE]
    <3>1. job[j].pc = "asked" /\ job[j] # Idle /\ job' = [job EXCEPT ![j] = q]
      BY <2>4 DEF AskAgain, Idle
    <3>2. job[j] \in Question
      BY <3>1, InFlight
    <3>3. q.pc = "asked" /\ q.first = job[j].first /\ q.last = job[j].last /\ q.width = job[j].width
      BY <3>1, <3>2 DEF Question
    <3>4. job'[j] = q
      BY <3>1 DEF Inv
    <3>5. PeriodSteps' = PeriodSteps
      BY <2>1 DEF PeriodSteps
    <3> HIDE DEF q
    <3> QED
      BY <3>1, <3>3, <3>4, <3>5 DEF Reaches
  <2>5. ASSUME Receive(j) PROVE Reaches(j)'
    BY <2>5, ReceiveReaches
  <2>6. ASSUME Unserved(j) \/ Write(j) PROVE Reaches(j)'
    <3>1. job'[j] = Idle
      BY <2>6 DEF Unserved, Write, Inv
    <3> QED
      BY <3>1 DEF Reaches
  <2> QED
    BY <1>5, <2>2, <2>3, <2>4, <2>5, <2>6
<1> QED
  BY <1>4, <1>5 DEF Next

\* What a write leaves of the oldest days.
LEMMA WriteKeepsWidth ==
  ASSUME Inv, NEW j \in Jobs, Reaches(j), NEW days \in PeriodSteps,
         Write(j), Bases' = Bases, Cached # {}, ~ Uncovered(days),
         job[j].first # NoDay, job[j].last - job[j].first + 1 >= days - Slack,
         plan >= days \/ Min(DOMAIN job[j].frame) > First + Slack
  PROVE  ~ Uncovered(days)'
<1> DEFINE D == DOMAIN job[j].frame
<1>1. /\ job[j] # Idle /\ job[j].pc = "answered" /\ FrameOK(j)
      /\ D \in SUBSET Trading /\ Cached' = D \cup Kept(j)
      /\ \A s \in D : bars'[s] = job[j].frame[s]
  BY WriteLeaves
<1>2. days \in Nat /\ Today \in Nat /\ Slack \in Nat /\ Overlap \in Nat /\ Overlap <= Slack
  <2>1. PICK m \in PeriodSteps : PeriodSteps \subseteq 0 .. m
    BY BarAssumption DEF PeriodSteps
  <2> QED
    BY <2>1, TimeIs, GivenNumbers, OverlapAssumption DEF Inv
<1>3. First \in Cached /\ First \in Nat /\ First <= Today - (days - 1) + Slack
  <2>1. First \in Cached /\ First \in Nat
    BY CachedEnds
  <2> QED
    BY <1>2, <2>1 DEF Uncovered
<1>4. days <= job[j].width
  BY <1>1 DEF Reaches
<1>5. Today' = Today
  BY DEF Write, Today
<1>6. ASSUME NEW s \in Cached', s <= Today - (days - 1) + Slack
      PROVE  ~ Uncovered(days)'
  <2>1. Cached' \in SUBSET Nat /\ s \in Nat
    BY SessionsAreDays DEF Cached
  <2>2. Min(Cached') \in Cached' /\ Min(Cached') <= s
    BY <1>6, <2>1, LeastDay
  <2>3. First' = Min(Cached')
    BY DEF First
  <2>4. First' \in Nat /\ First' <= Today - (days - 1) + Slack
    <3>1. First' \in Nat /\ First' <= s
      BY <2>1, <2>2, <2>3
    <3> QED
      BY <1>2, <1>6, <2>1, <3>1
  <2> QED
    BY <1>2, <1>5, <2>4 DEF Uncovered
<1>7. CASE Kept(j) # {}
  <2>1. First \in Cached'
    BY <1>1, <1>3, <1>7 DEF Kept
  <2> QED
    BY <1>3, <1>6, <2>1
<1>8. CASE Kept(j) = {} /\ plan >= days
  <2>1. job[j].full
    BY <1>3, <1>8 DEF Kept
  <2>2. plan \in Nat
    BY GivenNumbers DEF Inv, World
  <2>3. PICK s \in D : s = 0 \/ s < Today - days + Overlap
    BY <1>1, <1>2, <1>4, <1>8, <2>1, <2>2 DEF Reaches
  <2>4. s \in Cached' /\ s \in Nat
    BY <1>1, SessionsAreDays
  <2>5. s <= Today - (days - 1) + Slack
    BY <1>2, <1>3, <2>3, <2>4
  <2> QED
    BY <1>6, <2>4, <2>5
<1>9. CASE Kept(j) = {} /\ Min(D) > First + Slack
  <2> DEFINE start == Min(D)
             asked == AskedOn(j) - job[j].width
             requestedFrom == IF interval = "60m" THEN Min({asked, First}) ELSE asked
  <2>1. Cached' = D
    BY <1>1, <1>9
  <2>2. start \in D /\ start \in Nat
    <3>1. D \in SUBSET Nat /\ D # {}
      BY <1>1, SessionsAreDays DEF FrameOK
    <3> QED
      BY <3>1, LeastDay
  <2>3. \A a \in D : bars'[a].basis = bars'[start].basis /\ bars'[a].basis # Legacy
    BY <1>1, <2>2 DEF FrameOK, Reaches
  <2>4. \A s \in Cached : bars[s].basis = bars'[start].basis
    <3>1. Bases' = {bars'[s].basis : s \in D}
      BY <2>1 DEF Bases
    <3>2. \A b \in Bases' : b = bars'[start].basis
      BY <2>3, <3>1
    <3> QED
      BY <3>2 DEF Bases
  <2>5. ~ HoldsLegacy
    BY <2>2, <2>3, <2>4 DEF HoldsLegacy
  <2>6. \A s \in D \cap Cached : bars[s].basis = job[j].frame[s].basis
    BY <1>1, <2>2, <2>3, <2>4
  <2>7. ~ ShorterAnswerKeepsHistory(j)
    BY <1>3, <1>9 DEF Kept
  <2>8. ~ (start > requestedFrom + Slack)
    BY <1>3, <1>9, <2>5, <2>6, <2>7 DEF ShorterAnswerKeepsHistory, AskedOn
  <2>9. AskedOn(j) \in Nat /\ AskedOn(j) <= Today /\ job[j].width \in Nat
    BY <1>1, InFlight
  <2>10. requestedFrom = asked \/ requestedFrom = First
    BY <1>3, <2>9, LeastOfTwo
  <2>11. start <= asked + Slack
    <3> HIDE DEF start, requestedFrom
    <3>1. start > First + Slack
      BY <1>9 DEF start
    <3> QED
      BY <1>2, <1>3, <2>2, <2>8, <2>9, <2>10, <3>1
  <2> HIDE DEF start
  <2>12. start <= Today - (days - 1) + Slack
    BY <1>2, <1>4, <2>2, <2>9, <2>11
  <2> QED
    BY <1>6, <2>1, <2>2, <2>12
<1> QED
  BY <1>7, <1>8, <1>9

\* A job that saw a row as wide as a tier does not leave it narrower, for any tiers,
\* plans and jobs, whatever else was written between its question and its answer.
THEOREM TiersAreKept == Spec => WidthKept
<1> DEFINE Reaching == \A j \in Jobs : Reaches(j)
           Step == \A j \in Jobs : \A days \in PeriodSteps :
                      /\ Write(j) /\ Bases' = Bases
                      /\ Cached # {} /\ ~ Uncovered(days)
                      /\ job[j].first # NoDay /\ job[j].last - job[j].first + 1 >= days - Slack
                      /\ plan >= days \/ Min(DOMAIN job[j].frame) > First + Slack
                      => ~ Uncovered(days)'
<1>1. Init => Reaching
  BY ReachInit
<1>2. Inv /\ [Next]_vars /\ Reaching => Reaching'
  BY ReachStep
<1>3. Inv /\ Reaching => Step
  BY WriteKeepsWidth
<1>4. Spec => [][Step]_vars
  BY <1>1, <1>2, <1>3, InvariantHolds, PTL DEF Spec
<1> QED
  BY <1>4 DEF WidthKept

=============================================================================
