---------------------------- MODULE FmpGateProofs ----------------------------
(***************************************************************************)
(* The invariants of FmpGate, for any number of coroutines, any bucket,    *)
(* threshold, cooldown and number of retries.                              *)
(***************************************************************************)
EXTENDS FmpGate, TLAPS

(***************************************************************************)
(* The strengthening: the bucket still lacks the token of every call that  *)
(* sleeps for one, a canary or a probe is never foreign, and a call backs  *)
(* off only while it has an attempt left.                                  *)
(***************************************************************************)

Fits(c, o) == /\ c \in Call
              /\ c.kind # "get" => ~c.foreign
              /\ c.pc = "backoff" => c.attempt < Retries
              /\ c.pc = "queued" => c.timer + Room + Period <= o /\ c.timer <= MaxWait

Drains(c, p) == c.pc = "queued" /\ p > 0 => c.timer + Cooldown <= MaxWait + p

ClientInv == /\ call \in [Requests -> Call]
             /\ owed \in Nat /\ failures \in 0 .. Threshold /\ pause \in 0 .. Cooldown
             /\ \A r \in Requests : Fits(call[r], owed)
             /\ \A r \in Requests : Drains(call[r], pause)
             /\ QueueIsSpaced

GroupInv == /\ {master, enabled, banner, covered} \subseteq BOOLEAN
            /\ chip \in [status : {"ok", "failing", "restricted"}, streak : 0 .. FailingAfter]
            /\ RestrictedOnlyWhenRefused
            /\ ChipMatchesStreak
            /\ PausedIsShown

GateInv == ClientInv /\ GroupInv

LEMMA RoomNat == Room \in Nat
<1>1. Burst - 1 \in Nat /\ Period \in Nat
  BY Bounds
<1>2. \A m, n \in Nat : m * n \in Nat
  OBVIOUS
<1> QED
  BY <1>1, <1>2 DEF Room

(***************************************************************************)
(* The operators that put a call somewhere else.                           *)
(***************************************************************************)

LEMMA IdleFits == ASSUME NEW o PROVE Fits(Idle, o) /\ Idle.pc = "idle"
  BY Bounds DEF Fits, Idle, Call

LEMMA ListedFits == ASSUME NEW o PROVE Fits(Listed, o) /\ Listed.pc = "listed"
  BY Bounds DEF Fits, Listed, Call

\* A call that leaves the queue, or was not in it, disturbs nobody.
LEMMA Replaced ==
    ASSUME ClientInv, NEW r \in Requests, NEW c,
           call' = [call EXCEPT ![r] = c], owed' = owed, failures' \in 0 .. Threshold, pause' \in 0 .. Cooldown,
           Fits(c, owed), c.pc # "queued",
           \A q \in Requests : Drains(call[q], pause')
    PROVE  ClientInv'
<1>1. c \in Call
  BY DEF Fits
<1>2. call' \in [Requests -> Call]
  BY <1>1 DEF ClientInv
<1>3. \A q \in Requests : call'[q] = IF q = r THEN c ELSE call[q]
  BY DEF ClientInv
<1>4. \A q \in Requests : Fits(call'[q], owed') /\ Drains(call'[q], pause')
  BY <1>3 DEF ClientInv, Drains
<1>5. QueueIsSpaced'
  BY <1>3 DEF ClientInv, QueueIsSpaced
<1> QED
  BY <1>2, <1>4, <1>5 DEF ClientInv

LEMMA EndInv ==
    ASSUME ClientInv, NEW r \in Requests, End(r), failures' \in 0 .. Threshold, pause' \in 0 .. Cooldown,
           \A q \in Requests : Drains(call[q], pause')
    PROVE  ClientInv'
  BY IdleFits, Replaced DEF End

LEMMA AttemptInv ==
    ASSUME ClientInv, NEW r \in Requests, NEW kind \in {"get", "canary", "probe"}, NEW foreign \in BOOLEAN,
           NEW n \in 0 .. Retries, kind # "get" => ~foreign, call[r].pc # "queued",
           Attempt(r, kind, foreign, n), failures' \in 0 .. Threshold, pause' \in 0 .. Cooldown,
           \A q \in Requests : Drains(call[q], pause')
    PROVE  ClientInv'
<1>1. CASE pause' > 0 \/ Wait > MaxWait
  BY <1>1, EndInv DEF Attempt
<1>2. CASE ~(pause' > 0 \/ Wait > MaxWait)
  <2> DEFINE c == [pc |-> IF Wait = 0 THEN "wire" ELSE "queued", kind |-> kind,
                   foreign |-> foreign, attempt |-> n, timer |-> Wait]
  <2>1. owed' = owed + Period /\ call' = [call EXCEPT ![r] = c]
    BY <1>2 DEF Attempt
  <2>2. /\ Wait \in Nat /\ Wait <= MaxWait
        /\ Wait # 0 => Wait + Room = owed
    BY <1>2, RoomNat, Bounds DEF Wait, ClientInv
  <2>3. c \in Call /\ c.timer = Wait /\ c.kind = kind /\ c.foreign = foreign
    BY <2>2 DEF Call
  <2>4. c.pc = "queued" => Wait # 0
    OBVIOUS
  <2>5. c.pc # "backoff"
    OBVIOUS
  <2> HIDE DEF c
  <2>6. owed' \in Nat /\ pause' = 0
    BY <1>2, <2>1, Bounds DEF ClientInv
  <2>7. Fits(c, owed')
    BY <2>1, <2>2, <2>3, <2>4, <2>5, RoomNat, Bounds DEF Fits, ClientInv
  <2>8. call' \in [Requests -> Call] /\ \A q \in Requests : call'[q] = IF q = r THEN c ELSE call[q]
    BY <2>1, <2>3 DEF ClientInv
  <2>9. \A q \in Requests : Fits(call'[q], owed')
    <3>1. TAKE q \in Requests
    <3>2. Fits(call[q], owed')
      <4>1. Fits(call[q], owed) /\ call[q] \in Call
        BY DEF ClientInv
      <4> QED
        BY <4>1, <2>1, RoomNat, Bounds DEF Fits, ClientInv, Call
    <3> QED
      BY <3>2, <2>7, <2>8
  <2>10. \A q \in Requests : Drains(call'[q], pause')
    BY <2>6 DEF Drains
  <2>11. \A q \in Requests : q # r /\ call[q].pc = "queued" /\ c.pc = "queued" => c.timer - call[q].timer >= Period
    <3>1. TAKE q \in Requests
    <3>2. HAVE q # r /\ call[q].pc = "queued" /\ c.pc = "queued"
    <3>3. call[q].timer + Room + Period <= owed /\ call[q].timer \in Nat
      BY <3>2 DEF ClientInv, Fits, Call
    <3> QED
      BY <3>2, <3>3, <2>2, <2>3, <2>4, RoomNat, Bounds DEF ClientInv
  <2>12. QueueIsSpaced'
    <3> SUFFICES ASSUME NEW p \in Requests, NEW q \in Requests, p # q,
                        call'[p].pc = "queued", call'[q].pc = "queued", call'[p].timer <= call'[q].timer
                 PROVE  call'[q].timer - call'[p].timer >= Period
      BY DEF QueueIsSpaced
    <3>1. CASE q = r
      BY <3>1, <2>8, <2>11
    <3>2. CASE p = r
      <4>1. c.timer - call[q].timer >= Period /\ c.timer <= call[q].timer /\ q # r
        BY <3>2, <2>8, <2>11
      <4>2. c.timer \in Nat /\ call[q].timer \in Nat
        BY <2>2, <2>3 DEF ClientInv, Call
      <4> QED
        BY <4>1, <4>2, Bounds
    <3>3. CASE p # r /\ q # r
      BY <3>3, <2>8 DEF ClientInv, QueueIsSpaced
    <3> QED
      BY <3>1, <3>2, <3>3
  <2> QED
    BY <2>6, <2>8, <2>9, <2>10, <2>12 DEF ClientInv
<1> QED
  BY <1>1, <1>2

(***************************************************************************)
(* The client, step by step.                                               *)
(***************************************************************************)

LEMMA NoteStatusInv ==
    ASSUME ClientInv, NEW a \in Answers, NoteStatus(a)
    PROVE  /\ failures' \in 0 .. Threshold /\ pause' \in 0 .. Cooldown
           /\ \A q \in Requests : Drains(call[q], pause')
<1>1. Counted(a) \in 0 .. Threshold
  BY Bounds DEF Counted, ClientInv
<1>2. failures' \in 0 .. Threshold
  BY <1>1, Bounds DEF NoteStatus, ClientInv
<1>3. pause' \in {0, Cooldown, pause}
  BY DEF NoteStatus
<1>4. pause' \in 0 .. Cooldown
  BY <1>3, Bounds DEF ClientInv
<1>5. \A q \in Requests : Drains(call[q], pause')
  <2>1. TAKE q \in Requests
  <2>2. call[q].timer \in Nat /\ Drains(call[q], pause) /\ (call[q].pc = "queued" => call[q].timer <= MaxWait)
    BY DEF ClientInv, Call, Fits
  <2>3. CASE pause' = 0
    BY <2>3 DEF Drains
  <2>4. CASE pause' = Cooldown
    BY <2>2, <2>4, Bounds DEF Drains
  <2>5. CASE pause' = pause
    BY <2>2, <2>5
  <2> QED
    BY <1>3, <2>3, <2>4, <2>5
<1> QED
  BY <1>2, <1>4, <1>5

LEMMA AnswerInv ==
    ASSUME ClientInv, NEW r \in Requests, NEW a \in Answers, Answer(r, a)
    PROVE  ClientInv'
<1>1. call[r].pc = "wire" /\ NoteStatus(a)
  BY DEF Answer
<1>2. /\ failures' \in 0 .. Threshold /\ pause' \in 0 .. Cooldown
      /\ \A q \in Requests : Drains(call[q], pause')
  BY <1>1, NoteStatusInv
<1>3. call[r] \in Call /\ Fits(call[r], owed)
  BY DEF ClientInv
<1>4. CASE /\ a = "limited" /\ call[r].attempt < Retries
           /\ call' = [call EXCEPT ![r] = [@ EXCEPT !.pc = "backoff", !.timer = Backoff]]
           /\ UNCHANGED owed
  <2> DEFINE c == [call[r] EXCEPT !.pc = "backoff", !.timer = Backoff]
  <2>1. c \in Call /\ c.pc = "backoff" /\ c.kind = call[r].kind /\ c.foreign = call[r].foreign
        /\ c.attempt = call[r].attempt
    BY <1>3, Bounds DEF Call
  <2>2. call' = [call EXCEPT ![r] = c]
    BY <1>4 DEF ClientInv
  <2> HIDE DEF c
  <2>3. Fits(c, owed)
    BY <2>1, <1>3, <1>4 DEF Fits
  <2> QED
    BY <2>1, <2>2, <2>3, <1>2, <1>4, Replaced
<1>5. CASE Attempt(r, "canary", FALSE, 0)
  <2>1. 0 \in 0 .. Retries /\ call[r].pc # "queued"
    BY <1>1, Bounds
  <2> QED
    BY <2>1, <1>2, <1>5, AttemptInv
<1>6. CASE End(r)
  BY <1>2, <1>6, EndInv
<1> QED
  BY <1>4, <1>5, <1>6 DEF Answer

LEMMA TickInv == ASSUME ClientInv, Tick PROVE ClientInv'
<1> DEFINE Down(c, asleep) == [c EXCEPT !.timer = IF asleep THEN @ - 1 ELSE @]
<1>1. \A r \in Requests : call'[r] = Down(call[r], Asleep(r))
  BY DEF Tick
<1>2. \A r \in Requests : Asleep(r) => call[r].timer > 0
  BY DEF Tick
<1>3. pause' = Less(pause) /\ owed' = Less(owed) /\ failures' = failures
  BY DEF Tick
<1>4. \A r \in Requests : /\ call'[r] \in Call
                          /\ call'[r].pc = call[r].pc /\ call'[r].kind = call[r].kind
                          /\ call'[r].foreign = call[r].foreign /\ call'[r].attempt = call[r].attempt
                          /\ Asleep(r) => call[r].timer > 0 /\ call'[r].timer = call[r].timer - 1
  <2>1. TAKE r \in Requests
  <2>2. call[r] \in Call
    BY DEF ClientInv
  <2>3. Asleep(r) => call[r].timer - 1 \in Nat
    BY <1>2, <2>2 DEF Call
  <2>4. CASE Asleep(r)
    <3>1. call'[r] = [call[r] EXCEPT !.timer = call[r].timer - 1]
      BY <1>1, <2>4
    <3> QED
      BY <3>1, <2>2, <2>3, <2>4, <1>2 DEF Call
  <2>5. CASE ~Asleep(r)
    <3>1. call'[r] = [call[r] EXCEPT !.timer = call[r].timer]
      BY <1>1, <2>5
    <3> QED
      BY <3>1, <2>2, <2>5 DEF Call
  <2> QED
    BY <2>4, <2>5
<1>5. call' = [r \in Requests |-> call'[r]]
  BY DEF Tick
<1>6. call' \in [Requests -> Call]
  BY <1>4, <1>5
<1> HIDE DEF Down
<1>7. owed' \in Nat /\ failures' \in 0 .. Threshold /\ pause' \in 0 .. Cooldown
  BY <1>3, Bounds DEF Less, ClientInv
<1>8. \A r \in Requests : Fits(call'[r], owed') /\ Drains(call'[r], pause')
  <2>1. TAKE r \in Requests
  <2>2. Fits(call[r], owed) /\ Drains(call[r], pause) /\ call[r] \in Call
    BY DEF ClientInv
  <2>3. CASE call[r].pc = "queued"
    <3>1. call'[r].timer = call[r].timer - 1 /\ call[r].timer > 0
      BY <1>4, <2>3 DEF Asleep
    <3>2. call[r].timer + Room + Period <= owed /\ call[r].timer <= MaxWait /\ call[r].timer \in Nat
      BY <2>2, <2>3 DEF Fits, Call
    <3>3. owed' = owed - 1
      BY <3>1, <3>2, <1>3, RoomNat, Bounds DEF Less, ClientInv
    <3>4. Fits(call'[r], owed')
      BY <3>1, <3>2, <3>3, <2>2, <2>3, <1>4, RoomNat, Bounds DEF Fits, ClientInv
    <3>5. Drains(call'[r], pause')
      BY <3>1, <3>2, <2>2, <2>3, <1>3, <1>4, Bounds DEF Drains, Less, ClientInv
    <3> QED
      BY <3>4, <3>5
  <2>4. CASE call[r].pc # "queued"
    BY <2>2, <2>4, <1>4 DEF Fits, Drains
  <2> QED
    BY <2>3, <2>4
<1>9. QueueIsSpaced'
  <2> SUFFICES ASSUME NEW p \in Requests, NEW q \in Requests, p # q,
                      call'[p].pc = "queued", call'[q].pc = "queued", call'[p].timer <= call'[q].timer
               PROVE  call'[q].timer - call'[p].timer >= Period
    BY DEF QueueIsSpaced
  <2>1. /\ call'[p].timer = call[p].timer - 1 /\ call[p].pc = "queued" /\ call[p].timer \in Nat
        /\ call'[q].timer = call[q].timer - 1 /\ call[q].pc = "queued" /\ call[q].timer \in Nat
    BY <1>4 DEF Asleep, ClientInv, Call
  <2>2. call[p].timer <= call[q].timer
    BY <2>1
  <2>3. call[q].timer - call[p].timer >= Period
    BY <2>1, <2>2 DEF ClientInv, QueueIsSpaced
  <2> QED
    BY <2>1, <2>3, Bounds
<1> QED
  BY <1>6, <1>7, <1>8, <1>9 DEF ClientInv

LEMMA ClientStep == ASSUME ClientInv, [Next]_vars PROVE ClientInv'
<1>1. ASSUME NEW r \in Requests, NEW foreign \in BOOLEAN, Get(r, foreign) PROVE ClientInv'
  BY <1>1, AttemptInv, Bounds DEF Get, ClientInv
<1>2. ASSUME NEW r \in Requests, Probe(r) PROVE ClientInv'
  <2>1. /\ Attempt(r, "probe", FALSE, 0) /\ call[r].pc # "queued"
        /\ failures' = failures /\ pause' = pause
    BY <1>2 DEF Probe
  <2>2. /\ 0 \in 0 .. Retries /\ failures' \in 0 .. Threshold /\ pause' \in 0 .. Cooldown
        /\ \A q \in Requests : Drains(call[q], pause')
    BY <2>1, Bounds DEF ClientInv
  <2> QED
    BY <2>1, <2>2, AttemptInv
<1>3. ASSUME NEW r \in Requests, Dispatch(r) PROVE ClientInv'
  <2> DEFINE c == [call[r] EXCEPT !.pc = "wire"]
  <2>1. call[r] \in Call /\ Fits(call[r], owed)
    BY DEF ClientInv
  <2>2. c \in Call /\ c.pc = "wire" /\ c.kind = call[r].kind /\ c.foreign = call[r].foreign
    BY <2>1 DEF Call
  <2>3. call' = [call EXCEPT ![r] = c] /\ owed' = owed /\ failures' = failures /\ pause' = pause
    BY <1>3 DEF Dispatch, client
  <2> HIDE DEF c
  <2>4. Fits(c, owed)
    BY <2>1, <2>2 DEF Fits
  <2> QED
    BY <2>2, <2>3, <2>4, Replaced DEF ClientInv
<1>4. ASSUME NEW r \in Requests, Retry(r) PROVE ClientInv'
  <2>1. call[r] \in Call /\ Fits(call[r], owed) /\ call[r].pc = "backoff"
    BY <1>4 DEF ClientInv, Retry
  <2>2. call[r].attempt + 1 \in 0 .. Retries
    BY <2>1, Bounds DEF Fits, Call
  <2>3. call[r].kind \in {"get", "canary", "probe"} /\ call[r].foreign \in BOOLEAN
    BY <2>1 DEF Call
  <2>4. call[r].kind # "get" => ~call[r].foreign
    BY <2>1 DEF Fits
  <2>5. failures' = failures /\ pause' = pause /\ Attempt(r, call[r].kind, call[r].foreign, call[r].attempt + 1)
    BY <1>4 DEF Retry
  <2> QED
    BY <2>1, <2>2, <2>3, <2>4, <2>5, AttemptInv DEF ClientInv
<1>5. ASSUME NEW r \in Requests, NEW a \in Answers, Answer(r, a) PROVE ClientInv'
  BY <1>5, AnswerInv
<1>6. CASE Tick
  BY <1>6, TickInv
<1>7. ASSUME NEW r \in Requests, List(r) PROVE ClientInv'
  <2>1. call' = [call EXCEPT ![r] = Listed] /\ owed' = owed /\ failures' = failures /\ pause' = pause
    BY <1>7 DEF List, client
  <2> QED
    BY <2>1, ListedFits, Replaced DEF ClientInv
<1>8. CASE SetMaster \/ SetEnabled \/ PlanShrinks \/ UNCHANGED vars
  <2>1. call' = call /\ owed' = owed /\ failures' = failures /\ pause' = pause
    BY <1>8 DEF SetMaster, SetEnabled, PlanShrinks, client, vars
  <2> QED
    BY <2>1 DEF ClientInv, QueueIsSpaced
<1> QED
  BY <1>1, <1>2, <1>3, <1>4, <1>5, <1>6, <1>7, <1>8 DEF Next

(***************************************************************************)
(* The record of the group.                                                *)
(***************************************************************************)

LEMMA WrittenInv ==
    ASSUME GateInv, NEW r \in Requests, NEW a \in Answers, Answer(r, a)
    PROVE  /\ chip' \in [status : {"ok", "failing", "restricted"}, streak : 0 .. FailingAfter]
           /\ RestrictedOnlyWhenRefused'
           /\ ChipMatchesStreak'
<1> DEFINE k == call[r].kind
           f == call[r].foreign
<1>1. /\ chip' = Written(k, f, a) /\ covered' = covered
      /\ a = "plan" => ~covered \/ f
      /\ k # "get" => ~f
      /\ k \in {"get", "canary", "probe"}
  BY DEF Answer, GateInv, ClientInv, Fits, Call
<1> HIDE DEF k, f
<1>2. /\ chip \in [status : {"ok", "failing", "restricted"}, streak : 0 .. FailingAfter]
      /\ chip.status = "restricted" => ~covered
      /\ chip.status = "failing" => chip.streak = FailingAfter
      /\ chip.status = "ok" => chip.streak < FailingAfter
  BY DEF GateInv, GroupInv, RestrictedOnlyWhenRefused, ChipMatchesStreak
<1> DEFINE Good(c) == /\ c \in [status : {"ok", "failing", "restricted"}, streak : 0 .. FailingAfter]
                      /\ c.status = "restricted" => ~covered
                      /\ c.status = "failing" => c.streak = FailingAfter
                      /\ c.status = "ok" => c.streak < FailingAfter
<1>3. Good(chip)
  BY <1>2
<1>4. Good(Succeeded)
  BY <1>2, Bounds DEF Succeeded
<1>5. Good(Failing)
  BY <1>2, Bounds DEF Failing
<1>6. ~covered => Good(Restricted)
  BY <1>2 DEF Restricted
<1>7. Good(Cleared)
  BY <1>2, Bounds DEF Cleared
<1>8. Good(chip')
  <2> HIDE DEF Good
  <2>1. Written(k, f, a) = Restricted => (a = "plan" /\ ~f) \/ Written(k, f, a) \in {Succeeded, Failing, Cleared, chip}
    BY <1>1 DEF Written
  <2>2. Written(k, f, a) \in {Succeeded, Failing, Restricted, Cleared, chip}
    BY <1>1 DEF Written
  <2> QED
    BY <2>1, <2>2, <1>1, <1>3, <1>4, <1>5, <1>6, <1>7
<1> QED
  BY <1>1, <1>8 DEF RestrictedOnlyWhenRefused, ChipMatchesStreak

LEMMA BannerInv ==
    ASSUME GateInv, NEW r \in Requests, NEW a \in Answers, Answer(r, a)
    PROVE  banner' \in BOOLEAN /\ PausedIsShown'
<1>1. banner' = Banner(call[r].kind, a) /\ NoteStatus(a) /\ banner \in BOOLEAN /\ (pause > 0 => banner)
  BY DEF Answer, GateInv, GroupInv, PausedIsShown
<1>2. banner' \in BOOLEAN
  BY <1>1 DEF Banner
<1>3. CASE Trips(a)
  BY <1>1, <1>3 DEF Banner, Raises, PausedIsShown
<1>4. CASE a \in {"data", "not_data", "plan"}
  <2>1. pause' = 0
    BY <1>1, <1>4 DEF NoteStatus, Trips
  <2> QED
    BY <1>2, <2>1 DEF PausedIsShown
<1>5. CASE ~Trips(a) /\ a \notin {"data", "not_data", "plan"}
  <2>1. pause' = pause
    BY <1>1, <1>5 DEF NoteStatus
  <2>2. banner' = banner \/ banner' = TRUE
    BY <1>1, <1>5 DEF Banner
  <2> QED
    BY <1>1, <1>2, <2>1, <2>2 DEF PausedIsShown
<1> QED
  BY <1>2, <1>3, <1>4, <1>5

LEMMA GroupStep == ASSUME GateInv, [Next]_vars PROVE GroupInv'
<1>1. CASE group' = group /\ pause' = pause
  BY <1>1 DEF GateInv, GroupInv, group, RestrictedOnlyWhenRefused, ChipMatchesStreak, PausedIsShown
<1>2. ASSUME NEW r \in Requests, NEW a \in Answers, Answer(r, a) PROVE GroupInv'
  <2>1. UNCHANGED <<master, enabled, covered>>
    BY <1>2 DEF Answer
  <2> QED
    BY <1>2, <2>1, WrittenInv, BannerInv DEF GateInv, GroupInv
<1>3. CASE SetMaster \/ SetEnabled \/ PlanShrinks
  <2>1. chip' = chip /\ banner' = banner /\ pause' = pause /\ (covered' = covered \/ covered' = FALSE)
    BY <1>3 DEF SetMaster, SetEnabled, PlanShrinks, client
  <2>2. {master', enabled', banner', covered'} \subseteq BOOLEAN
    BY <1>3, <2>1 DEF SetMaster, SetEnabled, PlanShrinks, GateInv, GroupInv
  <2>3. RestrictedOnlyWhenRefused'
    BY <2>1 DEF GateInv, GroupInv, RestrictedOnlyWhenRefused
  <2>4. ChipMatchesStreak' /\ PausedIsShown'
    BY <2>1 DEF GateInv, GroupInv, ChipMatchesStreak, PausedIsShown
  <2> QED
    BY <2>1, <2>2, <2>3, <2>4 DEF GateInv, GroupInv
<1>4. CASE Tick
  <2>1. group' = group /\ pause' = Less(pause)
    BY <1>4 DEF Tick
  <2>2. pause' > 0 => pause > 0
    BY <2>1 DEF Less, GateInv, ClientInv
  <2> QED
    BY <2>1, <2>2 DEF GateInv, GroupInv, group, RestrictedOnlyWhenRefused, ChipMatchesStreak, PausedIsShown
<1>5. ASSUME NEW r \in Requests, Dispatch(r) \/ List(r) \/ Probe(r) \/ Retry(r) \/ \E foreign \in BOOLEAN : Get(r, foreign)
      PROVE  group' = group /\ pause' = pause
  BY <1>5 DEF Dispatch, List, Probe, Retry, Get, group, client
<1>6. CASE UNCHANGED vars
  BY <1>6, <1>1 DEF vars, group
<1> QED
  BY <1>1, <1>2, <1>3, <1>4, <1>5, <1>6 DEF Next

(***************************************************************************)
(* The theorems.                                                           *)
(***************************************************************************)

LEMMA GateInit == Init => GateInv
<1> SUFFICES ASSUME Init PROVE GateInv
  OBVIOUS
<1>1. \A r \in Requests : call[r] = Idle
  BY DEF Init
<1>2. \A r \in Requests : Fits(call[r], owed) /\ Drains(call[r], pause)
  BY <1>1, IdleFits DEF Drains
<1>3. call \in [Requests -> Call]
  BY IdleFits DEF Init, Fits
<1>4. QueueIsSpaced
  BY <1>1, IdleFits DEF QueueIsSpaced
<1>5. ClientInv
  BY <1>2, <1>3, <1>4, Bounds DEF Init, ClientInv
<1>6. GroupInv
  <2>1. {master, enabled, banner, covered} \subseteq BOOLEAN /\ covered = TRUE
    BY DEF Init
  <2>2. chip = [status |-> "ok", streak |-> 0] /\ pause = 0
    BY DEF Init
  <2>3. chip \in [status : {"ok", "failing", "restricted"}, streak : 0 .. FailingAfter]
    BY <2>2, Bounds
  <2>4. RestrictedOnlyWhenRefused /\ ChipMatchesStreak
    BY <2>2, Bounds DEF RestrictedOnlyWhenRefused, ChipMatchesStreak
  <2>5. PausedIsShown
    BY <2>2 DEF PausedIsShown
  <2> QED
    BY <2>1, <2>3, <2>4, <2>5 DEF GroupInv
<1> QED
  BY <1>5, <1>6 DEF GateInv

LEMMA GateAlways == Spec => []GateInv
<1>1. GateInv /\ [Next]_vars => GateInv'
  BY ClientStep, GroupStep DEF GateInv
<1> QED
  BY <1>1, GateInit, PTL DEF Spec

\* The state keeps its types.
THEOREM TypeCorrect == Spec => []TypeOK
<1>1. GateInv => TypeOK
  BY DEF GateInv, ClientInv, GroupInv, TypeOK
<1> QED
  BY <1>1, GateAlways, PTL

\* Calls that wait for a token are due at least a refill period apart, however many there are
\* and whatever the burst: the rate limit of the API process holds in a flood.
THEOREM FloodIsPaced == Spec => []QueueIsSpaced
<1>1. GateInv => QueueIsSpaced
  BY DEF GateInv, ClientInv
<1> QED
  BY <1>1, GateAlways, PTL

\* While the auth breaker is open only calls that had their token leave, and none after MaxWait.
THEOREM PauseDrains == Spec => []PauseOnlyDrains
<1>1. GateInv => PauseOnlyDrains
  BY DEF GateInv, ClientInv, Drains, PauseOnlyDrains
<1> QED
  BY <1>1, GateAlways, PTL

\* What the group's row and the banner say is never contradicted by the order the answers come in.
THEOREM RecordAlwaysHonest == Spec => []RecordIsHonest
<1>1. GateInv => RecordIsHonest
  BY DEF GateInv, GroupInv, RecordIsHonest
<1> QED
  BY <1>1, GateAlways, PTL
=============================================================================
