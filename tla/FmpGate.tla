------------------------------ MODULE FmpGate ------------------------------
(***************************************************************************)
(* The one FMP client of the API process (clients/fmp_client.py) and the   *)
(* record it keeps of one data group (core/data_groups.py).                *)
(*                                                                         *)
(* A call passes the group's gate and the auth circuit breaker, reserves a *)
(* token and sleeps until the token is due, goes on the wire, and acts on  *)
(* the answer: a 429 is retried after a backoff, a 402 is repeated for the *)
(* canary symbol before the group is called restricted, consecutive        *)
(* 401/403 pause all calls.  Everything between two awaits is one step of  *)
(* the event loop.  Time is counted in ticks; Period ticks refill a token. *)
(***************************************************************************)
EXTENDS Integers, FiniteSets

CONSTANTS Requests,  \* coroutines that may have a call under way
          Threshold, \* 401/403 in a row that open the breaker (auth_breaker_threshold)
          Cooldown,  \* ticks it stays open (auth_breaker_cooldown_seconds)
          Retries,   \* RATE_LIMIT_MAX_RETRIES
          Backoff,   \* RATE_LIMIT_RETRY_BACKOFF_SECONDS
          Burst, Period, MaxWait, \* the token bucket
          FailingAfter \* FAILING_AFTER_CONSECUTIVE

ASSUME Bounds == /\ {Threshold, Cooldown, Burst, Period, FailingAfter} \subseteq Nat \ {0}
                 /\ {Retries, Backoff, MaxWait} \subseteq Nat

VARIABLES call,     \* what each coroutine is doing
          failures, \* _auth_failures; beyond the threshold the count is not told apart
          pause,    \* ticks until _breaker_open_until
          owed,     \* what the bucket lacks to be full: _tokens = Burst - owed / Period
          master, enabled, \* the global switch, and the group's own (or its tier)
          chip,     \* the group's row: status and consecutive_failures
          banner,   \* key_problem_at is set
          covered   \* FMP's plan covers the group

client == <<failures, pause, owed>>
group  == <<master, enabled, chip, banner, covered>>
vars   == <<call, failures, pause, owed, master, enabled, chip, banner, covered>>

\* A call for a symbol other than the canary's is "foreign": FMP may refuse it for the symbol.
Idle == [pc |-> "idle", kind |-> "get", foreign |-> FALSE, attempt |-> 0, timer |-> 0]
Listed == [pc |-> "listed", kind |-> "probe", foreign |-> FALSE, attempt |-> 0, timer |-> 0]
Call == [pc : {"idle", "listed", "queued", "wire", "backoff"}, kind : {"get", "canary", "probe"},
         foreign : BOOLEAN, attempt : 0 .. Retries, timer : Nat]

\* data: a JSON list or object; not_data: any other 200; key: 401 or 403; plan: 402; limited: 429;
\* error: any other status; transport: no answer at all.
Answers == {"data", "not_data", "key", "plan", "limited", "error", "transport"}

TypeOK == /\ call \in [Requests -> Call]
          /\ failures \in 0 .. Threshold
          /\ pause \in 0 .. Cooldown
          /\ owed \in Nat
          /\ {master, enabled, banner, covered} \subseteq BOOLEAN
          /\ chip \in [status : {"ok", "failing", "restricted"}, streak : 0 .. FailingAfter]

Init == /\ call = [r \in Requests |-> Idle]
        /\ failures = 0 /\ pause = 0 /\ owed = 0
        /\ master = TRUE /\ enabled = TRUE /\ banner = FALSE /\ covered = TRUE
        /\ chip = [status |-> "ok", streak |-> 0]

-----------------------------------------------------------------------------
(* The token bucket and one attempt of _send. *)

\* What the bucket may lack and still hold a token.
Room == (Burst - 1) * Period
Wait == IF owed > Room THEN owed - Room ELSE 0

End(r) == /\ call' = [call EXCEPT ![r] = Idle]
          /\ UNCHANGED owed

\* Mutant: a call that has to wait leaves no reservation behind.
AttemptUnreserved(r, kind, foreign, n) ==
    IF pause' > 0 \/ Wait > MaxWait
    THEN End(r)
    ELSE /\ owed' = IF Wait = 0 THEN owed + Period ELSE owed
         /\ call' = [call EXCEPT ![r] = [pc |-> IF Wait = 0 THEN "wire" ELSE "queued", kind |-> kind,
                                         foreign |-> foreign, attempt |-> n, timer |-> Wait]]

\* Mutant: only get looks at the breaker, before its first attempt.
AttemptAnyway(r, kind, foreign, n) ==
    IF (kind = "get" /\ n = 0 /\ pause' > 0) \/ Wait > MaxWait
    THEN End(r)
    ELSE /\ owed' = owed + Period
         /\ call' = [call EXCEPT ![r] = [pc |-> IF Wait = 0 THEN "wire" ELSE "queued", kind |-> kind,
                                         foreign |-> foreign, attempt |-> n, timer |-> Wait]]

\* Refused when the breaker is open or the token is too far away; otherwise the token is reserved
\* and the call goes out when it is due.  The breaker is not looked at again.
Attempt(r, kind, foreign, n) ==
    IF pause' > 0 \/ Wait > MaxWait
    THEN End(r)
    ELSE /\ owed' = owed + Period
         /\ call' = [call EXCEPT ![r] = [pc |-> IF Wait = 0 THEN "wire" ELSE "queued", kind |-> kind,
                                         foreign |-> foreign, attempt |-> n, timer |-> Wait]]

-----------------------------------------------------------------------------
(* Calls *)

Live == master /\ enabled /\ chip.status # "restricted"

\* get: through the gate of the group.
Get(r, foreign) == /\ call[r].pc = "idle"
                   /\ Live
                   /\ UNCHANGED <<failures, pause>>
                   /\ Attempt(r, "get", foreign, 0)
                   /\ UNCHANGED group

\* reprobe_restricted_groups lists the restricted groups while the master switch is on, and probes
\* them one after the other: this one when its turn comes, whatever has happened since.
List(r) == /\ call[r].pc = "idle"
           /\ master /\ chip.status = "restricted"
           /\ call' = [call EXCEPT ![r] = Listed]
           /\ UNCHANGED client /\ UNCHANGED group

Probe(r) == /\ call[r].pc = "listed"
            /\ UNCHANGED <<failures, pause>>
            /\ Attempt(r, "probe", FALSE, 0)
            /\ UNCHANGED group

\* The token is due: asyncio.sleep in acquire returns.
Dispatch(r) == /\ call[r].pc = "queued" /\ call[r].timer = 0
               /\ call' = [call EXCEPT ![r] = [@ EXCEPT !.pc = "wire"]]
               /\ UNCHANGED client /\ UNCHANGED group

\* Mutant: the attempts are not counted.
RetryForever(r) == /\ call[r].pc = "backoff" /\ call[r].timer = 0
                   /\ UNCHANGED <<failures, pause>>
                   /\ Attempt(r, call[r].kind, call[r].foreign, call[r].attempt)
                   /\ UNCHANGED group

\* The backoff after a 429 is over: the next attempt starts at the breaker.
Retry(r) == /\ call[r].pc = "backoff" /\ call[r].timer = 0
            /\ UNCHANGED <<failures, pause>>
            /\ Attempt(r, call[r].kind, call[r].foreign, call[r].attempt + 1)
            /\ UNCHANGED group

-----------------------------------------------------------------------------
(* Answers *)

\* _note_status, before anything else is done with the answer.
Counted(a) == IF failures < Threshold THEN failures + 1 ELSE Threshold
Trips(a)   == a = "key" /\ Counted(a) = Threshold
NoteStatus(a) ==
    /\ failures' = CASE a = "key" -> Counted(a)
                     [] a \in {"data", "not_data", "plan"} -> 0
                     [] OTHER -> failures
    /\ pause' = CASE Trips(a) -> Cooldown
                  [] a \in {"data", "not_data", "plan"} -> 0
                  [] OTHER -> pause

\* record_group_success, record_group_failure, mark_restricted, clear_restricted.
Succeeded == [status |-> IF chip.status = "failing" THEN "ok" ELSE chip.status, streak |-> 0]
Failing   == LET n == IF chip.streak < FailingAfter THEN chip.streak + 1 ELSE FailingAfter
             IN  [status |-> IF chip.status = "ok" /\ n = FailingAfter THEN "failing" ELSE chip.status,
                  streak |-> n]
Restricted == [chip EXCEPT !.status = "restricted"]
\* Mutant: a lifted restriction keeps the failures counted under it.
ClearedInStatus == IF chip.status = "restricted" THEN [chip EXCEPT !.status = "ok"] ELSE chip

Cleared    == IF chip.status = "restricted" THEN [status |-> "ok", streak |-> 0] ELSE chip

\* Mutant: a canary call that brings no data confirms the restriction.
WrittenUnconfirmed(kind, foreign, a) ==
    CASE kind = "get" /\ a = "data"                             -> Succeeded
      [] kind = "get" /\ a \in {"not_data", "error", "transport"} -> Failing
      [] kind = "get" /\ a = "plan" /\ ~foreign                 -> Restricted
      [] kind = "canary" /\ a # "data"                          -> Restricted
      [] kind = "probe" /\ a = "plan"                           -> Restricted
      [] kind = "probe" /\ a = "data"                           -> Cleared
      [] OTHER                                                  -> chip

\* What get writes about an answer that is its last, and what the canary and the probe write.
Written(kind, foreign, a) ==
    CASE kind = "get" /\ a = "data"                             -> Succeeded
      [] kind = "get" /\ a \in {"not_data", "error", "transport"} -> Failing
      [] kind = "get" /\ a = "plan" /\ ~foreign                 -> Restricted
      [] kind \in {"canary", "probe"} /\ a = "plan"             -> Restricted
      [] kind = "probe" /\ a = "data"                           -> Cleared
      [] OTHER                                                  -> chip

\* Mutant: _note_status leaves the banner to get and the probe.
RaisesInCallers(kind, a) == a = "key" /\ kind # "canary"

\* The banner: raised by an answer that trips the breaker, and by a 401/403 to a get or a probe;
\* cleared by data for a get.
Raises(kind, a) == Trips(a) \/ (a = "key" /\ kind # "canary")
Banner(kind, a) == IF Raises(kind, a) THEN TRUE
                   ELSE IF kind = "get" /\ a = "data" THEN FALSE ELSE banner

\* An answer arrives.  The canary symbol is refused only when the plan does not cover the group.
Answer(r, a) ==
    LET c == call[r]
        again == a = "limited" /\ c.attempt < Retries
        ask   == a = "plan" /\ c.kind = "get" /\ c.foreign
    IN  /\ c.pc = "wire"
        /\ a = "plan" => ~covered \/ c.foreign
        /\ NoteStatus(a)
        /\ \/ /\ again
              /\ call' = [call EXCEPT ![r] = [@ EXCEPT !.pc = "backoff", !.timer = Backoff]]
              /\ UNCHANGED owed
           \/ ask /\ Attempt(r, "canary", FALSE, 0)
           \/ ~again /\ ~ask /\ End(r)
        /\ chip' = Written(c.kind, c.foreign, a)
        /\ banner' = Banner(c.kind, a)
        /\ UNCHANGED <<master, enabled, covered>>

-----------------------------------------------------------------------------
(* The user, FMP, and time *)

SetMaster  == master' = ~master /\ UNCHANGED <<call, client, enabled, chip, banner, covered>>
SetEnabled == enabled' = ~enabled /\ UNCHANGED <<call, client, master, chip, banner, covered>>

PlanShrinks == covered /\ covered' = FALSE /\ UNCHANGED <<call, client, master, enabled, chip, banner>>

\* Mutant: nothing stops at zero.
LessAnyway(n) == n - 1

Less(n) == IF n > 0 THEN n - 1 ELSE 0
Asleep(r) == call[r].pc \in {"queued", "backoff"}

\* A sleeper wakes when it is due: time does not pass it.
Tick == /\ \A r \in Requests : Asleep(r) => call[r].timer > 0
        /\ pause > 0 \/ owed > 0 \/ \E r \in Requests : Asleep(r)
        /\ call' = [r \in Requests |-> [call[r] EXCEPT !.timer = IF Asleep(r) THEN @ - 1 ELSE @]]
        /\ pause' = Less(pause)
        /\ owed' = Less(owed)
        /\ UNCHANGED failures /\ UNCHANGED group

Next == \/ \E r \in Requests : \/ \E foreign \in BOOLEAN : Get(r, foreign)
                               \/ List(r)
                               \/ Probe(r)
                               \/ Dispatch(r)
                               \/ Retry(r)
                               \/ \E a \in Answers : Answer(r, a)
        \/ SetMaster \/ SetEnabled \/ PlanShrinks \/ Tick

Spec == Init /\ [][Next]_vars

\* The event loop runs what is due, the HTTP client gives up after 30 s, time passes.
Fairness == /\ \A r \in Requests : WF_vars(Probe(r)) /\ WF_vars(Dispatch(r)) /\ WF_vars(Retry(r))
                                   /\ WF_vars(\E a \in Answers : Answer(r, a))
            /\ WF_vars(Tick)
FairSpec == Spec /\ Fairness
-----------------------------------------------------------------------------
(* Properties *)

\* Two calls that sleep for their token are never due less than a refill period apart: the bucket
\* counts the tokens reserved by those already waiting (_TokenBucket.acquire lets the level go
\* below zero), so a flood of calls leaves at the allowed rate and not all at once.
QueueIsSpaced ==
    \A q, r \in Requests :
        q # r /\ call[q].pc = "queued" /\ call[r].pc = "queued" /\ call[q].timer <= call[r].timer
            => call[r].timer - call[q].timer >= Period

\* A pause only lets the queue drain: whatever still leaves while the breaker is open had its token
\* before it opened, so from MaxWait after the opening nothing is sent, retries, canaries and
\* probes included.
PauseOnlyDrains ==
    \A r \in Requests :
        call[r].pc = "queued" /\ pause > 0 => call[r].timer + Cooldown <= MaxWait + pause

\* A plan that covers the group never has the group restricted, however many foreign symbols it
\* refuses and whatever becomes of the canary calls (rate limited, paused, lost, unauthorised).
RestrictedOnlyWhenRefused == chip.status = "restricted" => ~covered

\* Whoever is looking at the group sees "failing" exactly from the FailingAfter-th failure in a row
\* on, through restrictions laid on and lifted in between.
ChipMatchesStreak == /\ chip.status = "failing" => chip.streak = FailingAfter
                     /\ chip.status = "ok" => chip.streak < FailingAfter

\* A pause never goes unreported: the banner is up for as long as the breaker is open, whatever the
\* answers still under way write.
PausedIsShown == pause > 0 => banner

\* What the Status page says of the group and of the key holds at the same time as all of the above.
RecordIsHonest == RestrictedOnlyWhenRefused /\ ChipMatchesStreak /\ PausedIsShown

\* Every call ends, with its canary, through retries, queue and pauses.
CallsEnd == \A r \in Requests : (call[r].pc # "idle") ~> (call[r].pc = "idle")

\* A pause ends, although answers of calls sent before it may renew it.
PausesEnd == (pause > 0) ~> (pause = 0)

\* Nothing hangs on FMP: both of the above, under the same fairness.
CallsAndPausesEnd == CallsEnd /\ PausesEnd
=============================================================================
