SPECIFICATION FairSpec
CONSTANTS
  Requests = {r1, r2}
  Threshold = 2
  Cooldown = 4
  Retries = 1
  Backoff = 1
  Burst = 1
  Period = 2
  MaxWait = 3
  FailingAfter = 2
INVARIANTS TypeOK QueueIsSpaced PauseOnlyDrains RecordIsHonest
PROPERTIES CallsAndPausesEnd
