\* Two requests with one key at the same time.
CONSTANTS
  everyMinute = everyMinute
  leapDay = leapDay
  Cron = {everyMinute}
  Slots <- MCSlots
  MaxSkips = 10
  Job = {j1}
  NoJob = NoJob
  Adhoc = Adhoc
  MaxExec = 4
  NoKey = NoKey
  Key = {NoKey, k1}
  StoreMayFail = FALSE
  Workers = 1
  QueueSize = 1
  MaxLateness = 2
  Minute = 2
  TriggerReq = {t1, t2}
  PatchReq = {}
  MaxSends = 0
  MaxTime = 1
  MaxCrashes = 0
SPECIFICATION Spec
INVARIANTS RepeatedKeyGetsExecution
