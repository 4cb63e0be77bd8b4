\* Three jobs due together, one worker, a channel of one, no failure: the loop blocks in Push.
CONSTANTS
  everyMinute = everyMinute
  leapDay = leapDay
  Cron = {everyMinute}
  Slots <- MCSlots
  MaxSkips = 10
  Job = {j1, j2, j3}
  NoJob = NoJob
  Adhoc = Adhoc
  MaxExec = 6
  NoKey = NoKey
  Key = {NoKey}
  StoreMayFail = FALSE
  Workers = 1
  QueueSize = 1
  MaxLateness = 2
  Minute = 2
  TriggerReq = {}
  PatchReq = {}
  MaxSends = 0
  MaxTime = 5
  MaxCrashes = 0
SPECIFICATION Spec
INVARIANTS PoolIsConsistent NoOrphanRow SlotRunsOnce
SYMMETRY Symmetry
