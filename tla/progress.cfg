\* Fair scheduling of the goroutines and restarts: what is due moves on, what runs ends.
CONSTANTS
  everyMinute = everyMinute
  leapDay = leapDay
  Cron = {everyMinute}
  Slots <- MCSlots
  MaxSkips = 10
  Job = {j1, j2}
  NoJob = NoJob
  Adhoc = Adhoc
  MaxExec = 5
  NoKey = NoKey
  Key = {NoKey}
  StoreMayFail = FALSE
  Workers = 1
  QueueSize = 1
  MaxLateness = 1
  Minute = 2
  TriggerReq = {}
  PatchReq = {}
  MaxSends = 0
  MaxTime = 4
  MaxCrashes = 1
SPECIFICATION FairSpec
PROPERTIES DueJobLeavesDueSet RunningRowIsClosed
