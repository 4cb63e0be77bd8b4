\* More slots missed than NextRunAfter steps over.
CONSTANTS
  everyMinute = everyMinute
  leapDay = leapDay
  Cron = {everyMinute}
  Slots <- MCSlots
  MaxSkips = 1
  Job = {j1}
  NoJob = NoJob
  Adhoc = Adhoc
  MaxExec = 4
  NoKey = NoKey
  Key = {NoKey}
  StoreMayFail = FALSE
  Workers = 1
  QueueSize = 1
  MaxLateness = 2
  Minute = 2
  TriggerReq = {}
  PatchReq = {}
  MaxSends = 0
  MaxTime = 7
  MaxCrashes = 1
SPECIFICATION FairSpec
PROPERTIES DueJobLeavesDueSet
