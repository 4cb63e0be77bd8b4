\* A restart between the insert and the advance.
CONSTANTS
  everyMinute = everyMinute
  leapDay = leapDay
  Cron = {everyMinute}
  Slots <- MCSlots
  MaxSkips = 10
  Job = {j1}
  NoJob = NoJob
  Adhoc = Adhoc
  MaxExec = 4
  NoKey = NoKey
  Key = {NoKey}
  StoreMayFail = FALSE
  Workers = 1
  QueueSize = 1
  MaxLateness = 2
  Minute = 2
  TriggerReq = {}
  PatchReq = {}
  MaxSends = 0
  MaxTime = 3
  MaxCrashes = 1
SPECIFICATION Spec
INVARIANTS SlotIsUnique
