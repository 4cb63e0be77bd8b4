\* A crash and store errors, under a trigger and a PATCH; one schedule runs out.
CONSTANTS
  everyMinute = everyMinute
  leapDay = leapDay
  Cron = {everyMinute, leapDay}
  Slots <- MCSlots
  MaxSkips = 10
  Job = {j1}
  NoJob = NoJob
  Adhoc = Adhoc
  MaxExec = 4
  NoKey = NoKey
  Key = {NoKey}
  StoreMayFail = TRUE
  Workers = 1
  QueueSize = 1
  MaxLateness = 1
  Minute = 2
  TriggerReq = {t1}
  PatchReq = {p1}
  MaxSends = 0
  MaxTime = 4
  MaxCrashes = 1
SPECIFICATION Spec
INVARIANTS TypeOK HolderOwnsRow SameJobRunsAlone IInv
PROPERTIES ClosedRowStays ScheduleNeverRewinds 
