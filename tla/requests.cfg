\* Two triggers that may share a key, a send, and a restart.
CONSTANTS
  everyMinute = everyMinute
  leapDay = leapDay
  Cron = {everyMinute}
  Slots <- MCSlots
  MaxSkips = 10
  Job = {j1}
  NoJob = NoJob
  Adhoc = Adhoc
  MaxExec = 5
  NoKey = NoKey
  Key = {NoKey, k1}
  StoreMayFail = FALSE
  Workers = 1
  QueueSize = 1
  MaxLateness = 2
  Minute = 2
  TriggerReq = {t1, t2}
  PatchReq = {}
  MaxSends = 1
  MaxTime = 1
  MaxCrashes = 1
SPECIFICATION Spec
INVARIANTS SameJobRunsAlone NoOrphanRow KeyNamesOneExecution ToldSuccessStays
PROPERTIES ImplementsJobLock
SYMMETRY Symmetry
