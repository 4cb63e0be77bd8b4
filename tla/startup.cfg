\* All files of three lines on an empty disk; two executions, three faults.
CONSTANTS
  ExecId = {e1, e2}
  MaxFaults = 3
  MaxLines = 3
  Number <- MCNumber
  Duration <- MCDuration
  Sources <- MCSources
  MailCases <- MCMailCases
SPECIFICATION MCFairSpec
INVARIANTS TypeOK FileMeansWhatItSays BestSourceWins DiagnosisIsRight ServedSchemaIsCurrent EveryRefusalHasACause
PROPERTIES ExecutionsSurvive TriggersSurvive ComesUp
CHECK_DEADLOCK FALSE
