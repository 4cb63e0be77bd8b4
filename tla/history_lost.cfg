\* An upgrade from version 4 without a fault.
CONSTANTS
  ExecId = {e1}
  MaxFaults = 0
  MaxLines = 0
  Number <- MCNumber
  Duration <- MCDuration
  Sources <- MCSources
  MailCases <- MCMailCases
SPECIFICATION MCSpec
PROPERTY HistorySurvives
CHECK_DEADLOCK FALSE
