\* Two channels and a provider, one edit of the tables, lost records, cancellation.
CONSTANTS
  ops = ops
  alice = alice
  ChannelId = {ops, alice}
  ProviderId = {bot}
  NoProvider = NoProvider
  Type = {"telegram", "webhook"}
  MaxEdits = 1
  StepId = {"main", "tell", "odd"}
  Plans <- MCPlans
  Overrides <- MCOverrides
  Orphans = TRUE
  StoreMayFail = TRUE
  Fallbacks = {}
SPECIFICATION FairSpec
INVARIANTS RunnerTypeOK SuccessReachesEveryChannel EffectsAreAllowed RunsWholeList RecordsExplainVerdict
PROPERTIES ImplementsExecution RunEnds
CHECK_DEADLOCK FALSE
