\* What the documents say of continue_on_error.
CONSTANTS
  ops = ops
  alice = alice
  ChannelId = {ops, alice}
  ProviderId = {bot}
  NoProvider = NoProvider
  Type = {"telegram", "webhook"}
  MaxEdits = 1
  StepId = {"main", "tell", "odd"}
  Plans <- MCPlans
  Overrides <- MCOverrides
  Orphans = FALSE
  StoreMayFail = TRUE
  Fallbacks = {}
SPECIFICATION Spec
INVARIANTS ToleratedFailureSucceeds
CHECK_DEADLOCK FALSE
