SPECIFICATION Spec
CONSTANTS
  k1 = k1
  k2 = k2
  k3 = k3
  k4 = k4
  k5 = k5
  k6 = k6
  Ids = {k1, k2, k3, k4, k5, k6}
  NoId = NoId
  NoRule = NoRule
  Content <- MCContent
  InitRule <- ProvisionedRule
  TimerDeleteWaits = TRUE
INVARIANTS
  TypeOK
  ExecUsesLiveAlgs
  OneRuleRuns
  FileHoldsRule
PROPERTY
  PushIsAnswered
