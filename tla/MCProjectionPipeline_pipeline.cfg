SPECIFICATION FairPipelineSpec
CONSTANTS
  opened = opened
  renamed = renamed
  summary = summary
  audit = audit
  Types = {opened, renamed}
  MaxEntries = 3
  Descriptions <- Registered
  Fallible = {audit}
  Silent = {audit}
  BatchSize = 2
  MaxChains = 2
  Pausable = TRUE
  Retried = TRUE
INVARIANTS
  NothingLostNorDoubled
  AnswersMatchCalls
  RunningMeansPolling
  ConfirmerIsConsistent
PROPERTIES
  EveryEntryIsProjected
  PollingGoesOn
