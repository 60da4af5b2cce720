SPECIFICATION PipelineSpec
CONSTANTS
  opened = opened
  renamed = renamed
  summary = summary
  audit = audit
  Types = {opened, renamed}
  MaxEntries = 3
  Descriptions <- Registered
  Fallible = {audit}
  Silent = {}
  BatchSize = 2
  MaxChains = 1
  Pausable = FALSE
  Retried = TRUE
INVARIANTS
  AtLeastOnce
