SPECIFICATION FairEntitySpec
CONSTANTS
  s1 = s1
  e1 = e1
  e2 = e2
  good = good
  bad = bad
  odd = odd
  Streams = {s1}
  Sources = {good, bad, odd}
  Unadaptable = {bad}
  Unconsumed = {odd}
  Unreadable = {odd}
  IdNumber <- SameId
  SnapshotValues = {}
  StateVersions = {}
  TruncateVersions = {}
  NoSnapshot = NoSnapshot
  MaxEntries = 2
  MaxBatch = 1
  Entities = {e1, e2}
  StreamOf <- Shared
  LateJournal = {e2}
  Administered = {}
  SnapshotKinds = {"none"}
  ObjectsReadable = FALSE
INVARIANTS
  EntityMirrorsStream
PROPERTIES
  DecidedOnCurrentState
  EveryApplyConcludes
