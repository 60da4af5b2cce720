SPECIFICATION EntitySpec
CONSTANTS
  s1 = s1
  e1 = e1
  e2 = e2
  good = good
  bad = bad
  odd = odd
  Streams = {s1}
  Sources = {good, bad}
  Unadaptable = {bad}
  Unconsumed = {}
  Unreadable = {}
  IdNumber <- SameId
  SnapshotValues <- States
  StateVersions = {1, 2, 3}
  TruncateVersions = {2, 4}
  NoSnapshot = NoSnapshot
  MaxEntries = 3
  MaxBatch = 2
  Entities = {e1}
  StreamOf <- Shared
  LateJournal = {}
  Administered = {s1}
  SnapshotKinds = {"none", "plain", "state"}
  ObjectsReadable = FALSE
VIEW unreported
INVARIANTS
  VersionNeverAhead
  SoleWriterNeverConflicts
