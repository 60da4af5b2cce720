SPECIFICATION EntitySpec
CONSTANTS
  s1 = s1
  e1 = e1
  e2 = e2
  good = good
  bad = bad
  odd = odd
  Streams = {s1}
  Sources = {good}
  Unadaptable = {}
  Unconsumed = {}
  Unreadable = {}
  IdNumber <- SameId
  SnapshotValues <- States
  StateVersions = {1, 2, 3}
  TruncateVersions = {}
  NoSnapshot = NoSnapshot
  MaxEntries = 3
  MaxBatch = 2
  Entities = {e1}
  StreamOf <- Shared
  LateJournal = {}
  Administered = {}
  SnapshotKinds = {"none", "state"}
  ObjectsReadable = FALSE
PROPERTIES
  RestoredStateIsTheStream
