SPECIFICATION Spec
CONSTANTS
  s1 = s1
  s2 = s2
  good = good
  bad = bad
  v1 = v1
  Streams = {s1, s2}
  Sources = {good, bad}
  Unadaptable = {bad}
  IdNumber <- SameId
  SnapshotValues = {v1}
  StateVersions = {}
  TruncateVersions = {2}
  NoSnapshot = NoSnapshot
  MaxEntries = 4
  MaxBatch = 2
VIEW store
SYMMETRY AnyStream
INVARIANTS
  IInv
  StreamsPartitionJournal
  VersionsAreGapless
  DeletedAtCurrentVersion
  InfoAgreesWithRead
  ReadIsGaplessSuffix
  GlobalPositionNamesItsBatch
PROPERTIES
  AppendOnly
  TombstoneIsFinal
  ReplyTellsTheOutcome
  ImplementsEventStreams
