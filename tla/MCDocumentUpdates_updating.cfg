SPECIFICATION UpdateSpec
CONSTANTS
  profile = profile
  activity = activity
  id1 = id1
  c1 = c1
  c2 = c2
  c3 = c3
  odd = odd
  src = src
  DocTypes = {profile, activity}
  Ids = {id1}
  Contents <- States
  Unstorable = {odd}
  Sources = {src}
  Null = Null
  NoDocument = NoDocument
  MaxVersion = 2
  MaxSources = 1
  Clients = {c1, c2, c3}
  DocType = profile
  Id = id1
  MaxUpdates = 2
INVARIANTS
  NoUpdateIsLost
  ViewsAreEarlierDocuments
PROPERTIES
  SourcesComeWithADocument
  ImplementsAtomicUpdates
CHECK_DEADLOCK FALSE
