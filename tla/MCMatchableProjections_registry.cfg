SPECIFICATION RegistrySpec
CONSTANTS
  x = x
  y = y
  first = first
  second = second
  Star = Star
  Dot = Dot
  Characters = {x, y, Star, Dot}
  Registrable <- Overlapping
  Reasons <- CachedReasons
  Names <- ShortNames
  MaxDescriptions = 2
INVARIANTS
  FormsMatchWhatTheyStandFor
PROPERTIES
  AnswersAreCurrent
