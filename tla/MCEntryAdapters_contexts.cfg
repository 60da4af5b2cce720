SPECIFICATION AdaptersSpec
CONSTANTS
  TypeNames <- MCTypeNames
  Classes <- MCClasses
  Mappable <- MCMappable
  Contexts = {default, bank}
  Schemas <- MCSchemas
  Own <- MCOwn
  MaxStored = 1
INVARIANTS
  SourcesComeBack
  NamesComeBack
PROPERTIES
  ContextsAreIndependent
