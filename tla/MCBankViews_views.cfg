SPECIFICATION BankSpec
CONSTANTS
  MaxAccounts = 2
  Amounts <- SomeAmounts
  MaxTransfers = 1
  MaxCommands = 3
  DocTypes <- ViewTypes
  Ids <- ViewIds
  Contents = {}
  Unstorable = {}
  Sources = {}
  Null = Null
  NoDocument = NoDocument
  MaxVersion = 0
  MaxSources = 0
INVARIANTS
  ViewsFollowTheAccounts
  NoViewIsMissing
  AnswersAgree
CHECK_DEADLOCK FALSE
