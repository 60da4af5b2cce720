SPECIFICATION FairTransfersSpec
CONSTANTS
  MaxAccounts = 2
  Amounts = {1}
  MaxTransfers = 2
  MaxCommands = 2
VIEW WithoutLedger
INVARIANTS
  TransfersTypeOK
  WithdrawnMoneyIsListed
  PaidAgainOnlyWhenRefused
PROPERTIES
  TransfersSettle
CHECK_DEADLOCK FALSE
