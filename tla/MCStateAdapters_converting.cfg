SPECIFICATION StatesSpec
CONSTANTS
  Account = Account
  Order = Order
  Plain = Plain
  accounts = accounts
  orders = orders
  NoDocument = NoDocument
  TypeNames <- MCTypeNames
  DocTypes <- MCDocTypes
  TypeNameOf <- MCTypeNameOf
  MaxRegistrations = 3
INVARIANTS
  StatesTypeOK
  ReadByItsWriterOrALater
