----------------------------- MODULE BankSchemas -----------------------------
(***************************************************************************)
(* The fields that each version of an event of the bank has, by the        *)
(* adapters in examples/bank/infra/adapters: an adapter keeps the fields   *)
(* of the version an entry states and gives those added since a default.   *)
(***************************************************************************)

AccountOpenedVersions ==
  << {"accountNumber", "owner", "openedAt"},
     {"accountNumber", "owner", "openedAt", "initialBalance"},
     {"accountNumber", "owner", "openedAt", "initialBalance", "accountType"} >>

FundsDepositedVersions ==
  << {"accountNumber", "amount"},
     {"accountNumber", "amount", "transactionId", "depositedAt"} >>
=============================================================================
