--------------------------- MODULE MCBankTransfers ---------------------------
(***************************************************************************)
(* Two transfers between two accounts, for TLC.  Nobody reads the ledger   *)
(* here, so that states that differ in it only are one.                    *)
(***************************************************************************)
EXTENDS BankTransfers

WithoutLedger == <<nextAccountNumber, balance, closed, coordinatorVars>>
=============================================================================
