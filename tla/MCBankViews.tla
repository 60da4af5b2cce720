----------------------------- MODULE MCBankViews -----------------------------
(***************************************************************************)
(* Small instances of the bank for TLC.                                    *)
(***************************************************************************)
EXTENDS BankViews

\* One amount the accounts refuse, and one they take.
SomeAmounts == {-1, 1}

ViewIds == AccountNumbers \cup {STATS_ID}
==============================================================================
