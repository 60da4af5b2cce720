-------------------------- MODULE MCEntryAdapters --------------------------
(***************************************************************************)
(* A small instance of the adapters for TLC: names of up to four letters,  *)
(* which are enough for two words of two letters, and of up to three with a*)
(* digit.  Two classes, a word and an acronym that is stored under the same*)
(* name by convention, and two contexts.                                   *)
(***************************************************************************)
EXTENDS EntryAdapters, BankSchemas

Capital == <<"upper", "a">>
Small == <<"lower", "a">>
Digit == <<"other", "1">>

NamesOver(characters, n) == UNION {[1 .. k -> characters] : k \in 1 .. n}
MCTypeNames == NamesOver({Capital, Small}, 4) \cup NamesOver({Capital, Small, Digit}, 3)

Word == <<Capital, Small>>
Acronym == <<Capital, Capital>>
MCClasses == {Word, Acronym}

\* Their schemas are those of two events of the bank.
MCSchemas == (Word :> AccountOpenedVersions) @@ (Acronym :> FundsDepositedVersions)
MCOwn == (Word :> {2, 3}) @@ (Acronym :> {2})

\* A name for the acronym, and the same name given to the word later.
Other == <<<<"lower", "b">>>>
MCMappable == {<<Acronym, Other>>, <<Word, Other>>}
=============================================================================
