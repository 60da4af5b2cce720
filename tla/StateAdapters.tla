---------------------------- MODULE StateAdapters ----------------------------
(***************************************************************************)
(* Which adapter serializes a state and which one reads it back            *)
(* (src/store/StateAdapterProvider.ts).  A document store writes a state    *)
(* with the adapter registered for the class of the object, and reads it    *)
(* with the one for the type name the document's type stands for.  States   *)
(* without an adapter are converted by DefaultTextStateAdapter.  A name has *)
(* one adapter: registering another one replaces it, also for what was      *)
(* written before.  The store holds the provider there was when it was made.*)
(***************************************************************************)
EXTENDS Integers

CONSTANTS
  TypeNames,        \* names adapters are registered for
  Plain,            \* "Object", the class of an object that has none of its own
  DocTypes,
  TypeNameOf,       \* document type -> the type name it stands for (toTypeName)
  NoDocument,
  MaxRegistrations  \* bound: calls of registerAdapter

ASSUME PlainAssumption == Plain \in TypeNames
ASSUME TypeNameOfAssumption == TypeNameOf \in [DocTypes -> TypeNames]
ASSUME RegistrationsAssumption == MaxRegistrations \in Nat

VARIABLES
  current,     \* adapters of StateAdapterProvider.instance(), by name
  storesOwn,   \* adapters of the provider the store holds, by name
  shared,      \* whether these two are one provider
  registered,  \* history: calls of registerAdapter so far, by which adapters are known
  raws         \* document type -> the State stored under it, or NoDocument

stateVars == <<current, storesOwn, shared, registered, raws>>

\* An adapter is the number of the call that registered it, and this one is of none.
Default == 0

NoAdapters == [name \in TypeNames |-> Default]

\* adapters.set replaces what there was under the name.
AdaptersWith(adapters, name, adapter) == [adapters EXCEPT ![name] = adapter]

RegisterStateAdapter(name) ==
  LET adapter == registered + 1
  IN  /\ registered < MaxRegistrations
      /\ registered' = adapter
      /\ current' = AdaptersWith(current, name, adapter)
      /\ storesOwn' = IF shared THEN AdaptersWith(storesOwn, name, adapter) ELSE storesOwn
      /\ UNCHANGED <<shared, raws>>

\* Mutant: the provider is emptied for those who ask for it, and shared still.
ResetKeepingShare == current' = NoAdapters /\ UNCHANGED <<storesOwn, shared, registered, raws>>

\* A new provider is made for those who ask from now on.
ResetStateProvider ==
  /\ current' = NoAdapters /\ shared' = FALSE
  /\ UNCHANGED <<storesOwn, registered, raws>>

\* Mutant: the store asks for the provider each time it writes.
AsRawStateNow(class) == [type |-> class, by |-> current[class], at |-> registered]

\* Whatever the document's type, the raw state says the class of the state it was
\* made from.  (Which adapter made it, and when, is history.)
AsRawState(class) == [type |-> class, by |-> storesOwn[class], at |-> registered]

WriteState(type, class) ==
  /\ raws' = [raws EXCEPT ![type] = AsRawState(class)]
  /\ UNCHANGED <<current, storesOwn, shared, registered>>

\* The adapter that DocumentStore.read converts a document with.
Reader(type) == storesOwn[TypeNameOf[type]]

StatesInit ==
  /\ current = NoAdapters /\ storesOwn = NoAdapters /\ shared = TRUE
  /\ registered = 0
  /\ raws = [type \in DocTypes |-> NoDocument]

StatesNext ==
  \/ \E name \in TypeNames : RegisterStateAdapter(name)
  \/ ResetStateProvider
  \/ \E type \in DocTypes, class \in TypeNames : WriteState(type, class)

StatesSpec == StatesInit /\ [][StatesNext]_stateVars

----------------------------------------------------------------------------
(* Properties *)

Adapters == Default .. registered

StatesTypeOK ==
  /\ current \in [TypeNames -> Adapters] /\ storesOwn \in [TypeNames -> Adapters]
  /\ registered \in Nat
  /\ shared \in BOOLEAN /\ (shared => current = storesOwn)
  /\ raws \in [DocTypes -> {NoDocument} \cup [type : TypeNames, by : Adapters, at : Adapters]]

\* A document whose state is of the class its type stands for is read by the
\* adapter that wrote it, or by one that was registered after it was written (and
\* must know the older form): never by an earlier one, nor by the default once an
\* adapter wrote it, whatever was replaced and reset since.
ReadByItsWriterOrALater ==
  \A type \in {t \in DocTypes : raws[t] # NoDocument /\ raws[t].type = TypeNameOf[t]} :
    Reader(type) = raws[type].by \/ Reader(type) > raws[type].at
=============================================================================
