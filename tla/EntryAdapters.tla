---------------------------- MODULE EntryAdapters ----------------------------
(***************************************************************************)
(* How sources become entries and come back: the providers of entry        *)
(* adapters (src/store/EntryAdapterProvider.ts), one of them global and one *)
(* for each context that has a profile (ContextProfile.ts, EntryRegistry.ts *)
(* for the context "default").  The journal writes with the global provider *)
(* there was when it was made; an entity reads with that of its context, or *)
(* with the global one if its context has no profile                       *)
(* (SourcedEntity.entryAdapterProvider).                                   *)
(*                                                                         *)
(* An adapter either restores the class of what the default adapter has     *)
(* written (ContextProfile.register), or is one of an application's own,    *)
(* which also writes, under the name of the class itself and with a version *)
(* of its schema, and reads that version and the ones before it, as those   *)
(* of examples/bank/infra/adapters do.                                      *)
(***************************************************************************)
EXTENDS StoreTypeMapper, FiniteSets

CONSTANTS
  Classes,    \* class names of sources
  Contexts,
  Schemas,    \* class -> the fields that each version of it has
  Own,        \* class -> the versions there are own adapters for
  MaxStored   \* bound: entries

ASSUME ClassesAssumption == Classes \subseteq TypeNames
ASSUME SchemasAssumption ==
  \A class \in Classes : /\ Len(Schemas[class]) \in Nat \ {0}
                         /\ DOMAIN Schemas[class] = 1 .. Len(Schemas[class])
                         /\ Own[class] \subseteq DOMAIN Schemas[class]
ASSUME StoredBoundAssumption == MaxStored \in Nat

VARIABLES
  global,     \* the adapters of EntryAdapterProvider.instance()
  journals,   \* the adapters of the provider the journal holds
  shared,     \* whether these two are one provider
  profiles,   \* context -> the adapters of its provider, for those with a profile
  stored      \* the entries in the journal

providerVars == <<global, journals, shared, profiles>>
adapterVars == <<mapperVars, providerVars, stored>>

\* An adapter is Restoring, or the version of its class's own adapter.
Default == -1
Restoring == 0
Raw == <<>>     \* the class of an object without a prototype of its own
Unsupported == [class |-> Raw, fields |-> {}]     \* the adapter throws
SourceTypeVersion == 1

----------------------------------------------------------------------------
(* Registration *)

\* Whoever holds the same provider sees what is registered with it.
RegisterAdapter(class, version) ==
  /\ global' = With(global, class, version)
  /\ journals' = IF shared THEN With(journals, class, version) ELSE journals
  /\ UNCHANGED <<shared, profiles, mapperVars, stored>>

Profile(context) == IF context \in DOMAIN profiles THEN profiles[context] ELSE <<>>

\* Mutant: the adapter is registered with the global provider.
RegisterGlobally(context, class, adapter) ==
  /\ global' = With(global, class, adapter)
  /\ profiles' = With(profiles, context, Profile(context))
  /\ UNCHANGED <<journals, shared, mapperVars, stored>>

\* forContext makes the profile if there is none; a class has one adapter.
Register(context, class, adapter) ==
  /\ profiles' = With(profiles, context, With(Profile(context), class, adapter))
  /\ UNCHANGED <<global, journals, shared, mapperVars, stored>>

\* The journal keeps the provider it has.
ResetProvider ==
  /\ global' = <<>>
  /\ shared' = FALSE
  /\ UNCHANGED <<journals, profiles, mapperVars, stored>>

ResetProfiles ==
  /\ profiles' = <<>>
  /\ UNCHANGED <<global, journals, shared, mapperVars, stored>>

----------------------------------------------------------------------------
(* Writing and reading *)

AdapterFor(provider, class) ==
  IF class \in DOMAIN provider THEN provider[class] ELSE Default

\* The fields of the class as the program has it.
Fields(class) == Last(Schemas[class])

\* Own adapters write the fields of their version, the default one all of them,
\* under the version the source states, which no class of the examples sets.
AsEntry(class) ==
  LET adapter == AdapterFor(journals, class)
  IN  IF adapter \in Own[class]
      THEN [class |-> class, type |-> class,
            typeVersion |-> adapter, fields |-> Schemas[class][adapter]]
      ELSE [class |-> class, type |-> ToSymbolicName(class),
            typeVersion |-> SourceTypeVersion, fields |-> Fields(class)]

AppendSource(class) ==
  /\ Cardinality(stored) < MaxStored
  /\ stored' = stored \cup {AsEntry(class)}
  /\ UNCHANGED <<mapperVars, providerVars>>

Provider(context) == IF context \in DOMAIN profiles THEN profiles[context] ELSE global

\* What an own adapter makes of an entry of its version or an earlier one.
UpcastIfNeeded(class, version, entry) ==
  IF entry.typeVersion > version THEN Unsupported
  ELSE [class |-> class, fields |-> entry.fields \cap Schemas[class][entry.typeVersion]]

\* Mutant: the adapter is looked for under the stored name.
AsSourceBySymbol(context, entry) ==
  [class |-> IF entry.type \in DOMAIN Provider(context) THEN entry.type ELSE Raw,
   fields |-> entry.fields]

\* The class of the source that an entry is read as, and which of its fields it
\* has: the default adapter answers a plain object, the others an object of the
\* class they are registered for.
AsSource(context, entry) ==
  LET typeName == ToTypeName(entry.type)
      adapter == AdapterFor(Provider(context), typeName)
  IN  IF adapter = Default THEN [class |-> Raw, fields |-> entry.fields]
      ELSE IF adapter = Restoring THEN [class |-> typeName, fields |-> entry.fields]
      ELSE UpcastIfNeeded(typeName, adapter, entry)

----------------------------------------------------------------------------
AdaptersInit ==
  /\ MapperInit
  /\ global = <<>> /\ journals = <<>> /\ shared = TRUE
  /\ profiles = <<>>
  /\ stored = {}

AdaptersNext ==
  \/ MapperNext /\ UNCHANGED <<providerVars, stored>>
  \/ \E class \in Classes :
       \/ \E version \in Own[class] : RegisterAdapter(class, version)
       \/ \E context \in Contexts, adapter \in {Restoring} \cup Own[class] :
            Register(context, class, adapter)
       \/ AppendSource(class)
  \/ ResetProvider
  \/ ResetProfiles

AdaptersSpec == AdaptersInit /\ [][AdaptersNext]_adapterVars

----------------------------------------------------------------------------
(* Properties *)

\* The stored name leads back to the class: it was mapped to it and to no other
\* since, or, unmapped, it is the class name itself or one made of its words.
LeadsBack(entry) ==
  IF entry.type \in DOMAIN symbolicToType THEN symbolicToType[entry.type] = entry.class
  ELSE \/ entry.type = entry.class /\ LooksPascal(entry.class)
       \/ entry.type = PascalToKebab(entry.class) /\ MadeOfWords(entry.class)

\* The version stated is that of the fields written.  It is not for the default
\* adapter when the schema of the class has moved on.
Labelled(entry) == entry.fields = Schemas[entry.class][entry.typeVersion]

Reads(adapter, entry) == adapter = Restoring \/ adapter >= entry.typeVersion

\* Whatever was registered, mapped and reset since an entry was written, by its
\* class's own adapter or the default one: if its stored name leads back to its
\* class, a context with an adapter for the class that is not older than the entry
\* reads it as an object of that class, and with all the fields that were written
\* if they are those of the version stated or the adapter does not go by it.
SourcesComeBack ==
  \A entry \in stored, context \in Contexts :
    LET adapter == AdapterFor(Provider(context), entry.class)
        source == AsSource(context, entry)
    IN  LeadsBack(entry) /\ Reads(adapter, entry) =>
          /\ source.class = entry.class
          /\ adapter = Restoring \/ Labelled(entry) => source.fields = entry.fields

RegistersIn(context) ==
  /\ context \in DOMAIN profiles'
  /\ context \in DOMAIN profiles => profiles'[context] # profiles[context]

\* What is registered in one context changes nothing that another one reads,
\* whether the other has a profile or reads with the global adapters.
ContextsAreIndependent ==
  [][\A context, other \in Contexts :
       RegistersIn(context) /\ other # context =>
         \A entry \in stored : AsSource(other, entry)' = AsSource(other, entry)]_adapterVars
=============================================================================
