---------------------------- MODULE DocumentStore ----------------------------
(***************************************************************************)
(* The in-memory document store actor                                      *)
(* (src/store/document/inmemory/InMemoryDocumentStore.ts): one document per*)
(* type and id with a version that a write must exceed, and the sources    *)
(* written along with the documents of an id.  No handler lets another one *)
(* in between, so each is one action.                                      *)
(***************************************************************************)
EXTENDS Integers, Sequences

CONSTANTS
  DocTypes,
  Ids,
  Contents,     \* states that others than the modules above write
  Unstorable,   \* states whose StateAdapter throws
  Sources,      \* what a write may bring along
  Null,         \* a state that is null
  NoDocument,
  MaxVersion,   \* bound: version of a write
  MaxSources    \* bound: sources kept for an id

ASSUME StoreBoundsAssumption == MaxVersion \in Nat /\ MaxSources \in Nat
ASSUME UnstorableAssumption == Unstorable \subseteq Contents
ASSUME NullAssumption == Null \notin Contents
ASSUME NoDocumentAssumption == NoDocument \notin [state : Contents, dataVersion : Nat]

VARIABLES
  store,      \* type -> id -> document or NoDocument
  typeStores, \* the types a map was made for
  sources,    \* id -> sources written with it, of whatever type
  outcome     \* of the last operation

documents == <<store, typeStores, sources>>
storeVars == <<documents, outcome>>

----------------------------------------------------------------------------
(* Operations *)

Found(type, id) == store[type][id] # NoDocument

\* An outcome, and stateVersion -1 when there is no document.
Read(type, id) ==
  /\ outcome' = IF Found(type, id) THEN "Success" ELSE "NotFound"
  /\ UNCHANGED documents

\* What is found is handed back as well, but for the outcome one missing document
\* counts as much as all of them.
AllFound(bundles) == \A i \in DOMAIN bundles : Found(bundles[i].type, bundles[i].id)

ReadAll(bundles) ==
  /\ outcome' = IF AllFound(bundles) THEN "Success" ELSE "NotAllFound"
  /\ UNCHANGED documents

StateVersion(type, id) == IF Found(type, id) THEN store[type][id].dataVersion ELSE -1

\* The constructor of State rejects versions below 1.
Serializable(state, version) == state \notin Unstorable /\ version > 0

\* Mutant: the stored version may be written again.
OutdatedUnlessEqual(type, id, version) ==
  Found(type, id) /\ store[type][id].dataVersion > version

Outdated(type, id, version) ==
  Found(type, id) /\ store[type][id].dataVersion >= version

\* Mutant: the sources are kept before the version is compared.
WriteSourcesFirst(type, id, state, version, added) ==
  /\ state # Null
  /\ Serializable(state, version)
  /\ typeStores' = typeStores \cup {type}
  /\ sources' = [sources EXCEPT ![id] = @ \o added]
  /\ IF Outdated(type, id, version)
     THEN /\ outcome' = "ConcurrencyViolation"
          /\ UNCHANGED store
     ELSE /\ outcome' = "Success"
          /\ store' = [store EXCEPT ![type][id] = [state |-> state, dataVersion |-> version]]

\* Nothing is touched for a null state; otherwise the map of the type is made
\* first, then the state is serialized, then the version is compared.
Write(type, id, state, version, added) ==
  \/ /\ state = Null
     /\ outcome' = "Error"
     /\ UNCHANGED documents
  \/ /\ state # Null
     /\ typeStores' = typeStores \cup {type}
     /\ \/ /\ ~Serializable(state, version)
           /\ outcome' = "Error"
           /\ UNCHANGED <<store, sources>>
        \/ /\ Serializable(state, version)
           /\ Outdated(type, id, version)
           /\ outcome' = "ConcurrencyViolation"
           /\ UNCHANGED <<store, sources>>
        \/ /\ Serializable(state, version)
           /\ ~Outdated(type, id, version)
           /\ outcome' = "Success"
           /\ store' = [store EXCEPT ![type][id] = [state |-> state, dataVersion |-> version]]
           /\ sources' = [sources EXCEPT ![id] = @ \o added]

\* The sources of the id go, whatever other documents it has.
Remove(type, id) ==
  /\ store' = [store EXCEPT ![type][id] = NoDocument]
  /\ sources' = [sources EXCEPT ![id] = <<>>]
  /\ outcome' = "Success"
  /\ UNCHANGED typeStores

Clear ==
  /\ store' = [type \in DocTypes |-> [id \in Ids |-> NoDocument]]
  /\ typeStores' = {}
  /\ sources' = [id \in Ids |-> <<>>]
  /\ outcome' = "Success"

StoreInit ==
  /\ store = [type \in DocTypes |-> [id \in Ids |-> NoDocument]]
  /\ typeStores = {}
  /\ sources = [id \in Ids |-> <<>>]
  /\ outcome = "none"

\* Whatever is asked of one document.
\* Bound: no more than MaxSources are kept for an id.
Operation(type, id) ==
  \/ Read(type, id)
  \/ Remove(type, id)
  \/ \E state \in Contents \cup {Null}, version \in 0 .. MaxVersion,
        added \in {<<>>} \cup {<<source>> : source \in Sources} :
       /\ Len(sources[id]) + Len(added) <= MaxSources
       /\ Write(type, id, state, version, added)

----------------------------------------------------------------------------
(* Properties *)

\* Sources and the document they come with are written together or not at all:
\* an id gets sources only in a step that writes one of its documents.
SourcesComeWithADocument ==
  [][\A id \in Ids :
       Len(sources'[id]) > Len(sources[id])
         => \E type \in DocTypes : /\ Found(type, id)'
                                   /\ store'[type][id] # store[type][id]]_storeVars
=============================================================================
