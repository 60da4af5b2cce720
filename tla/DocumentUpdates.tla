--------------------------- MODULE DocumentUpdates ---------------------------
(***************************************************************************)
(* Actors that keep a view in the document store of module DocumentStore   *)
(* the way projections do (examples/bank/infra/projections/                *)
(* AccountSummaryProjectionActor.ts): read the document, await, write it   *)
(* back with an update at the version after the one read, and do not look  *)
(* at the outcome.  A document is the set of the updates it has taken in.  *)
(* Others use the store, too, for documents of other types with the id,    *)
(* which share its sources.                                                *)
(***************************************************************************)
EXTENDS DocumentStore

CONSTANTS
  Clients,
  DocType, Id,   \* the document they share
  MaxUpdates     \* bound: updates of one client

ASSUME SharedAssumption == DocType \in DocTypes /\ Id \in Ids
ASSUME UpdatesAssumption == MaxUpdates \in Nat

Updates == Clients \X (1 .. MaxUpdates)

ASSUME NoViewAssumption == NoDocument \notin [state : SUBSET Updates, dataVersion : Nat]

VARIABLES
  view,      \* client -> what it has read, or NotReading
  made,      \* client -> how many updates it has tried
  accepted,  \* the updates whose write succeeded since the document was removed
  removed    \* whether it was ever removed

updateVars == <<storeVars, view, made, accepted, removed>>

NotReading == [reading |-> FALSE, state |-> {}, stateVersion |-> -1]
Content(document) == IF document = NoDocument THEN {} ELSE document.state

ReadView(c) ==
  /\ ~view[c].reading
  /\ made[c] < MaxUpdates
  /\ Read(DocType, Id)
  /\ view' = [view EXCEPT ![c] = [reading |-> TRUE, state |-> Content(store[DocType][Id]),
                                  stateVersion |-> StateVersion(DocType, Id)]]
  /\ UNCHANGED <<made, accepted, removed>>

\* Mutant: the version is asked for once more when writing.
VersionToWriteLate(c) ==
  IF StateVersion(DocType, Id) = -1 THEN 1 ELSE StateVersion(DocType, Id) + 1

\* A document that was not found is created at version 1.
VersionToWrite(c) == IF view[c].stateVersion = -1 THEN 1 ELSE view[c].stateVersion + 1

WriteBack(c) ==
  LET update == <<c, made[c] + 1>>
  IN  /\ view[c].reading
      /\ Write(DocType, Id, view[c].state \cup {update}, VersionToWrite(c), <<>>)
      /\ view' = [view EXCEPT ![c] = NotReading]
      /\ made' = [made EXCEPT ![c] = @ + 1]
      /\ accepted' = IF outcome' = "Success" THEN accepted \cup {update} ELSE accepted
      /\ UNCHANGED removed

\* The document is removed, or the store is cleared.
RemoveDocument ==
  /\ Remove(DocType, Id) \/ Clear
  /\ accepted' = {}
  /\ removed' = (removed \/ Found(DocType, Id))
  /\ UNCHANGED <<view, made>>

OtherDocument ==
  /\ \E type \in DocTypes \ {DocType} : Operation(type, Id)
  /\ UNCHANGED <<view, made, accepted, removed>>

UpdateInit ==
  /\ StoreInit
  /\ view = [c \in Clients |-> NotReading]
  /\ made = [c \in Clients |-> 0]
  /\ accepted = {} /\ removed = FALSE

UpdateNext ==
  \/ \E c \in Clients : ReadView(c) \/ WriteBack(c)
  \/ RemoveDocument
  \/ OtherDocument

UpdateSpec == UpdateInit /\ [][UpdateNext]_updateVars

----------------------------------------------------------------------------
(* Properties *)

\* No update is lost: the document holds exactly the updates whose writes were
\* accepted, as long as nobody removes it.
NoUpdateIsLost == removed \/ Content(store[DocType][Id]) = accepted

\* As long as nobody removes the document, what a client holds is an earlier one:
\* never ahead of the stored document, and the same whenever it has its version.
ViewsAreEarlierDocuments ==
  \A c \in Clients : view[c].reading /\ ~removed =>
    /\ view[c].stateVersion <= StateVersion(DocType, Id)
    /\ view[c].stateVersion = StateVersion(DocType, Id)
         => view[c].state = Content(store[DocType][Id])

Atomic == INSTANCE AtomicDocument WITH applied <- Content(store[DocType][Id])

\* Up to the first removal, reading, awaiting and writing back under the version
\* check is one atomic update or none.
ImplementsAtomicUpdates ==
  Atomic!Init /\ [][removed' \/ Atomic!Update]_(Content(store[DocType][Id]))
=============================================================================
