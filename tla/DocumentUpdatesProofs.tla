------------------------ MODULE DocumentUpdatesProofs ------------------------
(***************************************************************************)
(* Proofs about module DocumentUpdates, for any clients, documents, others *)
(* and bounds: the version check of write (src/store/document/inmemory/    *)
(* InMemoryDocumentStore.ts) makes reading, awaiting and writing back one  *)
(* atomic update or none, until the document is removed.                   *)
(***************************************************************************)
EXTENDS DocumentUpdates, SequenceTheorems, TLAPS

States == Contents \cup SUBSET Updates
Stored == [state : States, dataVersion : Nat \ {0}]
Views == [reading : BOOLEAN, state : SUBSET Updates, stateVersion : Int]

\* The document the clients share.
Shared == store[DocType][Id]

UpdatesTypeOK ==
  /\ store \in [DocTypes -> [Ids -> Stored \cup {NoDocument}]]
  /\ sources \in [Ids -> Seq(Sources)]
  /\ Content(Shared) \subseteq Updates
  /\ view \in [Clients -> Views]
  /\ made \in [Clients -> 0 .. MaxUpdates]
  /\ accepted \subseteq Updates
  /\ removed \in BOOLEAN

\* Who reads has an update left to make, and has seen a version or none.
ReadersMayWrite ==
  \A c \in Clients : view[c].reading => made[c] < MaxUpdates /\ view[c].stateVersion >= -1

\* An update is accepted when it is tried, and no update is tried twice.
AcceptedWereMade == \A c \in Clients, k \in 1 .. MaxUpdates : <<c, k>> \in accepted => k <= made[c]

UpdatesInv ==
  /\ UpdatesTypeOK
  /\ ReadersMayWrite
  /\ AcceptedWereMade
  /\ NoUpdateIsLost
  /\ ViewsAreEarlierDocuments

----------------------------------------------------------------------------
(* The store *)

\* A document is never the absence of one.
LEMMA StoredIsFound ==
  ASSUME NEW state \in States, NEW version \in Nat
  PROVE  [state |-> state, dataVersion |-> version] # NoDocument
  BY NoDocumentAssumption, NoViewAssumption DEF States

\* A version that is found is positive, and -1 stands for no document.
LEMMA VersionOfShared ==
  ASSUME UpdatesTypeOK
  PROVE  /\ Found(DocType, Id) => /\ Shared \in Stored
                                  /\ StateVersion(DocType, Id) = Shared.dataVersion
                                  /\ Content(Shared) = Shared.state
         /\ ~Found(DocType, Id) => /\ StateVersion(DocType, Id) = -1
                                   /\ Content(Shared) = {}
         /\ StateVersion(DocType, Id) \in Int
         /\ StateVersion(DocType, Id) >= -1
<1>1. Shared \in Stored \cup {NoDocument}
  BY SharedAssumption DEF UpdatesTypeOK, Shared
<1> QED
  BY <1>1 DEF Found, StateVersion, Content, Shared, Stored

\* What an accepted write does to the documents and their sources.
Stores(type, id, document, added) ==
  /\ store' = [store EXCEPT ![type][id] = document]
  /\ sources' = [sources EXCEPT ![id] = @ \o added]

\* A write stores a newer document or leaves everything as it is.
LEMMA WriteEffect ==
  ASSUME UpdatesTypeOK, NEW type \in DocTypes, NEW id \in Ids,
         NEW state \in States \cup {Null}, NEW version \in Nat, NEW added,
         Write(type, id, state, version, added)
  PROVE  \/ outcome' # "Success" /\ UNCHANGED <<store, sources>>
         \/ /\ outcome' = "Success"
            /\ state \in States /\ version > 0
            /\ Found(type, id) => store[type][id].dataVersion < version
            /\ Stores(type, id, [state |-> state, dataVersion |-> version], added)
<1>1. Found(type, id) => store[type][id].dataVersion \in Nat
  BY DEF UpdatesTypeOK, Found, Stored
<1>2. CASE state = Null \/ ~Serializable(state, version) \/ Outdated(type, id, version)
  BY <1>2 DEF Write, documents
<1>3. CASE state # Null /\ Serializable(state, version) /\ ~Outdated(type, id, version)
  <2>1. version > 0 /\ (Found(type, id) => store[type][id].dataVersion < version)
    BY <1>1, <1>3 DEF Serializable, Outdated
  <2>2. outcome' = "Success" /\ Stores(type, id, [state |-> state, dataVersion |-> version], added)
    BY <1>3 DEF Write, Stores, documents
  <2> QED
    BY <1>3, <2>1, <2>2
<1> QED
  BY <1>2, <1>3

\* An accepted write leaves a store of documents, and no other document changes.
LEMMA StoredKeepsType ==
  ASSUME UpdatesTypeOK, NEW type \in DocTypes, NEW id \in Ids, NEW document \in Stored,
         NEW added \in Seq(Sources), Stores(type, id, document, added)
  PROVE  /\ store' \in [DocTypes -> [Ids -> Stored \cup {NoDocument}]]
         /\ sources' \in [Ids -> Seq(Sources)]
         /\ store'[type][id] = document
         /\ \A other \in DocTypes : other # type => store'[other] = store[other]
<1>1. sources[id] \o added \in Seq(Sources)
  BY ConcatProperties DEF UpdatesTypeOK
<1> QED
  BY <1>1 DEF UpdatesTypeOK, Stores

\* Whatever a write brings along is a sequence of sources.
LEMMA SomeSources ==
  ASSUME NEW added \in {<<>>} \cup {<<source>> : source \in Sources}
  PROVE  added \in Seq(Sources)
<1>1. CASE added = <<>>
  BY <1>1
<1>2. ASSUME NEW source \in Sources, added = <<source>> PROVE added \in Seq(Sources)
  BY <1>2
<1> QED
  BY <1>1, <1>2

\* What others do leaves a store of documents and the shared document alone.
LEMMA OperationOnOther ==
  ASSUME UpdatesTypeOK, NEW type \in DocTypes, type # DocType, Operation(type, Id)
  PROVE  /\ store' \in [DocTypes -> [Ids -> Stored \cup {NoDocument}]]
         /\ sources' \in [Ids -> Seq(Sources)]
         /\ Shared' = Shared
<1> USE SharedAssumption
<1>1. CASE Read(type, Id)
  BY <1>1 DEF Read, documents, UpdatesTypeOK, Shared
<1>2. CASE Remove(type, Id)
  BY <1>2 DEF Remove, UpdatesTypeOK, Shared
<1>3. ASSUME NEW state \in Contents \cup {Null}, NEW version \in 0 .. MaxVersion,
             NEW added \in {<<>>} \cup {<<source>> : source \in Sources},
             Write(type, Id, state, version, added)
      PROVE  /\ store' \in [DocTypes -> [Ids -> Stored \cup {NoDocument}]]
             /\ sources' \in [Ids -> Seq(Sources)]
             /\ Shared' = Shared
  <2>1. version \in Nat /\ state \in States \cup {Null}
    BY StoreBoundsAssumption DEF States
  <2>2. added \in Seq(Sources)
    BY SomeSources
  <2>3. CASE UNCHANGED <<store, sources>>
    BY <2>3 DEF UpdatesTypeOK, Shared
  <2>4. CASE /\ state \in States /\ version > 0
             /\ Stores(type, Id, [state |-> state, dataVersion |-> version], added)
    <3>1. [state |-> state, dataVersion |-> version] \in Stored
      BY <2>1, <2>4 DEF Stored
    <3> QED
      BY <2>2, <2>4, <3>1, StoredKeepsType DEF Shared
  <2> QED
    BY <1>3, <2>1, <2>3, <2>4, WriteEffect
<1> QED
  BY <1>1, <1>2, <1>3 DEF Operation

----------------------------------------------------------------------------
(* The invariant *)

LEMMA InitiallyUpdated == UpdateInit => UpdatesInv
<1> SUFFICES ASSUME UpdateInit PROVE UpdatesInv
  OBVIOUS
<1> USE SharedAssumption, UpdatesAssumption DEF UpdateInit, StoreInit
<1>1. Shared = NoDocument /\ Content(Shared) = {}
  BY DEF Shared, Content
<1>2. UpdatesTypeOK
  <2>1. NotReading \in Views
    BY DEF NotReading, Views
  <2>2. view \in [Clients -> Views] /\ made \in [Clients -> 0 .. MaxUpdates]
    BY <2>1
  <2>3. /\ store \in [DocTypes -> [Ids -> Stored \cup {NoDocument}]]
        /\ sources \in [Ids -> Seq(Sources)]
    OBVIOUS
  <2> QED
    BY <1>1, <2>2, <2>3 DEF UpdatesTypeOK
<1> QED
  BY <1>1, <1>2 DEF UpdatesInv, ReadersMayWrite, AcceptedWereMade, NoUpdateIsLost,
                    ViewsAreEarlierDocuments, NotReading, Shared

\* A client takes the document as it is.
LEMMA ReadKeeps ==
  ASSUME UpdatesInv, NEW c \in Clients, ReadView(c)
  PROVE  UpdatesInv'
<1> DEFINE seen == [reading |-> TRUE, state |-> Content(Shared),
                    stateVersion |-> StateVersion(DocType, Id)]
<1>1. /\ UNCHANGED <<store, sources, made, accepted, removed>>
      /\ view' = [view EXCEPT ![c] = seen]
      /\ made[c] < MaxUpdates
  BY DEF ReadView, Read, documents, Shared
<1>2. UNCHANGED <<Shared, StateVersion(DocType, Id), Content(Shared)>>
  BY <1>1 DEF Shared, StateVersion, Found, Content
<1>3. UpdatesTypeOK
  BY DEF UpdatesInv
<1>4. StateVersion(DocType, Id) \in Int /\ StateVersion(DocType, Id) >= -1
  BY <1>3, VersionOfShared
<1>5. seen \in Views
  BY <1>3, <1>4 DEF Views, UpdatesTypeOK
<1>6. UpdatesTypeOK'
  BY <1>1, <1>2, <1>3, <1>5 DEF UpdatesTypeOK
<1>7. \A d \in Clients : view'[d] = IF d = c THEN seen ELSE view[d]
  BY <1>1, <1>3 DEF UpdatesTypeOK
<1>8. ReadersMayWrite' /\ AcceptedWereMade'
  BY <1>1, <1>4, <1>7 DEF UpdatesInv, ReadersMayWrite, AcceptedWereMade
<1>9. NoUpdateIsLost'
  BY <1>1, <1>2 DEF UpdatesInv, NoUpdateIsLost, Shared
<1>10. ViewsAreEarlierDocuments'
  BY <1>1, <1>2, <1>4, <1>7 DEF UpdatesInv, ViewsAreEarlierDocuments, Shared
<1> QED
  BY <1>6, <1>8, <1>9, <1>10 DEF UpdatesInv

\* An update that is accepted was made on the document as it is.
LEMMA AcceptedOnCurrent ==
  ASSUME UpdatesInv, NEW c \in Clients, WriteBack(c)
  PROVE  LET update == <<c, made[c] + 1>>
             document == [state |-> view[c].state \cup {update},
                          dataVersion |-> VersionToWrite(c)]
         IN  /\ update \in Updates
             /\ \/ outcome' # "Success" /\ UNCHANGED <<store, sources>>
                \/ /\ outcome' = "Success"
                   /\ Stores(DocType, Id, document, <<>>)
                   /\ document \in Stored
                   /\ document.dataVersion > StateVersion(DocType, Id)
                   /\ ~removed => view[c].state = Content(Shared)
<1> DEFINE update == <<c, made[c] + 1>>
           seen == view[c]
           document == [state |-> seen.state \cup {update}, dataVersion |-> VersionToWrite(c)]
<1>1. UpdatesTypeOK /\ seen \in Views /\ made[c] \in 0 .. MaxUpdates
  BY DEF UpdatesInv, UpdatesTypeOK
<1>2. seen.reading /\ made[c] < MaxUpdates /\ seen.stateVersion >= -1
  BY DEF UpdatesInv, WriteBack, ReadersMayWrite
<1>3. update \in Updates
  BY <1>1, <1>2, UpdatesAssumption DEF Updates
<1>4. VersionToWrite(c) \in Nat
  BY <1>1, <1>2 DEF VersionToWrite, Views
<1>5. seen.state \cup {update} \in States
  BY <1>1, <1>3 DEF Views, States
<1>6. Write(DocType, Id, seen.state \cup {update}, VersionToWrite(c), <<>>)
  BY DEF WriteBack
<1>7. CASE outcome' # "Success" /\ UNCHANGED <<store, sources>>
  BY <1>3, <1>7
<1>8. CASE /\ outcome' = "Success"
           /\ VersionToWrite(c) > 0
           /\ Found(DocType, Id) => store[DocType][Id].dataVersion < VersionToWrite(c)
           /\ Stores(DocType, Id, document, <<>>)
  <2>1. document \in Stored
    BY <1>4, <1>5, <1>8 DEF Stored
  <2>2. VersionToWrite(c) > StateVersion(DocType, Id)
    BY <1>1, <1>4, <1>8, VersionOfShared DEF Shared
  <2>3. ASSUME ~removed PROVE seen.state = Content(Shared)
    <3>1. /\ seen.stateVersion <= StateVersion(DocType, Id)
          /\ seen.stateVersion = StateVersion(DocType, Id) => seen.state = Content(Shared)
      BY <1>2, <2>3 DEF UpdatesInv, ViewsAreEarlierDocuments, Shared
    <3>2. /\ StateVersion(DocType, Id) \in Int /\ seen.stateVersion \in Int
          /\ StateVersion(DocType, Id) >= -1 /\ StateVersion(DocType, Id) # 0
      BY <1>1, VersionOfShared DEF Views, Stored
    <3>3. seen.stateVersion = StateVersion(DocType, Id)
      BY <1>2, <2>2, <3>1, <3>2 DEF VersionToWrite
    <3> QED
      BY <3>1, <3>3
  <2> QED
    BY <1>3, <1>8, <2>1, <2>2, <2>3
<1>9. seen.state \cup {update} \in States \cup {Null}
  BY <1>5
<1> QED
  BY <1>1, <1>4, <1>6, <1>7, <1>8, <1>9, WriteEffect, SharedAssumption

\* What the shared document is decides what is read of it.
LEMMA SameDocument ==
  ASSUME UNCHANGED Shared
  PROVE  UNCHANGED <<StateVersion(DocType, Id), Content(Shared)>>
BY DEF Shared, StateVersion, Found, Content

LEMMA WriteBackKeeps ==
  ASSUME UpdatesInv, NEW c \in Clients, WriteBack(c)
  PROVE  UpdatesInv'
<1> DEFINE update == <<c, made[c] + 1>>
           document == [state |-> view[c].state \cup {update},
                        dataVersion |-> VersionToWrite(c)]
<1>1. UpdatesTypeOK /\ view[c] \in Views /\ made[c] \in 0 .. MaxUpdates
  BY DEF UpdatesInv, UpdatesTypeOK
<1>2. /\ view' = [view EXCEPT ![c] = NotReading]
      /\ made' = [made EXCEPT ![c] = @ + 1]
      /\ accepted' = IF outcome' = "Success" THEN accepted \cup {update} ELSE accepted
      /\ view[c].reading /\ made[c] < MaxUpdates
      /\ UNCHANGED removed
  BY DEF WriteBack, UpdatesInv, ReadersMayWrite
<1>3. update \in Updates
  BY AcceptedOnCurrent
<1>4. NotReading \in Views /\ ~NotReading.reading
  BY DEF NotReading, Views
<1>5. \A d \in Clients : /\ view'[d] = IF d = c THEN NotReading ELSE view[d]
                         /\ made'[d] = IF d = c THEN made[c] + 1 ELSE made[d]
  BY <1>1, <1>2 DEF UpdatesTypeOK
<1>6. /\ view' \in [Clients -> Views]
      /\ made' \in [Clients -> 0 .. MaxUpdates]
      /\ accepted' \subseteq Updates
      /\ removed' \in BOOLEAN
  <2>1. view' \in [Clients -> Views]
    BY <1>1, <1>2, <1>4 DEF UpdatesTypeOK
  <2>2. made[c] + 1 \in 0 .. MaxUpdates
    BY <1>1, <1>2, UpdatesAssumption
  <2>3. made' \in [Clients -> 0 .. MaxUpdates]
    BY <1>1, <1>2, <2>2 DEF UpdatesTypeOK
  <2>4. accepted' \subseteq Updates /\ removed' \in BOOLEAN
    BY <1>1, <1>2, <1>3 DEF UpdatesTypeOK
  <2> QED
    BY <2>1, <2>3, <2>4
<1>7. ReadersMayWrite'
  BY <1>4, <1>5 DEF UpdatesInv, ReadersMayWrite
<1>8. AcceptedWereMade'
  <2> SUFFICES ASSUME NEW d \in Clients, NEW k \in 1 .. MaxUpdates, <<d, k>> \in accepted'
               PROVE  k <= made'[d]
    BY DEF AcceptedWereMade
  <2>1. CASE <<d, k>> \in accepted
    BY <1>1, <1>5, <2>1, UpdatesAssumption DEF UpdatesInv, AcceptedWereMade
  <2>2. CASE <<d, k>> = update
    BY <1>1, <1>5, <2>2, UpdatesAssumption
  <2> QED
    BY <1>2, <2>1, <2>2
<1>9. CASE outcome' # "Success" /\ UNCHANGED <<store, sources>>
  <2>1. UNCHANGED <<Shared, StateVersion(DocType, Id), Content(Shared)>>
    BY <1>9, SameDocument DEF Shared
  <2>2. UpdatesTypeOK'
    BY <1>1, <1>6, <1>9, <2>1 DEF UpdatesTypeOK
  <2>3. NoUpdateIsLost'
    BY <1>2, <1>9, <2>1 DEF UpdatesInv, NoUpdateIsLost, Shared
  <2>4. ViewsAreEarlierDocuments'
    BY <1>2, <1>4, <1>5, <2>1 DEF UpdatesInv, ViewsAreEarlierDocuments, Shared
  <2> QED
    BY <1>7, <1>8, <2>2, <2>3, <2>4 DEF UpdatesInv
<1>10. CASE /\ outcome' = "Success"
            /\ Stores(DocType, Id, document, <<>>)
            /\ document \in Stored
            /\ document.dataVersion > StateVersion(DocType, Id)
            /\ ~removed => view[c].state = Content(Shared)
  <2>1. /\ store' \in [DocTypes -> [Ids -> Stored \cup {NoDocument}]]
        /\ sources' \in [Ids -> Seq(Sources)]
        /\ Shared' = document
    <3>1. <<>> \in Seq(Sources)
      OBVIOUS
    <3> HIDE DEF document
    <3> QED
      BY <1>1, <1>10, <3>1, StoredKeepsType, SharedAssumption DEF Shared
  <2>2. document # NoDocument
    BY <1>10, StoredIsFound DEF Stored
  <2>3. /\ Content(Shared)' = view[c].state \cup {update}
        /\ StateVersion(DocType, Id)' = document.dataVersion
    BY <2>1, <2>2 DEF Content, StateVersion, Found, Shared
  <2>4. UpdatesTypeOK'
    BY <1>1, <1>3, <1>6, <2>1, <2>3 DEF UpdatesTypeOK, Views
  <2>5. NoUpdateIsLost'
    BY <1>2, <1>10, <2>3 DEF UpdatesInv, NoUpdateIsLost, Shared
  <2>6. ViewsAreEarlierDocuments'
    <3> SUFFICES ASSUME NEW d \in Clients, view'[d].reading, ~removed
                 PROVE  view'[d].stateVersion < StateVersion(DocType, Id)'
      <4>1. \A d \in Clients : view'[d].stateVersion \in Int
        BY <1>6 DEF Views
      <4>2. StateVersion(DocType, Id)' \in Int
        BY <1>10, <2>3 DEF Stored
      <4> QED
        BY <1>2, <4>1, <4>2 DEF ViewsAreEarlierDocuments
    <3>1. d # c /\ view'[d] = view[d]
      BY <1>4, <1>5
    <3>2. view[d].stateVersion <= StateVersion(DocType, Id)
      BY <3>1 DEF UpdatesInv, ViewsAreEarlierDocuments
    <3> QED
      BY <1>1, <1>10, <2>3, <3>1, <3>2, VersionOfShared DEF Stored, UpdatesTypeOK, Views
  <2> QED
    BY <1>7, <1>8, <2>4, <2>5, <2>6 DEF UpdatesInv
<1> QED
  BY <1>9, <1>10, AcceptedOnCurrent

\* Once there was a document to remove, nothing is claimed of it any more.
LEMMA RemoveKeeps ==
  ASSUME UpdatesInv, RemoveDocument
  PROVE  UpdatesInv'
<1>1. UpdatesTypeOK
  BY DEF UpdatesInv
<1>2. /\ accepted' = {} /\ removed' = (removed \/ Found(DocType, Id))
      /\ UNCHANGED <<view, made>>
  BY DEF RemoveDocument
<1>3. /\ store' \in [DocTypes -> [Ids -> Stored \cup {NoDocument}]]
      /\ sources' \in [Ids -> Seq(Sources)]
      /\ Shared' = NoDocument
  <2>1. CASE Remove(DocType, Id)
    BY <1>1, <2>1, SharedAssumption DEF Remove, UpdatesTypeOK, Shared
  <2>2. CASE Clear
    BY <2>2, SharedAssumption DEF Clear, Shared
  <2> QED
    BY <2>1, <2>2 DEF RemoveDocument
<1>4. Content(Shared)' = {}
  BY <1>3 DEF Content
<1>5. UpdatesTypeOK'
  BY <1>1, <1>2, <1>3, <1>4 DEF UpdatesTypeOK
<1>6. ReadersMayWrite' /\ AcceptedWereMade'
  BY <1>2 DEF UpdatesInv, ReadersMayWrite, AcceptedWereMade
<1>7. NoUpdateIsLost'
  BY <1>2, <1>4 DEF NoUpdateIsLost, Shared
<1>8. ViewsAreEarlierDocuments'
  <2>1. CASE Found(DocType, Id)
    BY <1>2, <2>1 DEF ViewsAreEarlierDocuments
  <2>2. CASE ~Found(DocType, Id)
    <3>1. UNCHANGED <<StateVersion(DocType, Id), Content(Shared)>>
      BY <1>3, <2>2, SameDocument DEF Shared, Found
    <3> QED
      BY <1>2, <2>2, <3>1 DEF UpdatesInv, ViewsAreEarlierDocuments, Shared
  <2> QED
    BY <2>1, <2>2
<1> QED
  BY <1>5, <1>6, <1>7, <1>8 DEF UpdatesInv

LEMMA OtherKeeps ==
  ASSUME UpdatesInv, OtherDocument
  PROVE  UpdatesInv'
<1>1. UpdatesTypeOK /\ UNCHANGED <<view, made, accepted, removed>>
  BY DEF UpdatesInv, OtherDocument
<1>2. /\ store' \in [DocTypes -> [Ids -> Stored \cup {NoDocument}]]
      /\ sources' \in [Ids -> Seq(Sources)]
      /\ Shared' = Shared
  BY <1>1, OperationOnOther DEF OtherDocument
<1>3. UNCHANGED <<StateVersion(DocType, Id), Content(Shared)>>
  BY <1>2, SameDocument
<1> QED
  BY <1>1, <1>2, <1>3 DEF UpdatesInv, UpdatesTypeOK, ReadersMayWrite, AcceptedWereMade,
                          NoUpdateIsLost, ViewsAreEarlierDocuments, Shared

LEMMA UpdatesStep == UpdatesInv /\ [UpdateNext]_updateVars => UpdatesInv'
<1> SUFFICES ASSUME UpdatesInv, [UpdateNext]_updateVars PROVE UpdatesInv'
  OBVIOUS
<1>1. CASE UNCHANGED updateVars
  <2>1. /\ UNCHANGED <<store, sources, view, made, accepted, removed>>
        /\ UNCHANGED <<StateVersion(DocType, Id), Content(Shared), Shared>>
    BY <1>1, SameDocument DEF updateVars, storeVars, documents, Shared
  <2> QED
    BY <2>1 DEF UpdatesInv, UpdatesTypeOK, ReadersMayWrite, AcceptedWereMade,
                NoUpdateIsLost, ViewsAreEarlierDocuments, Shared
<1> QED
  BY <1>1, ReadKeeps, WriteBackKeeps, RemoveKeeps, OtherKeeps DEF UpdateNext

\* The documents, what the clients hold of the shared one and what they were
\* told of their writes fit together.
THEOREM UpdatesInvariant == UpdateSpec => []UpdatesInv
BY InitiallyUpdated, UpdatesStep, PTL DEF UpdateSpec

\* No update is lost (write, InMemoryDocumentStore.ts): until it is removed, the
\* document holds exactly the updates whose writes were accepted.
THEOREM UpdatesAreKept == UpdateSpec => []NoUpdateIsLost
BY UpdatesInvariant, PTL DEF UpdatesInv

\* What a projection holds across its await is an earlier document, and the
\* current one if the version says so.
THEOREM ViewsAreEarlier == UpdateSpec => []ViewsAreEarlierDocuments
BY UpdatesInvariant, PTL DEF UpdatesInv

----------------------------------------------------------------------------
(* The atomic document *)

\* Up to the removal, a step makes an accepted update or leaves the content.
LEMMA StepsAreAtomic ==
  ASSUME UpdatesInv, [UpdateNext]_updateVars
  PROVE  removed' \/ Atomic!Update \/ UNCHANGED Content(store[DocType][Id])
<1> SUFFICES removed' \/ Atomic!Update \/ UNCHANGED Content(Shared)
  BY DEF Shared
<1>1. ASSUME NEW c \in Clients, WriteBack(c)
      PROVE  removed' \/ Atomic!Update \/ UNCHANGED Content(Shared)
  <2> DEFINE update == <<c, made[c] + 1>>
             document == [state |-> view[c].state \cup {update},
                          dataVersion |-> VersionToWrite(c)]
  <2>1. CASE UNCHANGED <<store, sources>>
    BY <2>1, SameDocument DEF Shared
  <2>2. CASE /\ Stores(DocType, Id, document, <<>>)
             /\ document \in Stored
             /\ ~removed => view[c].state = Content(Shared)
    <3>1. UNCHANGED removed
      BY <1>1 DEF WriteBack
    <3>2. Shared' = document
      <4>1. <<>> \in Seq(Sources) /\ UpdatesTypeOK
        BY DEF UpdatesInv
      <4> HIDE DEF document
      <4> QED
        BY <2>2, <4>1, StoredKeepsType, SharedAssumption DEF Shared
    <3>3. Content(Shared)' = view[c].state \cup {update}
      BY <2>2, <3>2, StoredIsFound DEF Content, Stored
    <3>4. update \in Updates /\ update \notin accepted
      <4>1. update \in Updates
        BY <1>1, AcceptedOnCurrent
      <4>2. made[c] + 1 \in 1 .. MaxUpdates /\ ~(made[c] + 1 <= made[c])
        BY <4>1 DEF Updates, UpdatesInv, UpdatesTypeOK
      <4> QED
        BY <4>1, <4>2 DEF UpdatesInv, AcceptedWereMade
    <3> QED
      BY <2>2, <3>1, <3>3, <3>4 DEF UpdatesInv, NoUpdateIsLost, Atomic!Update, Shared
  <2> QED
    BY <1>1, <2>1, <2>2, AcceptedOnCurrent
<1>2. ASSUME NEW c \in Clients, ReadView(c) PROVE UNCHANGED Content(Shared)
  BY <1>2, SameDocument DEF ReadView, Read, documents, Shared
<1>3. CASE RemoveDocument
  <2>1. (UpdatesTypeOK /\ UpdatesTypeOK') /\ removed' = (removed \/ Found(DocType, Id))
    BY <1>3, RemoveKeeps DEF UpdatesInv, RemoveDocument
  <2>2. Shared' = NoDocument
    BY <1>3, <2>1, SharedAssumption
       DEF RemoveDocument, Remove, Clear, UpdatesTypeOK, Shared
  <2> QED
    BY <2>1, <2>2, SameDocument DEF Found, Shared
<1>4. CASE OtherDocument
  BY <1>4, OperationOnOther, SameDocument DEF OtherDocument, UpdatesInv
<1>5. CASE UNCHANGED updateVars
  BY <1>5, SameDocument DEF updateVars, storeVars, documents, Shared
<1> QED
  BY <1>1, <1>2, <1>3, <1>4, <1>5 DEF UpdateNext

\* The version check makes reading, awaiting and writing back one atomic update
\* or none, until somebody removes the document.
THEOREM UpdatesAreAtomic == UpdateSpec => ImplementsAtomicUpdates
<1>1. UpdateInit => Atomic!Init
  BY SharedAssumption DEF UpdateInit, StoreInit, Atomic!Init, Content
<1>2. UpdatesInv /\ [UpdateNext]_updateVars
        => [removed' \/ Atomic!Update]_(Content(store[DocType][Id]))
  BY StepsAreAtomic
<1> QED
  BY <1>1, <1>2, UpdatesInvariant, PTL DEF UpdateSpec, ImplementsAtomicUpdates

----------------------------------------------------------------------------
(* Sources *)

\* Whoever gets sources gets them with a document that is not the one it had.
SourcesWithADocument ==
  \A id \in Ids :
    Len(sources'[id]) > Len(sources[id])
      => \E type \in DocTypes : /\ Found(type, id)'
                                /\ store'[type][id] # store[type][id]

LEMMA WriteBringsSources ==
  ASSUME UpdatesTypeOK, NEW type \in DocTypes, NEW id \in Ids,
         NEW state \in States \cup {Null}, NEW version \in Nat, NEW added \in Seq(Sources),
         Write(type, id, state, version, added)
  PROVE  SourcesWithADocument
<1> DEFINE document == [state |-> state, dataVersion |-> version]
<1>0. \A other \in Ids : Len(sources[other]) \in Nat
  BY DEF UpdatesTypeOK
<1>1. CASE UNCHANGED <<store, sources>>
  BY <1>0, <1>1 DEF SourcesWithADocument
<1>2. CASE /\ state \in States /\ version > 0
           /\ Found(type, id) => store[type][id].dataVersion < version
           /\ Stores(type, id, document, added)
  <2>1. document \in Stored /\ document # NoDocument
    BY <1>2, StoredIsFound DEF Stored
  <2>2. store'[type][id] = document
    <3> HIDE DEF document
    <3> QED
      BY <1>2, <2>1, StoredKeepsType
  <2>3. store[type][id] # document
    BY <1>2, <2>1 DEF Found
  <2>4. \A other \in Ids : other # id => sources'[other] = sources[other]
    BY <1>2 DEF Stores, UpdatesTypeOK
  <2> QED
    BY <1>0, <2>1, <2>2, <2>3, <2>4 DEF SourcesWithADocument, Found
<1> QED
  BY <1>1, <1>2, WriteEffect

LEMMA StepBringsSources ==
  ASSUME UpdatesInv, [UpdateNext]_updateVars
  PROVE  SourcesWithADocument
<1>0. UpdatesTypeOK /\ \A id \in Ids : Len(sources[id]) \in Nat
  BY DEF UpdatesInv, UpdatesTypeOK
<1>1. CASE UNCHANGED sources
  BY <1>0, <1>1 DEF SourcesWithADocument
<1>2. ASSUME NEW type \in DocTypes, Remove(type, Id) \/ Clear PROVE SourcesWithADocument
  <2>1. \A id \in Ids : sources'[id] = <<>> \/ sources'[id] = sources[id]
    BY <1>0, <1>2 DEF Remove, Clear, UpdatesTypeOK
  <2>2. \A id \in Ids : ~(Len(sources'[id]) > Len(sources[id]))
    BY <1>0, <2>1
  <2> QED
    BY <2>2 DEF SourcesWithADocument
<1>3. ASSUME NEW c \in Clients, WriteBack(c) PROVE SourcesWithADocument
  <2>1. view[c] \in Views /\ view[c].stateVersion >= -1
    BY <1>0, <1>3 DEF UpdatesInv, UpdatesTypeOK, ReadersMayWrite, WriteBack
  <2>2. VersionToWrite(c) \in Nat
    BY <2>1 DEF VersionToWrite, Views
  <2>3. view[c].state \cup {<<c, made[c] + 1>>} \in States \cup {Null}
    BY <1>3, <2>1, AcceptedOnCurrent DEF Views, States
  <2>4. <<>> \in Seq(Sources)
    OBVIOUS
  <2> QED
    BY <1>0, <1>3, <2>2, <2>3, <2>4, WriteBringsSources, SharedAssumption DEF WriteBack
<1>4. ASSUME NEW type \in DocTypes, Operation(type, Id) PROVE SourcesWithADocument
  <2>1. CASE Read(type, Id)
    BY <1>1, <2>1 DEF Read, documents
  <2>2. CASE Remove(type, Id)
    BY <1>2, <2>2
  <2>3. ASSUME NEW state \in Contents \cup {Null}, NEW version \in 0 .. MaxVersion,
               NEW added \in {<<>>} \cup {<<source>> : source \in Sources},
               Write(type, Id, state, version, added)
        PROVE  SourcesWithADocument
    <3>1. version \in Nat /\ state \in States \cup {Null}
      BY StoreBoundsAssumption DEF States
    <3>2. added \in Seq(Sources)
      BY <2>3, SomeSources
    <3> QED
      BY <1>0, <2>3, <3>1, <3>2, WriteBringsSources, SharedAssumption
  <2> QED
    BY <1>4, <2>1, <2>2, <2>3 DEF Operation
<1> QED
  BY <1>1, <1>2, <1>3, <1>4, SharedAssumption
     DEF UpdateNext, ReadView, Read, documents, RemoveDocument, OtherDocument,
         updateVars, storeVars

\* Sources and the document they come with are written together or not at all,
\* whatever type the document has (write, InMemoryDocumentStore.ts).
THEOREM SourcesComeAlong == UpdateSpec => SourcesComeWithADocument
<1>1. UpdatesInv /\ [UpdateNext]_updateVars => [SourcesWithADocument]_storeVars
  BY StepBringsSources
<1> QED
  BY <1>1, UpdatesInvariant, PTL
     DEF UpdateSpec, SourcesComeWithADocument, SourcesWithADocument
=============================================================================
