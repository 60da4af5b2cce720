------------------------- MODULE SourcedEntityClaims -------------------------
(***************************************************************************)
(* What comments and documents of the repository say of sourced entities   *)
(* and the code does not do.  Each is refuted by a run of its own.         *)
(***************************************************************************)
EXTENDS SourcedEntity

\* "Apply only entries AFTER the snapshot version" (SourcedEntity.ts, restore):
\* an entity restored from a snapshot and what follows it is where its stream is.
RestoredStateIsTheStream ==
  [][\A e \in Entities :
       phase[e] = "restoring" /\ report'[e].result = "recovered"
         => state'[e] = SubSeq(EventsOf(StreamOf[e]), 1, version'[e])]_allVars
=============================================================================
