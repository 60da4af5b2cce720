--------------------------- MODULE MCSourcedEntity ---------------------------
(***************************************************************************)
(* Small instances of entities on one stream for TLC.                      *)
(***************************************************************************)
EXTENDS SourcedEntityClaims

CONSTANTS s1, e1, e2, good, bad, odd

SameId == [source \in Sources |-> 0]

\* A snapshot holds the state of an entity.
States == UNION {[1 .. n -> Sources] : n \in 0 .. MaxEntries}

Shared == [e \in Entities |-> s1]

\* No guard reads reply or report, and no invariant of a run with this view.
unreported == <<store, phase, state, version, read, request>>
=============================================================================
