----------------------------- MODULE MCJournal -----------------------------
(***************************************************************************)
(* A small instance of the journal for TLC.                                *)
(***************************************************************************)
EXTENDS Journal

CONSTANTS s1, s2, good, bad, v1

\* One common number: all entries of a stream belong to one entity id, or
\* their ids have no leading number.
SameId == [source \in Sources |-> 0]

\* No guard tells one stream from another.
Tools == INSTANCE TLC
AnyStream == Tools!Permutations(Streams)
=============================================================================
