--------------------------- MODULE AtomicDocument ---------------------------
(***************************************************************************)
(* What optimistic concurrency promises to those who update one document   *)
(* by reading it and writing it back (DocumentStore.write in               *)
(* src/store/document/DocumentStore.ts): updates that are accepted happen  *)
(* one after the other, as if reading and writing were one step.           *)
(***************************************************************************)

CONSTANT Updates

VARIABLE applied   \* the updates the document has taken in

Init == applied = {}

Update == \E u \in Updates \ applied : applied' = applied \cup {u}

Spec == Init /\ [][Update]_applied
=============================================================================
