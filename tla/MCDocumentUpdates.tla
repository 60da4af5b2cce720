-------------------------- MODULE MCDocumentUpdates --------------------------
(***************************************************************************)
(* A small instance of actors that update one document for TLC.            *)
(***************************************************************************)
EXTENDS DocumentUpdates

CONSTANTS profile, activity, id1, c1, c2, c3, odd, src

\* What others write: one state that can be stored, and odd, whose adapter throws.
States == {{}, odd}
=============================================================================
