--------------------------- MODULE MCOcrRequests ---------------------------
(* Small instances of OcrRequests for TLC. *)
EXTENDS OcrRequests

CONSTANT u1

OneOwner == [d \in Docs |-> u1]
=============================================================================
