--------------------------- MODULE MCKpointLayout ---------------------------
(* Communicators of up to MaxProc processes, every request for them.       *)
EXTENDS KpointLayout
=============================================================================
