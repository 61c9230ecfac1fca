----------------------------- MODULE MCQsgwRun ------------------------------
(* A small job of the QSGW driver for TLC. *)
EXTENDS QsgwRun
=============================================================================
