---------------------------- MODULE MCCrpaResponse ----------------------------
(* CrpaResponse with two different band selections. *)
EXTENDS CrpaResponse
=============================================================================
