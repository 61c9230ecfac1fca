-------------------------- MODULE MCQsgwCheckpoint --------------------------
(* Two inputs and all settings that change the layout of the stream. *)
EXTENDS QsgwCheckpoint
=============================================================================
