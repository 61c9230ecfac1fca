----------------------------- MODULE MCBandCache -----------------------------
(* BandCache with a few changes of the SCF input and of the band path. *)
EXTENDS BandCache
=============================================================================
