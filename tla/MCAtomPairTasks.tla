--------------------------- MODULE MCAtomPairTasks ---------------------------
(* AtomPairTasks on every process grid of up to 4 x 4. *)
EXTENDS AtomPairTasks
=============================================================================
