---------------------------- MODULE MCHalfSchedule ----------------------------
(***************************************************************************)
(* Two atoms of two basis functions on two processes, the pair off the     *)
(* diagonal away from where its transpose is wanted; and on one process.   *)
(***************************************************************************)
EXTENDS HalfSchedule

Desc(npcols) ==
  [rows |-> <<2, 2>>, cols |-> <<2, 2>>, nprows |-> 1, npcols |-> npcols,
   mb |-> 4, nb |-> 4 \div npcols, irsrc |-> 0, icsrc |-> 0, rowMajor |-> FALSE]

MCLayout ==
  {[d |-> Desc(2), uplo |-> "U",
    pairs |-> (0 :> <<<<1, 1>>>> @@ 1 :> <<<<1, 2>>, <<2, 2>>>>)],
   [d |-> Desc(1), uplo |-> "U", pairs |-> (0 :> <<<<1, 1>>, <<1, 2>>, <<2, 2>>>>)]}
=============================================================================
