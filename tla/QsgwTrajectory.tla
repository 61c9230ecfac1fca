--------------------------- MODULE QsgwTrajectory ---------------------------
(***************************************************************************)
(* What a user of QSGW is promised across crashes and restarts: one        *)
(* sequence of states 0, 1, 2, ..., of which the checkpoint file holds     *)
(* one.  A job begins at state 0 or resumes the saved state, advances one  *)
(* state at a time, and replaces the saved state by its live one; however  *)
(* a job ends, the saved state stays.                                      *)
(***************************************************************************)
EXTENDS Naturals

CONSTANTS None      \* no job is running, or no state is saved

VARIABLES live,     \* index of the state the running job holds, or None
          saved     \* index of the state in the checkpoint file, or None

tvars == <<live, saved>>

Init == live = None /\ saved = None

Begin == live = None /\ live' = 0 /\ UNCHANGED saved

Resume ==
  /\ live = 0 /\ saved # None
  /\ live' = saved
  /\ UNCHANGED saved

Advance == live # None /\ live' = live + 1 /\ UNCHANGED saved

Save ==
  /\ live # None /\ live # 0
  /\ saved' = live
  /\ UNCHANGED live

End == live # None /\ live' = None /\ UNCHANGED saved

Next == Begin \/ Resume \/ Advance \/ Save \/ End

Spec == Init /\ [][Next]_tvars
=============================================================================
