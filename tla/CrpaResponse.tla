----------------------------- MODULE CrpaResponse -----------------------------
(***************************************************************************)
(* The response function P0 that GW and the constrained RPA share          *)
(* (core/crpa_workflow.cpp, core/chi0.cpp, api/compute_g0w0.cpp).  A Chi0  *)
(* object has one map, chi0_q, and one band selection, and every cRPA      *)
(* stage works in them: CrpaChi0State sets the caller's aside and puts     *)
(* them back, whether the stage returns or throws.  The full response a    *)
(* call is given may be that very map: GW passes chi0.get_chi0_q() to its  *)
(* observer and goes on to screen it.                                      *)
(*                                                                         *)
(* All ranks make the same calls and every failure is agreed between them, *)
(* so one process stands for all.                                          *)
(***************************************************************************)

CONSTANTS Selections,   \* band selections with at least one entry
          NoSelection   \* the empty one: all bands

ASSUME SelectionAssumption == NoSelection \notin Selections

Selection == Selections \cup {NoSelection}

VARIABLES chi0_q,     \* the map of the Chi0 object
          selection,  \* its band_selection_
          guard,      \* what the live CrpaChi0State holds
          stage,      \* the stage of the call, "idle" outside of one
          step,       \* where in the stage
          call,       \* the task called, and its selection
          owned,      \* the maps owned by the functions of the call
          view,       \* the map and the selection as the caller left them
          gw,         \* GW has built P0 and has still to screen it
          wc          \* the last screening: for what, and of which response

vars == <<chi0_q, selection, guard, stage, step, call, owned, view, gw, wc>>

(* Responses: an empty map, one whose blocks are freed or were never       *)
(* finished, a build under a selection, and a difference.                  *)
Empty    == [kind |-> "empty"]
Broken   == [kind |-> "broken"]
Built(s) == [kind |-> "built", selection |-> s]

Difference(full, excluded) ==
  [kind |-> "difference", full |-> full, excluded |-> excluded]

NoGuard == [held |-> FALSE]
Guard(response, s) == [held |-> TRUE, response |-> response, selection |-> s]

Nowhere == [full |-> Empty, excluded |-> Empty, constrained |-> Empty]
-----------------------------------------------------------------------------
Idle == stage = "idle"

Init ==
  /\ chi0_q = Empty /\ selection = NoSelection /\ guard = NoGuard
  /\ stage = "idle" /\ step = "enter"
  /\ call = [task |-> "none", selection |-> NoSelection]
  /\ owned = Nowhere
  /\ view = [response |-> Empty, selection |-> NoSelection]
  /\ gw = FALSE
  /\ wc = [for |-> "none", of |-> Empty, full |-> Empty, selection |-> NoSelection]

(* What the caller does to its Chi0 between calls. *)
Leave(response, s) ==
  /\ Idle
  /\ chi0_q' = response /\ selection' = s
  /\ view' = [response |-> response, selection |-> s]
  /\ UNCHANGED <<guard, stage, step, call, owned>>

(* initialize_ds_chi0: a new Chi0. *)
Initialize == Leave(Empty, NoSelection) /\ gw' = FALSE /\ wc' = wc

SelectBands(s) == ~ gw /\ Leave(chi0_q, s) /\ UNCHANGED <<gw, wc>>

(* build_g0w0_sigma: the build, which may throw half-way, and the          *)
(* screening, which frees the blocks it has used.                          *)
GwBuild ==
  /\ \/ Leave(Built(selection), selection) /\ gw' = TRUE
     \/ Leave(Broken, selection) /\ gw' = FALSE
  /\ wc' = wc

GwScreen ==
  /\ gw /\ Leave(Broken, selection) /\ gw' = FALSE
  /\ wc' = [for |-> "GW", of |-> chi0_q, full |-> view.response,
            selection |-> NoSelection]

(* evaluate_crpa_onsite_from_response on GW's own map, the same on a map   *)
(* of its own (compute_crpa_u_task), or compute_crpa_onsite.               *)
Call(task, s) ==
  /\ Idle
  /\ task = "shared" => gw
  /\ call' = [task |-> task, selection |-> s]
  /\ stage' = IF task = "separate" THEN "total" ELSE "prepare"
  /\ owned' = Nowhere
  /\ UNCHANGED <<chi0_q, selection, guard, step, view, gw, wc>>
-----------------------------------------------------------------------------
Following ==
  CASE stage = "prepare"    -> IF call.task = "onsite" THEN "total" ELSE "excluded"
    [] stage = "total"      -> IF call.task = "onsite" THEN "excluded" ELSE "prepare"
    [] stage = "excluded"   -> "form"
    [] stage = "form"       -> "screen U"
    [] stage = "screen U"   -> "contract U"
    [] stage = "contract U" -> IF call.task = "onsite" THEN "screen W" ELSE "idle"
    [] stage = "screen W"   -> "contract W"
    [] OTHER                -> "idle"

(* Mutant: the second contraction works in the Chi0 object as well. *)
ContractingForU == stage = "contract U"

(* contract_crpa_interaction leaves the Chi0 object alone. *)
Contracting == stage \in {"contract U", "contract W"}

Inside == ~ Idle /\ step # "enter"

(* The constructor of CrpaChi0State. *)
Enter ==
  /\ ~ Idle /\ ~ Contracting /\ step = "enter"
  /\ guard' = Guard(chi0_q, selection)
  /\ chi0_q' = Empty
  /\ step' = CASE stage \in {"prepare", "excluded"} -> "select"
               [] stage = "total" -> "clear"
               [] OTHER -> "swap"
  /\ UNCHANGED <<selection, stage, call, owned, view, gw, wc>>

(* set_band_selection and the demand for a non-empty one. *)
Select ==
  /\ Inside /\ step = "select"
  /\ call.selection # NoSelection
  /\ selection' = call.selection
  /\ step' = IF stage = "prepare" THEN "clear" ELSE "build"
  /\ UNCHANGED <<chi0_q, guard, stage, call, owned, view, gw, wc>>

(* Mutant: the selection of before is left in place. *)
KeepSelection ==
  /\ Inside /\ step = "clear"
  /\ step' = IF stage = "prepare" THEN "leave" ELSE "build"
  /\ UNCHANGED <<chi0_q, selection, guard, stage, call, owned, view, gw, wc>>

(* clear_band_selection. *)
Clear ==
  /\ Inside /\ step = "clear"
  /\ selection' = NoSelection
  /\ step' = IF stage = "prepare" THEN "leave" ELSE "build"
  /\ UNCHANGED <<chi0_q, guard, stage, call, owned, view, gw, wc>>

Build ==
  /\ Inside /\ step = "build"
  /\ chi0_q' = Built(selection)
  /\ step' = "take"
  /\ UNCHANGED <<selection, guard, stage, call, owned, view, gw, wc>>

(* The map a stage returns, or is given. *)
Returned == CASE stage = "total" -> "full"
              [] stage = "excluded" -> "excluded"
              [] OTHER -> "constrained"
Given == CASE stage = "form" -> "excluded"
           [] stage = "screen W" -> "full"
           [] OTHER -> "constrained"

(* take_chi0_q. *)
Take ==
  /\ Inside /\ step = "take"
  /\ owned' = [owned EXCEPT ![Returned] = chi0_q]
  /\ chi0_q' = Empty
  /\ step' = "leave"
  /\ UNCHANGED <<selection, guard, stage, call, view, gw, wc>>

(* swap_chi0_q with the map the stage was given. *)
Swap ==
  /\ Inside /\ step = "swap"
  /\ chi0_q' = owned[Given]
  /\ owned' = [owned EXCEPT ![Given] = chi0_q]
  /\ step' = IF stage = "form" THEN "difference" ELSE "screen"
  /\ UNCHANGED <<selection, guard, stage, call, view, gw, wc>>

(* Mutant: the reference is read as it is. *)
FullThroughReference == IF call.task = "shared" THEN chi0_q ELSE owned.full

(* A reference to chi0_q itself is redirected to where the constructor has *)
(* moved the contents.                                                     *)
Full == IF call.task = "shared" THEN guard.response ELSE owned.full

(* replace_chi0_q_by_difference. *)
Subtract ==
  /\ Inside /\ step = "difference"
  /\ chi0_q' = Difference(Full, chi0_q)
  /\ step' = "take"
  /\ UNCHANGED <<selection, guard, stage, call, owned, view, gw, wc>>

(* The P0 a call is to use. *)
P0 == IF call.task = "shared" THEN view.response ELSE Built(NoSelection)

(* compute_Wc_freq_q_blacs. *)
Screen ==
  /\ Inside /\ step = "screen"
  /\ wc' = [for |-> IF stage = "screen U" THEN "U" ELSE "W", of |-> chi0_q,
            full |-> P0, selection |-> call.selection]
  /\ chi0_q' = Broken
  /\ step' = "leave"
  /\ UNCHANGED <<selection, guard, stage, call, owned, view, gw>>

(* Mutant: the selection is not put back. *)
RestoreMap ==
  /\ chi0_q' = IF guard.held THEN guard.response ELSE chi0_q
  /\ selection' = selection
  /\ guard' = NoGuard
  /\ step' = "enter"

(* The destructor of CrpaChi0State, if one is alive. *)
Restore ==
  /\ chi0_q' = IF guard.held THEN guard.response ELSE chi0_q
  /\ selection' = IF guard.held THEN guard.selection ELSE selection
  /\ guard' = NoGuard
  /\ step' = "enter"

Return ==
  /\ \/ Inside /\ step = "leave"
     \/ Contracting
  /\ Restore
  /\ stage' = Following
  /\ UNCHANGED <<call, owned, view, gw, wc>>

(* Anything that validates, builds, subtracts or screens may throw; the    *)
(* call is unwound, and so is GW if it is GW's observer that threw.        *)
Throw ==
  /\ ~ Idle /\ step \notin {"swap", "take"}
  /\ Restore
  /\ stage' = "idle" /\ owned' = Nowhere
  /\ gw' = (gw /\ call.task # "shared")
  /\ UNCHANGED <<call, view, wc>>

Next ==
  \/ Initialize \/ GwBuild \/ GwScreen
  \/ \E s \in Selection : SelectBands(s)
  \/ \E task \in {"shared", "separate", "onsite"}, s \in Selection : Call(task, s)
  \/ Enter \/ Select \/ Clear \/ Build \/ Take \/ Swap \/ Subtract \/ Screen
  \/ Return \/ Throw

Spec == Init /\ [][Next]_vars
-----------------------------------------------------------------------------
Step == {"enter", "select", "clear", "build", "take", "swap", "difference",
         "screen", "leave"}
Stage == {"idle", "prepare", "total", "excluded", "form", "screen U",
          "contract U", "screen W", "contract W"}

(* Types, and at most one CrpaChi0State is alive, within a stage only.     *)
TypeOK ==
  /\ selection \in Selection /\ gw \in BOOLEAN
  /\ stage \in Stage /\ step \in Step
  /\ call \in [task: {"none", "shared", "separate", "onsite"}, selection: Selection]
  /\ view.selection \in Selection
  /\ owned = [m \in {"full", "excluded", "constrained"} |-> owned[m]]
  /\ guard.held \in BOOLEAN
  /\ guard.held <=> step # "enter"
  /\ stage \in {"idle", "contract U", "contract W"} => step = "enter"

(* Whatever a call does and however it ends, its caller finds the resident *)
(* response and the band selection it had; while a stage works in the      *)
(* Chi0 object they are safe with the guard.                               *)
CallersStateKept ==
  IF guard.held THEN guard = Guard(view.response, view.selection)
                ELSE chi0_q = view.response /\ selection = view.selection

(* U is screened with the full response minus the one of the selection,    *)
(* each built under its own selection, also when the full response is the  *)
(* resident map; W and GW are screened with the full response.             *)
RightResponseScreened ==
  /\ wc.for = "U" => wc.of = Difference(wc.full, Built(wc.selection))
  /\ wc.for \in {"W", "GW"} => wc.of = wc.full
=============================================================================
