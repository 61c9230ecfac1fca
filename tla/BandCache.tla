------------------------------ MODULE BandCache ------------------------------
(***************************************************************************)
(* The k-space matrices a Dataset keeps between API calls (api/input.cpp,  *)
(* api/compute_exx.cpp, api/compute_g0w0.cpp).  Exx and G0W0 each keep     *)
(* their latest rotation to Kohn-Sham states, of the SCF k-grid or of the  *)
(* band path, and one flag, is_band_calc_done, tells both of them whether  *)
(* a band rotation may be served again.  The host program sets new input   *)
(* and asks for values in any order; every process makes the same calls.   *)
(***************************************************************************)
EXTENDS Naturals

CONSTANTS Kpara,    \* use_kpara_scf_eigvec: wave functions are distributed
          MaxInput  \* bound: versions of the SCF input and of the band data

ASSUME CacheAssumption == Kpara \in BOOLEAN /\ MaxInput \in Nat

VARIABLES scf,     \* version of the SCF input, lattice and basis
          band,    \* version of the band data, and how much of it is set
          done,    \* is_band_calc_done
          layout,  \* of the band wave functions: dense or blocks, and
                   \* moved: band_eigvecs_kpara_2d_redistributed_
          exx,     \* p_exx: alive, its r-space version and k-space matrices
          g0w0,    \* p_g0w0, and sigc_kspace_source
          reply    \* the last value delivered, and what was asked for

cacheVars == <<scf, band, done, layout, exx, g0w0, reply>>

(* k-space matrices: what they are of, from which versions. *)
Nothing      == [of |-> "none", band |-> 0, scf |-> 0]
ScfGrid(s)   == [of |-> "scf", band |-> 0, scf |-> s]
BandPath(b, s) == [of |-> "band", band |-> b, scf |-> s]
Garbled      == [of |-> "garbled", band |-> 0, scf |-> 0]

Contents == [of: {"none", "scf", "band", "garbled"}, band: Nat, scf: Nat]

Absent    == [alive |-> FALSE, scf |-> 0, k |-> Nothing, source |-> ""]
Fresh(s)  == [alive |-> TRUE, scf |-> s, k |-> Nothing, source |-> ""]

ResetKspace(object) == [object EXCEPT !.k = Nothing, !.source = ""]

Complete == band.parts = 3
-----------------------------------------------------------------------------
CacheInit ==
  /\ scf = 0 /\ band = [version |-> 0, parts |-> 0] /\ done = FALSE
  /\ layout = [is |-> "dense", moved |-> FALSE]
  /\ exx = Absent /\ g0w0 = Absent
  /\ reply = [asked |-> Nothing, got |-> Nothing]

(* A new band path is set in the order of the driver: k-points,            *)
(* eigenvalues, wave functions.                                            *)
SetBandKvec ==
  /\ band.version < MaxInput
  /\ band' = [version |-> band.version + 1, parts |-> 1]
  /\ done' = FALSE
  /\ UNCHANGED <<scf, layout, exx, g0w0, reply>>

(* Mutant: reset_band_eigvecs_kpara_state is not called. *)
SetBandEigvalKeepsLayout ==
  /\ band.parts = 1
  /\ band' = [band EXCEPT !.parts = 2]
  /\ done' = FALSE
  /\ layout' = [layout EXCEPT !.is = "dense"]
  /\ UNCHANGED <<scf, exx, g0w0, reply>>

SetBandEigval ==
  /\ band.parts = 1
  /\ band' = [band EXCEPT !.parts = 2]
  /\ done' = FALSE
  /\ layout' = [is |-> "dense", moved |-> FALSE]
  /\ UNCHANGED <<scf, exx, g0w0, reply>>

SetWfcBand ==
  /\ band.parts = 2
  /\ band' = [band EXCEPT !.parts = 3]
  /\ done' = FALSE
  /\ UNCHANGED <<scf, layout, exx, g0w0, reply>>

ResetBandData ==
  /\ band' = [band EXCEPT !.parts = 0]
  /\ done' = FALSE
  /\ layout' = [is |-> "dense", moved |-> FALSE]
  /\ UNCHANGED <<scf, exx, g0w0, reply>>

(* Mutant: p_exx survives. *)
InvalidateSigmaOnly ==
  /\ scf < MaxInput /\ scf' = scf + 1
  /\ g0w0' = Absent /\ done' = FALSE
  /\ UNCHANGED <<band, layout, exx, reply>>

(* The setters of lattice, atoms, k-grid, symmetry and basis convention,   *)
(* all of which call invalidate_compute_objects.                           *)
Invalidate ==
  /\ scf < MaxInput /\ scf' = scf + 1
  /\ exx' = Absent /\ g0w0' = Absent /\ done' = FALSE
  /\ UNCHANGED <<band, layout, reply>>
-----------------------------------------------------------------------------
(* librpa_build_exx always starts over; librpa_build_g0w0_sigma keeps an   *)
(* Exx it finds (ensure_exx) and starts the G0W0 object over.              *)
EnsuredExx == IF exx.alive THEN exx ELSE Fresh(scf)

BuildExx ==
  /\ exx' = Fresh(scf) /\ done' = FALSE
  /\ UNCHANGED <<scf, band, layout, g0w0, reply>>

BuildSigma ==
  /\ exx' = EnsuredExx /\ g0w0' = Fresh(scf) /\ done' = FALSE
  /\ UNCHANGED <<scf, band, layout, reply>>

(* build_KS_kgrid_blacs, build_sigc_matrix_KS_kgrid_blacs. *)
OnScfGrid(object) ==
  [object EXCEPT !.k = ScfGrid(object.scf), !.source = "kgrid"]

(* redistribute_band_eigvecs_kpara_2d, which returns at once if it ran.    *)
NewLayout ==
  IF Kpara /\ ~ layout.moved THEN [is |-> "blocks", moved |-> TRUE] ELSE layout

(* build_KS_band_blacs, build_sigc_matrix_KS_band_blacs: the rotation      *)
(* reads the wave functions in the layout it expects.                      *)
OnBandPath(object, l) ==
  [object EXCEPT
     !.k = IF (l.is = "blocks") = Kpara THEN BandPath(band.version, object.scf)
                                        ELSE Garbled,
     !.source = "band"]

Answer(asked, object) == reply' = [asked |-> asked, got |-> object.k]

(* Mutant: the flag still speaks for the band path. *)
ExxKgridKeepsFlag ==
  /\ exx' = OnScfGrid(EnsuredExx)
  /\ Answer(ScfGrid(scf), exx')
  /\ UNCHANGED <<scf, band, done, layout, g0w0>>

(* librpa_get_exx_pot_kgrid. *)
ExxKgrid ==
  /\ exx' = OnScfGrid(EnsuredExx)
  /\ done' = FALSE
  /\ Answer(ScfGrid(scf), exx')
  /\ UNCHANGED <<scf, band, layout, g0w0>>

(* Mutant: the G0W0 matrices are left for the flag to vouch for. *)
ExxBandAlone ==
  LET served == exx.alive /\ done /\ exx.k # Nothing
  IN /\ Complete
     /\ IF served THEN UNCHANGED <<exx, g0w0, done, layout>>
        ELSE /\ layout' = NewLayout
             /\ exx' = OnBandPath(ResetKspace(EnsuredExx), layout')
             /\ g0w0' = g0w0
             /\ done' = TRUE
     /\ Answer(BandPath(band.version, scf), exx')
     /\ UNCHANGED <<scf, band>>

(* librpa_get_exx_pot_band_k.  If the flag is down, the matrices of G0W0,  *)
(* which may be of an earlier path, are dropped before it is raised.       *)
ExxBand ==
  LET served == exx.alive /\ done /\ exx.k # Nothing
      down   == ~ done \/ ~ exx.alive      \* librpa_build_exx lowers it
  IN /\ Complete
     /\ IF served THEN UNCHANGED <<exx, g0w0, done, layout>>
        ELSE /\ layout' = NewLayout
             /\ exx' = OnBandPath(ResetKspace(EnsuredExx), layout')
             /\ g0w0' = IF down THEN ResetKspace(g0w0) ELSE g0w0
             /\ done' = TRUE
     /\ Answer(BandPath(band.version, scf), exx')
     /\ UNCHANGED <<scf, band>>

(* librpa_get_g0w0_qpe_kgrid and ..._spectral_function_kgrid. *)
SigmaKgrid ==
  /\ exx' = IF g0w0.alive THEN exx ELSE EnsuredExx
  /\ g0w0' = OnScfGrid(IF g0w0.alive THEN g0w0 ELSE Fresh(scf))
  /\ done' = FALSE
  /\ Answer(ScfGrid(scf), g0w0')
  /\ UNCHANGED <<scf, band, layout>>

(* ensure_band_sigc_ks_blacs, reached from the band queries of the self-   *)
(* energy, the quasiparticle energies and the spectral function.           *)
SigmaBand ==
  LET served == g0w0.alive /\ done /\ g0w0.source = "band" /\ g0w0.k # Nothing
      ready  == IF g0w0.alive THEN exx ELSE EnsuredExx
      down   == ~ done \/ ~ g0w0.alive
  IN /\ Complete
     /\ IF served THEN UNCHANGED <<exx, g0w0, done, layout>>
        ELSE /\ layout' = NewLayout
             /\ exx' = IF down THEN ResetKspace(ready) ELSE ready
             /\ g0w0' = OnBandPath(ResetKspace(IF g0w0.alive THEN g0w0 ELSE Fresh(scf)),
                                   layout')
             /\ done' = TRUE
     /\ Answer(BandPath(band.version, scf), g0w0')
     /\ UNCHANGED <<scf, band>>

CacheNext ==
  \/ SetBandKvec \/ SetBandEigval \/ SetWfcBand \/ ResetBandData \/ Invalidate
  \/ BuildExx \/ BuildSigma
  \/ ExxKgrid \/ ExxBand \/ SigmaKgrid \/ SigmaBand

CacheSpec == CacheInit /\ [][CacheNext]_cacheVars
-----------------------------------------------------------------------------
Object == [alive: BOOLEAN, scf: Nat, k: Contents, source: {"", "kgrid", "band"}]

(* Types, and the wave functions are where the flag that spares a second   *)
(* redistribution says they are.                                           *)
CacheTypeOK ==
  /\ scf \in Nat /\ band \in [version: Nat, parts: 0 .. 3] /\ done \in BOOLEAN
  /\ layout \in [is: {"dense", "blocks"}, moved: BOOLEAN]
  /\ layout.moved <=> layout.is = "blocks"
  /\ layout.moved => Kpara
  /\ exx \in Object /\ g0w0 \in Object
  /\ reply \in [asked: Contents, got: Contents]

(* The k-space matrices of an object that a raised flag can vouch for.     *)
Vouched(object) == object.k \in {Nothing, BandPath(band.version, scf)}

(* One flag is enough for two objects: when it is raised, neither of them  *)
(* holds matrices of the SCF grid or of earlier band data, whichever of    *)
(* them raised it.                                                         *)
FlagCoversBoth == done => Complete /\ Vouched(exx) /\ Vouched(g0w0)

(* Exx and G0W0 objects that survive belong to the present SCF input.      *)
ObjectsAreCurrent ==
  /\ exx.alive => exx.scf = scf
  /\ g0w0.alive => g0w0.scf = scf /\ exx.alive

(* Whatever was asked before and in whatever order, a value delivered is   *)
(* of the grid that was asked for, rotated with the band data and built    *)
(* from the SCF input of that moment.                                      *)
ReplyIsCurrent == reply.got = reply.asked
=============================================================================
