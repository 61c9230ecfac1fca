------------------------------ MODULE DatasetProofs ----------------------------
(***************************************************************************)
(* Proofs about the results a Dataset keeps between API calls and serves   *)
(* again.  BandCache: one flag is enough for the k-space matrices of both  *)
(* the Exx and the G0W0 object, for any number of band paths and of        *)
(* changes of the SCF input.  CrpaResponse: a cRPA call loses neither its  *)
(* caller's response and band selection in the Chi0 object nor screens the *)
(* wrong difference, for every set of band selections and any number of    *)
(* calls.                                                                  *)
(***************************************************************************)
EXTENDS BandCache, CrpaResponse, TLAPS

(* The four invariants of the model, together inductive: the reply is      *)
(* current because the flag covers both objects, the flag can be trusted   *)
(* because the objects are current and the wave functions are where the    *)
(* layout says.                                                            *)
CacheInv == CacheTypeOK /\ FlagCoversBoth /\ ObjectsAreCurrent /\ ReplyIsCurrent

(* A dataset starts with the flag down and without objects.                *)
LEMMA InitEstablishesCacheInv == CacheInit => CacheInv
<1> SUFFICES ASSUME CacheInit PROVE CacheInv
  OBVIOUS
<1>1. Nothing \in Contents /\ Absent \in Object /\ ~ Absent.alive
  BY DEF Nothing, Contents, Absent, Object
<1>2. /\ band \in [version: Nat, parts: 0 .. 3]
      /\ layout \in [is: {"dense", "blocks"}, moved: BOOLEAN]
      /\ layout.moved <=> layout.is = "blocks"
      /\ layout.moved => Kpara
  BY DEF CacheInit
<1>3. reply \in [asked: Contents, got: Contents] /\ reply.got = reply.asked
  BY <1>1 DEF CacheInit
<1>4. CacheTypeOK
  BY <1>1, <1>2, <1>3 DEF CacheInit, CacheTypeOK
<1> QED
  BY <1>1, <1>3, <1>4 DEF CacheInit, CacheInv, FlagCoversBoth, ObjectsAreCurrent,
     ReplyIsCurrent

(* A band rotation finds the wave functions in the layout it expects.      *)
LEMMA RotationReadsTheRightLayout ==
  ASSUME CacheTypeOK
  PROVE  /\ NewLayout \in [is: {"dense", "blocks"}, moved: BOOLEAN]
         /\ NewLayout.moved <=> NewLayout.is = "blocks"
         /\ NewLayout.moved => Kpara
         /\ (NewLayout.is = "blocks") = Kpara
  BY CacheAssumption DEF CacheTypeOK, NewLayout

(* What the rotations and resets leave in an object.                       *)
LEMMA ObjectAfter ==
  ASSUME CacheTypeOK, NEW object \in Object
  PROVE  /\ OnScfGrid(object) \in Object
         /\ OnScfGrid(object).k = ScfGrid(object.scf)
         /\ OnScfGrid(object).alive = object.alive
         /\ OnScfGrid(object).scf = object.scf
         /\ ResetKspace(object) \in Object
         /\ ResetKspace(object).k = Nothing
         /\ ResetKspace(object).alive = object.alive
         /\ ResetKspace(object).scf = object.scf
         /\ OnBandPath(object, NewLayout) \in Object
         /\ OnBandPath(object, NewLayout).k = BandPath(band.version, object.scf)
         /\ OnBandPath(object, NewLayout).alive = object.alive
         /\ OnBandPath(object, NewLayout).scf = object.scf
<1>1. /\ Nothing \in Contents /\ ScfGrid(object.scf) \in Contents
      /\ BandPath(band.version, object.scf) \in Contents
  BY DEF CacheTypeOK, Object, Contents, Nothing, ScfGrid, BandPath
<1>2. OnBandPath(object, NewLayout)
        = [object EXCEPT !.k = BandPath(band.version, object.scf), !.source = "band"]
  BY RotationReadsTheRightLayout DEF OnBandPath
<1>3. ASSUME NEW k \in Contents, NEW source \in {"", "kgrid", "band"}
      PROVE  LET o == [object EXCEPT !.k = k, !.source = source]
             IN /\ o \in Object /\ o.k = k
                /\ o.alive = object.alive /\ o.scf = object.scf
  BY DEF Object
<1>4. /\ OnScfGrid(object) \in Object
      /\ OnScfGrid(object).k = ScfGrid(object.scf)
      /\ OnScfGrid(object).alive = object.alive
      /\ OnScfGrid(object).scf = object.scf
  BY <1>1, <1>3 DEF OnScfGrid
<1>5. /\ ResetKspace(object) \in Object
      /\ ResetKspace(object).k = Nothing
      /\ ResetKspace(object).alive = object.alive
      /\ ResetKspace(object).scf = object.scf
  BY <1>1, <1>3 DEF ResetKspace
<1>6. /\ OnBandPath(object, NewLayout) \in Object
      /\ OnBandPath(object, NewLayout).k = BandPath(band.version, object.scf)
      /\ OnBandPath(object, NewLayout).alive = object.alive
      /\ OnBandPath(object, NewLayout).scf = object.scf
  <2> DEFINE o == [object EXCEPT !.k = BandPath(band.version, object.scf),
                                 !.source = "band"]
  <2>1. /\ o \in Object /\ o.k = BandPath(band.version, object.scf)
        /\ o.alive = object.alive /\ o.scf = object.scf
    BY <1>1, <1>3
  <2> QED
    BY <1>2, <2>1
<1> QED
  BY <1>4, <1>5, <1>6

(* The objects a query works on are of the present input.                  *)
LEMMA ReadyObjects ==
  ASSUME CacheTypeOK, ObjectsAreCurrent
  PROVE  /\ Fresh(scf) \in Object /\ Fresh(scf).alive /\ Fresh(scf).scf = scf
         /\ Fresh(scf).k = Nothing
         /\ EnsuredExx \in Object /\ EnsuredExx.alive /\ EnsuredExx.scf = scf
         /\ Absent \in Object /\ ~ Absent.alive
  BY DEF CacheTypeOK, ObjectsAreCurrent, Fresh, EnsuredExx, Object, Contents, Nothing,
     Absent

(* New input lowers the flag, and drops what it no longer fits.            *)
LEMMA InputPreservesCacheInv ==
  ASSUME CacheInv,
         SetBandKvec \/ SetBandEigval \/ SetWfcBand \/ ResetBandData \/ Invalidate
  PROVE  CacheInv'
<1> USE DEF CacheInv
<1>0. ASSUME done' = FALSE, UNCHANGED <<scf, exx, g0w0, reply>>,
             band' \in [version: Nat, parts: 0 .. 3],
             layout' = layout \/ layout' = [is |-> "dense", moved |-> FALSE]
      PROVE  CacheInv'
  <2>1. /\ layout' \in [is: {"dense", "blocks"}, moved: BOOLEAN]
        /\ layout'.moved <=> layout'.is = "blocks"
        /\ layout'.moved => Kpara
    <3>1. CASE layout' = layout
      BY <3>1 DEF CacheTypeOK
    <3>2. CASE layout' = [is |-> "dense", moved |-> FALSE]
      BY <3>2
    <3> QED
      BY <1>0, <3>1, <3>2
  <2>2. CacheTypeOK'
    BY <1>0, <2>1 DEF CacheTypeOK
  <2> QED
    BY <1>0, <2>2 DEF FlagCoversBoth, ObjectsAreCurrent, ReplyIsCurrent
<1>b. band \in [version: Nat, parts: 0 .. 3]
  BY DEF CacheTypeOK
<1>1. CASE SetBandKvec
  <2>1. band' \in [version: Nat, parts: 0 .. 3]
    BY <1>1, <1>b DEF SetBandKvec
  <2> QED
    BY <1>0, <1>1, <2>1 DEF SetBandKvec
<1>2. CASE SetBandEigval
  <2>1. band' \in [version: Nat, parts: 0 .. 3]
    BY <1>2, <1>b DEF SetBandEigval
  <2> QED
    BY <1>0, <1>2, <2>1 DEF SetBandEigval
<1>3. CASE SetWfcBand
  <2>1. band' \in [version: Nat, parts: 0 .. 3]
    BY <1>3, <1>b DEF SetWfcBand
  <2> QED
    BY <1>0, <1>3, <2>1 DEF SetWfcBand
<1>4. CASE ResetBandData
  <2>1. band' \in [version: Nat, parts: 0 .. 3]
    BY <1>4, <1>b DEF ResetBandData
  <2> QED
    BY <1>0, <1>4, <2>1 DEF ResetBandData
<1>5. CASE Invalidate
  <2>1. CacheTypeOK'
    <3>1. /\ Absent \in Object /\ scf' = scf + 1 /\ exx' = Absent /\ g0w0' = Absent
          /\ done' = FALSE /\ UNCHANGED <<band, layout, reply>>
      BY <1>5, ReadyObjects DEF Invalidate
    <3>2. scf' \in Nat
      BY <3>1 DEF CacheTypeOK
    <3> QED
      BY <3>1, <3>2 DEF CacheTypeOK
  <2>2. ObjectsAreCurrent'
    BY <1>5, ReadyObjects DEF Invalidate, ObjectsAreCurrent
  <2> QED
    BY <1>5, <2>1, <2>2 DEF Invalidate, FlagCoversBoth, ReplyIsCurrent
<1> QED
  BY <1>1, <1>2, <1>3, <1>4, <1>5

(* Builds and rotations to the SCF grid lower the flag too.                *)
LEMMA ScfWorkPreservesCacheInv ==
  ASSUME CacheInv, BuildExx \/ BuildSigma \/ ExxKgrid \/ SigmaKgrid
  PROVE  CacheInv'
<1> USE DEF CacheInv
<1>0. /\ ScfGrid(scf) \in Contents
      /\ scf \in Nat /\ exx \in Object /\ g0w0 \in Object
  BY DEF CacheTypeOK, ScfGrid, Contents
<1>1. CASE BuildExx
  BY <1>1, ReadyObjects DEF BuildExx, CacheTypeOK, FlagCoversBoth, ObjectsAreCurrent,
     ReplyIsCurrent
<1>2. CASE BuildSigma
  BY <1>2, ReadyObjects DEF BuildSigma, CacheTypeOK, FlagCoversBoth, ObjectsAreCurrent,
     ReplyIsCurrent
<1>3. CASE ExxKgrid
  <2>1. /\ exx' = OnScfGrid(EnsuredExx) /\ done' = FALSE
        /\ reply' = [asked |-> ScfGrid(scf), got |-> exx'.k]
        /\ UNCHANGED <<scf, band, layout, g0w0>>
    BY <1>3 DEF ExxKgrid, Answer
  <2>2. exx' \in Object /\ exx'.alive /\ exx'.scf = scf /\ exx'.k = ScfGrid(scf)
    BY <2>1, ObjectAfter, ReadyObjects
  <2> QED
    BY <1>0, <2>1, <2>2 DEF CacheTypeOK, FlagCoversBoth, ObjectsAreCurrent, ReplyIsCurrent
<1>4. CASE SigmaKgrid
  <2> DEFINE g == IF g0w0.alive THEN g0w0 ELSE Fresh(scf)
  <2>1. /\ exx' = (IF g0w0.alive THEN exx ELSE EnsuredExx) /\ done' = FALSE
        /\ g0w0' = OnScfGrid(g)
        /\ reply' = [asked |-> ScfGrid(scf), got |-> g0w0'.k]
        /\ UNCHANGED <<scf, band, layout>>
    BY <1>4 DEF SigmaKgrid, Answer
  <2>2. g \in Object /\ g.alive /\ g.scf = scf
    BY <1>0, ReadyObjects DEF ObjectsAreCurrent
  <2>3. g0w0' \in Object /\ g0w0'.alive /\ g0w0'.scf = scf /\ g0w0'.k = ScfGrid(scf)
    BY <2>1, <2>2, ObjectAfter
  <2>4. exx' \in Object /\ exx'.alive /\ exx'.scf = scf
    BY <1>0, <2>1, ReadyObjects DEF ObjectsAreCurrent
  <2> QED
    BY <1>0, <2>1, <2>3, <2>4 DEF CacheTypeOK, FlagCoversBoth, ObjectsAreCurrent,
       ReplyIsCurrent
<1> QED
  BY <1>1, <1>2, <1>3, <1>4

(* A band query that raises the flag has put in order what the other       *)
(* object holds; one that finds it raised may serve what is there.         *)
LEMMA ExxBandPreservesCacheInv == CacheInv /\ ExxBand => CacheInv'
<1> SUFFICES ASSUME CacheInv, ExxBand PROVE CacheInv'
  OBVIOUS
<1> USE DEF CacheInv
<1> DEFINE served == exx.alive /\ done /\ exx.k # Nothing
           down   == ~ done \/ ~ exx.alive
           wanted == BandPath(band.version, scf)
<1>1. /\ Complete /\ UNCHANGED <<scf, band>>
      /\ reply' = [asked |-> wanted, got |-> exx'.k]
      /\ wanted \in Contents /\ exx \in Object /\ g0w0 \in Object /\ Nothing \in Contents
  BY DEF ExxBand, Answer, CacheTypeOK, BandPath, Contents, Nothing
<1>2. CASE served
  <2>1. UNCHANGED <<exx, g0w0, done, layout>>
    BY <1>2 DEF ExxBand
  <2>2. exx.k = wanted
    BY <1>2 DEF FlagCoversBoth, Vouched
  <2> QED
    BY <1>1, <2>1, <2>2 DEF CacheTypeOK, FlagCoversBoth, Vouched, Complete,
       ObjectsAreCurrent, ReplyIsCurrent
<1>3. CASE ~ served
  <2>1. /\ layout' = NewLayout /\ done' = TRUE
        /\ exx' = OnBandPath(ResetKspace(EnsuredExx), NewLayout)
        /\ g0w0' = IF down THEN ResetKspace(g0w0) ELSE g0w0
    BY <1>3 DEF ExxBand
  <2>2. exx' \in Object /\ exx'.alive /\ exx'.scf = scf /\ exx'.k = wanted
    <3>1. /\ ResetKspace(EnsuredExx) \in Object
          /\ ResetKspace(EnsuredExx).alive /\ ResetKspace(EnsuredExx).scf = scf
      BY ObjectAfter, ReadyObjects
    <3> QED
      BY <2>1, <3>1, ObjectAfter
  <2>3. /\ g0w0' \in Object /\ g0w0'.alive = g0w0.alive /\ g0w0'.scf = g0w0.scf
        /\ g0w0'.k \in {Nothing, wanted}
    <3>1. CASE down
      BY <1>1, <2>1, <3>1, ObjectAfter
    <3>2. CASE ~ down
      BY <1>1, <2>1, <3>2 DEF FlagCoversBoth, Vouched
    <3> QED
      BY <3>1, <3>2
  <2>4. CacheTypeOK'
    BY <1>1, <2>1, <2>2, <2>3, RotationReadsTheRightLayout DEF CacheTypeOK
  <2>5. FlagCoversBoth'
    BY <1>1, <2>2, <2>3 DEF FlagCoversBoth, Vouched, Complete
  <2>6. ObjectsAreCurrent' /\ ReplyIsCurrent'
    BY <1>1, <2>2, <2>3 DEF ObjectsAreCurrent, ReplyIsCurrent
  <2> QED
    BY <2>4, <2>5, <2>6
<1> QED
  BY <1>2, <1>3

(* The band query of the self-energy, the mirror image of the one of Exx.  *)
LEMMA SigmaBandPreservesCacheInv == CacheInv /\ SigmaBand => CacheInv'
<1> SUFFICES ASSUME CacheInv, SigmaBand PROVE CacheInv'
  OBVIOUS
<1> USE DEF CacheInv
<1> DEFINE served == g0w0.alive /\ done /\ g0w0.source = "band" /\ g0w0.k # Nothing
           ready  == IF g0w0.alive THEN exx ELSE EnsuredExx
           down   == ~ done \/ ~ g0w0.alive
           g      == IF g0w0.alive THEN g0w0 ELSE Fresh(scf)
           wanted == BandPath(band.version, scf)
<1>1. /\ Complete /\ UNCHANGED <<scf, band>>
      /\ reply' = [asked |-> wanted, got |-> g0w0'.k]
      /\ wanted \in Contents /\ exx \in Object /\ g0w0 \in Object /\ Nothing \in Contents
  BY DEF SigmaBand, Answer, CacheTypeOK, BandPath, Contents, Nothing
<1>2. CASE served
  <2>1. UNCHANGED <<exx, g0w0, done, layout>>
    BY <1>2 DEF SigmaBand
  <2>2. g0w0.k = wanted
    BY <1>2 DEF FlagCoversBoth, Vouched
  <2> QED
    BY <1>1, <2>1, <2>2 DEF CacheTypeOK, FlagCoversBoth, Vouched, Complete,
       ObjectsAreCurrent, ReplyIsCurrent
<1>3. CASE ~ served
  <2>1. /\ layout' = NewLayout /\ done' = TRUE
        /\ exx' = IF down THEN ResetKspace(ready) ELSE ready
        /\ g0w0' = OnBandPath(ResetKspace(g), NewLayout)
    BY <1>3 DEF SigmaBand
  <2>2. g0w0' \in Object /\ g0w0'.alive /\ g0w0'.scf = scf /\ g0w0'.k = wanted
    <3>1. g \in Object /\ g.alive /\ g.scf = scf
      BY <1>1, ReadyObjects DEF ObjectsAreCurrent
    <3>2. ResetKspace(g) \in Object /\ ResetKspace(g).alive /\ ResetKspace(g).scf = scf
      BY <3>1, ObjectAfter
    <3> QED
      BY <2>1, <3>2, ObjectAfter
  <2>3. ready \in Object /\ ready.alive /\ ready.scf = scf
    BY <1>1, ReadyObjects DEF ObjectsAreCurrent
  <2>4. /\ exx' \in Object /\ exx'.alive /\ exx'.scf = scf
        /\ exx'.k \in {Nothing, wanted}
    <3>1. CASE down
      BY <2>1, <2>3, <3>1, ObjectAfter
    <3>2. CASE ~ down
      BY <2>1, <2>3, <3>2 DEF FlagCoversBoth, Vouched
    <3> QED
      BY <3>1, <3>2
  <2>5. CacheTypeOK'
    BY <1>1, <2>1, <2>2, <2>4, RotationReadsTheRightLayout DEF CacheTypeOK
  <2>6. FlagCoversBoth'
    BY <1>1, <2>2, <2>4 DEF FlagCoversBoth, Vouched, Complete
  <2>7. ObjectsAreCurrent' /\ ReplyIsCurrent'
    BY <1>1, <2>2, <2>4 DEF ObjectsAreCurrent, ReplyIsCurrent
  <2> QED
    BY <2>5, <2>6, <2>7
<1> QED
  BY <1>2, <1>3

(* Every call keeps the invariant.                                         *)
LEMMA NextPreservesCacheInv == CacheInv /\ [CacheNext]_cacheVars => CacheInv'
<1> SUFFICES ASSUME CacheInv, [CacheNext]_cacheVars PROVE CacheInv'
  OBVIOUS
<1>1. CASE UNCHANGED cacheVars
  BY <1>1 DEF cacheVars, CacheInv, CacheTypeOK, FlagCoversBoth, Vouched, Complete,
     ObjectsAreCurrent, ReplyIsCurrent
<1>2. CASE CacheNext
  BY <1>2, InputPreservesCacheInv, ScfWorkPreservesCacheInv, ExxBandPreservesCacheInv,
     SigmaBandPreservesCacheInv DEF CacheNext
<1> QED
  BY <1>1, <1>2

(* The invariant behind the theorems below.                                *)
THEOREM CacheInvariant == CacheSpec => []CacheInv
  BY InitEstablishesCacheInv, NextPreservesCacheInv, PTL DEF CacheSpec

(* Types; and the wave functions are in blocks exactly when the flag that  *)
(* spares a second redistribution is up, whatever was set or reset between.*)
THEOREM LayoutFlagIsRight == CacheSpec => []CacheTypeOK
<1>1. CacheInv => CacheTypeOK
  BY DEF CacheInv
<1> QED
  BY <1>1, CacheInvariant, PTL

(* For every number of band paths and SCF inputs, and every order of       *)
(* calls, a value delivered is of the grid asked for and from the input of *)
(* that moment.                                                            *)
THEOREM RepliesAreCurrent == CacheSpec => []ReplyIsCurrent
<1>1. CacheInv => ReplyIsCurrent
  BY DEF CacheInv
<1> QED
  BY <1>1, CacheInvariant, PTL

(* A raised flag never vouches for matrices of another grid or path, in    *)
(* either object.                                                          *)
THEOREM OneFlagIsEnough == CacheSpec => []FlagCoversBoth
<1>1. CacheInv => FlagCoversBoth
  BY DEF CacheInv
<1> QED
  BY <1>1, CacheInvariant, PTL

(* An Exx object that a later G0W0 build keeps was built from the present  *)
(* SCF input.                                                              *)
THEOREM KeptObjectsAreCurrent == CacheSpec => []ObjectsAreCurrent
<1>1. CacheInv => ObjectsAreCurrent
  BY DEF CacheInv
<1> QED
  BY <1>1, CacheInvariant, PTL
-----------------------------------------------------------------------------
(* The tasks that build the full response themselves. *)
OwnP0 == call.task \in {"separate", "onsite"}

(* Between its build and its last use, the full response is where the      *)
(* stages look for it.                                                     *)
FullIsBuilt ==
  /\ stage \in {"excluded", "form", "screen U", "contract U"} /\ OwnP0
       => owned.full = Built(NoSelection)
  /\ stage = "prepare" /\ call.task = "separate" => owned.full = Built(NoSelection)
  /\ stage = "total" /\ step = "leave" => owned.full = Built(NoSelection)
  /\ stage = "screen W" /\ step \in {"enter", "swap"}
       => owned.full = Built(NoSelection)

(* The constrained response of the present call. *)
Pr == Difference(P0, Built(call.selection))

(* What chi0_q, the selection and the maps that change hands hold at each  *)
(* step that uses them.                                                    *)
MapsAreRight ==
  /\ stage = "total" /\ step = "build" => selection = NoSelection
  /\ stage = "total" /\ step = "take" => chi0_q = Built(NoSelection)
  /\ stage = "excluded" /\ step = "build" => selection = call.selection
  /\ stage = "excluded" /\ step = "take" => chi0_q = Built(call.selection)
  /\ stage = "excluded" /\ step = "leave" => owned.excluded = Built(call.selection)
  /\ stage = "form" /\ step \in {"enter", "swap"}
       => owned.excluded = Built(call.selection)
  /\ stage = "form" /\ step = "difference" => chi0_q = Built(call.selection)
  /\ stage = "form" /\ step = "take" => chi0_q = Pr
  /\ stage = "form" /\ step = "leave" => owned.constrained = Pr
  /\ stage = "screen U" /\ step \in {"enter", "swap"} => owned.constrained = Pr
  /\ stage = "screen U" /\ step = "screen" => chi0_q = Pr
  /\ stage = "screen W" /\ step = "screen" => chi0_q = Built(NoSelection)

(* Which steps a stage has, and which task reaches it. *)
StepsOf ==
  /\ stage = "prepare"  => step \in {"enter", "select", "clear", "leave"}
  /\ stage = "total"    => step \in {"enter", "clear", "build", "take", "leave"}
  /\ stage = "excluded" => step \in {"enter", "select", "build", "take", "leave"}
  /\ stage = "form"     => step \in {"enter", "swap", "difference", "take", "leave"}
  /\ stage \in {"screen U", "screen W"} => step \in {"enter", "swap", "screen", "leave"}
  /\ stage \in {"total", "screen W", "contract W"} => OwnP0
  /\ stage \in {"screen W", "contract W"} => call.task = "onsite"
  /\ ~ Idle => call.task \in {"shared", "separate", "onsite"}

(* The invariants of the model with what makes them inductive. *)
SafetyInv ==
  /\ TypeOK
  /\ StepsOf
  /\ CallersStateKept
  /\ FullIsBuilt
  /\ MapsAreRight
  /\ RightResponseScreened

(* The fields of what a guard holds. *)
LEMMA GuardFields ==
  /\ NoGuard.held = FALSE
  /\ \A r, s : /\ Guard(r, s).held
              /\ Guard(r, s).response = r /\ Guard(r, s).selection = s
  BY DEF NoGuard, Guard

(* The destructor gives back what the constructor set aside, and does      *)
(* nothing if there is none to run.                                        *)
LEMMA RestoreGivesBack ==
  ASSUME CallersStateKept, Restore
  PROVE  chi0_q' = view.response /\ selection' = view.selection
<1>1. CASE guard.held
  BY <1>1, GuardFields DEF CallersStateKept, Restore
<1>2. CASE ~ guard.held
  BY <1>2 DEF CallersStateKept, Restore
<1> QED
  BY <1>1, <1>2

(* A workflow starts with the full response and no guard.                  *)
LEMMA InitEstablishesSafetyInv == Init => SafetyInv
<1> SUFFICES ASSUME Init PROVE SafetyInv
  OBVIOUS
<1>1. TypeOK
  BY DEF Init, TypeOK, Nowhere, Selection, Stage, Step, NoGuard
<1>2. StepsOf /\ FullIsBuilt /\ MapsAreRight
  BY DEF Init, StepsOf, FullIsBuilt, MapsAreRight, Idle
<1>3. CallersStateKept /\ RightResponseScreened
  BY GuardFields DEF Init, CallersStateKept, RightResponseScreened
<1> QED
  BY <1>1, <1>2, <1>3 DEF SafetyInv

(* A new Chi0 object. *)
LEMMA InitializeKeeps ==
  ASSUME SafetyInv, Initialize
  PROVE  SafetyInv'
<1>0. TypeOK /\ StepsOf /\ CallersStateKept
      /\ FullIsBuilt /\ MapsAreRight /\ RightResponseScreened
  BY DEF SafetyInv
<1>1. TypeOK'
  BY <1>0 DEF Initialize, Leave, TypeOK, Selection, Stage, Step, Inside,
     Idle, Contracting
<1>2. StepsOf'
  BY <1>0 DEF Initialize, Leave, TypeOK, StepsOf, OwnP0, Idle, Inside,
     Contracting
<1>3. CallersStateKept'
  BY <1>0 DEF Initialize, Leave, TypeOK, CallersStateKept, Inside, Idle,
     Contracting
<1>4. FullIsBuilt'
  BY <1>0 DEF Initialize, Leave, TypeOK, StepsOf, FullIsBuilt, OwnP0,
     Inside, Idle
<1>5. MapsAreRight'
  BY <1>0 DEF Initialize, Leave, TypeOK, StepsOf, FullIsBuilt, MapsAreRight,
     OwnP0, P0, Pr, Inside, Idle
<1>6. RightResponseScreened'
  BY <1>0 DEF Initialize, Leave, RightResponseScreened
<1> QED
  BY <1>1, <1>2, <1>3, <1>4, <1>5, <1>6 DEF SafetyInv

(* P0 is built, or the build throws half-way. *)
LEMMA GwBuildKeeps ==
  ASSUME SafetyInv, GwBuild
  PROVE  SafetyInv'
<1>0. TypeOK /\ StepsOf /\ CallersStateKept
      /\ FullIsBuilt /\ MapsAreRight /\ RightResponseScreened
  BY DEF SafetyInv
<1>a. PICK r : Leave(r, selection)
  BY DEF GwBuild
<1>b. /\ chi0_q' = r /\ selection' = selection
      /\ view'.response = r /\ view'.selection = selection
      /\ UNCHANGED <<guard, stage, step, call, owned>>
      /\ gw' \in BOOLEAN
  BY <1>a DEF Leave, GwBuild
<1>1. TypeOK'
  BY <1>0, <1>b DEF TypeOK, Selection
<1>2. StepsOf'
  BY <1>0 DEF GwBuild, Leave, TypeOK, StepsOf, OwnP0, Idle, Inside,
     Contracting
<1>3. CallersStateKept'
  BY <1>0, <1>a, <1>b DEF TypeOK, CallersStateKept, Leave, Idle
<1>4. FullIsBuilt'
  BY <1>0 DEF GwBuild, Leave, TypeOK, StepsOf, FullIsBuilt, OwnP0, Inside,
     Idle
<1>5. MapsAreRight'
  BY <1>0 DEF GwBuild, Leave, TypeOK, StepsOf, FullIsBuilt, MapsAreRight,
     OwnP0, P0, Pr, Inside, Idle
<1>6. RightResponseScreened'
  BY <1>0 DEF GwBuild, Leave, RightResponseScreened
<1> QED
  BY <1>1, <1>2, <1>3, <1>4, <1>5, <1>6 DEF SafetyInv

(* GW screens the map it has built. *)
LEMMA GwScreenKeeps ==
  ASSUME SafetyInv, GwScreen
  PROVE  SafetyInv'
<1>0. TypeOK /\ StepsOf /\ CallersStateKept
      /\ FullIsBuilt /\ MapsAreRight /\ RightResponseScreened
  BY DEF SafetyInv
<1>1. TypeOK'
  BY <1>0 DEF GwScreen, Leave, TypeOK, Selection, Stage, Step, Inside, Idle,
     Contracting
<1>2. StepsOf'
  BY <1>0 DEF GwScreen, Leave, TypeOK, StepsOf, OwnP0, Idle, Inside,
     Contracting
<1>3. CallersStateKept'
  BY <1>0 DEF GwScreen, Leave, TypeOK, CallersStateKept, Inside, Idle,
     Contracting
<1>4. FullIsBuilt'
  BY <1>0 DEF GwScreen, Leave, TypeOK, StepsOf, FullIsBuilt, OwnP0, Inside,
     Idle
<1>5. MapsAreRight'
  BY <1>0 DEF GwScreen, Leave, TypeOK, StepsOf, FullIsBuilt, MapsAreRight,
     OwnP0, P0, Pr, Inside, Idle
<1>6. RightResponseScreened'
  BY <1>0 DEF GwScreen, Leave, Idle, TypeOK, CallersStateKept, RightResponseScreened
<1> QED
  BY <1>1, <1>2, <1>3, <1>4, <1>5, <1>6 DEF SafetyInv

(* The caller sets a selection. *)
LEMMA SelectBandsKeeps ==
  ASSUME SafetyInv, NEW s \in Selection, SelectBands(s)
  PROVE  SafetyInv'
<1>0. TypeOK /\ StepsOf /\ CallersStateKept
      /\ FullIsBuilt /\ MapsAreRight /\ RightResponseScreened
  BY DEF SafetyInv
<1>1. TypeOK'
  BY <1>0 DEF SelectBands, Leave, TypeOK, Selection, Stage, Step, Inside,
     Idle, Contracting
<1>2. StepsOf'
  BY <1>0 DEF SelectBands, Leave, TypeOK, StepsOf, OwnP0, Idle, Inside,
     Contracting
<1>3. CallersStateKept'
  BY <1>0 DEF SelectBands, Leave, TypeOK, CallersStateKept, Inside, Idle,
     Contracting
<1>4. FullIsBuilt'
  BY <1>0 DEF SelectBands, Leave, TypeOK, StepsOf, FullIsBuilt, OwnP0,
     Inside, Idle
<1>5. MapsAreRight'
  BY <1>0 DEF SelectBands, Leave, TypeOK, StepsOf, FullIsBuilt,
     MapsAreRight, OwnP0, P0, Pr, Inside, Idle
<1>6. RightResponseScreened'
  BY <1>0 DEF SelectBands, Leave, RightResponseScreened
<1> QED
  BY <1>1, <1>2, <1>3, <1>4, <1>5, <1>6 DEF SafetyInv

(* A call starts with the maps of no earlier one. *)
LEMMA CallKeeps ==
  ASSUME SafetyInv, NEW s \in Selection,
         NEW t \in {"shared", "separate", "onsite"}, Call(t, s)
  PROVE  SafetyInv'
<1>0. TypeOK /\ StepsOf /\ CallersStateKept
      /\ FullIsBuilt /\ MapsAreRight /\ RightResponseScreened
  BY DEF SafetyInv
<1>1. TypeOK'
  BY <1>0 DEF Call, Nowhere, TypeOK, Selection, Stage, Step, Inside, Idle,
     Contracting
<1>2. StepsOf'
  BY <1>0 DEF Call, Nowhere, TypeOK, StepsOf, OwnP0, Idle, Inside,
     Contracting
<1>3. CallersStateKept'
  BY <1>0 DEF Call, Nowhere, TypeOK, CallersStateKept, Inside, Idle,
     Contracting
<1>4. FullIsBuilt'
  BY <1>0 DEF Call, Nowhere, TypeOK, StepsOf, FullIsBuilt, OwnP0, Inside,
     Idle
<1>5. MapsAreRight'
  BY <1>0 DEF Call, Nowhere, TypeOK, StepsOf, FullIsBuilt, MapsAreRight,
     OwnP0, P0, Pr, Inside, Idle
<1>6. RightResponseScreened'
  BY <1>0 DEF Call, Nowhere, RightResponseScreened
<1> QED
  BY <1>1, <1>2, <1>3, <1>4, <1>5, <1>6 DEF SafetyInv

(* The map and the selection are set aside. *)
LEMMA EnterKeeps ==
  ASSUME SafetyInv, Enter
  PROVE  SafetyInv'
<1>0. TypeOK /\ StepsOf /\ CallersStateKept
      /\ FullIsBuilt /\ MapsAreRight /\ RightResponseScreened
  BY DEF SafetyInv
<1>1. TypeOK'
  BY <1>0, GuardFields DEF Enter, TypeOK, Selection, Stage, Step, Inside,
     Idle, Contracting
<1>2. StepsOf'
  BY <1>0, GuardFields DEF Enter, TypeOK, StepsOf, OwnP0, Idle, Inside,
     Contracting
<1>3. CallersStateKept'
  BY <1>0, GuardFields DEF Enter, TypeOK, CallersStateKept, Inside, Idle,
     Contracting
<1>4. FullIsBuilt'
  BY <1>0, GuardFields DEF Enter, TypeOK, StepsOf, FullIsBuilt, OwnP0,
     Inside, Idle
<1>5. MapsAreRight'
  BY <1>0, GuardFields DEF Enter, TypeOK, StepsOf, FullIsBuilt,
     MapsAreRight, OwnP0, P0, Pr, Inside, Idle
<1>6. RightResponseScreened'
  BY <1>0, GuardFields DEF Enter, RightResponseScreened
<1> QED
  BY <1>1, <1>2, <1>3, <1>4, <1>5, <1>6 DEF SafetyInv

(* The selection of the call is set. *)
LEMMA SelectKeeps ==
  ASSUME SafetyInv, Select
  PROVE  SafetyInv'
<1>0. TypeOK /\ StepsOf /\ CallersStateKept
      /\ FullIsBuilt /\ MapsAreRight /\ RightResponseScreened
  BY DEF SafetyInv
<1>1. TypeOK'
  BY <1>0 DEF Select, TypeOK, Selection, Stage, Step, Inside, Idle,
     Contracting
<1>2. StepsOf'
  BY <1>0 DEF Select, TypeOK, StepsOf, OwnP0, Idle, Inside, Contracting
<1>3. CallersStateKept'
  BY <1>0 DEF Select, TypeOK, CallersStateKept, Inside, Idle, Contracting
<1>4. FullIsBuilt'
  BY <1>0 DEF Select, TypeOK, StepsOf, FullIsBuilt, OwnP0, Inside, Idle
<1>5. MapsAreRight'
  BY <1>0 DEF Select, TypeOK, StepsOf, FullIsBuilt, MapsAreRight, OwnP0, P0,
     Pr, Inside, Idle
<1>6. RightResponseScreened'
  BY <1>0 DEF Select, RightResponseScreened
<1> QED
  BY <1>1, <1>2, <1>3, <1>4, <1>5, <1>6 DEF SafetyInv

(* No selection is left when the full response is built. *)
LEMMA ClearKeeps ==
  ASSUME SafetyInv, Clear
  PROVE  SafetyInv'
<1>0. TypeOK /\ StepsOf /\ CallersStateKept
      /\ FullIsBuilt /\ MapsAreRight /\ RightResponseScreened
  BY DEF SafetyInv
<1>1. TypeOK'
  BY <1>0 DEF Clear, TypeOK, Selection, Stage, Step, Inside, Idle,
     Contracting
<1>2. StepsOf'
  BY <1>0 DEF Clear, TypeOK, StepsOf, OwnP0, Idle, Inside, Contracting
<1>3. CallersStateKept'
  BY <1>0 DEF Clear, TypeOK, CallersStateKept, Inside, Idle, Contracting
<1>4. FullIsBuilt'
  BY <1>0 DEF Clear, TypeOK, StepsOf, FullIsBuilt, OwnP0, Inside, Idle
<1>5. MapsAreRight'
  BY <1>0 DEF Clear, TypeOK, StepsOf, FullIsBuilt, MapsAreRight, OwnP0, P0,
     Pr, Inside, Idle
<1>6. RightResponseScreened'
  BY <1>0 DEF Clear, RightResponseScreened
<1> QED
  BY <1>1, <1>2, <1>3, <1>4, <1>5, <1>6 DEF SafetyInv

(* A build takes the selection its stage has set. *)
LEMMA BuildKeeps ==
  ASSUME SafetyInv, Build
  PROVE  SafetyInv'
<1>0. TypeOK /\ StepsOf /\ CallersStateKept
      /\ FullIsBuilt /\ MapsAreRight /\ RightResponseScreened
  BY DEF SafetyInv
<1>1. TypeOK'
  BY <1>0 DEF Build, TypeOK, Selection, Stage, Step, Inside, Idle,
     Contracting
<1>2. StepsOf'
  BY <1>0 DEF Build, TypeOK, StepsOf, OwnP0, Idle, Inside, Contracting
<1>3. CallersStateKept'
  BY <1>0 DEF Build, TypeOK, CallersStateKept, Inside, Idle, Contracting
<1>4. FullIsBuilt'
  BY <1>0 DEF Build, TypeOK, StepsOf, FullIsBuilt, OwnP0, Inside, Idle
<1>5. MapsAreRight'
  BY <1>0 DEF Build, TypeOK, StepsOf, FullIsBuilt, MapsAreRight, OwnP0, P0,
     Pr, Inside, Idle
<1>6. RightResponseScreened'
  BY <1>0 DEF Build, RightResponseScreened
<1> QED
  BY <1>1, <1>2, <1>3, <1>4, <1>5, <1>6 DEF SafetyInv

(* The result of a build or a subtraction becomes a map of the call. *)
LEMMA TakeKeeps ==
  ASSUME SafetyInv, Take
  PROVE  SafetyInv'
<1>0. TypeOK /\ StepsOf /\ CallersStateKept
      /\ FullIsBuilt /\ MapsAreRight /\ RightResponseScreened
  BY DEF SafetyInv
<1>1. TypeOK'
  BY <1>0 DEF Take, Returned, TypeOK, Selection, Stage, Step, Inside, Idle,
     Contracting
<1>2. StepsOf'
  BY <1>0 DEF Take, Returned, TypeOK, StepsOf, OwnP0, Idle, Inside,
     Contracting
<1>3. CallersStateKept'
  BY <1>0 DEF Take, Returned, TypeOK, CallersStateKept, Inside, Idle,
     Contracting
<1>4. FullIsBuilt'
  BY <1>0 DEF Take, Returned, TypeOK, StepsOf, FullIsBuilt, MapsAreRight, OwnP0,
     Inside, Idle
<1>5. MapsAreRight'
  BY <1>0 DEF Take, Returned, TypeOK, StepsOf, FullIsBuilt, MapsAreRight,
     OwnP0, P0, Pr, Inside, Idle
<1>6. RightResponseScreened'
  BY <1>0 DEF Take, Returned, RightResponseScreened
<1> QED
  BY <1>1, <1>2, <1>3, <1>4, <1>5, <1>6 DEF SafetyInv

(* A map of the call becomes the one worked on. *)
LEMMA SwapKeeps ==
  ASSUME SafetyInv, Swap
  PROVE  SafetyInv'
<1>0. TypeOK /\ StepsOf /\ CallersStateKept
      /\ FullIsBuilt /\ MapsAreRight /\ RightResponseScreened
  BY DEF SafetyInv
<1>1. TypeOK'
  BY <1>0 DEF Swap, Given, TypeOK, Selection, Stage, Step, Inside, Idle,
     Contracting
<1>2. StepsOf'
  BY <1>0 DEF Swap, Given, TypeOK, StepsOf, OwnP0, Idle, Inside, Contracting
<1>3. CallersStateKept'
  BY <1>0 DEF Swap, Given, TypeOK, CallersStateKept, Inside, Idle,
     Contracting
<1>4. FullIsBuilt'
  BY <1>0 DEF Swap, Given, TypeOK, StepsOf, FullIsBuilt, OwnP0, Inside, Idle
<1>5. MapsAreRight'
  BY <1>0 DEF Swap, Given, TypeOK, StepsOf, FullIsBuilt, MapsAreRight,
     OwnP0, P0, Pr, Inside, Idle
<1>6. RightResponseScreened'
  BY <1>0 DEF Swap, Given, RightResponseScreened
<1> QED
  BY <1>1, <1>2, <1>3, <1>4, <1>5, <1>6 DEF SafetyInv

(* The full response is found behind a reference to the resident map. *)
LEMMA SubtractKeeps ==
  ASSUME SafetyInv, Subtract
  PROVE  SafetyInv'
<1>0. TypeOK /\ StepsOf /\ CallersStateKept
      /\ FullIsBuilt /\ MapsAreRight /\ RightResponseScreened
  BY DEF SafetyInv
<1>1. TypeOK'
  BY <1>0, GuardFields DEF Subtract, Full, TypeOK, Selection, Stage, Step,
     Inside, Idle, Contracting
<1>2. StepsOf'
  BY <1>0, GuardFields DEF Subtract, Full, TypeOK, StepsOf, OwnP0, Idle,
     Inside, Contracting
<1>3. CallersStateKept'
  BY <1>0, GuardFields DEF Subtract, Full, TypeOK, CallersStateKept, Inside,
     Idle, Contracting
<1>4. FullIsBuilt'
  BY <1>0, GuardFields DEF Subtract, Full, TypeOK, StepsOf, FullIsBuilt,
     OwnP0, Inside, Idle
<1>5. MapsAreRight'
  <2>1. stage = "form" /\ stage' = "form" /\ step' = "take"
    BY <1>0 DEF Subtract, TypeOK, StepsOf, Inside, Idle, Stage
  <2>2. Full = P0
    BY <1>0, <2>1, GuardFields
       DEF Subtract, Full, P0, CallersStateKept, TypeOK, StepsOf, FullIsBuilt, OwnP0, Idle
  <2>3. chi0_q' = Pr'
    BY <1>0, <2>1, <2>2 DEF Subtract, MapsAreRight, Pr, P0
  <2> QED
    BY <2>1, <2>3 DEF MapsAreRight
<1>6. RightResponseScreened'
  BY <1>0, GuardFields DEF Subtract, Full, RightResponseScreened
<1> QED
  BY <1>1, <1>2, <1>3, <1>4, <1>5, <1>6 DEF SafetyInv

(* What is screened is the map that the stage was given. *)
LEMMA ScreenKeeps ==
  ASSUME SafetyInv, Screen
  PROVE  SafetyInv'
<1>0. TypeOK /\ StepsOf /\ CallersStateKept
      /\ FullIsBuilt /\ MapsAreRight /\ RightResponseScreened
  BY DEF SafetyInv
<1>1. TypeOK'
  BY <1>0 DEF Screen, TypeOK, Selection, Stage, Step, Inside, Idle,
     Contracting
<1>2. StepsOf'
  BY <1>0 DEF Screen, TypeOK, StepsOf, OwnP0, Idle, Inside, Contracting
<1>3. CallersStateKept'
  BY <1>0 DEF Screen, TypeOK, CallersStateKept, Inside, Idle, Contracting
<1>4. FullIsBuilt'
  BY <1>0 DEF Screen, TypeOK, StepsOf, FullIsBuilt, OwnP0, Inside, Idle
<1>5. MapsAreRight'
  BY <1>0 DEF Screen, TypeOK, StepsOf, FullIsBuilt, MapsAreRight, OwnP0, P0,
     Pr, Inside, Idle
<1>6. RightResponseScreened'
  <2>1. stage \in {"screen U", "screen W"}
    BY <1>0 DEF Screen, TypeOK, StepsOf, Inside, Idle, Stage
  <2>2. CASE stage = "screen U"
    BY <1>0, <2>2 DEF Screen, RightResponseScreened, MapsAreRight, Pr
  <2>3. CASE stage = "screen W"
    BY <1>0, <2>3 DEF Screen, RightResponseScreened, MapsAreRight, StepsOf, P0
  <2> QED
    BY <2>1, <2>2, <2>3
<1> QED
  BY <1>1, <1>2, <1>3, <1>4, <1>5, <1>6 DEF SafetyInv

(* The stage after has what it needs, and the caller what it had. *)
LEMMA ReturnKeeps ==
  ASSUME SafetyInv, Return
  PROVE  SafetyInv'
<1>0. TypeOK /\ StepsOf /\ CallersStateKept
      /\ FullIsBuilt /\ MapsAreRight /\ RightResponseScreened
  BY DEF SafetyInv
<1>a. /\ stage' \in Stage /\ step' = "enter" /\ guard' = NoGuard
      /\ guard'.held = FALSE
      /\ \/ /\ stage \in {"prepare", "total", "excluded", "form", "screen U", "screen W"}
            /\ step = "leave"
         \/ stage \in {"contract U", "contract W"}
      /\ UNCHANGED <<call, owned, view, gw, wc>>
  BY <1>0, GuardFields
     DEF Return, Restore, Following, Stage, Inside, Idle, Contracting, TypeOK
<1>b. /\ stage' = "prepare" => stage = "total" /\ call.task # "onsite"
      /\ stage' = "total" => stage = "prepare" /\ call.task = "onsite"
      /\ stage' = "excluded" => /\ stage \in {"prepare", "total"}
                                /\ stage = "total" <=> call.task = "onsite"
      /\ stage' = "form" => stage = "excluded"
      /\ stage' = "screen U" => stage = "form"
      /\ stage' = "contract U" => stage = "screen U"
      /\ stage' = "screen W" => stage = "contract U" /\ call.task = "onsite"
      /\ stage' = "contract W" => stage = "screen W"
  <2>1. CASE stage = "prepare"
    BY <2>1 DEF Return, Following
  <2>2. CASE stage = "total"
    BY <2>2 DEF Return, Following
  <2>3. CASE stage \in {"excluded", "form", "screen U"}
    BY <2>3 DEF Return, Following
  <2>4. CASE stage = "contract U"
    BY <2>4 DEF Return, Following
  <2>5. CASE stage \in {"screen W", "contract W"}
    BY <2>5 DEF Return, Following
  <2> QED
    BY <1>a, <2>1, <2>2, <2>3, <2>4, <2>5
<1>c. chi0_q' = view.response /\ selection' = view.selection
  BY <1>0, RestoreGivesBack DEF Return
<1>1. TypeOK'
  BY <1>0, <1>a, <1>c DEF TypeOK, Step, Stage
<1>2. StepsOf'
  BY <1>0, <1>a, <1>b DEF StepsOf, OwnP0, Idle
<1>3. CallersStateKept'
  BY <1>a, <1>c DEF CallersStateKept
<1>4. FullIsBuilt'
  BY <1>0, <1>a, <1>b DEF StepsOf, FullIsBuilt, OwnP0, Idle
<1>5. MapsAreRight'
  BY <1>0, <1>a, <1>b DEF MapsAreRight, Pr, P0
<1>6. RightResponseScreened'
  BY <1>0, <1>a DEF RightResponseScreened
<1> QED
  BY <1>1, <1>2, <1>3, <1>4, <1>5, <1>6 DEF SafetyInv

(* Unwinding gives the caller what it had. *)
LEMMA ThrowKeeps ==
  ASSUME SafetyInv, Throw
  PROVE  SafetyInv'
<1>0. TypeOK /\ StepsOf /\ CallersStateKept
      /\ FullIsBuilt /\ MapsAreRight /\ RightResponseScreened
  BY DEF SafetyInv
<1>a. /\ stage' = "idle" /\ step' = "enter" /\ guard'.held = FALSE
      /\ UNCHANGED <<call, view, wc>>
  BY GuardFields DEF Throw, Restore
<1>b. chi0_q' = view.response /\ selection' = view.selection
  BY <1>0, RestoreGivesBack DEF Throw
<1>1. TypeOK'
  <2>1. gw' \in BOOLEAN
    BY <1>0 DEF Throw, TypeOK
  <2> QED
    BY <1>0, <1>a, <1>b, <2>1 DEF Throw, TypeOK, Nowhere, Stage, Step
<1>2. StepsOf'
  BY <1>0, GuardFields DEF Throw, Restore, NoGuard, TypeOK, StepsOf, OwnP0,
     Idle, Inside, Contracting
<1>3. CallersStateKept'
  BY <1>a, <1>b DEF CallersStateKept
<1>4. FullIsBuilt'
  BY <1>0, GuardFields DEF Throw, Restore, NoGuard, TypeOK, StepsOf,
     FullIsBuilt, OwnP0, Inside, Idle
<1>5. MapsAreRight'
  BY <1>0, GuardFields DEF Throw, Restore, NoGuard, TypeOK, StepsOf,
     FullIsBuilt, MapsAreRight, OwnP0, P0, Pr, Inside, Idle
<1>6. RightResponseScreened'
  BY <1>0, GuardFields DEF Throw, Restore, NoGuard, RightResponseScreened
<1> QED
  BY <1>1, <1>2, <1>3, <1>4, <1>5, <1>6 DEF SafetyInv

(* Every step keeps the safety invariant.                                  *)
LEMMA StepKeepsSafetyInv == SafetyInv /\ [Next]_vars => SafetyInv'
<1> SUFFICES ASSUME SafetyInv, [Next]_vars PROVE SafetyInv'
  OBVIOUS
<1>1. CASE \/ Initialize \/ GwBuild \/ GwScreen
           \/ \E s \in Selection : SelectBands(s)
  BY <1>1, InitializeKeeps, GwBuildKeeps, GwScreenKeeps, SelectBandsKeeps
<1>2. CASE \E t \in {"shared", "separate", "onsite"}, s \in Selection : Call(t, s)
  BY <1>2, CallKeeps
<1>3. CASE Enter \/ Select \/ Clear \/ Build \/ Take \/ Swap \/ Subtract \/ Screen
  BY <1>3, EnterKeeps, SelectKeeps, ClearKeeps, BuildKeeps, TakeKeeps, SwapKeeps,
     SubtractKeeps, ScreenKeeps
<1>4. CASE Return \/ Throw
  BY <1>4, ReturnKeeps, ThrowKeeps
<1>5. CASE UNCHANGED vars
  <2> USE <1>5 DEF vars, SafetyInv
  <2>1. TypeOK' /\ StepsOf'
    BY DEF TypeOK, StepsOf, OwnP0, Idle
  <2>2. CallersStateKept' /\ RightResponseScreened'
    BY DEF CallersStateKept, RightResponseScreened
  <2>3. FullIsBuilt' /\ MapsAreRight'
    BY ZenonT(60) DEF FullIsBuilt, MapsAreRight, OwnP0, P0, Pr
  <2> QED
    BY <2>1, <2>2, <2>3
<1> QED
  BY <1>1, <1>2, <1>3, <1>4, <1>5 DEF Next

(* All that is claimed of the cRPA stages holds at all times.              *)
LEMMA SafetyInvHolds == Spec => []SafetyInv
  BY InitEstablishesSafetyInv, StepKeepsSafetyInv, PTL DEF Spec

(* The types, and a guard is alive inside of a stage only: for every set   *)
(* of band selections.                                                     *)
THEOREM TypeCorrect == Spec => []TypeOK
<1>1. SafetyInv => TypeOK
  BY DEF SafetyInv
<1> QED
  BY <1>1, SafetyInvHolds, PTL

(* However many calls are made, of whatever task, returning or throwing at *)
(* any point, the caller's response and selection are never lost.          *)
THEOREM CallerFindsItsState == Spec => []CallersStateKept
<1>1. SafetyInv => CallersStateKept
  BY DEF SafetyInv
<1> QED
  BY <1>1, SafetyInvHolds, PTL

(* What is screened for U is the full response minus the excluded one,     *)
(* whether or not the full one is the resident map; what is screened for W *)
(* and by GW is the full one.                                              *)
THEOREM ScreensWhatItShould == Spec => []RightResponseScreened
<1>1. SafetyInv => RightResponseScreened
  BY DEF SafetyInv
<1> QED
  BY <1>1, SafetyInvHolds, PTL
=============================================================================
