------------------------------ MODULE QsgwRun -------------------------------
(***************************************************************************)
(* qsgw::Task::run (core/qsgw/task.cpp): the fixed-basis self-consistent   *)
(* loop on all ranks of a job, with its checkpoint, cRPA companion, text   *)
(* traces and Hamiltonian exports on disk, across jobs that finish, fail   *)
(* or are killed at any point and are then restarted or started fresh.     *)
(*                                                                         *)
(* The numbers are abstracted to versions.  State 0 is the reference; the  *)
(* Hamiltonian mixed in update i and the eigenpairs it yields have version *)
(* i, provided update i consumed the inputs an uninterrupted run would     *)
(* have given it, and are Bad otherwise.                                   *)
(*                                                                         *)
(* The collectives of a job are matched by their order of call, as MPI     *)
(* does it, and not by name: the k-th call of a rank meets the k-th call   *)
(* of every other rank.                                                    *)
(***************************************************************************)
EXTENDS Integers, Sequences

CONSTANTS Rank,       \* ranks of the task's communicator
          Root,       \* rank 0
          MaxIter,    \* bound: largest qsgw_max_iter a job is given
          MinIter,    \* qsgw_min_iter
          MaxJob,     \* bound: number of jobs that use the same files
          Extension,  \* what jobs may attach for cRPA: nothing, responses
                      \* only, or responses with tracked orbitals
          Interval,   \* its response interval
          NoFile,     \* a file that does not exist
          Torn        \* a file whose writing was not completed

ASSUME RunAssumption ==
  /\ Root \in Rank
  /\ {MaxIter, MinIter, MaxJob, Interval} \subseteq Nat \ {0}
  /\ Extension \subseteq {"none", "response", "tracking"}

Iter    == 0 .. MaxIter
Bad     == -1          \* a quantity no uninterrupted run would hold
RefH    == -2          \* the uncut reference Hamiltonian, not a mixed one
Version == Iter \cup {Bad}

VARIABLES
  job,      \* the running job
  pc,       \* pc[r]: the collective rank r works towards
  phase,    \* "run", "wait", "thrown", "alone", "done"; on the root also
            \* file steps
  mem,      \* mem[r]: the replicated variables of run() on rank r
  work,     \* the root-only variables of run()
  calls,    \* calls[r]: the collectives r has entered, in order
  disk      \* the files of the calculation

vars == <<job, pc, phase, mem, work, calls, disk>>

(* iter: the loop variable, start: starting_iteration, base: the version   *)
(* captured as reference and as Hartree density, mf: the live eigenpairs   *)
(* and occupations, ham: current_hamiltonian with 0 for the cut reference, *)
(* mixed: mixed_hamiltonian, parent: the state the tracked parent orbitals *)
(* were taken from.                                                        *)
Memory == [iter: Iter, start: Iter, base: Version, mf: Version, ham: Version,
           mixed: Version, parent: Version]

Launched == [iter |-> 0, start |-> 0, base |-> Bad, mf |-> 0, ham |-> 0,
             mixed |-> Bad, parent |-> Bad]

(* delta: what delta_hartree was computed from, sigma: what EXX and Sigma  *)
(* were, conv: converged_flag, buf: trace rows formatted, not yet flushed. *)
NoWork == [delta |-> [state |-> Bad, base |-> Bad],
           sigma |-> [state |-> Bad, frame |-> Bad],
           conv |-> FALSE, buf |-> <<>>]

Init ==
  /\ job   = [no |-> 0, resume |-> FALSE, limit |-> 0, ext |-> "none", on |-> FALSE]
  /\ pc    = [r \in Rank |-> "setup"]
  /\ phase = [r \in Rank |-> "run"]
  /\ mem   = [r \in Rank |-> Launched]
  /\ work  = NoWork
  /\ calls = [r \in Rank |-> <<>>]
  /\ disk  = [main |-> NoFile, tmp |-> NoFile, comp |-> NoFile,
              rows |-> <<>>, hr |-> [i \in Iter |-> NoFile]]

(* A job is submitted, fresh or with qsgw_restart_file.                    *)
Submit(resume, limit, ext) ==
  /\ ~ job.on /\ job.no < MaxJob
  /\ job' = [no |-> job.no + 1, resume |-> resume, limit |-> limit,
             ext |-> ext, on |-> TRUE]
  /\ UNCHANGED <<pc, phase, mem, work, calls, disk>>

Tracking == job.ext = "tracking"

(* The memory of a job goes, its files stay.                               *)
Gone ==
  /\ job'   = [job EXCEPT !.on = FALSE, !.limit = 0, !.resume = FALSE,
                          !.ext = "none"]
  /\ pc'    = [r \in Rank |-> "setup"]
  /\ phase' = [r \in Rank |-> "run"]
  /\ mem'   = [r \in Rank |-> Launched]
  /\ work'  = NoWork
  /\ calls' = [r \in Rank |-> <<>>]
  /\ UNCHANGED disk

(* Every rank has returned from run() or thrown out of it.                 *)
Leave ==
  job.on /\ (\A r \in Rank : phase[r] \in {"done", "thrown", "alone"}) /\ Gone

(* The job is killed: time limit, node failure.                            *)
Crash == job.on /\ Gone
-----------------------------------------------------------------------------
(* Collectives.  A call carries the failure flag and the data of its rank. *)
Enter(r, flag, load) ==
  /\ calls' = [calls EXCEPT ![r] =
       Append(@, [label |-> pc[r], iter |-> mem[r].iter, flag |-> flag,
                  load |-> load])]
  /\ phase' = [phase EXCEPT ![r] = "wait"]
  /\ UNCHANGED <<job, pc>>

NoLoad == <<>>

(* Points all ranks contribute to; at the others the root broadcasts.      *)
Joint == {"companion", "hartree", "respond", "diagonalize", "final"}

Met(r)    == Len(calls[r])
Needed(r) == IF pc[r] \in Joint THEN Rank ELSE {Root}

Returns(r)   == phase[r] = "wait" /\ \A q \in Needed(r) : Met(q) >= Met(r)
AnyFailed(r) == \E q \in Needed(r) : calls[q][Met(r)].flag = "failed"
Sent(r)      == calls[Root][Met(r)].load

(* What the ranks contributed together: one value, or an unusable mix.     *)
Joined(r, mix) ==
  IF \A q \in Rank : calls[q][Met(r)].load = Sent(r) THEN Sent(r) ELSE mix

At(r, l)   == job.on /\ pc[r] = l /\ phase[r] = "run"
Back(r, l) == job.on /\ pc[r] = l /\ Returns(r) /\ ~ AnyFailed(r)

GoTo(r, l) ==
  /\ pc' = [pc EXCEPT ![r] = l]
  /\ phase' = [phase EXCEPT ![r] = IF l = "end" THEN "done" ELSE "run"]
  /\ UNCHANGED <<job, calls, disk>>

(* A stage failed somewhere: all ranks in it throw out of run().           *)
Throw(r) ==
  /\ job.on /\ Returns(r) /\ AnyFailed(r)
  /\ phase' = [phase EXCEPT ![r] = "thrown"]
  /\ UNCHANGED <<job, pc, mem, work, calls, disk>>

(* Outside the root a root stage is its broadcast.                         *)
Idle(r) ==
  /\ job.on /\ r # Root /\ phase[r] = "run" /\ pc[r] \notin Joint
  /\ Enter(r, "ok", NoLoad)
  /\ UNCHANGED <<mem, work, disk>>

(* Points whose operation the root runs under a verdict that is broadcast: *)
(* the root stages, and the two broadcasts of matrices, which tell whether *)
(* the root has valid ones.                                                *)
RootPoint == {"setup", "restore", "restored", "initial output", "initial export",
              "update", "spread", "export", "report", "final trace"}

(* Mutant: the root rethrows in front of the broadcast of its flag. *)
RootThrowsAtOnce ==
  /\ job.on /\ phase[Root] = "run" /\ pc[Root] \in RootPoint
  /\ phase' = [phase EXCEPT ![Root] = "thrown"]
  /\ UNCHANGED <<job, pc, calls, mem, work, disk>>

(* The operation of a root stage throws before it changed anything.        *)
RootFails ==
  /\ job.on /\ phase[Root] = "run" /\ pc[Root] \in RootPoint
  /\ Enter(Root, "failed", NoLoad)
  /\ UNCHANGED <<mem, work, disk>>

(* Inside a joint point an operation throws that runs under a verdict:     *)
(* symmetry, velocity and Coulomb head of the optical state, a missing     *)
(* block of Sigma, the steps of the Hartree contraction, the companion     *)
(* file, the input of a response.                                          *)
StageFails(r) ==
  /\ job.on /\ phase[r] = "run" /\ pc[r] \in Joint
  /\ Enter(r, "failed", NoLoad)
  /\ UNCHANGED <<mem, work, disk>>

(* Points on the way to which a rank runs code outside every stage: the    *)
(* reference quantities, the cut of the reference, the density, EXX and    *)
(* Sigma, the shape of what the root collected, diagonalization and        *)
(* occupations, tracking and the largest eigenvalue change, the response   *)
(* of the last state.                                                      *)
Unguarded(r) ==
  /\ pc[r] \in {"setup", "restore", "initial output", "hartree", "respond",
                "update", "diagonalize", "report", "final"}
  /\ pc[r] = "initial output" => ~ job.resume
  /\ pc[r] = "update" => r = Root

(* What throws there leaves run() on this rank only.  No other rank learns *)
(* of it: each goes on until it waits for a call that this one never makes.*)
ThrowsAlone(r) ==
  /\ job.on /\ phase[r] = "run" /\ Unguarded(r)
  /\ phase' = [phase EXCEPT ![r] = "alone"]
  /\ UNCHANGED <<job, pc, mem, work, calls, disk>>
-----------------------------------------------------------------------------
(* Reference validation and Vxc projection.  In between every rank copies  *)
(* dataset->mf as the reference and takes its density, before a checkpoint *)
(* can replace it.                                                         *)
Validate ==
  /\ At(Root, "setup") /\ Enter(Root, "ok", NoLoad)
  /\ UNCHANGED <<mem, work, disk>>

Capture(r) ==
  /\ Back(r, "setup")
  /\ mem' = [mem EXCEPT ![r].base = mem[r].mf]
  /\ GoTo(r, IF job.resume THEN "restore" ELSE "initial output")
  /\ UNCHANGED work

(* The checkpoint replaces the root's live state first; that the requested *)
(* maximum exceeds it is checked afterwards.                               *)
Restore ==
  /\ At(Root, "restore")
  /\ disk.main # NoFile /\ disk.main # Torn
  /\ mem' = [mem EXCEPT ![Root] =
       [@ EXCEPT !.mf = disk.main.mf, !.ham = disk.main.ham,
                 !.start = disk.main.iter, !.iter = disk.main.iter]]
  /\ Enter(Root, IF disk.main.iter >= job.limit THEN "failed" ELSE "ok",
           NoLoad)
  /\ UNCHANGED <<work, disk>>

Restored(r) ==
  /\ Back(r, "restore")
  /\ GoTo(r, "restored")
  /\ UNCHANGED <<mem, work>>

(* starting_iteration, the live state and current_hamiltonian follow from  *)
(* the root to everybody.                                                  *)
SendRestored ==
  /\ At(Root, "restored")
  /\ Enter(Root, "ok", [start |-> mem[Root].start, mf |-> mem[Root].mf,
                        ham |-> mem[Root].ham])
  /\ UNCHANGED <<mem, work, disk>>

(* Mutant: starting_iteration stays on the root. *)
TakeRestoredStateOnly(r) ==
  /\ Back(r, "restored")
  /\ mem' = [mem EXCEPT ![r] =
       [@ EXCEPT !.mf = Sent(r).mf, !.ham = Sent(r).ham]]
  /\ GoTo(r, "initial output")
  /\ UNCHANGED work

(* Mutant: the Hartree density is taken from the restored state. *)
TakeRestoredAsBase(r) ==
  /\ Back(r, "restored")
  /\ mem' = [mem EXCEPT ![r] =
       [@ EXCEPT !.start = Sent(r).start, !.iter = Sent(r).start,
                 !.mf = Sent(r).mf, !.ham = Sent(r).ham, !.base = Sent(r).mf]]
  /\ GoTo(r, "initial output")
  /\ UNCHANGED work

TakeRestored(r) ==
  /\ Back(r, "restored")
  /\ mem' = [mem EXCEPT ![r] =
       [@ EXCEPT !.start = Sent(r).start, !.iter = Sent(r).start,
                 !.mf = Sent(r).mf, !.ham = Sent(r).ham]]
  /\ GoTo(r, "initial output")
  /\ UNCHANGED work

(* Mutant: the streams are not emptied. *)
FlushAndKeep(append, rows) ==
  /\ disk' = [disk EXCEPT !.rows = IF append THEN @ \o rows ELSE rows]
  /\ work' = [work EXCEPT !.buf = rows]

(* The streams are written out and emptied; the first time they replace    *)
(* the files of an earlier job.                                            *)
Flush(append, rows) ==
  /\ disk' = [disk EXCEPT !.rows = IF append THEN @ \o rows ELSE rows]
  /\ work' = [work EXCEPT !.buf = <<>>]

InitialOutput ==
  /\ At(Root, "initial output")
  /\ Flush(FALSE, Append(work.buf, mem[Root].start))
  /\ Enter(Root, "ok", NoLoad)
  /\ UNCHANGED mem

Initialized(r) ==
  /\ Back(r, "initial output")
  /\ GoTo(r, "initial export")
  /\ UNCHANGED <<mem, work>>

(* The entering state: the uncut reference of a fresh run, the restored    *)
(* Hamiltonian of a continued one.                                         *)
InitialExport ==
  /\ At(Root, "initial export")
  /\ disk' = [disk EXCEPT !.hr[mem[Root].start] =
       IF mem[Root].start = 0 THEN RefH ELSE mem[Root].ham]
  /\ Enter(Root, "ok", NoLoad)
  /\ UNCHANGED <<mem, work>>

ExportedInitial(r) ==
  /\ Back(r, "initial export")
  /\ GoTo(r, IF Tracking /\ mem[r].start > 0 THEN "companion" ELSE "hartree")
  /\ UNCHANGED <<mem, work>>

(* Every rank reads the companion file; it must be of the same iteration   *)
(* and hold exactly the restored eigenvalues.                              *)
ReadCompanion(r) ==
  /\ At(r, "companion")
  /\ LET ok == /\ disk.comp # NoFile
               /\ disk.comp.iter = mem[r].start
               /\ disk.comp.mf = mem[r].mf
     IN /\ mem' = IF ok THEN [mem EXCEPT ![r].parent = disk.comp.parent]
                        ELSE mem
        /\ Enter(r, IF ok THEN "ok" ELSE "failed", NoLoad)
  /\ UNCHANGED <<work, disk>>

CompanionRead(r) ==
  /\ Back(r, "companion")
  /\ GoTo(r, "hartree")
  /\ UNCHANGED <<mem, work>>

(* evaluate_hartree: the density of all ranks' live states minus the       *)
(* captured one, projected on the root.                                    *)
HartreeLoad(r) == [state |-> mem[r].mf, base |-> mem[r].base]

TakeHartree(r) ==
  work' = IF r # Root THEN work
          ELSE [work EXCEPT !.delta = Joined(r, NoWork.delta)]

EvaluateHartree(r) ==
  /\ At(r, "hartree") /\ Enter(r, "ok", HartreeLoad(r))
  /\ UNCHANGED <<mem, work, disk>>
-----------------------------------------------------------------------------
(* The loop.  On the head of it every rank advances its own variable.      *)
FirstUpdate(r) ==
  /\ Back(r, "hartree")
  /\ TakeHartree(r)
  /\ mem' = [mem EXCEPT ![r].iter = @ + 1]
  /\ GoTo(r, "respond")

(* Mutant: the first update of a fresh run uses the cut reference. *)
FrameOfCurrent(r, update) == mem[r].ham

(* prepare_optical_state: the Hamiltonian whose frame the velocity uses.   *)
Frame(r, update) ==
  IF mem[r].start = 0 /\ update = 1 THEN RefH ELSE mem[r].ham

(* Optical state, EXX and Sigma of the entering state, collected to the    *)
(* root; on response intervals the extension takes its parent from it.     *)
BuildSigma(r) ==
  /\ At(r, "respond")
  /\ Enter(r, "ok", [state |-> mem[r].mf, frame |-> Frame(r, mem[r].iter)])
  /\ mem' = IF Tracking /\ (mem[r].iter - 1) % Interval = 0
              THEN [mem EXCEPT ![r].parent = mem[r].mf] ELSE mem
  /\ UNCHANGED <<work, disk>>

SigmaCollected(r) ==
  /\ Back(r, "respond")
  /\ work' = IF r # Root THEN work
             ELSE [work EXCEPT !.sigma = Joined(r, NoWork.sigma)]
  /\ GoTo(r, "update")
  /\ UNCHANGED mem

(* The Hamiltonian of update i mixes the current one, i - 1, with the raw  *)
(* one built from Sigma, EXX and the Hartree difference of state i - 1.    *)
MixedVersion(i) ==
  IF /\ mem[Root].ham = i - 1 /\ mem[Root].mf = i - 1
     /\ work.sigma = [state |-> i - 1, frame |-> IF i = 1 THEN RefH ELSE i - 1]
     /\ work.delta = [state |-> i - 1, base |-> 0]
  THEN i ELSE Bad

UpdateHamiltonian ==
  /\ At(Root, "update")
  /\ mem' = [mem EXCEPT ![Root].mixed = MixedVersion(mem[Root].iter)]
  /\ Enter(Root, "ok", NoLoad)
  /\ UNCHANGED <<work, disk>>

Updated(r) ==
  /\ Back(r, "update")
  /\ GoTo(r, "spread")
  /\ UNCHANGED <<mem, work>>

SendMixed ==
  /\ At(Root, "spread") /\ Enter(Root, "ok", mem[Root].mixed)
  /\ UNCHANGED <<mem, work, disk>>

TakeMixed(r) ==
  /\ Back(r, "spread")
  /\ mem' = [mem EXCEPT ![r] = [@ EXCEPT !.mixed = Sent(r), !.ham = Sent(r)]]
  /\ GoTo(r, "export")
  /\ UNCHANGED work

ExportHamiltonian ==
  /\ At(Root, "export")
  /\ disk' = [disk EXCEPT !.hr[mem[Root].iter] = mem[Root].ham]
  /\ Enter(Root, "ok", NoLoad)
  /\ UNCHANGED <<mem, work>>

Exported(r) ==
  /\ Back(r, "export")
  /\ GoTo(r, "diagonalize")
  /\ UNCHANGED <<mem, work>>

(* Every rank diagonalizes its copy and occupies the new states, and all   *)
(* evaluate the Hartree difference of the result.                          *)
Diagonalize(r) ==
  /\ At(r, "diagonalize")
  /\ mem' = [mem EXCEPT ![r].mf = mem[r].mixed]
  /\ Enter(r, "ok", [state |-> mem[r].mixed, base |-> mem[r].base])
  /\ UNCHANGED <<work, disk>>

(* Mutant: the parent is left to the next response. *)
StateNotTracked(r) ==
  /\ Back(r, "diagonalize")
  /\ TakeHartree(r)
  /\ GoTo(r, "report")
  /\ UNCHANGED mem

(* The tracked parent follows the updated state.                           *)
StateUpdated(r) ==
  /\ Back(r, "diagonalize")
  /\ TakeHartree(r)
  /\ mem' = IF Tracking THEN [mem EXCEPT ![r].parent = mem[r].mf] ELSE mem
  /\ GoTo(r, "report")
-----------------------------------------------------------------------------
(* The root's reporting stage goes through its files one after another.    *)
FileStep(from, to) ==
  /\ job.on /\ pc[Root] = "report" /\ phase[Root] = from
  /\ phase' = [phase EXCEPT ![Root] = to]
  /\ UNCHANGED <<job, pc, mem, calls>>

(* Mutant: the checkpoint is written in place. *)
OpenInPlace ==
  /\ FileStep("run", "writing")
  /\ \E conv \in BOOLEAN :
       /\ conv => mem[Root].iter >= MinIter
       /\ work' = [work EXCEPT !.conv = conv]
  /\ disk' = [disk EXCEPT !.tmp = Torn, !.main = Torn]

(* Decide on convergence, open and truncate the temporary and fill it.     *)
OpenCheckpoint ==
  /\ FileStep("run", "writing")
  /\ \E conv \in BOOLEAN :
       /\ conv => mem[Root].iter >= MinIter
       /\ work' = [work EXCEPT !.conv = conv]
  /\ disk' = [disk EXCEPT !.tmp = Torn]

(* Mutant: the summary of the entering state is saved. *)
CloseEntering ==
  /\ FileStep("writing", "closed")
  /\ disk' = [disk EXCEPT !.tmp = [iter |-> mem[Root].iter - 1,
                                   mf |-> mem[Root].mf, ham |-> mem[Root].ham,
                                   job |-> job.no]]
  /\ UNCHANGED work

CloseCheckpoint ==
  /\ FileStep("writing", "closed")
  /\ disk' = [disk EXCEPT !.tmp = [iter |-> mem[Root].iter, mf |-> mem[Root].mf,
                                   ham |-> mem[Root].ham, job |-> job.no]]
  /\ UNCHANGED work

RenameCheckpoint ==
  /\ FileStep("closed", IF Tracking THEN "companion" ELSE "flush")
  /\ disk' = [disk EXCEPT !.main = disk.tmp, !.tmp = NoFile]
  /\ UNCHANGED work

(* extension_->write_checkpoint, itself a temporary and a rename.          *)
WriteCompanion ==
  /\ FileStep("companion", "flush")
  /\ disk' = [disk EXCEPT !.comp = [iter |-> mem[Root].iter,
                                    mf |-> mem[Root].mf,
                                    parent |-> mem[Root].parent]]
  /\ UNCHANGED work

ReportDone ==
  /\ job.on /\ pc[Root] = "report" /\ phase[Root] = "flush"
  /\ Flush(TRUE, Append(work.buf, mem[Root].iter))
  /\ Enter(Root, "ok", NoLoad)
  /\ UNCHANGED mem

(* A write, a rename or a stream fails: what is on disk stays there.       *)
ReportFails ==
  /\ job.on /\ phase[Root] \in {"writing", "closed", "companion", "flush"}
  /\ Enter(Root, "failed", NoLoad)
  /\ UNCHANGED <<mem, work, disk>>

Reported(r) ==
  /\ Back(r, "report")
  /\ GoTo(r, "decide")
  /\ UNCHANGED <<mem, work>>

SendConverged ==
  /\ At(Root, "decide") /\ Enter(Root, "ok", work.conv)
  /\ UNCHANGED <<mem, work, disk>>

(* Mutant: one update too many. *)
NextUpdateInclusive(r) ==
  /\ Back(r, "decide")
  /\ ~ Sent(r) /\ mem[r].iter <= job.limit
  /\ mem' = [mem EXCEPT ![r].iter = @ + 1]
  /\ GoTo(r, "respond")
  /\ UNCHANGED work

(* Leave the loop together, or begin the next update.                      *)
NextUpdate(r) ==
  /\ Back(r, "decide")
  /\ ~ Sent(r) /\ mem[r].iter < job.limit
  /\ mem' = [mem EXCEPT ![r].iter = @ + 1]
  /\ GoTo(r, "respond")
  /\ UNCHANGED work

LeaveLoop(r) ==
  /\ Back(r, "decide")
  /\ Sent(r) \/ mem[r].iter = job.limit
  /\ GoTo(r, IF job.ext # "none" THEN "final" ELSE "end")
  /\ UNCHANGED <<mem, work>>

(* The extension evaluates the response of the last state: its velocity is *)
(* prepared as for the update that is not made any more.                   *)
EvaluateFinal(r) ==
  /\ At(r, "final")
  /\ Enter(r, "ok", [state |-> mem[r].mf, frame |-> Frame(r, mem[r].iter + 1)])
  /\ mem' = IF Tracking THEN [mem EXCEPT ![r].parent = mem[r].mf] ELSE mem
  /\ UNCHANGED <<work, disk>>

FinalEvaluated(r) ==
  /\ Back(r, "final")
  /\ GoTo(r, "final trace")
  /\ UNCHANGED <<mem, work>>

FinalTrace ==
  /\ At(Root, "final trace")
  /\ Flush(TRUE, work.buf)
  /\ Enter(Root, "ok", NoLoad)
  /\ UNCHANGED mem

Finished(r) ==
  /\ Back(r, "final trace")
  /\ GoTo(r, "end")
  /\ UNCHANGED <<mem, work>>
-----------------------------------------------------------------------------
RootStep ==
  \/ Validate \/ Restore \/ SendRestored \/ InitialOutput \/ InitialExport
  \/ UpdateHamiltonian \/ SendMixed \/ ExportHamiltonian
  \/ OpenCheckpoint \/ CloseCheckpoint \/ RenameCheckpoint \/ WriteCompanion
  \/ ReportDone \/ ReportFails \/ SendConverged \/ FinalTrace \/ RootFails

RankStep(r) ==
  \/ Idle(r) \/ StageFails(r) \/ ThrowsAlone(r) \/ Throw(r)
  \/ Capture(r) \/ Restored(r) \/ TakeRestored(r)
  \/ Initialized(r) \/ ExportedInitial(r) \/ ReadCompanion(r)
  \/ CompanionRead(r) \/ EvaluateHartree(r) \/ FirstUpdate(r)
  \/ BuildSigma(r) \/ SigmaCollected(r) \/ Updated(r) \/ TakeMixed(r)
  \/ Exported(r) \/ Diagonalize(r) \/ StateUpdated(r) \/ Reported(r)
  \/ NextUpdate(r) \/ LeaveLoop(r) \/ EvaluateFinal(r) \/ FinalEvaluated(r)
  \/ Finished(r)

JobStep == RootStep \/ Leave \/ \E r \in Rank : RankStep(r)

Next ==
  \/ \E resume \in BOOLEAN, limit \in 1 .. MaxIter, ext \in Extension :
       Submit(resume, limit, ext)
  \/ Crash
  \/ JobStep
  \/ job.no = MaxJob /\ ~ job.on /\ UNCHANGED vars

Spec == Init /\ [][Next]_vars

(* As long as some rank of a job can go on, one does: nothing is assumed   *)
(* of crashes, of the user, of convergence or of which operation fails.    *)
FairSpec == Spec /\ WF_vars(JobStep)
-----------------------------------------------------------------------------
File(content) == {NoFile} \cup content
Checkpoint ==
  [iter: Iter, mf: Version, ham: Version, job: 1 .. MaxJob]
Companion == [iter: Iter, mf: Version, parent: Version]

(* No complete file is taken for an absent or an unfinished one.           *)
ASSUME FileAssumption ==
  NoFile # Torn
  /\ \A f \in {NoFile, Torn} : f \notin Checkpoint \cup Companion \cup Version \cup {RefH}

(* Every variable has its type. *)
TypeOK ==
  /\ job \in [no: 0 .. MaxJob, resume: BOOLEAN, limit: Iter, on: BOOLEAN,
              ext: {"none", "response", "tracking"}]
  /\ mem \in [Rank -> Memory]
  /\ work \in [delta: [state: Version, base: Version],
               sigma: [state: Version, frame: Version \cup {RefH}],
               conv: BOOLEAN, buf: Seq(Iter)]
  /\ DOMAIN pc = Rank /\ DOMAIN phase = Rank /\ DOMAIN calls = Rank
  /\ disk \in [main: File(Checkpoint), tmp: File(Checkpoint \cup {Torn}),
               comp: File(Companion), rows: Seq(Iter),
               hr: [Iter -> File(Version \cup {RefH})]]

(* The k-th collective of one rank is the k-th of every other: no rank     *)
(* leaves the loop early, starts it elsewhere or skips a stage, so that no *)
(* broadcast is taken for another one.                                     *)
CollectivesMatch ==
  \A p, q \in Rank : \A k \in 1 .. Met(p) :
    k <= Met(q) => /\ calls[p][k].label = calls[q][k].label
                   /\ calls[p][k].iter = calls[q][k].iter
                     \/ calls[p][k].label \in {"restore", "restored"}

(* Whatever the sequence of jobs, crashes and restarts, every state that   *)
(* is held, saved or exported is the one an uninterrupted run reaches, and *)
(* a checkpoint is never without the Hamiltonian file of its iteration.    *)
OneTrajectory ==
  /\ \A r \in Rank : mem[r].mf # Bad /\ mem[r].ham # Bad
  /\ disk.main # NoFile => disk.main.iter = disk.main.mf
                           /\ disk.main.iter = disk.main.ham
                           /\ disk.hr[disk.main.iter] = disk.main.ham
  /\ \A i \in Iter : disk.hr[i] \in {NoFile, IF i = 0 THEN RefH ELSE i}

(* Every head/wing velocity is taken in the frame of the Hamiltonian the   *)
(* live eigenpairs diagonalize: the uncut reference for the input states,  *)
(* the mixed one of the same update for all others, restarted or not.      *)
VelocityInLiveFrame ==
  \A r \in Rank : \A k \in 1 .. Met(r) :
    LET c == calls[r][k]
    IN c.label \in {"respond", "final"} /\ c.flag = "ok" =>
         c.load.frame = IF c.load.state = 0 THEN RefH ELSE c.load.state

(* The iteration table has one row per state, without a gap or a repeat,   *)
(* and misses at most the checkpoint its job has just renamed.             *)
TraceIsContiguous ==
  /\ \A i \in 1 .. Len(disk.rows) : disk.rows[i] = disk.rows[1] + i - 1
  /\ disk.main # NoFile /\ disk.main.job = job.no =>
       disk.rows[Len(disk.rows)] \in {disk.main.iter - 1, disk.main.iter}

(* Past the companion check the tracked parent belongs to the live state,  *)
(* and what is saved as the companion is one state.                        *)
ParentIsLive ==
  /\ Tracking => \A r \in Rank :
       /\ mem[r].mf > 0
       /\ pc[r] \in {"hartree", "respond", "update", "spread", "export",
                     "report", "decide", "final", "final trace"}
       => mem[r].parent = mem[r].mf
  /\ disk.comp # NoFile =>
       disk.comp.parent = disk.comp.mf /\ disk.comp.iter = disk.comp.mf

(* Nothing a job does takes a checkpoint away, and a continued job never   *)
(* replaces it by an earlier one.                                          *)
DurableProgress ==
  [][ disk.main # NoFile =>
        /\ disk'.main \notin {NoFile, Torn}
        /\ job.resume => disk'.main.iter >= disk.main.iter ]_vars

(* A rank left run() outside every stage, and another waits in a call the  *)
(* first has not made.                                                     *)
Deserted ==
  \E p, q \in Rank : phase[p] = "alone" /\ phase[q] = "wait" /\ Met(p) < Met(q)

(* Nothing but that hangs a job: whatever fails in a stage, in a broadcast *)
(* of matrices or on disk, and whichever rank notices the end first, all   *)
(* ranks return or throw.  A job that goes on for ever is deserted.        *)
JobsEnd == []<>(~ job.on) \/ <>[]Deserted

(* What the documentation says of interrupted updates, for a calculation   *)
(* that tracks orbitals: whatever ended the last job, a completed          *)
(* checkpoint is left that read_checkpoint lets a tracked job continue.    *)
InterruptionLeavesAContinuation ==
  ~ job.on /\ disk.main # NoFile /\ Extension = {"tracking"} =>
    /\ disk.comp # NoFile
    /\ disk.comp.iter = disk.main.iter /\ disk.comp.mf = disk.main.mf
-----------------------------------------------------------------------------
Trajectory == INSTANCE QsgwTrajectory
  WITH None  <- NoFile,
       live  <- IF job.on THEN mem[Root].mf ELSE NoFile,
       saved <- IF disk.main = NoFile THEN NoFile ELSE disk.main.iter

(* The job, seen from its root and its checkpoint file, keeps the promise  *)
(* of QsgwTrajectory.                                                      *)
FollowsTrajectory == Trajectory!Spec
=============================================================================
