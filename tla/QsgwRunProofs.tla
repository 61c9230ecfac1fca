---------------------------- MODULE QsgwRunProofs ----------------------------
(***************************************************************************)
(* Proofs about QsgwRun for every set of ranks and every bound: that the   *)
(* ranks make the same collective calls in the same order, that whatever   *)
(* is held or saved is a state of the one trajectory, and that the files   *)
(* survive crashes.                                                        *)
(*                                                                         *)
(* A rank is at a place: the collective it is in, or the one it works      *)
(* towards.  The argument rests on the calls made so far.  What a rank     *)
(* does after a call follows from the call, from the job and from what the *)
(* root sent in it, so that two ranks that made the same calls are at the  *)
(* same place (InStep); and what a rank holds follows from its place.      *)
(***************************************************************************)
EXTENDS QsgwRun, SequenceTheorems, TLAPS

LocalPoint == {"setup", "restore", "restored", "initial output", "initial export",
               "update", "spread", "export", "report", "decide", "final trace"}
Label      == LocalPoint \cup Joint
FileStage  == {"writing", "closed", "companion", "flush"}

(* The Hamiltonian state i diagonalizes. *)
FrameOf(i) == IF i = 0 THEN RefH ELSE i
-----------------------------------------------------------------------------
(* Types beyond TypeOK, and which phases a rank can be in at which point.  *)
PhasesOK ==
  /\ \A r \in Rank :
       /\ Met(r) \in Nat /\ calls[r] = [k \in 1 .. Met(r) |-> calls[r][k]]
       /\ \A k \in 1 .. Met(r) : /\ calls[r][k].label \in Label
                                 /\ calls[r][k].iter \in Iter
                                 /\ calls[r][k].flag \in {"ok", "failed"}
       /\ pc[r] \in Label \cup {"end"}
       /\ phase[r] \in {"run", "wait", "thrown", "alone", "done"} \cup FileStage
       /\ phase[r] \in FileStage => r = Root /\ pc[r] = "report"
       /\ phase[r] = "done" <=> pc[r] = "end"
       /\ phase[r] \in {"wait", "thrown"} =>
            Met(r) > 0 /\ calls[r][Met(r)].label = pc[r]
       /\ phase[r] = "wait" /\ pc[r] # "restore" =>
            calls[r][Met(r)].iter = mem[r].iter
  /\ job.on => job.limit > 0 /\ job.no > 0

(* Between jobs nothing is in memory. *)
IdleOK ==
  ~ job.on => \A r \in Rank : /\ pc[r] = "setup" /\ phase[r] = "run"
                              /\ mem[r] = Launched /\ calls[r] = <<>>
-----------------------------------------------------------------------------
(* The places of a rank, numbered like its calls; the last one may not     *)
(* have been entered yet.                                                  *)
Place(r)    == IF phase[r] \in {"wait", "thrown"} THEN Met(r) ELSE Met(r) + 1
LabelAt(r, k) == IF k <= Met(r) THEN calls[r][k].label ELSE pc[r]
IterAt(r, k)  == IF k <= Met(r) THEN calls[r][k].iter ELSE mem[r].iter

(* A call has returned without a failure. *)
Passed(r, k) ==
  \A q \in IF LabelAt(r, k) \in Joint THEN Rank ELSE {Root} :
    k <= Met(q) /\ calls[q][k].flag = "ok"

(* The place (m, j) follows the k-th call, made with label l in iteration i.*)
Follows(k, l, i, m, j) ==
  \/ l = "setup" /\ j = i /\ m = IF job.resume THEN "restore" ELSE "initial output"
  \/ l = "restore" /\ m = "restored"
  \/ l = "restored" /\ m = "initial output" /\ j = calls[Root][k].load.start
  \/ l = "initial output" /\ m = "initial export" /\ j = i
  \/ l = "initial export" /\ j = i /\ m = IF Tracking /\ i > 0 THEN "companion" ELSE "hartree"
  \/ l = "companion" /\ m = "hartree" /\ j = i
  \/ l = "hartree" /\ m = "respond" /\ j = i + 1
  \/ <<l, m>> \in {<<"respond", "update">>, <<"update", "spread">>,
                   <<"spread", "export">>, <<"export", "diagonalize">>,
                   <<"diagonalize", "report">>, <<"report", "decide">>,
                   <<"final", "final trace">>, <<"final trace", "end">>} /\ j = i
  \/ /\ l = "decide" /\ m = "respond" /\ j = i + 1
     /\ calls[Root][k].load = FALSE /\ i < job.limit
  \/ /\ l = "decide" /\ j = i
     /\ m = IF job.ext # "none" THEN "final" ELSE "end"
     /\ (calls[Root][k].load = TRUE \/ i = job.limit)

(* Every rank went from place to place as its calls say. *)
Chain ==
  \A r \in Rank :
    /\ LabelAt(r, 1) = "setup" /\ IterAt(r, 1) = 0
    /\ \A k \in 1 .. Place(r) - 1 :
         /\ Passed(r, k)
         /\ Follows(k, LabelAt(r, k), IterAt(r, k), LabelAt(r, k + 1), IterAt(r, k + 1))

(* Ranks that have been as far are at the same place. *)
InStep ==
  \A p, q \in Rank : \A k \in 1 .. Place(p) :
    k <= Place(q) =>
      /\ LabelAt(p, k) = LabelAt(q, k)
      /\ IterAt(p, k) = IterAt(q, k) \/ LabelAt(p, k) \in {"restore", "restored"}
-----------------------------------------------------------------------------
(* The phase of a rank, with "in" for a collective it entered unfailed.     *)
Standing(r) ==
  IF phase[r] = "wait" /\ calls[r][Met(r)].flag = "ok" THEN "in" ELSE phase[r]

Beginning == {"setup", "restore", "restored", "initial output", "initial export",
              "companion", "hartree"}
Building  == {"respond", "update", "spread"}
Ending    == {"report", "decide", "final", "final trace", "end"}

(* What rank r of job j holds at point l, standing there as s: m is its    *)
(* memory.                                                                 *)
(* The live state and its Hamiltonian follow from the point.               *)
StateFits(r, l, s, m) ==
  /\ l = "setup" \/ (l = "restore" /\ s = "run") => m.iter = 0
  /\ l # "setup" => m.base = 0
  /\ l \in Beginning => m.mf = m.iter /\ m.ham = m.iter /\ m.start = m.iter
  /\ l \notin Beginning => m.start < m.iter
  /\ l \in Building => m.mf = m.iter - 1 /\ m.ham = m.iter - 1
  /\ l \in {"export", "diagonalize"} => m.ham = m.iter /\ m.mixed = m.iter
  /\ l = "export" => m.mf = m.iter - 1
  /\ l = "diagonalize" => /\ m.mf \in {m.iter - 1, m.iter}
                          /\ s = "run" => m.mf = m.iter - 1
                          /\ s = "in" => m.mf = m.iter
  /\ l \in Ending => m.mf = m.iter /\ m.ham = m.iter
  /\ r = Root /\ (l = "spread" \/ (l = "update" /\ s = "in")) => m.mixed = m.iter

(* The requested maximum is never exceeded. *)
LimitFits(j, r, l, s, m) ==
  j.on =>
    /\ l \in {"initial output", "initial export", "companion", "hartree"} =>
         m.iter < j.limit
    /\ l \notin Beginning => m.iter <= j.limit
    /\ r = Root /\ (l = "restored" \/ (l = "restore" /\ s = "in")) => m.iter < j.limit

(* The tracked parent is the live state, except before it is first taken   *)
(* or read and between an update and what follows it.                      *)
ParentFits(j, l, s, m) ==
  j.ext = "tracking" /\ m.mf > 0 =>
    /\ l \in {"hartree", "respond", "update", "spread", "export",
              "report", "decide", "final", "final trace"} => m.parent = m.mf
    /\ l = "companion" /\ s = "in" => m.parent = m.mf

RankFits(j, r, l, s, m) == StateFits(r, l, s, m) /\ LimitFits(j, r, l, s, m) /\ ParentFits(j, l, s, m)

(* What a rank that does not fail brings to a collective. *)
LoadFits(r, l, i, load) ==
  /\ l = "hartree" => load = [state |-> i, base |-> 0]
  /\ l = "respond" => load = [state |-> i - 1, frame |-> FrameOf(i - 1)]
  /\ l = "diagonalize" => load = [state |-> i, base |-> 0]
  /\ l = "final" => load = [state |-> i, frame |-> FrameOf(i)]
  /\ r = Root /\ l = "spread" => load = i
  /\ r = Root /\ l = "decide" => load \in BOOLEAN
  /\ r = Root /\ l = "restored" =>
       /\ load.start = i /\ load.start < job.limit
       /\ load.mf = load.start /\ load.ham = load.start

LoadsOK ==
  \A r \in Rank : \A k \in 1 .. Met(r) :
    calls[r][k].flag = "ok" =>
      LoadFits(r, calls[r][k].label, calls[r][k].iter, calls[r][k].load)
-----------------------------------------------------------------------------
(* The files d and the root's own variables w, when the root of job j      *)
(* stands at point l as s with memory m.  What the next Hamiltonian is made from:    *)
WorkFits(l, m, w) ==
  /\ w.buf = <<>>
  /\ l \in {"respond", "update"} => w.delta = [state |-> m.iter - 1, base |-> 0]
  /\ l \in {"report", "decide"} => w.delta = [state |-> m.iter, base |-> 0]
  /\ l = "update" => w.sigma = [state |-> m.iter - 1, frame |-> FrameOf(m.iter - 1)]

(* The Hamiltonian files: each the one of its iteration, and that of the   *)
(* live iteration is there before the checkpoint can name it.              *)
ExportsFit(l, s, m, d) ==
  /\ \A i \in Iter : d.hr[i] \in {NoFile, FrameOf(i)}
  /\ l \in {"diagonalize", "report"} \/ (l = "export" /\ s = "in") => d.hr[m.iter] = m.iter

(* The checkpoint is one state; the temporary is the live one when it is   *)
(* renamed; and a continued job is never behind the file it continues.     *)
MainFits(j, l, s, m, d) ==
  /\ d.main # NoFile =>
       /\ d.main.iter > 0 /\ d.main.iter = d.main.mf
       /\ d.main.iter = d.main.ham /\ d.main.job <= j.no
       /\ d.hr[d.main.iter] = d.main.iter
  /\ s = "closed" => d.tmp = [iter |-> m.iter, mf |-> m.mf, ham |-> m.ham, job |-> j.no]
  /\ s \in {"companion", "flush"} =>
       d.main # NoFile /\ d.main.iter = m.iter /\ d.main.job = j.no
  /\ s = "companion" => j.ext = "tracking"
  /\ j.resume /\ (l \notin {"setup", "restore"} \/ (l = "restore" /\ s = "in"))
       => d.main # NoFile /\ d.main.iter <= m.iter

CompanionFits(d) == d.comp # NoFile => d.comp.parent = d.comp.mf /\ d.comp.iter = d.comp.mf

LastRow(d) == d.rows[Len(d.rows)]

(* The root's table replaced the one of earlier jobs. *)
Started(l, s) ==
  \/ l \notin {"setup", "restore", "restored", "initial output"}
  \/ l = "initial output" /\ s = "in"

(* The iteration table: contiguous, its last row the live state, and the   *)
(* checkpoint of this job no more than one ahead of it.                    *)
RowsFit(j, l, s, m, d) ==
  /\ \A i \in 1 .. Len(d.rows) : d.rows[i] = d.rows[1] + i - 1
  /\ Started(l, s) => Len(d.rows) > 0
  /\ \/ l \in {"initial export", "companion", "hartree", "decide", "final",
               "final trace", "end"}
     \/ (l \in {"initial output", "report"} /\ s = "in")
     => LastRow(d) = m.iter
  /\ \/ l \in {"respond", "update", "spread", "export", "diagonalize"}
     \/ (l = "report" /\ s \notin {"in", "wait", "thrown"})
     => LastRow(d) = m.iter - 1
  /\ d.main # NoFile /\ d.main.job = j.no =>
       /\ Len(d.rows) > 0
       /\ LastRow(d) \in {d.main.iter - 1, d.main.iter}
       /\ j.on => Started(l, s)

FilesFit(j, l, s, m, w, d) ==
  /\ WorkFits(l, m, w) /\ ExportsFit(l, s, m, d) /\ MainFits(j, l, s, m, d)
  /\ CompanionFits(d) /\ RowsFit(j, l, s, m, d)

(* What concerns the calls, the memory of the ranks, and the files. *)
CallsInv == PhasesOK /\ IdleOK /\ Chain /\ InStep /\ LoadsOK
RanksOK  == \A r \in Rank : RankFits(job, r, pc[r], Standing(r), mem[r])
FilesOK  == FilesFit(job, pc[Root], Standing(Root), mem[Root], work, disk)

IInv == TypeOK /\ CallsInv /\ RanksOK /\ FilesOK
-----------------------------------------------------------------------------
(* Append, for a sequence of which only the form is known. *)
LEMMA AppendFacts ==
  ASSUME NEW s, Len(s) \in Nat, s = [k \in 1 .. Len(s) |-> s[k]], NEW e
  PROVE  /\ Len(Append(s, e)) = Len(s) + 1
         /\ Append(s, e) = [k \in 1 .. Len(s) + 1 |-> Append(s, e)[k]]
         /\ \A k \in 1 .. Len(s) : Append(s, e)[k] = s[k]
         /\ Append(s, e)[Len(s) + 1] = e
<1> DEFINE S == {s[k] : k \in 1 .. Len(s)} \cup {e}
<1>1. s \in Seq(S)
  <2>1. s \in [1 .. Len(s) -> S]
    OBVIOUS
  <2>2. QED
    BY <2>1, SeqDef
<1>2. e \in S
  OBVIOUS
<1>3. /\ Append(s, e) \in Seq(S) /\ Len(Append(s, e)) = Len(s) + 1
      /\ \A k \in 1 .. Len(s) : Append(s, e)[k] = s[k]
      /\ Append(s, e)[Len(s) + 1] = e
  BY <1>1, <1>2, AppendProperties
<1>4. Append(s, e) \in [1 .. Len(s) + 1 -> S]
  BY <1>3, LenProperties
<1>5. QED
  BY <1>3, <1>4

(* What a call adds to the history. *)
LEMMA EnterFacts ==
  ASSUME TypeOK, PhasesOK, NEW r \in Rank, NEW flag, NEW load, Enter(r, flag, load)
  PROVE  /\ Met(r)' = Met(r) + 1
         /\ \A k \in 1 .. Met(r) : calls'[r][k] = calls[r][k]
         /\ calls'[r][Met(r) + 1] =
              [label |-> pc[r], iter |-> mem[r].iter, flag |-> flag, load |-> load]
         /\ calls'[r] = [k \in 1 .. Met(r) + 1 |-> calls'[r][k]]
         /\ \A q \in Rank : q # r => calls'[q] = calls[q] /\ phase'[q] = phase[q]
         /\ phase'[r] = "wait"
         /\ DOMAIN calls' = Rank /\ DOMAIN phase' = Rank
         /\ pc' = pc /\ job' = job
<1> DEFINE e == [label |-> pc[r], iter |-> mem[r].iter, flag |-> flag, load |-> load]
<1>1. calls' = [calls EXCEPT ![r] = Append(calls[r], e)]
  BY DEF Enter
<1>2. calls'[r] = Append(calls[r], e) /\ \A q \in Rank : q # r => calls'[q] = calls[q]
  BY <1>1 DEF TypeOK
<1>3. Len(calls[r]) \in Nat /\ calls[r] = [k \in 1 .. Len(calls[r]) |-> calls[r][k]]
  BY DEF PhasesOK, Met
<1>4. /\ Len(Append(calls[r], e)) = Met(r) + 1
      /\ Append(calls[r], e) = [k \in 1 .. Met(r) + 1 |-> Append(calls[r], e)[k]]
      /\ \A k \in 1 .. Met(r) : Append(calls[r], e)[k] = calls[r][k]
      /\ Append(calls[r], e)[Met(r) + 1] = e
  BY <1>3, AppendFacts, Zenon DEF Met
<1>5. /\ DOMAIN calls' = Rank /\ DOMAIN phase' = Rank /\ phase'[r] = "wait"
      /\ \A q \in Rank : q # r => phase'[q] = phase[q]
      /\ pc' = pc /\ job' = job
  BY DEF Enter, TypeOK
<1>6. QED
  BY <1>2, <1>4, <1>5, Zenon DEF Met

(* Entering a collective keeps what is known of the calls: a rank enters   *)
(* the collective of its place.                                            *)
LEMMA EntryKeepsCalls ==
  ASSUME IInv, NEW r \in Rank, NEW flag \in {"ok", "failed"}, NEW load,
         job.on, phase[r] \notin {"wait", "thrown", "done"}, Enter(r, flag, load),
         \A q \in Rank : q # r => mem'[q] = mem[q],
         pc[r] # "restore" => mem'[r].iter = mem[r].iter,
         flag = "ok" => LoadFits(r, pc[r], mem[r].iter, load)
  PROVE  CallsInv'
<1> DEFINE n == Met(r)
<1>0. TypeOK /\ PhasesOK /\ IdleOK /\ Chain /\ InStep /\ LoadsOK
  BY DEF IInv, CallsInv
<1>1. /\ Met(r)' = n + 1
      /\ \A k \in 1 .. n : calls'[r][k] = calls[r][k]
      /\ calls'[r][n + 1] =
           [label |-> pc[r], iter |-> mem[r].iter, flag |-> flag, load |-> load]
      /\ calls'[r] = [k \in 1 .. n + 1 |-> calls'[r][k]]
      /\ \A q \in Rank : q # r => calls'[q] = calls[q] /\ phase'[q] = phase[q]
      /\ phase'[r] = "wait" /\ pc' = pc /\ job' = job
  BY <1>0, EnterFacts
<1>2. \A q \in Rank : /\ Met(q) \in Nat
                      /\ Met(q)' = IF q = r THEN n + 1 ELSE Met(q)
                      /\ \A k \in 1 .. Met(q) : calls'[q][k] = calls[q][k]
  <2>1. \A q \in Rank : Met(q) \in Nat
    BY <1>0 DEF PhasesOK
  <2>2. \A q \in Rank : q # r => Met(q)' = Met(q)
    BY <1>1 DEF Met
  <2>3. QED
    BY <1>1, <2>1, <2>2
<1>3. pc[r] \in Label /\ mem[r].iter \in Iter
  <2>1. pc[r] \in Label
    BY <1>0 DEF PhasesOK
  <2>2. mem[r] \in Memory
    BY <1>0 DEF TypeOK
  <2>3. QED
    BY <2>1, <2>2 DEF Memory
<1>4. PhasesOK'
  <2>1. \A q \in Rank : q # r =>
          Met(q)' = Met(q) /\ calls'[q] = calls[q] /\ phase'[q] = phase[q] /\ mem'[q] = mem[q]
    BY <1>1, <1>2
  <2>2. SUFFICES ASSUME NEW q \in Rank
                 PROVE  /\ Met(q)' \in Nat /\ calls'[q] = [k \in 1 .. Met(q)' |-> calls'[q][k]]
                        /\ \A k \in 1 .. Met(q)' : /\ calls'[q][k].label \in Label
                                                    /\ calls'[q][k].iter \in Iter
                                                    /\ calls'[q][k].flag \in {"ok", "failed"}
                        /\ pc[q] \in Label \cup {"end"}
                        /\ phase'[q] \in {"run", "wait", "thrown", "alone", "done"} \cup FileStage
                        /\ phase'[q] \in FileStage => q = Root /\ pc[q] = "report"
                        /\ phase'[q] = "done" <=> pc[q] = "end"
                        /\ phase'[q] \in {"wait", "thrown"} =>
                             Met(q)' > 0 /\ calls'[q][Met(q)'].label = pc[q]
                        /\ phase'[q] = "wait" /\ pc[q] # "restore" =>
                             calls'[q][Met(q)'].iter = mem'[q].iter
    BY <2>2, <1>0, <1>1 DEF PhasesOK
  <2>3. CASE q # r
    BY <2>1, <2>3, <1>0 DEF PhasesOK
  <2>4. CASE q = r
    <3>1. pc[r] # "end" /\ "wait" \notin FileStage
      BY <1>3 DEF Label, LocalPoint, Joint, FileStage
    <3>2. \A k \in 1 .. n : /\ calls[r][k].label \in Label /\ calls[r][k].iter \in Iter
                            /\ calls[r][k].flag \in {"ok", "failed"}
      BY <1>0 DEF PhasesOK
    <3>3. n \in Nat
      BY <1>2
    <3>4. \A k \in 1 .. n + 1 : /\ calls'[r][k].label \in Label /\ calls'[r][k].iter \in Iter
                                /\ calls'[r][k].flag \in {"ok", "failed"}
      <4>1. \A k \in 1 .. n + 1 : k \in 1 .. n \/ k = n + 1
        BY <3>3
      <4>2. QED
        BY <4>1, <3>1, <3>2, <1>1, <1>3
    <3>5. calls'[r][n + 1].iter = mem'[r].iter \/ pc[r] = "restore"
      BY <1>1
    <3>6. QED
      BY <2>4, <3>1, <3>3, <3>4, <3>5, <1>1, <1>3
  <2>5. QED
    BY <2>3, <2>4
<1>5. IdleOK'
  BY <1>1 DEF IdleOK
<1>6. \A q \in Rank : /\ Place(q) \in Nat \ {0} /\ Place(q)' = Place(q)
                      /\ Place(q) <= Met(q) + 1 /\ Place(q) - 1 <= Met(q)
  <2>1. \A q \in Rank : phase[q] \in {"wait", "thrown"} => Met(q) > 0
    BY <1>0 DEF PhasesOK
  <2>2. QED
    BY <2>1, <1>1, <1>2 DEF Place
<1>7. \A q \in Rank : \A k \in 1 .. Place(q) :
        LabelAt(q, k)' = LabelAt(q, k) /\ IterAt(q, k)' = IterAt(q, k)
  <2> SUFFICES ASSUME NEW q \in Rank, NEW k \in 1 .. Place(q)
               PROVE  LabelAt(q, k)' = LabelAt(q, k) /\ IterAt(q, k)' = IterAt(q, k)
    OBVIOUS
  <2>1. k \in Nat /\ k <= Met(q) + 1 /\ Met(q) \in Nat
    BY <1>2, <1>6
  <2>2. CASE q # r
    BY <2>1, <2>2, <1>1, <1>2 DEF LabelAt, IterAt
  <2>3. CASE q = r /\ k = n + 1
    BY <2>1, <2>3, <1>1, <1>2 DEF LabelAt, IterAt
  <2>4. CASE q = r /\ k <= n
    BY <2>1, <2>4, <1>1, <1>2 DEF LabelAt, IterAt
  <2>5. QED
    BY <2>1, <2>2, <2>3, <2>4
<1>8. \A q \in Rank : \A k \in 1 .. Place(q) : Passed(q, k) => Passed(q, k)'
  <2> SUFFICES ASSUME NEW q \in Rank, NEW k \in 1 .. Place(q), Passed(q, k)
               PROVE  Passed(q, k)'
    OBVIOUS
  <2>1. k \in Nat /\ LabelAt(q, k)' = LabelAt(q, k)
    BY <1>6, <1>7
  <2>2. \A p \in Rank : k <= Met(p) /\ calls[p][k].flag = "ok"
                        => k <= Met(p)' /\ calls'[p][k].flag = "ok"
    BY <2>1, <1>2, <1>6
  <2>3. QED
    BY <2>1, <2>2, RunAssumption DEF Passed
<1>9. Chain'
  <2> SUFFICES ASSUME NEW q \in Rank, NEW k \in 1 .. Place(q) - 1
               PROVE  /\ Passed(q, k)'
                      /\ Follows(k, LabelAt(q, k), IterAt(q, k),
                                    LabelAt(q, k + 1), IterAt(q, k + 1))'
    BY <1>0, <1>6, <1>7 DEF Chain
  <2>1. Passed(q, k) /\ k \in 1 .. Place(q) /\ k + 1 \in 1 .. Place(q)
    BY <1>0, <1>6 DEF Chain
  <2>2. Follows(k, LabelAt(q, k), IterAt(q, k), LabelAt(q, k + 1), IterAt(q, k + 1))
    BY <1>0, <1>6 DEF Chain
  <2>3. k \in 1 .. Met(Root)
    BY <2>1, <1>2, RunAssumption DEF Passed
  <2>4. calls'[Root][k].load = calls[Root][k].load
    BY <2>3, <1>2, RunAssumption
  <2>5. QED
    <3>1. /\ LabelAt(q, k)' = LabelAt(q, k) /\ IterAt(q, k)' = IterAt(q, k)
          /\ LabelAt(q, k + 1)' = LabelAt(q, k + 1) /\ IterAt(q, k + 1)' = IterAt(q, k + 1)
      BY <2>1, <1>7
    <3>2. Follows(k, LabelAt(q, k), IterAt(q, k), LabelAt(q, k + 1), IterAt(q, k + 1))'
      BY <2>2, <2>4, <3>1, <1>1, ZenonT(60) DEF Follows, Tracking
    <3>3. QED
      BY <2>1, <3>2, <1>8
<1>10. InStep'
  BY <1>0, <1>6, <1>7 DEF InStep
<1>11. LoadsOK'
  <2> SUFFICES ASSUME NEW q \in Rank, NEW k \in 1 .. Met(q)', calls'[q][k].flag = "ok"
               PROVE  LoadFits(q, calls[q][k].label, calls[q][k].iter, calls[q][k].load)'
    BY DEF LoadsOK
  <2>1. CASE k \in 1 .. Met(q)
    <3>1. calls'[q][k] = calls[q][k]
      BY <2>1, <1>2
    <3>2. LoadFits(q, calls[q][k].label, calls[q][k].iter, calls[q][k].load)
      BY <2>1, <3>1, <1>0 DEF LoadsOK
    <3>3. QED
      BY <3>1, <3>2, <1>1 DEF LoadFits
  <2>2. CASE q = r /\ k = n + 1
    BY <2>2, <1>1 DEF LoadFits
  <2>3. QED
    BY <2>1, <2>2, <1>2
<1>12. QED
  BY <1>4, <1>5, <1>9, <1>10, <1>11 DEF CallsInv

(* What a rank knows when its collective has returned without a failure:   *)
(* all who were needed made the same call.                                 *)
LEMMA BackFacts ==
  ASSUME IInv, NEW r \in Rank, NEW l, Back(r, l)
  PROVE  /\ Met(r) \in Nat \ {0} /\ phase[r] = "wait" /\ pc[r] = l
         /\ calls[r][Met(r)].label = l
         /\ l # "restore" => calls[r][Met(r)].iter = mem[r].iter
         /\ Passed(r, Met(r))
         /\ Met(r) \in 1 .. Met(Root) /\ calls[Root][Met(r)].label = l
         /\ calls[Root][Met(r)].flag = "ok"
         /\ l \notin {"restore", "restored"} => calls[Root][Met(r)].iter = mem[r].iter
         /\ l \in Joint => \A q \in Rank :
              /\ Met(r) \in 1 .. Met(q) /\ calls[q][Met(r)].label = l
              /\ calls[q][Met(r)].flag = "ok" /\ calls[q][Met(r)].iter = mem[r].iter
         /\ r = Root \/ l \in Joint => Standing(r) = "in"
         /\ LoadFits(Root, l, calls[Root][Met(r)].iter, Sent(r))
<1> DEFINE n == Met(r)
<1>0. TypeOK /\ PhasesOK /\ IdleOK /\ Chain /\ InStep /\ LoadsOK
  BY DEF IInv, CallsInv
<1>1. /\ pc[r] = l /\ phase[r] = "wait" /\ job.on
      /\ \A q \in Needed(r) : Met(q) >= n /\ calls[q][n].flag # "failed"
  BY DEF Back, Returns, AnyFailed
<1>2. \A q \in Rank : Met(q) \in Nat
  BY <1>0 DEF PhasesOK
<1>3. /\ n \in Nat \ {0} /\ calls[r][n].label = l
      /\ l # "restore" => calls[r][n].iter = mem[r].iter
  <2>1. n > 0 /\ calls[r][n].label = pc[r] /\ (pc[r] # "restore" => calls[r][n].iter = mem[r].iter)
    BY <1>0, <1>1 DEF PhasesOK
  <2>2. QED
    BY <2>1, <1>1, <1>2
<1>4. \A q \in Needed(r) : n \in 1 .. Met(q) /\ calls[q][n].flag = "ok"
  <2> SUFFICES ASSUME NEW q \in Needed(r)
               PROVE  n \in 1 .. Met(q) /\ calls[q][n].flag = "ok"
    OBVIOUS
  <2>1. q \in Rank
    BY RunAssumption DEF Needed
  <2>2. n \in 1 .. Met(q)
    BY <2>1, <1>1, <1>2, <1>3
  <2>3. QED
    BY <2>1, <2>2, <1>0, <1>1 DEF PhasesOK
<1>5. Root \in Needed(r) /\ (l \in Joint => Needed(r) = Rank) /\ (r = Root => Needed(r) = {Root} \/ Needed(r) = Rank)
  BY <1>1, RunAssumption DEF Needed
<1>6. LabelAt(r, n) = l /\ IterAt(r, n) = calls[r][n].iter /\ Place(r) = n
  BY <1>1, <1>3 DEF LabelAt, IterAt, Place
<1>7. Passed(r, n)
  BY <1>1, <1>2, <1>3, <1>4, <1>6, RunAssumption DEF Passed, Needed
<1>8. \A q \in Rank : n \in 1 .. Met(q) =>
        /\ calls[q][n].label = l
        /\ l \notin {"restore", "restored"} => calls[q][n].iter = mem[r].iter
  <2> SUFFICES ASSUME NEW q \in Rank, n \in 1 .. Met(q)
               PROVE  /\ calls[q][n].label = l
                      /\ l \notin {"restore", "restored"} => calls[q][n].iter = mem[r].iter
    OBVIOUS
  <2>1. n <= Place(q) /\ LabelAt(q, n) = calls[q][n].label /\ IterAt(q, n) = calls[q][n].iter
    BY <1>2 DEF Place, LabelAt, IterAt
  <2>2. /\ LabelAt(r, n) = LabelAt(q, n)
        /\ IterAt(r, n) = IterAt(q, n) \/ LabelAt(r, n) \in {"restore", "restored"}
    BY <2>1, <1>0, <1>3, <1>6 DEF InStep
  <2>3. QED
    BY <2>1, <2>2, <1>3, <1>6
<1>9. LoadFits(Root, l, calls[Root][n].iter, Sent(r))
  <2>1. LoadFits(Root, calls[Root][n].label, calls[Root][n].iter, calls[Root][n].load)
    BY <1>0, <1>4, <1>5, RunAssumption DEF LoadsOK
  <2>2. QED
    BY <2>1, <1>4, <1>5, <1>8, RunAssumption DEF Sent
<1>10. r = Root \/ l \in Joint => Standing(r) = "in"
  BY <1>1, <1>4, <1>5 DEF Standing
<1>11. l \in Joint => l \notin {"restore", "restored"}
  BY DEF Joint
<1>12. QED
  BY <1>1, <1>3, <1>4, <1>5, <1>7, <1>8, <1>9, <1>10, <1>11, RunAssumption

(* So does leaving a collective for the place that follows it.             *)
LEMMA MoveKeepsCalls ==
  ASSUME IInv, NEW r \in Rank, NEW l, NEW m \in Label \cup {"end"},
         Back(r, l), GoTo(r, m),
         \A q \in Rank : q # r => mem'[q] = mem[q],
         Follows(Met(r), l, calls[r][Met(r)].iter, m, mem'[r].iter)
  PROVE  CallsInv'
<1>n. PICK n : n = Met(r)
  OBVIOUS
<1>0. TypeOK /\ PhasesOK /\ IdleOK /\ Chain /\ InStep /\ LoadsOK
  BY DEF IInv, CallsInv
<1>1. /\ n \in Nat \ {0} /\ phase[r] = "wait" /\ job.on
      /\ calls[r][n].label = l /\ Passed(r, n)
      /\ l \notin {"restore", "restored"} => calls[Root][n].iter = calls[r][n].iter
      /\ n <= Met(Root) /\ calls[Root][n].label = l
  BY <1>n, BackFacts DEF Back
<1>2. /\ calls' = calls /\ job' = job /\ DOMAIN pc' = Rank /\ DOMAIN phase' = Rank
      /\ pc'[r] = m /\ phase'[r] = IF m = "end" THEN "done" ELSE "run"
      /\ \A q \in Rank : q # r => pc'[q] = pc[q] /\ phase'[q] = phase[q]
  BY <1>0 DEF GoTo, TypeOK
<1>3. \A q \in Rank : Met(q) \in Nat /\ Met(q)' = Met(q)
  BY <1>0, <1>2 DEF PhasesOK, Met
<1>4. PhasesOK'
  <2>1. SUFFICES ASSUME NEW q \in Rank
                 PROVE  /\ pc'[q] \in Label \cup {"end"}
                        /\ phase'[q] \in {"run", "wait", "thrown", "alone", "done"} \cup FileStage
                        /\ phase'[q] \in FileStage => q = Root /\ pc'[q] = "report"
                        /\ phase'[q] = "done" <=> pc'[q] = "end"
                        /\ phase'[q] \in {"wait", "thrown"} =>
                             Met(q) > 0 /\ calls[q][Met(q)].label = pc'[q]
                        /\ phase'[q] = "wait" /\ pc'[q] # "restore" =>
                             calls[q][Met(q)].iter = mem'[q].iter
    BY <2>1, <1>0, <1>2, <1>3 DEF PhasesOK
  <2>2. CASE q # r
    BY <2>2, <1>0, <1>2, ZenonT(60) DEF PhasesOK
  <2>3. CASE q = r
    BY <2>3, <1>2 DEF FileStage
  <2>4. QED
    BY <2>2, <2>3
<1>5. IdleOK'
  BY <1>1, <1>2 DEF IdleOK
<1>6. /\ Place(r) = n /\ Place(r)' = n + 1
      /\ \A q \in Rank : q # r => Place(q)' = Place(q)
      /\ \A q \in Rank : Place(q) \in Nat \ {0} /\ Place(q) <= Met(q) + 1 /\ Place(q) - 1 <= Met(q)
  <2>1. \A q \in Rank : phase[q] \in {"wait", "thrown"} => Met(q) > 0
    BY <1>0 DEF PhasesOK
  <2>2. QED
    BY <2>1, <1>n, <1>1, <1>2, <1>3 DEF Place
<1>7. /\ \A q \in Rank : \A k \in 1 .. Place(q) :
           LabelAt(q, k)' = LabelAt(q, k) /\ IterAt(q, k)' = IterAt(q, k)
      /\ LabelAt(r, n + 1)' = m /\ IterAt(r, n + 1)' = mem'[r].iter
      /\ LabelAt(r, n) = l /\ IterAt(r, n) = calls[r][n].iter
  BY <1>n, <1>1, <1>2, <1>3, <1>6 DEF LabelAt, IterAt
<1>8. \A q \in Rank : \A k \in 1 .. Place(q) : Passed(q, k) => Passed(q, k)'
  BY <1>2, <1>3, <1>7, RunAssumption DEF Passed
<1>9. Follows(n, l, IterAt(r, n), m, mem'[r].iter)
  BY <1>n, <1>7
<1>10. Chain'
  <2> SUFFICES ASSUME NEW q \in Rank, NEW k \in 1 .. Place(q)' - 1
               PROVE  /\ Passed(q, k)'
                      /\ Follows(k, LabelAt(q, k), IterAt(q, k),
                                    LabelAt(q, k + 1), IterAt(q, k + 1))'
    BY <1>0, <1>6, <1>7 DEF Chain
  <2>1. CASE k \in 1 .. Place(q) - 1
    <3>1. /\ Passed(q, k) /\ k \in 1 .. Place(q) /\ k + 1 \in 1 .. Place(q)
          /\ Follows(k, LabelAt(q, k), IterAt(q, k), LabelAt(q, k + 1), IterAt(q, k + 1))
      BY <2>1, <1>0, <1>6 DEF Chain
    <3>2. /\ LabelAt(q, k)' = LabelAt(q, k) /\ IterAt(q, k)' = IterAt(q, k)
          /\ LabelAt(q, k + 1)' = LabelAt(q, k + 1) /\ IterAt(q, k + 1)' = IterAt(q, k + 1)
      BY <3>1, <1>7
    <3>3. QED
      BY <3>1, <3>2, <1>2, <1>8 DEF Follows, Tracking
  <2>2. CASE q = r /\ k = n
    <3>1. n \in 1 .. Place(r)
      BY <1>1, <1>6
    <3>2. LabelAt(r, n)' = l /\ IterAt(r, n)' = IterAt(r, n)
      BY <3>1, <1>7
    <3>3. Follows(n, LabelAt(r, n), IterAt(r, n), LabelAt(r, n + 1), IterAt(r, n + 1))'
      BY <3>2, <1>2, <1>7, <1>9, ZenonT(60) DEF Follows, Tracking
    <3>4. QED
      BY <2>2, <3>1, <3>3, <1>1, <1>8
  <2>3. QED
    BY <2>1, <2>2, <1>1, <1>6
<1>11. \A q \in Rank : n + 1 <= Place(q) =>
         LabelAt(q, n + 1) = m /\ (IterAt(q, n + 1) = mem'[r].iter \/ m \in {"restore", "restored"})
  <2> SUFFICES ASSUME NEW q \in Rank, n + 1 <= Place(q)
               PROVE  LabelAt(q, n + 1) = m
                      /\ (IterAt(q, n + 1) = mem'[r].iter \/ m \in {"restore", "restored"})
    OBVIOUS
  <2>1. Follows(n, LabelAt(q, n), IterAt(q, n), LabelAt(q, n + 1), IterAt(q, n + 1))
    BY <1>0, <1>1, <1>6 DEF Chain
  <2>2. LabelAt(q, n) = l /\ (IterAt(q, n) = IterAt(r, n) \/ l \in {"restore", "restored"})
    BY <1>0, <1>1, <1>6, <1>7 DEF InStep
  <2>3. IterAt(r, n) \in Nat
    <3>1. n \in 1 .. Met(r)
      BY <1>n, <1>1
    <3>2. calls[r][n].iter \in Iter
      BY <3>1, <1>0 DEF PhasesOK
    <3>3. QED
      BY <3>2, <1>7, RunAssumption DEF Iter
  <2>4. CASE l = "restore"
    BY <2>1, <2>2, <2>4, <1>9 DEF Follows
  <2>5. CASE l = "restored"
    BY <2>1, <2>2, <2>5, <1>9 DEF Follows
  <2>6. CASE l = "decide"
    BY <2>1, <2>2, <2>3, <2>6, <1>9 DEF Follows
  <2>7. CASE l \notin {"restore", "restored", "decide"}
    BY <2>1, <2>2, <2>3, <2>7, <1>9 DEF Follows
  <2>8. QED
    BY <2>4, <2>5, <2>6, <2>7
<1>12. InStep'
  <2> SUFFICES ASSUME NEW p \in Rank, NEW q \in Rank, NEW k \in 1 .. Place(p)', k <= Place(q)'
               PROVE  /\ LabelAt(p, k)' = LabelAt(q, k)'
                      /\ IterAt(p, k)' = IterAt(q, k)' \/ LabelAt(p, k)' \in {"restore", "restored"}
    BY DEF InStep
  <2>1. CASE k <= Place(p) /\ k <= Place(q)
    <3>1. k \in 1 .. Place(p) /\ k \in 1 .. Place(q)
      BY <2>1, <1>6
    <3>2. /\ LabelAt(p, k) = LabelAt(q, k)
          /\ IterAt(p, k) = IterAt(q, k) \/ LabelAt(p, k) \in {"restore", "restored"}
      BY <3>1, <1>0, <1>6 DEF InStep
    <3>3. QED
      BY <3>1, <3>2, <1>7
  <2>2. CASE p = q
    BY <2>2
  <2>3. CASE p = r /\ q # r /\ k = n + 1
    BY <2>3, <1>6, <1>7, <1>11
  <2>4. CASE q = r /\ p # r /\ k = n + 1
    BY <2>4, <1>6, <1>7, <1>11
  <2>5. QED
    BY <2>1, <2>2, <2>3, <2>4, <1>1, <1>6
<1>13. LoadsOK'
  <2> SUFFICES ASSUME NEW q \in Rank, NEW k \in 1 .. Met(q), calls[q][k].flag = "ok"
               PROVE  LoadFits(q, calls[q][k].label, calls[q][k].iter, calls[q][k].load)'
    BY <1>2, <1>3 DEF LoadsOK
  <2>1. LoadFits(q, calls[q][k].label, calls[q][k].iter, calls[q][k].load)
    BY <1>0 DEF LoadsOK
  <2>2. QED
    BY <2>1, <1>2 DEF LoadFits
<1>14. QED
  BY <1>4, <1>5, <1>10, <1>12, <1>13 DEF CallsInv

(* And so does what a rank does inside a collective or on the way to one.  *)
LEMMA StayKeepsCalls ==
  ASSUME IInv, NEW r \in Rank, NEW p, job.on,
         phase' = [phase EXCEPT ![r] = p], UNCHANGED <<job, pc, mem, calls>>,
         \/ phase[r] = "wait" /\ p = "thrown"
         \/ phase[r] = "run" /\ p = "alone"
         \/ /\ r = Root /\ pc[r] = "report" /\ p \in FileStage
            /\ phase[r] \in {"run"} \cup FileStage
  PROVE  CallsInv'
<1>0. TypeOK /\ PhasesOK /\ IdleOK /\ Chain /\ InStep /\ LoadsOK
  BY DEF IInv, CallsInv
<1>1. phase'[r] = p /\ DOMAIN phase' = Rank /\ \A q \in Rank : q # r => phase'[q] = phase[q]
  BY <1>0 DEF TypeOK
<1>2. \A q \in Rank : Met(q)' = Met(q)
  BY DEF Met
<1>3. p \notin {"run", "wait", "done"} /\ phase[r] # "done" /\ (phase[r] = "wait" <=> p = "thrown")
      /\ p \in {"thrown", "alone"} \cup FileStage /\ phase[r] # "thrown"
      /\ "alone" \notin FileStage
  BY DEF FileStage
<1>4. PhasesOK'
  <2>1. SUFFICES ASSUME NEW q \in Rank
                 PROVE  /\ phase'[q] \in {"run", "wait", "thrown", "alone", "done"} \cup FileStage
                        /\ phase'[q] \in FileStage => q = Root /\ pc[q] = "report"
                        /\ phase'[q] = "done" <=> pc[q] = "end"
                        /\ phase'[q] \in {"wait", "thrown"} =>
                             Met(q) > 0 /\ calls[q][Met(q)].label = pc[q]
                        /\ phase'[q] = "wait" /\ pc[q] # "restore" =>
                             calls[q][Met(q)].iter = mem[q].iter
    BY <2>1, <1>0, <1>2 DEF PhasesOK
  <2>2. CASE q # r
    BY <2>2, <1>0, <1>1 DEF PhasesOK
  <2>3. CASE q = r
    <3>1. /\ phase[r] = "done" <=> pc[r] = "end"
          /\ phase[r] \in {"wait", "thrown"} => Met(r) > 0 /\ calls[r][Met(r)].label = pc[r]
      BY <1>0 DEF PhasesOK
    <3>2. "thrown" \notin FileStage
      BY DEF FileStage
    <3>3. QED
      BY <2>3, <3>1, <3>2, <1>1, <1>3
  <2>4. QED
    BY <2>2, <2>3
<1>5. IdleOK'
  BY DEF IdleOK
<1>6. \A q \in Rank : Place(q)' = Place(q)
  BY <1>1, <1>2, <1>3 DEF Place
<1>7. \A q \in Rank, k \in Nat : LabelAt(q, k)' = LabelAt(q, k) /\ IterAt(q, k)' = IterAt(q, k)
  BY <1>2 DEF LabelAt, IterAt
<1>8. \A q \in Rank, k \in Nat : Passed(q, k)' <=> Passed(q, k)
  BY <1>2, <1>7, RunAssumption DEF Passed
<1>9. \A q \in Rank : Place(q) \in Nat
  <2>1. \A q \in Rank : Met(q) \in Nat
    BY <1>0 DEF PhasesOK
  <2>2. QED
    BY <2>1 DEF Place
<1>10. Chain'
  <2> SUFFICES ASSUME NEW q \in Rank, NEW k \in 1 .. Place(q) - 1
               PROVE  /\ Passed(q, k)'
                      /\ Follows(k, LabelAt(q, k), IterAt(q, k),
                                    LabelAt(q, k + 1), IterAt(q, k + 1))'
    BY <1>0, <1>6, <1>7 DEF Chain
  <2>1. Passed(q, k) /\ Follows(k, LabelAt(q, k), IterAt(q, k), LabelAt(q, k + 1), IterAt(q, k + 1))
    BY <1>0 DEF Chain
  <2>2. k \in Nat /\ k + 1 \in Nat
    BY <1>9
  <2>3. QED
    BY <2>1, <2>2, <1>7, <1>8 DEF Follows, Tracking
<1>11. InStep'
  BY <1>0, <1>6, <1>7, <1>9 DEF InStep
<1>12. LoadsOK'
  BY <1>0, <1>2 DEF LoadsOK, LoadFits
<1>13. QED
  BY <1>4, <1>5, <1>10, <1>11, <1>12 DEF CallsInv

(* Nothing is known of the calls that a stutter could disturb.             *)
LEMMA StutterKeepsCalls ==
  ASSUME IInv, UNCHANGED <<job, pc, phase, mem, calls>>
  PROVE  CallsInv'
<1>0. TypeOK /\ PhasesOK /\ IdleOK /\ Chain /\ InStep /\ LoadsOK
  BY DEF IInv, CallsInv
<1>1. \A q \in Rank : Met(q)' = Met(q) /\ Place(q)' = Place(q) /\ Place(q) \in Nat
  <2>1. \A q \in Rank : Met(q) \in Nat
    BY <1>0 DEF PhasesOK
  <2>2. QED
    BY <2>1 DEF Met, Place
<1>2. \A q \in Rank, k \in Nat : LabelAt(q, k)' = LabelAt(q, k) /\ IterAt(q, k)' = IterAt(q, k)
  BY <1>1 DEF LabelAt, IterAt
<1>3. \A q \in Rank, k \in Nat : Passed(q, k)' <=> Passed(q, k)
  BY <1>1, <1>2, RunAssumption DEF Passed
<1>4. Chain'
  <2> SUFFICES ASSUME NEW q \in Rank, NEW k \in 1 .. Place(q) - 1
               PROVE  /\ Passed(q, k)'
                      /\ Follows(k, LabelAt(q, k), IterAt(q, k),
                                    LabelAt(q, k + 1), IterAt(q, k + 1))'
    BY <1>0, <1>1, <1>2 DEF Chain
  <2>1. Passed(q, k) /\ Follows(k, LabelAt(q, k), IterAt(q, k), LabelAt(q, k + 1), IterAt(q, k + 1))
    BY <1>0 DEF Chain
  <2>2. k \in Nat /\ k + 1 \in Nat
    BY <1>1
  <2>3. QED
    BY <2>1, <2>2, <1>2, <1>3 DEF Follows, Tracking
<1>5. InStep'
  BY <1>0, <1>1, <1>2 DEF InStep
<1>6. PhasesOK' /\ IdleOK' /\ LoadsOK'
  BY <1>0, <1>1 DEF PhasesOK, IdleOK, LoadsOK, LoadFits
<1>7. QED
  BY <1>4, <1>5, <1>6 DEF CallsInv
-----------------------------------------------------------------------------
(* The types of the root's variables and of the files. *)
FilesTyped(w, d) ==
  /\ w \in [delta: [state: Version, base: Version],
            sigma: [state: Version, frame: Version \cup {RefH}],
            conv: BOOLEAN, buf: Seq(Iter)]
  /\ d \in [main: File(Checkpoint), tmp: File(Checkpoint \cup {Torn}),
            comp: File(Companion), rows: Seq(Iter),
            hr: [Iter -> File(Version \cup {RefH})]]

(* Iterations and versions are integers. *)
LEMMA Numbers ==
  /\ Iter \subseteq Nat /\ Iter \subseteq Version /\ Version \subseteq Int /\ 0 \in Iter
  /\ Root \in Rank /\ 1 \in Iter
BY RunAssumption DEF Iter, Version, Bad

(* A step of one rank keeps the invariant when the calls are in order, the *)
(* rank holds what its new point asks for and, if it is the root, the      *)
(* files fit as well: nothing else is about that rank.                     *)
LEMMA RankKeeps ==
  ASSUME IInv, NEW r \in Rank, NEW v \in Memory, CallsInv',
         job' = job, mem' = [mem EXCEPT ![r] = v],
         DOMAIN pc' = Rank, DOMAIN phase' = Rank, DOMAIN calls' = Rank,
         \A q \in Rank : q # r =>
           pc'[q] = pc[q] /\ phase'[q] = phase[q] /\ calls'[q] = calls[q],
         RankFits(job, r, pc'[r], Standing(r)', v),
         r # Root => work' = work /\ disk' = disk,
         r = Root => /\ FilesTyped(work', disk')
                     /\ FilesFit(job, pc'[r], Standing(r)', v, work', disk')
  PROVE  IInv'
<1>0. TypeOK /\ RanksOK /\ FilesOK
  BY DEF IInv
<1>1. mem \in [Rank -> Memory] /\ mem'[r] = v /\ mem' \in [Rank -> Memory]
      /\ \A q \in Rank : q # r => mem'[q] = mem[q]
  BY <1>0 DEF TypeOK
<1>2. \A q \in Rank : q # r => Standing(q)' = Standing(q)
  BY DEF Standing, Met
<1>3. TypeOK'
  <2>1. FilesTyped(work', disk')
    <3>1. CASE r # Root
      BY <3>1, <1>0, ZenonT(60) DEF TypeOK, FilesTyped
    <3>2. QED
      BY <3>1
  <2>2. QED
    BY <2>1, <1>0, <1>1 DEF TypeOK, FilesTyped
<1>4. RanksOK'
  <2> SUFFICES ASSUME NEW q \in Rank
               PROVE  RankFits(job, q, pc[q], Standing(q), mem[q])'
    BY DEF RanksOK
  <2>1. CASE q # r
    <3>1. RankFits(job, q, pc[q], Standing(q), mem[q])
      BY <1>0 DEF RanksOK
    <3>2. QED
      BY <2>1, <3>1, <1>1, <1>2
  <2>2. CASE q = r
    BY <2>2, <1>1
  <2>3. QED
    BY <2>1, <2>2
<1>5. FilesOK'
  <2>1. CASE r # Root
    <3>1. FilesFit(job, pc[Root], Standing(Root), mem[Root], work, disk)
      BY <1>0 DEF FilesOK
    <3>2. QED
      BY <2>1, <3>1, <1>1, <1>2, Numbers DEF FilesOK
  <2>2. CASE r = Root
    BY <2>2, <1>1 DEF FilesOK
  <2>3. QED
    BY <2>1, <2>2
<1>6. QED
  BY <1>3, <1>4, <1>5 DEF IInv

(* How a rank stands after a call. *)
LEMMA EnterStanding ==
  ASSUME TypeOK, PhasesOK, NEW r \in Rank, NEW flag, NEW load, Enter(r, flag, load)
  PROVE  /\ Standing(r)' = IF flag = "ok" THEN "in" ELSE "wait"
         /\ \A q \in Rank : q # r => calls'[q] = calls[q] /\ phase'[q] = phase[q]
         /\ DOMAIN calls' = Rank /\ DOMAIN phase' = Rank /\ pc' = pc /\ job' = job
<1> DEFINE e == [label |-> pc[r], iter |-> mem[r].iter, flag |-> flag, load |-> load]
<1>1. /\ calls'[r] = Append(calls[r], e) /\ phase'[r] = "wait"
      /\ \A q \in Rank : q # r => calls'[q] = calls[q] /\ phase'[q] = phase[q]
      /\ DOMAIN calls' = Rank /\ DOMAIN phase' = Rank /\ pc' = pc /\ job' = job
  BY DEF Enter, TypeOK
<1>3. Len(calls[r]) \in Nat /\ calls[r] = [k \in 1 .. Len(calls[r]) |-> calls[r][k]]
  BY DEF PhasesOK, Met
<1>4. calls'[r][Met(r)'].flag = flag
  <2>1. Append(calls[r], e)[Len(Append(calls[r], e))] = e
    <3>1. /\ Len(Append(calls[r], e)) = Len(calls[r]) + 1
          /\ Append(calls[r], e)[Len(calls[r]) + 1] = e
      BY <1>3, AppendFacts, Zenon
    <3>2. QED
      BY <3>1, Zenon
  <2>2. calls'[r][Met(r)'] = e
    BY <1>1, <2>1 DEF Met
  <2>3. QED
    BY <2>2
<1>2. Standing(r)' = IF flag = "ok" THEN "in" ELSE "wait"
  BY <1>1, <1>4 DEF Standing
<1>5. QED
  BY <1>1, <1>2

(* Entering a collective. *)
LEMMA EntryKeeps ==
  ASSUME IInv, NEW r \in Rank, NEW v \in Memory,
         NEW flag \in {"ok", "failed"}, NEW load,
         job.on, phase[r] \notin {"wait", "thrown", "done"}, Enter(r, flag, load),
         mem' = [mem EXCEPT ![r] = v],
         pc[r] # "restore" => v.iter = mem[r].iter,
         flag = "ok" => LoadFits(r, pc[r], mem[r].iter, load),
         RankFits(job, r, pc[r], IF flag = "ok" THEN "in" ELSE "wait", v),
         r # Root => work' = work /\ disk' = disk,
         r = Root => /\ FilesTyped(work', disk')
                     /\ FilesFit(job, pc[r], IF flag = "ok" THEN "in" ELSE "wait", v, work', disk')
  PROVE  IInv'
<1>0. TypeOK /\ PhasesOK
  BY DEF IInv, CallsInv
<1>1. mem'[r] = v /\ \A q \in Rank : q # r => mem'[q] = mem[q]
  BY <1>0 DEF TypeOK
<1>2. CallsInv'
  BY <1>1, EntryKeepsCalls
<1>3. /\ Standing(r)' = IF flag = "ok" THEN "in" ELSE "wait"
      /\ \A q \in Rank : q # r => calls'[q] = calls[q] /\ phase'[q] = phase[q]
      /\ DOMAIN calls' = Rank /\ DOMAIN phase' = Rank /\ pc' = pc /\ job' = job
  BY <1>0, EnterStanding
<1>5. DOMAIN pc' = Rank
  BY <1>0, <1>3 DEF TypeOK
<1>6. QED
  BY <1>2, <1>3, <1>5, RankKeeps

(* Going on to the place after a collective. *)
LEMMA MoveKeeps ==
  ASSUME IInv, NEW r \in Rank, NEW v \in Memory, NEW l, NEW m \in Label \cup {"end"},
         Back(r, l), GoTo(r, m), mem' = [mem EXCEPT ![r] = v],
         Follows(Met(r), l, calls[r][Met(r)].iter, m, v.iter),
         RankFits(job, r, m, IF m = "end" THEN "done" ELSE "run", v),
         r # Root => work' = work,
         r = Root => /\ FilesTyped(work', disk)
                     /\ FilesFit(job, m, IF m = "end" THEN "done" ELSE "run", v, work', disk)
  PROVE  IInv'
<1>0. TypeOK
  BY DEF IInv
<1>1. mem'[r] = v /\ \A q \in Rank : q # r => mem'[q] = mem[q]
  BY <1>0 DEF TypeOK
<1>2. CallsInv'
  BY <1>1, MoveKeepsCalls
<1>3. /\ calls' = calls /\ job' = job /\ disk' = disk
      /\ DOMAIN pc' = Rank /\ DOMAIN phase' = Rank /\ DOMAIN calls' = Rank
      /\ pc'[r] = m /\ phase'[r] = IF m = "end" THEN "done" ELSE "run"
      /\ \A q \in Rank : q # r => pc'[q] = pc[q] /\ phase'[q] = phase[q]
  BY <1>0 DEF GoTo, TypeOK
<1>4. Standing(r)' = IF m = "end" THEN "done" ELSE "run"
  BY <1>3 DEF Standing
<1>5. QED
  BY <1>2, <1>3, <1>4, RankKeeps

(* What IInv says of one rank, and of the files if it is the root. *)
LEMMA RankFacts ==
  ASSUME IInv, NEW r \in Rank
  PROVE  /\ TypeOK /\ mem[r] \in Memory /\ mem = [mem EXCEPT ![r] = mem[r]]
         /\ RankFits(job, r, pc[r], Standing(r), mem[r])
         /\ FilesTyped(work, disk)
         /\ r = Root => FilesFit(job, pc[r], Standing(r), mem[r], work, disk)
         /\ phase[r] # "wait" => Standing(r) = phase[r]
<1>1. TypeOK /\ RanksOK /\ FilesOK
  BY DEF IInv
<1>2. mem \in [Rank -> Memory]
  BY <1>1 DEF TypeOK
<1>3. mem[r] \in Memory /\ mem = [mem EXCEPT ![r] = mem[r]]
  BY <1>2
<1>4. FilesTyped(work, disk)
  BY <1>1 DEF TypeOK, FilesTyped
<1>5. QED
  BY <1>1, <1>3, <1>4 DEF RanksOK, FilesOK, Standing

(* A rank enters a collective and changes nothing else; but where the      *)
(* operation of the point does change something, it failed.                *)
LEMMA PlainEntry ==
  ASSUME IInv, NEW r \in Rank, NEW flag \in {"ok", "failed"}, NEW load,
         job.on, phase[r] \in {"run"} \cup FileStage, Enter(r, flag, load),
         UNCHANGED <<mem, work, disk>>,
         flag = "ok" =>
           /\ LoadFits(r, pc[r], mem[r].iter, load)
           /\ pc[r] \notin {"companion", "diagonalize"}
           /\ r = Root => pc[r] \notin {"restore", "initial output", "update", "export",
                                        "report"}
  PROVE  IInv'
<1>1. /\ mem[r] \in Memory /\ mem = [mem EXCEPT ![r] = mem[r]]
      /\ RankFits(job, r, pc[r], phase[r], mem[r])
      /\ FilesTyped(work, disk)
      /\ r = Root => FilesFit(job, pc[r], phase[r], mem[r], work, disk)
      /\ phase[r] \notin {"wait", "thrown", "done", "in"}
  BY RankFacts DEF FileStage
<1>2. CASE flag = "ok"
  <2>1. StateFits(r, pc[r], "in", mem[r])
    BY <1>1, <1>2 DEF RankFits, StateFits
  <2>2. LimitFits(job, r, pc[r], "in", mem[r]) /\ ParentFits(job, pc[r], "in", mem[r])
    BY <1>1, <1>2 DEF RankFits, LimitFits, ParentFits
  <2>3. r = Root => FilesFit(job, pc[r], "in", mem[r], work, disk)
    BY <1>1, <1>2 DEF FilesFit, ExportsFit, MainFits, RowsFit, Started
  <2>4. QED
    BY <2>1, <2>2, <2>3, <1>1, <1>2, EntryKeeps DEF RankFits
<1>3. CASE flag = "failed"
  <2>1. StateFits(r, pc[r], "wait", mem[r])
    BY <1>1 DEF RankFits, StateFits
  <2>2. LimitFits(job, r, pc[r], "wait", mem[r]) /\ ParentFits(job, pc[r], "wait", mem[r])
    BY <1>1 DEF RankFits, LimitFits, ParentFits
  <2>3. r = Root => FilesFit(job, pc[r], "wait", mem[r], work, disk)
    BY <1>1 DEF FilesFit, ExportsFit, MainFits, RowsFit, Started
  <2>4. QED
    BY <2>1, <2>2, <2>3, <1>1, <1>3, EntryKeeps DEF RankFits
<1>4. QED
  BY <1>2, <1>3

(* Where a rank stands that comes back from a collective. *)
LEMMA MoveFacts ==
  ASSUME IInv, NEW r \in Rank, NEW l, Back(r, l)
  PROVE  /\ mem[r] \in Memory /\ mem = [mem EXCEPT ![r] = mem[r]]
         /\ \E s \in {"in", "wait"} :
              /\ s = "in" \/ (r # Root /\ l \notin Joint)
              /\ RankFits(job, r, l, s, mem[r])
              /\ r = Root => FilesFit(job, l, s, mem[r], work, disk)
         /\ FilesTyped(work, disk)
<1>1. Standing(r) \in {"in", "wait"} /\ pc[r] = l
  BY DEF Standing, Back, Returns
<1>2. r = Root \/ l \in Joint => Standing(r) = "in"
  BY BackFacts
<1>3. QED
  BY <1>1, <1>2, RankFacts

(* The steps in which a rank only makes its call.                          *)
LEMMA CallsOnly ==
  ASSUME IInv,
         \/ Validate \/ SendRestored \/ SendMixed \/ SendConverged
         \/ ReportFails \/ RootFails
         \/ \E r \in Rank : Idle(r) \/ StageFails(r) \/ EvaluateHartree(r)
  PROVE  IInv'
<1>0. \A r \in Rank : phase[r] = "run" =>
        /\ mem[r] \in Memory /\ RankFits(job, r, pc[r], "run", mem[r])
  BY RankFacts
<1>1. ASSUME Validate PROVE IInv'
  <2>1. LoadFits(Root, "setup", mem[Root].iter, NoLoad)
    BY DEF LoadFits
  <2>2. QED
    BY <2>1, <1>1, PlainEntry, RunAssumption DEF Validate, At
<1>2. ASSUME SendRestored PROVE IInv'
  <2>1. LoadFits(Root, "restored", mem[Root].iter,
                 [start |-> mem[Root].start, mf |-> mem[Root].mf, ham |-> mem[Root].ham])
    BY <1>0, <1>2, RunAssumption
       DEF LoadFits, SendRestored, At, RankFits, StateFits, LimitFits, Beginning, Memory
  <2>2. QED
    BY <2>1, <1>2, PlainEntry, RunAssumption DEF SendRestored, At
<1>3. ASSUME SendMixed PROVE IInv'
  <2>1. LoadFits(Root, "spread", mem[Root].iter, mem[Root].mixed)
    BY <1>0, <1>3, RunAssumption DEF LoadFits, SendMixed, At, RankFits, StateFits
  <2>2. QED
    BY <2>1, <1>3, PlainEntry, RunAssumption DEF SendMixed, At
<1>4. ASSUME SendConverged PROVE IInv'
  <2>1. LoadFits(Root, "decide", mem[Root].iter, work.conv)
    BY <1>4, RunAssumption DEF LoadFits, IInv, TypeOK
  <2>2. QED
    BY <2>1, <1>4, PlainEntry, RunAssumption DEF SendConverged, At
<1>5. ASSUME ReportFails PROVE IInv'
  BY <1>5, PlainEntry, RunAssumption DEF ReportFails, FileStage
<1>6. ASSUME RootFails PROVE IInv'
  BY <1>6, PlainEntry, RunAssumption DEF RootFails
<1>7. ASSUME NEW r \in Rank, Idle(r) PROVE IInv'
  <2>1. LoadFits(r, pc[r], mem[r].iter, NoLoad)
    BY <1>7 DEF LoadFits, Idle, Joint
  <2>2. pc[r] \notin {"companion", "diagonalize"}
    BY <1>7 DEF Idle, Joint
  <2>3. QED
    BY <2>1, <2>2, <1>7, PlainEntry DEF Idle
<1>8. ASSUME NEW r \in Rank, StageFails(r) PROVE IInv'
  BY <1>8, PlainEntry DEF StageFails
<1>9. ASSUME NEW r \in Rank, EvaluateHartree(r) PROVE IInv'
  <2>1. LoadFits(r, "hartree", mem[r].iter, HartreeLoad(r))
    BY <1>0, <1>9
       DEF LoadFits, HartreeLoad, EvaluateHartree, At, RankFits, StateFits, Beginning
  <2>2. QED
    BY <2>1, <1>9, PlainEntry DEF EvaluateHartree, At
<1>10. QED
  BY <1>1, <1>2, <1>3, <1>4, <1>5, <1>6, <1>7, <1>8, <1>9

(* Where a rank stands that works towards a collective. *)
LEMMA AtFacts ==
  ASSUME IInv, NEW r \in Rank, NEW l, At(r, l)
  PROVE  /\ TypeOK /\ mem[r] \in Memory /\ job.on /\ pc[r] = l /\ phase[r] = "run"
         /\ mem = [mem EXCEPT ![r] = mem[r]]
         /\ RankFits(job, r, l, "run", mem[r])
         /\ FilesTyped(work, disk)
         /\ r = Root => FilesFit(job, l, "run", mem[r], work, disk)
BY RankFacts DEF At

(* A checkpoint that is taken is one state, and one the job may continue.  *)
LEMMA RestoreKeeps ==
  ASSUME IInv, Restore
  PROVE  IInv'
<1> DEFINE main == disk.main
           v    == [mem[Root] EXCEPT !.mf = main.mf, !.ham = main.ham,
                                     !.start = main.iter, !.iter = main.iter]
           flag == IF main.iter >= job.limit THEN "failed" ELSE "ok"
           s    == IF flag = "ok" THEN "in" ELSE "wait"
<1>1. /\ At(Root, "restore") /\ main # NoFile /\ mem' = [mem EXCEPT ![Root] = v]
      /\ Enter(Root, flag, NoLoad) /\ work' = work /\ disk' = disk
  BY DEF Restore
<1>2. /\ mem[Root] \in Memory /\ job.on /\ pc[Root] = "restore" /\ phase[Root] = "run"
      /\ RankFits(job, Root, "restore", "run", mem[Root])
      /\ FilesTyped(work, disk)
      /\ FilesFit(job, "restore", "run", mem[Root], work, disk)
  BY <1>1, AtFacts, Numbers
<1>3. main \in Checkpoint
  BY <1>1, <1>2 DEF FilesTyped, File
<1>4. v \in Memory /\ v.mf = main.mf /\ v.ham = main.ham /\ v.start = main.iter
      /\ v.iter = main.iter /\ v.base = mem[Root].base
  BY <1>2, <1>3 DEF Memory, Checkpoint
<1>5. main.iter = main.mf /\ main.iter = main.ham /\ main.job # job.no
  BY <1>1, <1>2 DEF FilesFit, MainFits, RowsFit, Started
<1>6. RankFits(job, Root, "restore", s, v)
  <2>1. StateFits(Root, "restore", s, v)
    BY <1>2, <1>4, <1>5 DEF RankFits, StateFits, Beginning, Building, Ending
  <2>2. LimitFits(job, Root, "restore", s, v)
    <3>1. job.limit \in Int /\ main.iter \in Int
      BY <1>3, Numbers DEF IInv, TypeOK, Checkpoint
    <3>2. QED
      BY <3>1, <1>4 DEF LimitFits, Beginning
  <2>3. ParentFits(job, "restore", s, v)
    BY DEF ParentFits
  <2>4. QED
    BY <2>1, <2>2, <2>3 DEF RankFits
<1>7. FilesFit(job, "restore", s, v, work, disk)
  <2>1. MainFits(job, "restore", s, v, disk)
    BY <1>1, <1>2, <1>3, <1>4, Numbers DEF FilesFit, MainFits, Checkpoint
  <2>2. RowsFit(job, "restore", s, v, disk)
    BY <1>2, <1>5 DEF FilesFit, RowsFit, Started
  <2>3. QED
    BY <2>1, <2>2, <1>2 DEF FilesFit, WorkFits, ExportsFit
<1>8. QED
  <2>1. flag \in {"ok", "failed"} /\ LoadFits(Root, "restore", mem[Root].iter, NoLoad)
    BY DEF LoadFits
  <2> HIDE DEF flag, v
  <2>2. QED
    BY <2>1, <1>1, <1>2, <1>4, <1>6, <1>7, EntryKeeps, Numbers

(* One row of the table, alone, behind others, and none behind others. *)
LEMMA RowFacts ==
  ASSUME NEW rows \in Seq(Iter), NEW i \in Iter
  PROVE  /\ Append(<<>>, i) \in Seq(Iter) /\ Len(Append(<<>>, i)) = 1
         /\ Append(<<>>, i)[1] = i
         /\ rows \o Append(<<>>, i) \in Seq(Iter) /\ Len(rows) \in Nat
         /\ Len(rows \o Append(<<>>, i)) = Len(rows) + 1
         /\ \A k \in 1 .. Len(rows) : (rows \o Append(<<>>, i))[k] = rows[k]
         /\ (rows \o Append(<<>>, i))[Len(rows) + 1] = i
         /\ rows \o <<>> = rows
<1>1. <<>> \in Seq(Iter) /\ Len(<<>>) = 0
  BY EmptySeq
<1>2. /\ Append(<<>>, i) \in Seq(Iter) /\ Len(Append(<<>>, i)) = 1
      /\ Append(<<>>, i)[1] = i
  BY <1>1, AppendProperties
<1>3. Len(rows) \in Nat
  BY LenProperties
<1>4. /\ rows \o Append(<<>>, i) \in Seq(Iter)
      /\ Len(rows \o Append(<<>>, i)) = Len(rows) + 1
      /\ \A k \in 1 .. Len(rows) + 1 :
           (rows \o Append(<<>>, i))[k] =
             IF k <= Len(rows) THEN rows[k] ELSE Append(<<>>, i)[k - Len(rows)]
  <2> HIDE DEF Iter
  <2>1. QED
    BY <1>2, <1>3, ConcatProperties
<1>5. /\ \A k \in 1 .. Len(rows) : (rows \o Append(<<>>, i))[k] = rows[k]
      /\ (rows \o Append(<<>>, i))[Len(rows) + 1] = i
  BY <1>2, <1>3, <1>4
<1>6. rows \o <<>> = rows
  BY ConcatEmptySeq
<1>7. QED
  BY <1>2, <1>3, <1>4, <1>5, <1>6

(* The first output replaces the table of earlier jobs by the row of the   *)
(* state the job starts from.                                              *)
LEMMA InitialOutputKeeps ==
  ASSUME IInv, InitialOutput
  PROVE  IInv'
<1> DEFINE v == mem[Root]
<1>1. /\ At(Root, "initial output") /\ Enter(Root, "ok", NoLoad) /\ mem' = mem
      /\ disk' = [disk EXCEPT !.rows = Append(work.buf, v.start)]
      /\ work' = [work EXCEPT !.buf = <<>>]
  BY DEF InitialOutput, Flush
<1>2. /\ v \in Memory /\ job.on /\ pc[Root] = "initial output" /\ phase[Root] = "run"
      /\ mem = [mem EXCEPT ![Root] = v]
      /\ RankFits(job, Root, "initial output", "run", v)
      /\ FilesTyped(work, disk)
      /\ FilesFit(job, "initial output", "run", v, work, disk)
  BY <1>1, AtFacts, Numbers
<1>3. work.buf = <<>> /\ v.start = v.iter /\ v.iter \in Iter
  BY <1>2 DEF FilesFit, WorkFits, RankFits, StateFits, Beginning, Memory
<1>4. disk' = [disk EXCEPT !.rows = Append(<<>>, v.iter)]
  BY <1>1, <1>3
<1>5. /\ Append(<<>>, v.iter) \in Seq(Iter) /\ Len(Append(<<>>, v.iter)) = 1
      /\ Append(<<>>, v.iter)[1] = v.iter /\ <<>> \in Seq(Iter)
  BY <1>3, RowFacts, EmptySeq
<1>6. /\ disk'.rows = Append(<<>>, v.iter) /\ disk'.main = disk.main /\ disk'.hr = disk.hr
      /\ disk'.tmp = disk.tmp /\ disk'.comp = disk.comp /\ work'.buf = <<>>
      /\ FilesTyped(work', disk')
  BY <1>1, <1>2, <1>4, <1>5 DEF FilesTyped
<1>7. RankFits(job, Root, "initial output", "in", v)
  BY <1>2 DEF RankFits, StateFits, LimitFits, ParentFits
<1>8. FilesFit(job, "initial output", "in", v, work', disk')
  <2>1. RowsFit(job, "initial output", "in", v, disk')
    <3>1. ~ (disk'.main # NoFile /\ disk'.main.job = job.no)
      BY <1>2, <1>6 DEF FilesFit, RowsFit, Started
    <3>2. Len(disk'.rows) = 1 /\ disk'.rows[1] = v.iter /\ v.iter \in Nat
      BY <1>3, <1>5, <1>6, Numbers, Zenon
    <3>3. \A k \in 1 .. Len(disk'.rows) : disk'.rows[k] = disk'.rows[1] + k - 1
      BY <3>2
    <3>4. LastRow(disk') = v.iter /\ Len(disk'.rows) > 0
      BY <3>2 DEF LastRow
    <3>5. QED
      BY <3>1, <3>3, <3>4 DEF RowsFit
  <2>2. QED
    BY <2>1, <1>2, <1>6
       DEF FilesFit, WorkFits, ExportsFit, MainFits, CompanionFits
<1>9. QED
  BY <1>1, <1>2, <1>6, <1>7, <1>8, EntryKeeps, Numbers DEF LoadFits

(* The Hamiltonian file of iteration i is written. *)
Export(d, i) == [d EXCEPT !.hr[i] = FrameOf(i)]

(* What an export writes fits the iteration in its name, and takes no file *)
(* away that was right: so the checkpoint still has its Hamiltonian.       *)
LEMMA ExportFacts ==
  ASSUME NEW d, NEW w, FilesTyped(w, d), NEW i \in Iter,
         \A k \in Iter : d.hr[k] \in {NoFile, FrameOf(k)},
         NEW j, NEW l, NEW s, NEW m, MainFits(j, l, s, m, d)
  PROVE  /\ FilesTyped(w, Export(d, i)) /\ MainFits(j, l, s, m, Export(d, i))
         /\ Export(d, i).main = d.main /\ Export(d, i).tmp = d.tmp
         /\ Export(d, i).comp = d.comp /\ Export(d, i).rows = d.rows
         /\ \A k \in Iter : Export(d, i).hr[k] \in {NoFile, FrameOf(k)}
         /\ Export(d, i).hr[i] = FrameOf(i)
<1> DEFINE e == Export(d, i)
<1>1. FrameOf(i) \in File(Version \cup {RefH})
  BY Numbers DEF FrameOf, File
<1>2. /\ e.main = d.main /\ e.tmp = d.tmp /\ e.comp = d.comp /\ e.rows = d.rows
      /\ e.hr = [d.hr EXCEPT ![i] = FrameOf(i)]
      /\ d.hr \in [Iter -> File(Version \cup {RefH})]
      /\ d.main \in File(Checkpoint)
  BY DEF FilesTyped, Export
<1>3. /\ FilesTyped(w, e)
  BY <1>1, <1>2 DEF FilesTyped, Export
<1>4. \A k \in Iter : e.hr[k] = IF k = i THEN FrameOf(i) ELSE d.hr[k]
  BY <1>2
<1>5. d.main # NoFile => e.hr[d.main.iter] = d.main.iter
  <2> SUFFICES ASSUME d.main # NoFile PROVE e.hr[d.main.iter] = d.main.iter
    OBVIOUS
  <2>1. d.main.iter \in Iter /\ d.main.iter \in Nat
    BY <1>2, Numbers DEF File, Checkpoint
  <2>2. d.main.iter > 0 /\ d.hr[d.main.iter] = d.main.iter
    BY DEF MainFits
  <2>3. FrameOf(d.main.iter) = d.main.iter
    BY <2>1, <2>2 DEF FrameOf
  <2>4. QED
    BY <2>1, <2>2, <2>3, <1>4
<1>6. MainFits(j, l, s, m, e)
  BY <1>2, <1>5 DEF MainFits
<1>7. QED
  BY <1>2, <1>3, <1>4, <1>6

(* The entering state is exported under the iteration it belongs to. *)
LEMMA InitialExportKeeps ==
  ASSUME IInv, InitialExport
  PROVE  IInv'
<1>v. PICK v : v = mem[Root]
  OBVIOUS
<1>1. /\ At(Root, "initial export") /\ Enter(Root, "ok", NoLoad) /\ mem' = mem /\ work' = work
      /\ disk' = [disk EXCEPT !.hr[v.start] = IF v.start = 0 THEN RefH ELSE v.ham]
  BY <1>v DEF InitialExport
<1>2. /\ v \in Memory /\ job.on /\ pc[Root] = "initial export" /\ phase[Root] = "run"
      /\ mem = [mem EXCEPT ![Root] = v]
      /\ RankFits(job, Root, "initial export", "run", v) /\ FilesTyped(work, disk)
      /\ FilesFit(job, "initial export", "run", v, work, disk)
  BY <1>v, <1>1, AtFacts, Numbers
<1>3. v.start = v.iter /\ v.ham = v.iter /\ v.iter \in Iter
  BY <1>2 DEF RankFits, StateFits, Beginning, Memory
<1>4. /\ \A k \in Iter : disk.hr[k] \in {NoFile, FrameOf(k)}
      /\ MainFits(job, "initial export", "in", v, disk)
  BY <1>2 DEF FilesFit, ExportsFit, MainFits
<1>5. disk' = Export(disk, v.iter)
  BY <1>1, <1>3 DEF FrameOf, Export
<1>6. /\ FilesTyped(work, disk') /\ disk'.main = disk.main /\ disk'.tmp = disk.tmp
      /\ disk'.comp = disk.comp /\ disk'.rows = disk.rows
      /\ \A k \in Iter : disk'.hr[k] \in {NoFile, FrameOf(k)}
      /\ MainFits(job, "initial export", "in", v, disk')
  <2>1. v.iter \in Iter /\ FilesTyped(work, disk)
    BY <1>2, <1>3
  <2>2. QED
    BY <2>1, <1>4, <1>5, ExportFacts
<1>7. RankFits(job, Root, "initial export", "in", v)
  BY <1>2 DEF RankFits, StateFits, LimitFits, ParentFits
<1>8. FilesFit(job, "initial export", "in", v, work, disk')
  <2>1. RowsFit(job, "initial export", "in", v, disk')
    BY <1>2, <1>6 DEF FilesFit, RowsFit, Started, LastRow
  <2>2. QED
    BY <2>1, <1>2, <1>6 DEF FilesFit, WorkFits, ExportsFit, CompanionFits
<1>9. QED
  BY <1>v, <1>1, <1>2, <1>6, <1>7, <1>8, EntryKeeps, Numbers, ZenonT(60) DEF LoadFits

(* Every later iteration exports its own Hamiltonian.                      *)
LEMMA ExportHamiltonianKeeps ==
  ASSUME IInv, ExportHamiltonian
  PROVE  IInv'
<1>v. PICK v : v = mem[Root]
  OBVIOUS
<1>1. /\ At(Root, "export") /\ Enter(Root, "ok", NoLoad) /\ mem' = mem /\ work' = work
      /\ disk' = [disk EXCEPT !.hr[v.iter] = v.ham]
  BY <1>v DEF ExportHamiltonian
<1>2. /\ v \in Memory /\ job.on /\ pc[Root] = "export" /\ phase[Root] = "run"
      /\ mem = [mem EXCEPT ![Root] = v]
      /\ RankFits(job, Root, "export", "run", v) /\ FilesTyped(work, disk)
      /\ FilesFit(job, "export", "run", v, work, disk)
  BY <1>v, <1>1, AtFacts, Numbers
<1>3. v.start < v.iter /\ v.ham = v.iter /\ v.iter \in Iter /\ v.start \in Iter
  BY <1>2 DEF RankFits, StateFits, Beginning, Memory
<1>4. FrameOf(v.iter) = v.iter
  <2>1. v.start \in Nat /\ v.iter \in Nat
    BY <1>3, Numbers
  <2>2. v.iter # 0
    BY <2>1, <1>3
  <2>3. QED
    BY <2>2 DEF FrameOf
<1>5. /\ \A k \in Iter : disk.hr[k] \in {NoFile, FrameOf(k)}
      /\ MainFits(job, "export", "in", v, disk)
      /\ disk' = Export(disk, v.iter)
  BY <1>1, <1>2, <1>3, <1>4 DEF FilesFit, ExportsFit, MainFits, Export
<1>6. /\ FilesTyped(work, disk') /\ disk'.main = disk.main /\ disk'.tmp = disk.tmp
      /\ disk'.comp = disk.comp /\ disk'.rows = disk.rows
      /\ \A k \in Iter : disk'.hr[k] \in {NoFile, FrameOf(k)}
      /\ disk'.hr[v.iter] = FrameOf(v.iter)
      /\ MainFits(job, "export", "in", v, disk')
  BY <1>2, <1>3, <1>5, ExportFacts
<1>7. RankFits(job, Root, "export", "in", v)
  BY <1>2 DEF RankFits, StateFits, LimitFits, ParentFits
<1>8. FilesFit(job, "export", "in", v, work, disk')
  <2>1. RowsFit(job, "export", "in", v, disk')
    BY <1>2, <1>6 DEF FilesFit, RowsFit, Started, LastRow
  <2>2. QED
    BY <2>1, <1>2, <1>4, <1>6 DEF FilesFit, WorkFits, ExportsFit, CompanionFits
<1>9. QED
  BY <1>v, <1>1, <1>2, <1>6, <1>7, <1>8, EntryKeeps, Numbers DEF LoadFits

(* What the root mixes is the Hamiltonian an uninterrupted run would mix:  *)
(* all its inputs are those of the state before.                           *)
LEMMA UpdateHamiltonianKeeps ==
  ASSUME IInv, UpdateHamiltonian
  PROVE  IInv'
<1>m. PICK m : m = mem[Root]
  OBVIOUS
<1>1. /\ At(Root, "update") /\ Enter(Root, "ok", NoLoad) /\ work' = work /\ disk' = disk
      /\ mem' = [mem EXCEPT ![Root] = [m EXCEPT !.mixed = MixedVersion(m.iter)]]
  BY <1>m DEF UpdateHamiltonian
<1>2. /\ m \in Memory /\ job.on /\ pc[Root] = "update" /\ phase[Root] = "run"
      /\ RankFits(job, Root, "update", "run", m) /\ FilesTyped(work, disk)
      /\ FilesFit(job, "update", "run", m, work, disk)
  BY <1>m, <1>1, AtFacts, Numbers
<1>3. /\ m.mf = m.iter - 1 /\ m.ham = m.iter - 1 /\ m.iter \in Iter
      /\ work.delta = [state |-> m.iter - 1, base |-> 0]
      /\ work.sigma = [state |-> m.iter - 1, frame |-> FrameOf(m.iter - 1)]
  BY <1>2 DEF RankFits, StateFits, Building, Memory, FilesFit, WorkFits
<1>4. MixedVersion(m.iter) = m.iter
  <2>1. m.iter \in Int
    BY <1>3, Numbers
  <2>2. FrameOf(m.iter - 1) = IF m.iter = 1 THEN RefH ELSE m.iter - 1
    BY <2>1 DEF FrameOf
  <2>3. QED
    BY <1>m, <1>3, <2>2 DEF MixedVersion
<1>5. PICK v : v = [m EXCEPT !.mixed = m.iter]
  OBVIOUS
<1>6. /\ v \in Memory /\ v.iter = m.iter /\ v.mixed = m.iter /\ v.mf = m.mf /\ v.ham = m.ham
      /\ v.start = m.start /\ v.base = m.base /\ v.parent = m.parent
  BY <1>2, <1>3, <1>5, Numbers DEF Memory
<1>7. RankFits(job, Root, "update", "in", v)
  BY <1>2, <1>6 DEF RankFits, StateFits, LimitFits, ParentFits
<1>8. FilesFit(job, "update", "in", v, work, disk)
  BY <1>2, <1>6 DEF FilesFit, WorkFits, ExportsFit, MainFits, RowsFit, Started
<1>9. LoadFits(Root, "update", mem[Root].iter, NoLoad) /\ mem' = [mem EXCEPT ![Root] = v]
  BY <1>1, <1>4, <1>5 DEF LoadFits
<1>10. QED
  BY <1>m, <1>1, <1>2, <1>6, <1>7, <1>8, <1>9, EntryKeeps, Numbers, ZenonT(60)

(* The report adds the row of the state whose checkpoint it has renamed.   *)
LEMMA ReportDoneKeeps ==
  ASSUME IInv, ReportDone
  PROVE  IInv'
<1>v. PICK v : v = mem[Root]
  OBVIOUS
<1>1. /\ job.on /\ pc[Root] = "report" /\ phase[Root] = "flush"
      /\ Enter(Root, "ok", NoLoad) /\ mem' = mem
      /\ disk' = [disk EXCEPT !.rows = @ \o Append(work.buf, v.iter)]
      /\ work' = [work EXCEPT !.buf = <<>>]
  BY <1>v DEF ReportDone, Flush
<1>2. /\ v \in Memory /\ mem = [mem EXCEPT ![Root] = v]
      /\ RankFits(job, Root, "report", "flush", v) /\ FilesTyped(work, disk)
      /\ FilesFit(job, "report", "flush", v, work, disk)
  BY <1>v, <1>1, RankFacts, Numbers
<1>3. /\ work.buf = <<>> /\ v.iter \in Iter /\ v.iter \in Nat
      /\ disk.main # NoFile /\ disk.main.iter = v.iter /\ disk.main.job = job.no
      /\ \A k \in 1 .. Len(disk.rows) : disk.rows[k] = disk.rows[1] + k - 1
      /\ disk.rows[Len(disk.rows)] = v.iter - 1 /\ Len(disk.rows) > 0
  BY <1>2, Numbers DEF FilesFit, WorkFits, MainFits, RowsFit, Started, LastRow, Memory
<1>4. PICK rows : rows = disk.rows \o Append(<<>>, v.iter)
  OBVIOUS
<1>5. /\ disk'.rows = rows /\ disk'.main = disk.main /\ disk'.hr = disk.hr
      /\ disk'.tmp = disk.tmp /\ disk'.comp = disk.comp /\ work'.buf = <<>>
      /\ work'.delta = work.delta /\ FilesTyped(work', disk')
  <2>1. rows \in Seq(Iter) /\ <<>> \in Seq(Iter)
    BY <1>2, <1>3, <1>4, RowFacts, EmptySeq DEF FilesTyped
  <2>2. QED
    BY <2>1, <1>1, <1>2, <1>3, <1>4 DEF FilesTyped
<1>6. /\ Len(rows) = Len(disk.rows) + 1 /\ Len(disk.rows) \in Nat
      /\ \A k \in 1 .. Len(disk.rows) : rows[k] = disk.rows[k]
      /\ rows[Len(disk.rows) + 1] = v.iter
      /\ disk.rows[1] \in Int
  <2>1. disk.rows \in Seq(Iter)
    BY <1>2 DEF FilesTyped
  <2>2. Len(disk.rows) \in Nat /\ 1 \in 1 .. Len(disk.rows)
    BY <2>1, <1>3, LenProperties
  <2>3. disk.rows[1] \in Iter
    BY <2>1, <2>2, ElementOfSeq
  <2>4. /\ Len(rows) = Len(disk.rows) + 1
        /\ \A k \in 1 .. Len(disk.rows) : rows[k] = disk.rows[k]
        /\ rows[Len(disk.rows) + 1] = v.iter
    BY <2>1, <1>3, <1>4, RowFacts
  <2>5. QED
    BY <2>2, <2>3, <2>4, Numbers
<1>7. \A k \in 1 .. Len(rows) : rows[k] = rows[1] + k - 1
  <2>1. PICK n : n = Len(disk.rows)
    OBVIOUS
  <2>2. n \in Nat /\ n > 0 /\ Len(rows) = n + 1 /\ rows[1] = disk.rows[1]
    BY <2>1, <1>3, <1>6
  <2>3. disk.rows[n] = disk.rows[1] + n - 1
    BY <2>1, <2>2, <1>3
  <2>4. rows[n + 1] = rows[1] + n
    <3>1. rows[n + 1] = v.iter /\ disk.rows[n] = v.iter - 1
      BY <2>1, <1>3, <1>6
    <3>2. v.iter - 1 = rows[1] + n - 1 /\ v.iter \in Nat /\ rows[1] \in Int /\ n \in Nat
      BY <3>1, <2>2, <2>3, <1>3, <1>6
    <3>3. QED
      BY <3>1, <3>2
  <2>5. \A k \in 1 .. n : rows[k] = rows[1] + k - 1
    BY <2>1, <2>2, <1>3, <1>6
  <2>6. QED
    BY <2>2, <2>4, <2>5
<1>8. RankFits(job, Root, "report", "in", v)
  BY <1>2 DEF RankFits, StateFits, LimitFits, ParentFits
<1>9. FilesFit(job, "report", "in", v, work', disk')
  <2>1. RowsFit(job, "report", "in", v, disk')
    <3>1. LastRow(disk') = v.iter /\ Len(disk'.rows) > 0
      BY <1>5, <1>6 DEF LastRow
    <3>2. QED
      BY <3>1, <1>3, <1>5, <1>7 DEF RowsFit, Started
  <2>2. QED
    BY <2>1, <1>2, <1>5 DEF FilesFit, WorkFits, ExportsFit, MainFits, CompanionFits
<1>10. QED
  BY <1>v, <1>1, <1>2, <1>5, <1>8, <1>9, EntryKeeps, Numbers DEF LoadFits

(* The last flush has nothing left to write.                               *)
LEMMA FinalTraceKeeps ==
  ASSUME IInv, FinalTrace
  PROVE  IInv'
<1>v. PICK v : v = mem[Root]
  OBVIOUS
<1>1. /\ At(Root, "final trace") /\ Enter(Root, "ok", NoLoad) /\ mem' = mem
      /\ disk' = [disk EXCEPT !.rows = @ \o work.buf]
      /\ work' = [work EXCEPT !.buf = <<>>]
  BY DEF FinalTrace, Flush
<1>2. /\ v \in Memory /\ job.on /\ pc[Root] = "final trace" /\ phase[Root] = "run"
      /\ mem = [mem EXCEPT ![Root] = v]
      /\ RankFits(job, Root, "final trace", "run", v) /\ FilesTyped(work, disk)
      /\ FilesFit(job, "final trace", "run", v, work, disk)
  BY <1>v, <1>1, AtFacts, Numbers
<1>3. work.buf = <<>> /\ disk.rows \o <<>> = disk.rows
  BY <1>2, ConcatEmptySeq DEF FilesFit, WorkFits, FilesTyped
<1>4. work' = work /\ disk' = disk
  BY <1>1, <1>2, <1>3, ZenonT(60) DEF FilesTyped
<1>5. QED
  BY <1>v, <1>1, <1>4, PlainEntry, Numbers DEF At, LoadFits

(* A companion that is accepted holds the parent of the live state.        *)
LEMMA ReadCompanionKeeps ==
  ASSUME IInv, NEW r \in Rank, ReadCompanion(r)
  PROVE  IInv'
<1>m. PICK m, c : m = mem[r] /\ c = disk.comp
  OBVIOUS
<1>1. /\ At(r, "companion") /\ work' = work /\ disk' = disk
      /\ \/ /\ c # NoFile /\ c.iter = m.start /\ c.mf = m.mf
            /\ mem' = [mem EXCEPT ![r].parent = c.parent]
            /\ Enter(r, "ok", NoLoad)
         \/ mem' = mem /\ Enter(r, "failed", NoLoad)
  BY <1>m DEF ReadCompanion
<1>2. /\ m \in Memory /\ job.on /\ pc[r] = "companion" /\ phase[r] = "run"
      /\ RankFits(job, r, "companion", "run", m) /\ FilesTyped(work, disk)
      /\ r = Root => FilesFit(job, "companion", "run", m, work, disk)
  BY <1>m, <1>1, AtFacts
<1>3. CASE mem' = mem /\ Enter(r, "failed", NoLoad)
  BY <1>1, <1>2, <1>3, PlainEntry
<1>4. CASE /\ c # NoFile /\ c.iter = m.start /\ c.mf = m.mf
           /\ mem' = [mem EXCEPT ![r].parent = c.parent]
           /\ Enter(r, "ok", NoLoad)
  <2>1. PICK v : v = [m EXCEPT !.parent = c.parent]
    OBVIOUS
  <2>2. c.parent = c.mf /\ c \in Companion
    <3>1. CompanionFits(disk)
      BY DEF IInv, FilesOK, FilesFit
    <3>2. QED
      BY <1>m, <1>2, <1>4, <3>1 DEF CompanionFits, FilesTyped, File
  <2>3. /\ v \in Memory /\ v.iter = m.iter /\ v.mixed = m.mixed /\ v.mf = m.mf
        /\ v.ham = m.ham /\ v.start = m.start /\ v.base = m.base /\ v.parent = v.mf
    BY <1>2, <1>4, <2>1, <2>2 DEF Memory, Companion
  <2>4. RankFits(job, r, "companion", "in", v)
    BY <1>2, <2>3 DEF RankFits, StateFits, LimitFits, ParentFits
  <2>5. r = Root => FilesFit(job, "companion", "in", v, work, disk)
    BY <1>2, <2>3 DEF FilesFit, WorkFits, ExportsFit, MainFits, RowsFit, Started
  <2>6. LoadFits(r, "companion", mem[r].iter, NoLoad) /\ mem' = [mem EXCEPT ![r] = v]
    BY <1>m, <1>4, <2>1 DEF LoadFits
  <2>7. QED
    BY <1>m, <1>1, <1>2, <1>4, <2>3, <2>4, <2>5, <2>6, EntryKeeps
<1>5. QED
  BY <1>1, <1>3, <1>4

(* Sigma is built from the live state, with the velocity in its frame.     *)
LEMMA BuildSigmaKeeps ==
  ASSUME IInv, NEW r \in Rank, BuildSigma(r)
  PROVE  IInv'
<1>m. PICK m : m = mem[r]
  OBVIOUS
<1>1. /\ At(r, "respond") /\ work' = work /\ disk' = disk
      /\ Enter(r, "ok", [state |-> m.mf, frame |-> Frame(r, m.iter)])
      /\ mem' \in {mem, [mem EXCEPT ![r].parent = m.mf]}
  BY <1>m DEF BuildSigma
<1>2. /\ m \in Memory /\ job.on /\ pc[r] = "respond" /\ phase[r] = "run"
      /\ mem = [mem EXCEPT ![r] = m]
      /\ RankFits(job, r, "respond", "run", m) /\ FilesTyped(work, disk)
      /\ r = Root => FilesFit(job, "respond", "run", m, work, disk)
  BY <1>m, <1>1, AtFacts
<1>3. m.mf = m.iter - 1 /\ m.ham = m.iter - 1 /\ m.start < m.iter
  BY <1>2 DEF RankFits, StateFits, Building, Beginning
<1>4. Frame(r, m.iter) = FrameOf(m.iter - 1)
  <2>1. m.iter \in Nat /\ m.start \in Nat
    BY <1>2, Numbers DEF Memory
  <2>2. m.start = 0 /\ m.iter = 1 <=> m.iter - 1 = 0
    BY <2>1, <1>3
  <2>3. QED
    BY <1>m, <1>3, <2>2 DEF Frame, FrameOf
<1>5. PICK v \in {m, [m EXCEPT !.parent = m.mf]} : mem' = [mem EXCEPT ![r] = v]
  BY <1>m, <1>1, <1>2
<1>6. /\ v \in Memory /\ v.iter = m.iter /\ v.mixed = m.mixed /\ v.mf = m.mf
      /\ v.ham = m.ham /\ v.start = m.start /\ v.base = m.base
      /\ v.parent \in {m.parent, m.mf}
  BY <1>2, <1>5 DEF Memory
<1>7. RankFits(job, r, "respond", "in", v)
  BY <1>2, <1>6 DEF RankFits, StateFits, LimitFits, ParentFits
<1>8. r = Root => FilesFit(job, "respond", "in", v, work, disk)
  BY <1>2, <1>6 DEF FilesFit, WorkFits, ExportsFit, MainFits, RowsFit, Started
<1>9. LoadFits(r, "respond", mem[r].iter, [state |-> m.mf, frame |-> Frame(r, m.iter)])
  BY <1>m, <1>3, <1>4 DEF LoadFits
<1>10. QED
  BY <1>m, <1>1, <1>2, <1>5, <1>6, <1>7, <1>8, <1>9, EntryKeeps

(* The new live state is the one of the Hamiltonian just mixed.            *)
LEMMA DiagonalizeKeeps ==
  ASSUME IInv, NEW r \in Rank, Diagonalize(r)
  PROVE  IInv'
<1>m. PICK m : m = mem[r]
  OBVIOUS
<1>1. /\ At(r, "diagonalize") /\ work' = work /\ disk' = disk
      /\ Enter(r, "ok", [state |-> m.mixed, base |-> m.base])
  BY <1>m DEF Diagonalize
<1>2. /\ m \in Memory /\ job.on /\ pc[r] = "diagonalize" /\ phase[r] = "run"
      /\ RankFits(job, r, "diagonalize", "run", m) /\ FilesTyped(work, disk)
      /\ r = Root => FilesFit(job, "diagonalize", "run", m, work, disk)
  BY <1>m, <1>1, AtFacts
<1>3. m.mixed = m.iter /\ m.base = 0
  BY <1>2 DEF RankFits, StateFits
<1>4. PICK v : v = [m EXCEPT !.mf = m.mixed]
  OBVIOUS
<1>5. /\ v \in Memory /\ v.iter = m.iter /\ v.mixed = m.mixed /\ v.mf = m.iter
      /\ v.ham = m.ham /\ v.start = m.start /\ v.base = m.base /\ v.parent = m.parent
  BY <1>2, <1>3, <1>4 DEF Memory
<1>6. RankFits(job, r, "diagonalize", "in", v)
  BY <1>2, <1>5 DEF RankFits, StateFits, LimitFits, ParentFits, Beginning, Building, Ending
<1>7. r = Root => FilesFit(job, "diagonalize", "in", v, work, disk)
  BY <1>2, <1>5 DEF FilesFit, WorkFits, ExportsFit, MainFits, RowsFit, Started
<1>8. /\ LoadFits(r, "diagonalize", mem[r].iter, [state |-> m.mixed, base |-> m.base])
      /\ mem' = [mem EXCEPT ![r] = v]
  BY <1>m, <1>3, <1>4 DEF LoadFits, Diagonalize
<1>9. QED
  BY <1>m, <1>1, <1>2, <1>5, <1>6, <1>7, <1>8, EntryKeeps

(* The last response is that of the last state, in its own frame.          *)
LEMMA EvaluateFinalKeeps ==
  ASSUME IInv, NEW r \in Rank, EvaluateFinal(r)
  PROVE  IInv'
<1>m. PICK m : m = mem[r]
  OBVIOUS
<1>1. /\ At(r, "final") /\ work' = work /\ disk' = disk
      /\ Enter(r, "ok", [state |-> m.mf, frame |-> Frame(r, m.iter + 1)])
      /\ mem' \in {mem, [mem EXCEPT ![r].parent = m.mf]}
  BY <1>m DEF EvaluateFinal
<1>2. /\ m \in Memory /\ job.on /\ pc[r] = "final" /\ phase[r] = "run"
      /\ mem = [mem EXCEPT ![r] = m]
      /\ RankFits(job, r, "final", "run", m) /\ FilesTyped(work, disk)
      /\ r = Root => FilesFit(job, "final", "run", m, work, disk)
  BY <1>m, <1>1, AtFacts
<1>3. m.mf = m.iter /\ m.ham = m.iter /\ m.start < m.iter
  BY <1>2 DEF RankFits, StateFits, Ending, Beginning
<1>4. Frame(r, m.iter + 1) = FrameOf(m.iter)
  <2>1. m.iter \in Nat /\ m.start \in Nat
    BY <1>2, Numbers DEF Memory
  <2>2. m.iter + 1 # 1 /\ m.iter # 0
    BY <2>1, <1>3
  <2>3. QED
    BY <1>m, <1>3, <2>2 DEF Frame, FrameOf
<1>5. PICK v \in {m, [m EXCEPT !.parent = m.mf]} : mem' = [mem EXCEPT ![r] = v]
  BY <1>m, <1>1, <1>2
<1>6. /\ v \in Memory /\ v.iter = m.iter /\ v.mixed = m.mixed /\ v.mf = m.mf
      /\ v.ham = m.ham /\ v.start = m.start /\ v.base = m.base
      /\ v.parent \in {m.parent, m.mf}
  BY <1>2, <1>5 DEF Memory
<1>7. RankFits(job, r, "final", "in", v)
  BY <1>2, <1>6 DEF RankFits, StateFits, LimitFits, ParentFits
<1>8. r = Root => FilesFit(job, "final", "in", v, work, disk)
  BY <1>2, <1>6 DEF FilesFit, WorkFits, ExportsFit, MainFits, RowsFit, Started
<1>9. LoadFits(r, "final", mem[r].iter, [state |-> m.mf, frame |-> Frame(r, m.iter + 1)])
  BY <1>m, <1>3, <1>4 DEF LoadFits
<1>10. QED
  BY <1>m, <1>1, <1>2, <1>5, <1>6, <1>7, <1>8, <1>9, EntryKeeps

(* A call was made in the iteration its rank is still in.                  *)
LEMMA BackIter ==
  ASSUME IInv, NEW r \in Rank, NEW l, Back(r, l), l # "restore"
  PROVE  calls[r][Met(r)].iter = mem[r].iter
BY BackFacts

(* A rank that goes on and changes nothing else: it still holds what its   *)
(* new point asks for.                                                     *)
LEMMA PlainMove ==
  ASSUME IInv, NEW r \in Rank, NEW l, NEW m \in Label \cup {"end"},
         Back(r, l), GoTo(r, m), UNCHANGED <<mem, work>>,
         Follows(Met(r), l, calls[r][Met(r)].iter, m, mem[r].iter),
         \A s : /\ s = "in" \/ (r # Root /\ l \notin Joint)
                /\ RankFits(job, r, l, s, mem[r])
                => RankFits(job, r, m, IF m = "end" THEN "done" ELSE "run", mem[r]),
         FilesFit(job, l, "in", mem[Root], work, disk)
           => FilesFit(job, m, IF m = "end" THEN "done" ELSE "run", mem[Root], work, disk)
  PROVE  IInv'
<1>1. PICK s \in {"in", "wait"} :
        /\ s = "in" \/ (r # Root /\ l \notin Joint)
        /\ RankFits(job, r, l, s, mem[r])
        /\ r = Root => FilesFit(job, l, s, mem[r], work, disk)
  BY MoveFacts
<1>2. mem[r] \in Memory /\ mem = [mem EXCEPT ![r] = mem[r]] /\ FilesTyped(work, disk)
  BY MoveFacts
<1>3. RankFits(job, r, m, IF m = "end" THEN "done" ELSE "run", mem[r])
  BY <1>1
<1>4. r = Root => FilesFit(job, m, IF m = "end" THEN "done" ELSE "run", mem[r], work, disk)
  BY <1>1
<1>5. QED
  BY <1>2, <1>3, <1>4, MoveKeeps

(* The moves that depend on nothing.                                       *)
LEMMA StraightMoves ==
  ASSUME IInv, NEW r \in Rank,
         \/ Restored(r) \/ Initialized(r) \/ CompanionRead(r) \/ Updated(r)
         \/ Exported(r) \/ Reported(r) \/ FinalEvaluated(r) \/ Finished(r)
  PROVE  IInv'
<1> USE DEF Label, LocalPoint, Joint
<1>0. \A l : Back(r, l) /\ l # "restore" => calls[r][Met(r)].iter = mem[r].iter
  BY BackIter
<1>1. ASSUME Restored(r) PROVE IInv'
  <2>1. Back(r, "restore") /\ GoTo(r, "restored") /\ UNCHANGED <<mem, work>>
    BY <1>1 DEF Restored
  <2>2. Follows(Met(r), "restore", calls[r][Met(r)].iter, "restored", mem[r].iter)
    BY DEF Follows
  <2>3. \A s : /\ s = "in" \/ r # Root
               /\ RankFits(job, r, "restore", s, mem[r])
               => RankFits(job, r, "restored", "run", mem[r])
    BY DEF RankFits, StateFits, LimitFits, ParentFits, Beginning, Building, Ending
  <2>4. FilesFit(job, "restore", "in", mem[Root], work, disk)
          => FilesFit(job, "restored", "run", mem[Root], work, disk)
    BY DEF FilesFit, WorkFits, ExportsFit, MainFits, RowsFit, Started
  <2>5. QED
    BY <2>1, <2>2, <2>3, <2>4, PlainMove
<1>2. ASSUME Initialized(r) PROVE IInv'
  <2>1. Back(r, "initial output") /\ GoTo(r, "initial export") /\ UNCHANGED <<mem, work>>
    BY <1>2 DEF Initialized
  <2>2. Follows(Met(r), "initial output", calls[r][Met(r)].iter, "initial export", mem[r].iter)
    BY <2>1, <1>0 DEF Follows
  <2>3. \A s : RankFits(job, r, "initial output", s, mem[r])
               => RankFits(job, r, "initial export", "run", mem[r])
    BY DEF RankFits, StateFits, LimitFits, ParentFits, Beginning, Building, Ending
  <2>4. FilesFit(job, "initial output", "in", mem[Root], work, disk)
          => FilesFit(job, "initial export", "run", mem[Root], work, disk)
    BY DEF FilesFit, WorkFits, ExportsFit, MainFits, RowsFit, Started
  <2>5. QED
    BY <2>1, <2>2, <2>3, <2>4, PlainMove
<1>3. ASSUME CompanionRead(r) PROVE IInv'
  <2>1. Back(r, "companion") /\ GoTo(r, "hartree") /\ UNCHANGED <<mem, work>>
    BY <1>3 DEF CompanionRead
  <2>2. Follows(Met(r), "companion", calls[r][Met(r)].iter, "hartree", mem[r].iter)
    BY <2>1, <1>0 DEF Follows
  <2>3. RankFits(job, r, "companion", "in", mem[r])
               => RankFits(job, r, "hartree", "run", mem[r])
    BY DEF RankFits, StateFits, LimitFits, ParentFits, Beginning, Building, Ending
  <2>4. FilesFit(job, "companion", "in", mem[Root], work, disk)
          => FilesFit(job, "hartree", "run", mem[Root], work, disk)
    BY DEF FilesFit, WorkFits, ExportsFit, MainFits, RowsFit, Started
  <2>5. QED
    BY <2>1, <2>2, <2>3, <2>4, PlainMove
<1>4. ASSUME Updated(r) PROVE IInv'
  <2>1. Back(r, "update") /\ GoTo(r, "spread") /\ UNCHANGED <<mem, work>>
    BY <1>4 DEF Updated
  <2>2. Follows(Met(r), "update", calls[r][Met(r)].iter, "spread", mem[r].iter)
    BY <2>1, <1>0 DEF Follows
  <2>3. \A s : /\ s = "in" \/ r # Root
               /\ RankFits(job, r, "update", s, mem[r])
               => RankFits(job, r, "spread", "run", mem[r])
    BY DEF RankFits, StateFits, LimitFits, ParentFits, Beginning, Building, Ending
  <2>4. FilesFit(job, "update", "in", mem[Root], work, disk)
          => FilesFit(job, "spread", "run", mem[Root], work, disk)
    BY DEF FilesFit, WorkFits, ExportsFit, MainFits, RowsFit, Started
  <2>5. QED
    BY <2>1, <2>2, <2>3, <2>4, PlainMove
<1>5. ASSUME Exported(r) PROVE IInv'
  <2>1. Back(r, "export") /\ GoTo(r, "diagonalize") /\ UNCHANGED <<mem, work>>
    BY <1>5 DEF Exported
  <2>2. Follows(Met(r), "export", calls[r][Met(r)].iter, "diagonalize", mem[r].iter)
    BY <2>1, <1>0 DEF Follows
  <2>3. \A s : RankFits(job, r, "export", s, mem[r])
               => RankFits(job, r, "diagonalize", "run", mem[r])
    BY DEF RankFits, StateFits, LimitFits, ParentFits, Beginning, Building, Ending
  <2>4. FilesFit(job, "export", "in", mem[Root], work, disk)
          => FilesFit(job, "diagonalize", "run", mem[Root], work, disk)
    BY DEF FilesFit, WorkFits, ExportsFit, MainFits, RowsFit, Started
  <2>5. QED
    BY <2>1, <2>2, <2>3, <2>4, PlainMove
<1>6. ASSUME Reported(r) PROVE IInv'
  <2>1. Back(r, "report") /\ GoTo(r, "decide") /\ UNCHANGED <<mem, work>>
    BY <1>6 DEF Reported
  <2>2. Follows(Met(r), "report", calls[r][Met(r)].iter, "decide", mem[r].iter)
    BY <2>1, <1>0 DEF Follows
  <2>3. \A s : RankFits(job, r, "report", s, mem[r])
               => RankFits(job, r, "decide", "run", mem[r])
    BY DEF RankFits, StateFits, LimitFits, ParentFits, Beginning, Building, Ending
  <2>4. FilesFit(job, "report", "in", mem[Root], work, disk)
          => FilesFit(job, "decide", "run", mem[Root], work, disk)
    BY DEF FilesFit, WorkFits, ExportsFit, MainFits, RowsFit, Started
  <2>5. QED
    BY <2>1, <2>2, <2>3, <2>4, PlainMove
<1>7. ASSUME FinalEvaluated(r) PROVE IInv'
  <2>1. Back(r, "final") /\ GoTo(r, "final trace") /\ UNCHANGED <<mem, work>>
    BY <1>7 DEF FinalEvaluated
  <2>2. Follows(Met(r), "final", calls[r][Met(r)].iter, "final trace", mem[r].iter)
    BY <2>1, <1>0 DEF Follows
  <2>3. \A s : RankFits(job, r, "final", s, mem[r])
               => RankFits(job, r, "final trace", "run", mem[r])
    BY DEF RankFits, StateFits, LimitFits, ParentFits, Beginning, Building, Ending
  <2>4. FilesFit(job, "final", "in", mem[Root], work, disk)
          => FilesFit(job, "final trace", "run", mem[Root], work, disk)
    BY DEF FilesFit, WorkFits, ExportsFit, MainFits, RowsFit, Started
  <2>5. QED
    BY <2>1, <2>2, <2>3, <2>4, PlainMove
<1>8. ASSUME Finished(r) PROVE IInv'
  <2>1. Back(r, "final trace") /\ GoTo(r, "end") /\ UNCHANGED <<mem, work>>
    BY <1>8 DEF Finished
  <2>2. Follows(Met(r), "final trace", calls[r][Met(r)].iter, "end", mem[r].iter)
    BY <2>1, <1>0 DEF Follows
  <2>3. \A s : RankFits(job, r, "final trace", s, mem[r])
               => RankFits(job, r, "end", "done", mem[r])
    BY DEF RankFits, StateFits, LimitFits, ParentFits, Beginning, Building, Ending
  <2>4. FilesFit(job, "final trace", "in", mem[Root], work, disk)
          => FilesFit(job, "end", "done", mem[Root], work, disk)
    BY DEF FilesFit, WorkFits, ExportsFit, MainFits, RowsFit, Started
  <2>5. QED
    BY <2>1, <2>2, <2>3, <2>4, PlainMove
<1>9. QED
  BY <1>1, <1>2, <1>3, <1>4, <1>5, <1>6, <1>7, <1>8

(* The ranks contributed the same to a joint point: what its iteration     *)
(* asks for.                                                               *)
LEMMA JoinedFacts ==
  ASSUME IInv, NEW r \in Rank, NEW mix, NEW l \in {"hartree", "respond", "diagonalize"},
         Back(r, l)
  PROVE  Joined(r, mix) = IF l = "respond"
                            THEN [state |-> mem[r].iter - 1,
                                  frame |-> FrameOf(mem[r].iter - 1)]
                            ELSE [state |-> mem[r].iter, base |-> 0]
<1> DEFINE x == IF l = "respond"
                  THEN [state |-> mem[r].iter - 1, frame |-> FrameOf(mem[r].iter - 1)]
                  ELSE [state |-> mem[r].iter, base |-> 0]
<1>1. \A q \in Rank : /\ Met(r) \in 1 .. Met(q) /\ calls[q][Met(r)].label = l
                      /\ calls[q][Met(r)].flag = "ok"
                      /\ calls[q][Met(r)].iter = mem[r].iter
  BY BackFacts DEF Joint
<1>2. \A q \in Rank : calls[q][Met(r)].load = x
  <2> SUFFICES ASSUME NEW q \in Rank PROVE calls[q][Met(r)].load = x
    OBVIOUS
  <2>1. LoadFits(q, calls[q][Met(r)].label, calls[q][Met(r)].iter, calls[q][Met(r)].load)
    BY <1>1 DEF IInv, CallsInv, LoadsOK
  <2>2. LoadFits(q, l, mem[r].iter, calls[q][Met(r)].load)
    BY <1>1, <2>1
  <2>3. QED
    BY <2>2 DEF LoadFits
<1>3. QED
  BY <1>2, Numbers DEF Joined, Sent

(* The reference and the Hartree density are those of the input state.     *)
LEMMA CaptureKeeps ==
  ASSUME IInv, NEW r \in Rank, Capture(r)
  PROVE  IInv'
<1>m. PICK m, v, p : /\ m = mem[r] /\ v = [m EXCEPT !.base = m.mf]
                     /\ p = IF job.resume THEN "restore" ELSE "initial output"
  OBVIOUS
<1>1. /\ Back(r, "setup") /\ GoTo(r, p) /\ work' = work /\ mem' = [mem EXCEPT ![r] = v]
      /\ job.on /\ p \in Label \cup {"end"} /\ p # "end"
  BY <1>m DEF Capture, Back, Label, LocalPoint
<1>2. PICK s \in {"in", "wait"} :
        /\ m \in Memory /\ RankFits(job, r, "setup", s, m) /\ FilesTyped(work, disk)
        /\ r = Root => FilesFit(job, "setup", "in", m, work, disk)
  BY <1>m, <1>1, MoveFacts
<1>3. /\ v \in Memory /\ v.iter = m.iter /\ v.mf = m.mf /\ v.ham = m.ham
      /\ v.start = m.start /\ v.base = 0 /\ m.iter = 0 /\ m.mf = 0 /\ m.ham = 0 /\ m.start = 0
  BY <1>m, <1>2 DEF Memory, RankFits, StateFits, Beginning
<1>4. Follows(Met(r), "setup", calls[r][Met(r)].iter, p, v.iter)
  <2>1. calls[r][Met(r)].iter = mem[r].iter
    BY <1>1, BackIter
  <2>2. QED
    BY <2>1, <1>m, <1>3 DEF Follows
<1>5. RankFits(job, r, p, "run", v)
  <2>1. job.limit > 0
    BY <1>1 DEF IInv, CallsInv, PhasesOK
  <2>2. QED
    BY <2>1, <1>m, <1>3
       DEF RankFits, StateFits, LimitFits, ParentFits, Beginning, Building, Ending
<1>6. r = Root => FilesFit(job, p, "run", v, work, disk)
  BY <1>m, <1>1, <1>2 DEF FilesFit, WorkFits, ExportsFit, MainFits, RowsFit, Started
<1>7. QED
  BY <1>1, <1>2, <1>3, <1>4, <1>5, <1>6, MoveKeeps

(* Every rank takes over what the root restored.                           *)
LEMMA TakeRestoredKeeps ==
  ASSUME IInv, NEW r \in Rank, TakeRestored(r)
  PROVE  IInv'
<1>m. PICK m, x, v : /\ m = mem[r] /\ x = Sent(r)
                     /\ v = [m EXCEPT !.start = x.start, !.iter = x.start,
                                      !.mf = x.mf, !.ham = x.ham]
  OBVIOUS
<1>1. /\ Back(r, "restored") /\ GoTo(r, "initial output") /\ work' = work
      /\ mem' = [mem EXCEPT ![r] = v]
  BY <1>m DEF TakeRestored
<1>2. PICK s \in {"in", "wait"} :
        /\ m \in Memory /\ RankFits(job, r, "restored", s, m) /\ FilesTyped(work, disk)
        /\ r = Root => FilesFit(job, "restored", "in", m, work, disk)
  BY <1>m, <1>1, MoveFacts, ZenonT(60)
<1>3. /\ Met(r) \in 1 .. Met(Root) /\ x.mf = x.start /\ x.ham = x.start
      /\ x.start < job.limit /\ x.start = calls[Root][Met(r)].iter
      /\ r = Root => x.start = m.iter
      /\ x = calls[Root][Met(r)].load
  <2>1. /\ LoadFits(Root, "restored", calls[Root][Met(r)].iter, Sent(r))
        /\ Met(r) \in 1 .. Met(Root)
    BY <1>1, BackFacts
  <2>2. calls[r][Met(r)].iter = mem[r].iter
    BY <1>1, BackIter
  <2>3. QED
    BY <2>1, <2>2, <1>m DEF LoadFits, Sent
<1>4. x.start \in Iter
  BY <1>3, Numbers DEF IInv, CallsInv, PhasesOK
<1>5. /\ v \in Memory /\ v.iter = x.start /\ v.mf = x.start /\ v.ham = x.start
      /\ v.start = x.start /\ v.base = 0
  BY <1>m, <1>2, <1>3, <1>4, Numbers DEF Memory, RankFits, StateFits
<1>6. Follows(Met(r), "restored", calls[r][Met(r)].iter, "initial output", v.iter)
  BY <1>3, <1>5 DEF Follows
<1>7. RankFits(job, r, "initial output", "run", v)
  BY <1>3, <1>5 DEF RankFits, StateFits, LimitFits, ParentFits, Beginning, Building, Ending
<1>8. r = Root => FilesFit(job, "initial output", "run", v, work, disk)
  BY <1>2, <1>3, <1>5 DEF FilesFit, WorkFits, ExportsFit, MainFits, RowsFit, Started
<1>9. QED
  BY <1>1, <1>2, <1>5, <1>6, <1>7, <1>8, MoveKeeps DEF Label, LocalPoint

(* A tracked job that continues reads its companion first.                 *)
LEMMA ExportedInitialKeeps ==
  ASSUME IInv, NEW r \in Rank, ExportedInitial(r)
  PROVE  IInv'
<1>m. PICK m, p : /\ m = mem[r]
                  /\ p = IF Tracking /\ m.start > 0 THEN "companion" ELSE "hartree"
  OBVIOUS
<1>1. /\ Back(r, "initial export") /\ GoTo(r, p) /\ UNCHANGED <<mem, work>>
      /\ p \in Label \cup {"end"} /\ p # "end"
  BY <1>m DEF ExportedInitial, Label, LocalPoint, Joint
<1>2. PICK s \in {"in", "wait"} : m \in Memory /\ RankFits(job, r, "initial export", s, m)
  BY <1>m, <1>1, MoveFacts
<1>3. m.start = m.iter /\ m.mf = m.iter /\ m.iter \in Nat
  BY <1>2, Numbers DEF RankFits, StateFits, Beginning, Memory
<1>4. Follows(Met(r), "initial export", calls[r][Met(r)].iter, p, mem[r].iter)
  <2>1. calls[r][Met(r)].iter = mem[r].iter
    BY <1>1, BackIter
  <2>2. QED
    BY <2>1, <1>m, <1>3 DEF Follows
<1>5. RankFits(job, r, p, "run", mem[r])
  BY <1>m, <1>2, <1>3
     DEF RankFits, StateFits, LimitFits, ParentFits, Beginning, Building, Ending, Tracking
<1>6. FilesFit(job, "initial export", "in", mem[Root], work, disk)
        => FilesFit(job, p, "run", mem[Root], work, disk)
  BY <1>m DEF FilesFit, WorkFits, ExportsFit, MainFits, RowsFit, Started
<1>7. QED
  BY <1>1, <1>4, <1>5, <1>6, PlainMove

(* What TakeHartree leaves on the root is the difference of the live state.*)
LEMMA TakeHartreeFacts ==
  ASSUME IInv, NEW r \in Rank, NEW l \in {"hartree", "diagonalize"}, Back(r, l),
         TakeHartree(r), FilesTyped(work, disk)
  PROVE  /\ FilesTyped(work', disk) /\ (r # Root => work' = work)
         /\ r = Root => /\ work'.delta = [state |-> mem[r].iter, base |-> 0]
                        /\ work'.buf = work.buf /\ work'.sigma = work.sigma
<1>1. r = Root => work' = [work EXCEPT !.delta = [state |-> mem[r].iter, base |-> 0]]
  BY JoinedFacts DEF TakeHartree
<1>2. mem[r].iter \in Version
  BY Numbers DEF IInv, TypeOK, Memory
<1>3. CASE r # Root
  BY <1>3 DEF TakeHartree
<1>4. CASE r = Root
  <2>1. [state |-> mem[r].iter, base |-> 0] \in [state: Version, base: Version]
    BY <1>2, Numbers
  <2>2. QED
    BY <2>1, <1>1, <1>4 DEF FilesTyped
<1>5. QED
  BY <1>3, <1>4

(* The head of the loop: the first update and every further one.           *)
LEMMA FirstUpdateKeeps ==
  ASSUME IInv, NEW r \in Rank, FirstUpdate(r)
  PROVE  IInv'
<1>m. PICK m, v : m = mem[r] /\ v = [m EXCEPT !.iter = @ + 1]
  OBVIOUS
<1>1. /\ Back(r, "hartree") /\ GoTo(r, "respond") /\ TakeHartree(r)
      /\ mem' = [mem EXCEPT ![r] = v] /\ job.on
  BY <1>m DEF FirstUpdate, Back
<1>2. PICK s \in {"in", "wait"} :
        /\ m \in Memory /\ RankFits(job, r, "hartree", s, m) /\ FilesTyped(work, disk)
        /\ r = Root => FilesFit(job, "hartree", "in", m, work, disk)
  BY <1>m, <1>1, MoveFacts
<1>3. m.iter \in Nat /\ job.limit \in Iter /\ m.iter < job.limit /\ m.iter + 1 \in Iter
  <2>1. m.iter \in Iter /\ job.limit \in Iter /\ m.iter < job.limit
    BY <1>1, <1>2 DEF Memory, RankFits, LimitFits, IInv, TypeOK
  <2>2. QED
    BY <2>1, RunAssumption DEF Iter
<1>4. /\ v \in Memory /\ v.iter = m.iter + 1 /\ v.mf = m.iter /\ v.ham = m.iter
      /\ v.start = m.iter /\ v.base = 0 /\ v.parent = m.parent /\ m.mf = m.iter
  BY <1>m, <1>2, <1>3 DEF Memory, RankFits, StateFits, Beginning
<1>5. Follows(Met(r), "hartree", calls[r][Met(r)].iter, "respond", v.iter)
  <2>1. calls[r][Met(r)].iter = mem[r].iter
    BY <1>1, BackIter
  <2>2. QED
    BY <2>1, <1>m, <1>4 DEF Follows
<1>6. RankFits(job, r, "respond", "run", v)
  <2>1. job.limit \in Int
    BY <1>3, Numbers
  <2>2. QED
    BY <2>1, <1>2, <1>3, <1>4
       DEF RankFits, StateFits, LimitFits, ParentFits, Beginning, Building, Ending
<1>7. /\ FilesTyped(work', disk) /\ (r # Root => work' = work)
      /\ r = Root => work'.delta = [state |-> m.iter, base |-> 0] /\ work'.buf = work.buf
  BY <1>m, <1>1, <1>2, TakeHartreeFacts
<1>8. r = Root => FilesFit(job, "respond", "run", v, work', disk)
  <2> SUFFICES ASSUME r = Root PROVE FilesFit(job, "respond", "run", v, work', disk)
    OBVIOUS
  <2>0. FilesFit(job, "hartree", "in", m, work, disk) /\ v.iter - 1 = m.iter
    BY <1>2, <1>3, <1>4
  <2>1. WorkFits("respond", v, work')
    BY <2>0, <1>7 DEF FilesFit, WorkFits
  <2>2. MainFits(job, "respond", "run", v, disk)
    <3>1. disk.main # NoFile => disk.main.iter \in Nat
      BY <1>2, Numbers DEF FilesTyped, File, Checkpoint
    <3>2. QED
      BY <3>1, <2>0, <1>3, <1>4 DEF FilesFit, MainFits
  <2>3. RowsFit(job, "respond", "run", v, disk)
    BY <2>0 DEF FilesFit, RowsFit, Started
  <2>4. QED
    BY <2>0, <2>1, <2>2, <2>3 DEF FilesFit, ExportsFit
<1>9. QED
  BY <1>1, <1>4, <1>5, <1>6, <1>7, <1>8, MoveKeeps DEF Label, Joint

(* All ranks hear the same verdict, and begin the next update together. *)
LEMMA NextUpdateKeeps ==
  ASSUME IInv, NEW r \in Rank, NextUpdate(r)
  PROVE  IInv'
<1>m. PICK m, v : m = mem[r] /\ v = [m EXCEPT !.iter = @ + 1]
  OBVIOUS
<1>1. /\ Back(r, "decide") /\ GoTo(r, "respond") /\ work' = work
      /\ mem' = [mem EXCEPT ![r] = v] /\ job.on /\ ~ Sent(r) /\ m.iter < job.limit
  BY <1>m DEF NextUpdate, Back
<1>2. PICK s \in {"in", "wait"} :
        /\ m \in Memory /\ RankFits(job, r, "decide", s, m) /\ FilesTyped(work, disk)
        /\ r = Root => FilesFit(job, "decide", "in", m, work, disk)
  BY <1>m, <1>1, MoveFacts
<1>3. m.iter \in Nat /\ job.limit \in Iter /\ m.iter + 1 \in Iter /\ m.start \in Nat
  <2>1. m.iter \in Iter /\ job.limit \in Iter /\ m.start \in Iter
    BY <1>2 DEF Memory, IInv, TypeOK
  <2>2. QED
    BY <2>1, <1>1, RunAssumption DEF Iter
<1>4. /\ v \in Memory /\ v.iter = m.iter + 1 /\ v.mf = m.iter /\ v.ham = m.iter
      /\ v.start = m.start /\ v.base = 0 /\ v.parent = m.parent /\ m.mf = m.iter
      /\ m.start < m.iter
  BY <1>m, <1>2, <1>3 DEF Memory, RankFits, StateFits, Beginning, Ending
<1>5. Follows(Met(r), "decide", calls[r][Met(r)].iter, "respond", v.iter)
  <2>1. calls[r][Met(r)].iter = mem[r].iter
    BY <1>1, BackIter
  <2>2. LoadFits(Root, "decide", calls[Root][Met(r)].iter, Sent(r))
    BY <1>1, BackFacts
  <2>3. calls[Root][Met(r)].load = FALSE
    BY <2>2, <1>1 DEF LoadFits, Sent
  <2>4. QED
    BY <2>1, <2>3, <1>m, <1>1, <1>4 DEF Follows
<1>6. RankFits(job, r, "respond", "run", v)
  <2>1. job.limit \in Int
    BY <1>3, Numbers
  <2>2. QED
    BY <2>1, <1>1, <1>2, <1>3, <1>4
       DEF RankFits, StateFits, LimitFits, ParentFits, Beginning, Building, Ending
<1>7. r = Root => FilesFit(job, "respond", "run", v, work, disk)
  <2> SUFFICES ASSUME r = Root PROVE FilesFit(job, "respond", "run", v, work, disk)
    OBVIOUS
  <2>0. FilesFit(job, "decide", "in", m, work, disk) /\ v.iter - 1 = m.iter
    BY <1>2, <1>3, <1>4
  <2>1. WorkFits("respond", v, work)
    BY <2>0 DEF FilesFit, WorkFits
  <2>2. MainFits(job, "respond", "run", v, disk)
    <3>1. disk.main # NoFile => disk.main.iter \in Nat
      BY <1>2, Numbers DEF FilesTyped, File, Checkpoint
    <3>2. QED
      BY <3>1, <2>0, <1>3, <1>4 DEF FilesFit, MainFits
  <2>3. RowsFit(job, "respond", "run", v, disk)
    BY <2>0 DEF FilesFit, RowsFit, Started
  <2>4. QED
    BY <2>0, <2>1, <2>2, <2>3 DEF FilesFit, ExportsFit
<1>8. QED
  BY <1>1, <1>2, <1>4, <1>5, <1>6, <1>7, MoveKeeps DEF Label, Joint

(* Or the loop is left, by all ranks for the same reason.                  *)
LEMMA LeaveLoopKeeps ==
  ASSUME IInv, NEW r \in Rank, LeaveLoop(r)
  PROVE  IInv'
<1>m. PICK p : p = IF job.ext # "none" THEN "final" ELSE "end"
  OBVIOUS
<1>1. /\ Back(r, "decide") /\ GoTo(r, p) /\ UNCHANGED <<mem, work>>
      /\ (Sent(r) \/ mem[r].iter = job.limit) /\ p \in Label \cup {"end"}
  BY <1>m DEF LeaveLoop, Label, Joint
<1>2. PICK s \in {"in", "wait"} : RankFits(job, r, "decide", s, mem[r])
  BY <1>1, MoveFacts
<1>3. Follows(Met(r), "decide", calls[r][Met(r)].iter, p, mem[r].iter)
  <2>1. calls[r][Met(r)].iter = mem[r].iter
    BY <1>1, BackIter
  <2>2. LoadFits(Root, "decide", calls[Root][Met(r)].iter, Sent(r))
    BY <1>1, BackFacts
  <2>3. Sent(r) => calls[Root][Met(r)].load = TRUE
    BY <2>2 DEF LoadFits, Sent
  <2>4. QED
    BY <2>1, <2>3, <1>m, <1>1 DEF Follows
<1>4. RankFits(job, r, p, IF p = "end" THEN "done" ELSE "run", mem[r])
  BY <1>m, <1>2
     DEF RankFits, StateFits, LimitFits, ParentFits, Beginning, Building, Ending
<1>5. FilesFit(job, "decide", "in", mem[Root], work, disk)
        => FilesFit(job, p, IF p = "end" THEN "done" ELSE "run", mem[Root], work, disk)
  BY <1>m DEF FilesFit, WorkFits, ExportsFit, MainFits, RowsFit, Started
<1>6. QED
  BY <1>1, <1>3, <1>4, <1>5, PlainMove

(* The root has the Sigma of the state the update starts from.             *)
LEMMA SigmaCollectedKeeps ==
  ASSUME IInv, NEW r \in Rank, SigmaCollected(r)
  PROVE  IInv'
<1>m. PICK m, x : m = mem[r] /\ x = [state |-> m.iter - 1, frame |-> FrameOf(m.iter - 1)]
  OBVIOUS
<1>1. /\ Back(r, "respond") /\ GoTo(r, "update") /\ mem' = mem
      /\ work' = IF r # Root THEN work ELSE [work EXCEPT !.sigma = Joined(r, NoWork.sigma)]
  BY DEF SigmaCollected
<1>2. PICK s \in {"in", "wait"} :
        /\ m \in Memory /\ RankFits(job, r, "respond", s, m) /\ FilesTyped(work, disk)
        /\ r = Root => FilesFit(job, "respond", "in", m, work, disk)
        /\ mem = [mem EXCEPT ![r] = m]
  BY <1>m, <1>1, MoveFacts
<1>3. Joined(r, NoWork.sigma) = x
  BY <1>m, <1>1, JoinedFacts
<1>4. x \in [state: Version, frame: Version \cup {RefH}]
  <2>1. m.mf = m.iter - 1 /\ m.mf \in Version
    BY <1>2 DEF RankFits, StateFits, Building, Memory
  <2>2. QED
    BY <1>m, <2>1 DEF FrameOf
<1>5. /\ FilesTyped(work', disk) /\ (r # Root => work' = work)
      /\ r = Root => work'.sigma = x /\ work'.buf = work.buf /\ work'.delta = work.delta
  <2>1. CASE r # Root
    BY <2>1, <1>1, <1>2
  <2>2. CASE r = Root
    BY <2>2, <1>1, <1>2, <1>3, <1>4 DEF FilesTyped
  <2>3. QED
    BY <2>1, <2>2
<1>6. Follows(Met(r), "respond", calls[r][Met(r)].iter, "update", mem[r].iter)
  <2>1. calls[r][Met(r)].iter = mem[r].iter
    BY <1>1, BackIter
  <2>2. QED
    BY <2>1 DEF Follows
<1>7. RankFits(job, r, "update", "run", m)
  BY <1>2 DEF RankFits, StateFits, LimitFits, ParentFits, Beginning, Building, Ending
<1>8. r = Root => FilesFit(job, "update", "run", m, work', disk)
  BY <1>m, <1>2, <1>5
     DEF FilesFit, WorkFits, ExportsFit, MainFits, RowsFit, Started
<1>9. QED
  BY <1>m, <1>1, <1>2, <1>5, <1>6, <1>7, <1>8, MoveKeeps DEF Label, LocalPoint

(* Every rank takes the mixed Hamiltonian of the root.                     *)
LEMMA TakeMixedKeeps ==
  ASSUME IInv, NEW r \in Rank, TakeMixed(r)
  PROVE  IInv'
<1>m. PICK m, x, v : m = mem[r] /\ x = Sent(r) /\ v = [m EXCEPT !.mixed = x, !.ham = x]
  OBVIOUS
<1>1. /\ Back(r, "spread") /\ GoTo(r, "export") /\ work' = work
      /\ mem' = [mem EXCEPT ![r] = v]
  BY <1>m DEF TakeMixed
<1>2. PICK s \in {"in", "wait"} :
        /\ m \in Memory /\ RankFits(job, r, "spread", s, m) /\ FilesTyped(work, disk)
        /\ r = Root => FilesFit(job, "spread", "in", m, work, disk)
  BY <1>m, <1>1, MoveFacts
<1>3. calls[r][Met(r)].iter = m.iter /\ x = m.iter
  <2>1. calls[r][Met(r)].iter = mem[r].iter
    BY <1>1, BackIter
  <2>2. LoadFits(Root, "spread", calls[Root][Met(r)].iter, Sent(r))
    BY <1>1, BackFacts
  <2>3. calls[Root][Met(r)].iter = mem[r].iter
    BY <1>1, BackFacts
  <2>4. QED
    BY <1>m, <2>1, <2>2, <2>3 DEF LoadFits
<1>4. /\ v \in Memory /\ v.iter = m.iter /\ v.mf = m.mf /\ v.ham = m.iter
      /\ v.mixed = m.iter /\ v.start = m.start /\ v.base = m.base /\ v.parent = m.parent
  BY <1>m, <1>2, <1>3, Numbers DEF Memory
<1>5. Follows(Met(r), "spread", calls[r][Met(r)].iter, "export", v.iter)
  BY <1>3, <1>4 DEF Follows
<1>6. RankFits(job, r, "export", "run", v)
  BY <1>2, <1>4 DEF RankFits, StateFits, LimitFits, ParentFits, Beginning, Building, Ending
<1>7. r = Root => FilesFit(job, "export", "run", v, work, disk)
  BY <1>2, <1>4 DEF FilesFit, WorkFits, ExportsFit, MainFits, RowsFit, Started
<1>8. QED
  BY <1>1, <1>2, <1>4, <1>5, <1>6, <1>7, MoveKeeps DEF Label, LocalPoint

(* The updated state is the parent of tracked orbitals, and its Hartree    *)
(* difference is ready for the next update.                                *)
LEMMA StateUpdatedKeeps ==
  ASSUME IInv, NEW r \in Rank, StateUpdated(r)
  PROVE  IInv'
<1>m. PICK m, v : m = mem[r] /\ v = IF Tracking THEN [m EXCEPT !.parent = m.mf] ELSE m
  OBVIOUS
<1>1. /\ Back(r, "diagonalize") /\ GoTo(r, "report") /\ TakeHartree(r)
  BY DEF StateUpdated
<1>2. PICK s \in {"in"} :
        /\ m \in Memory /\ RankFits(job, r, "diagonalize", s, m) /\ FilesTyped(work, disk)
        /\ r = Root => FilesFit(job, "diagonalize", "in", m, work, disk)
        /\ mem = [mem EXCEPT ![r] = m]
  BY <1>m, <1>1, MoveFacts DEF Joint
<1>3. mem' = [mem EXCEPT ![r] = v]
  BY <1>m, <1>2 DEF StateUpdated
<1>4. /\ v \in Memory /\ v.iter = m.iter /\ v.mf = m.mf /\ v.ham = m.ham
      /\ v.start = m.start /\ v.base = m.base /\ (Tracking => v.parent = m.mf)
  BY <1>m, <1>2 DEF Memory
<1>5. Follows(Met(r), "diagonalize", calls[r][Met(r)].iter, "report", v.iter)
  <2>1. calls[r][Met(r)].iter = mem[r].iter
    BY <1>1, BackIter
  <2>2. QED
    BY <2>1, <1>m, <1>4 DEF Follows
<1>6. RankFits(job, r, "report", "run", v)
  BY <1>2, <1>4
     DEF RankFits, StateFits, LimitFits, ParentFits, Beginning, Building, Ending, Tracking
<1>7. /\ FilesTyped(work', disk) /\ (r # Root => work' = work)
      /\ r = Root => work'.delta = [state |-> m.iter, base |-> 0] /\ work'.buf = work.buf
  BY <1>m, <1>1, <1>2, TakeHartreeFacts
<1>8. r = Root => FilesFit(job, "report", "run", v, work', disk)
  BY <1>2, <1>4, <1>7 DEF FilesFit, WorkFits, ExportsFit, MainFits, RowsFit, Started
<1>9. QED
  BY <1>1, <1>3, <1>4, <1>5, <1>6, <1>7, <1>8, MoveKeeps DEF Label, LocalPoint
-----------------------------------------------------------------------------
(* A rank changes its phase inside a collective or on the way to one.      *)
LEMMA StayKeeps ==
  ASSUME IInv, NEW r \in Rank, NEW p, job.on,
         phase' = [phase EXCEPT ![r] = p], UNCHANGED <<job, pc, mem, calls>>,
         \/ phase[r] = "wait" /\ p = "thrown"
         \/ phase[r] = "run" /\ p = "alone"
         \/ /\ r = Root /\ pc[r] = "report" /\ p \in FileStage
            /\ phase[r] \in {"run"} \cup FileStage,
         RankFits(job, r, pc[r], p, mem[r]),
         r # Root => work' = work /\ disk' = disk,
         r = Root => FilesTyped(work', disk') /\ FilesFit(job, pc[r], p, mem[r], work', disk')
  PROVE  IInv'
<1>1. CallsInv'
  BY StayKeepsCalls
<1>2. /\ phase'[r] = p /\ DOMAIN phase' = Rank
      /\ DOMAIN pc' = Rank /\ DOMAIN calls' = Rank
      /\ \A q \in Rank : q # r => phase'[q] = phase[q]
  BY DEF IInv, TypeOK
<1>3. Standing(r)' = p
  BY <1>2 DEF Standing, FileStage
<1>4. mem[r] \in Memory /\ mem' = [mem EXCEPT ![r] = mem[r]]
  BY RankFacts
<1>5. QED
  BY <1>1, <1>2, <1>3, <1>4, RankKeeps

(* A rank that throws has nothing more to keep: but the root throws out of *)
(* its own stage only when that stage failed.                              *)
LEMMA ThrowKeeps ==
  ASSUME IInv, NEW r \in Rank, Throw(r)
  PROVE  IInv'
<1>1. /\ job.on /\ phase[r] = "wait" /\ AnyFailed(r) /\ phase' = [phase EXCEPT ![r] = "thrown"]
      /\ UNCHANGED <<job, pc, mem, calls>> /\ work' = work /\ disk' = disk
  BY DEF Throw, Returns
<1>2. PICK s \in {"in", "wait"} :
        /\ s = Standing(r) /\ RankFits(job, r, pc[r], s, mem[r]) /\ FilesTyped(work, disk)
        /\ r = Root => FilesFit(job, pc[r], s, mem[r], work, disk)
  BY <1>1, RankFacts DEF Standing
<1>3. r = Root /\ s = "in" => pc[r] \in Joint
  BY <1>1, <1>2 DEF Standing, AnyFailed, Needed
<1>4. RankFits(job, r, pc[r], "thrown", mem[r])
  BY <1>2 DEF RankFits, StateFits, LimitFits, ParentFits
<1>5. r = Root => FilesFit(job, pc[r], "thrown", mem[r], work, disk)
  BY <1>2, <1>3 DEF FilesFit, WorkFits, ExportsFit, MainFits, RowsFit, Started, Joint
<1>6. QED
  BY <1>1, <1>2, <1>4, <1>5, StayKeeps

(* And so has one that leaves on its own: it stays where it was.           *)
LEMMA ThrowAloneKeeps ==
  ASSUME IInv, NEW r \in Rank, ThrowsAlone(r)
  PROVE  IInv'
<1>1. /\ job.on /\ phase[r] = "run" /\ phase' = [phase EXCEPT ![r] = "alone"]
      /\ UNCHANGED <<job, pc, mem, calls>> /\ work' = work /\ disk' = disk
  BY DEF ThrowsAlone
<1>2. /\ RankFits(job, r, pc[r], "run", mem[r]) /\ FilesTyped(work, disk)
      /\ r = Root => FilesFit(job, pc[r], "run", mem[r], work, disk)
  BY <1>1, RankFacts
<1>3. RankFits(job, r, pc[r], "alone", mem[r])
  BY <1>2 DEF RankFits, StateFits, LimitFits, ParentFits
<1>4. r = Root => FilesFit(job, pc[r], "alone", mem[r], work, disk)
  BY <1>2 DEF FilesFit, WorkFits, ExportsFit, MainFits, RowsFit, Started
<1>5. QED
  BY <1>1, <1>2, <1>3, <1>4, StayKeeps

(* The file steps of the report: the temporary file becomes the live       *)
(* state, the checkpoint becomes the temporary, and the companion follows. *)
LEMMA FileStepsKeep ==
  ASSUME IInv, OpenCheckpoint \/ CloseCheckpoint \/ RenameCheckpoint \/ WriteCompanion
  PROVE  IInv'
<1>m. PICK m, s : m = mem[Root] /\ s = phase[Root]
  OBVIOUS
<1>0. \A from, to : FileStep(from, to) =>
        /\ job.on /\ pc[Root] = "report" /\ s = from
        /\ phase' = [phase EXCEPT ![Root] = to] /\ UNCHANGED <<job, pc, mem, calls>>
  BY <1>m DEF FileStep
<1>1. /\ pc[Root] = "report" /\ s \in {"run"} \cup FileStage /\ s # "wait"
      /\ job.on /\ UNCHANGED <<job, pc, mem, calls>>
  BY <1>0 DEF OpenCheckpoint, CloseCheckpoint, RenameCheckpoint, WriteCompanion, FileStage
<1>2. /\ m \in Memory /\ RankFits(job, Root, "report", s, m) /\ FilesTyped(work, disk)
      /\ FilesFit(job, "report", s, m, work, disk)
  BY <1>m, <1>1, RankFacts, Numbers
<1>3. /\ m.iter \in Iter /\ m.iter \in Nat /\ m.mf = m.iter /\ m.ham = m.iter /\ m.iter > 0
      /\ m.mf \in Version /\ m.ham \in Version /\ m.parent \in Version
      /\ disk.hr[m.iter] = m.iter /\ LastRow(disk) = m.iter - 1 /\ Len(disk.rows) > 0
  <2>1. m.iter \in Iter /\ m.start \in Iter /\ m.start < m.iter
        /\ m.mf \in Version /\ m.ham \in Version /\ m.parent \in Version
    BY <1>2 DEF RankFits, StateFits, Beginning, Memory
  <2>2. m.iter \in Nat /\ m.iter > 0
    BY <2>1, RunAssumption DEF Iter
  <2>3. m.mf = m.iter /\ m.ham = m.iter
    BY <1>2 DEF RankFits, StateFits, Ending
  <2>4. /\ disk.hr[m.iter] = m.iter /\ LastRow(disk) = m.iter - 1 /\ Len(disk.rows) > 0
    BY <1>1, <1>2 DEF FilesFit, ExportsFit, RowsFit, Started, FileStage
  <2>5. QED
    BY <2>1, <2>2, <2>3, <2>4
<1>4. \A p \in FileStage : RankFits(job, Root, "report", p, m)
  BY <1>2 DEF RankFits, StateFits, LimitFits, ParentFits, FileStage
<1>5. ASSUME NEW p \in FileStage, phase' = [phase EXCEPT ![Root] = p],
             FilesTyped(work', disk'), FilesFit(job, "report", p, m, work', disk')
      PROVE  IInv'
  BY <1>m, <1>1, <1>4, <1>5, StayKeeps, Numbers
<1>6. CASE OpenCheckpoint
  <2>1. PICK conv \in BOOLEAN : /\ work' = [work EXCEPT !.conv = conv]
                                /\ disk' = [disk EXCEPT !.tmp = Torn]
                                /\ phase' = [phase EXCEPT ![Root] = "writing"]
    BY <1>0, <1>6 DEF OpenCheckpoint
  <2>2. /\ FilesTyped(work', disk') /\ work'.delta = work.delta /\ work'.buf = work.buf
        /\ disk'.main = disk.main /\ disk'.comp = disk.comp /\ disk'.hr = disk.hr
        /\ disk'.rows = disk.rows
    BY <2>1, <1>2 DEF FilesTyped, File
  <2>3. FilesFit(job, "report", "writing", m, work', disk')
    BY <2>2, <1>1, <1>2, <1>3
       DEF FilesFit, WorkFits, ExportsFit, MainFits, CompanionFits, RowsFit, Started, LastRow
  <2>4. QED
    BY <2>1, <2>2, <2>3, <1>5 DEF FileStage
<1>7. CASE CloseCheckpoint
  <2>1. PICK tmp : tmp = [iter |-> m.iter, mf |-> m.mf, ham |-> m.ham, job |-> job.no]
    OBVIOUS
  <2>2. /\ disk' = [disk EXCEPT !.tmp = tmp] /\ work' = work
        /\ phase' = [phase EXCEPT ![Root] = "closed"]
    BY <2>1, <1>0, <1>m, <1>7 DEF CloseCheckpoint
  <2>3. tmp \in Checkpoint
    <3>1. job.no \in 1 .. MaxJob
      BY <1>1, RunAssumption DEF IInv, TypeOK, CallsInv, PhasesOK
    <3>2. QED
      BY <2>1, <3>1, <1>3 DEF Checkpoint
  <2>4. /\ FilesTyped(work', disk') /\ disk'.tmp = tmp
        /\ disk'.main = disk.main /\ disk'.comp = disk.comp /\ disk'.hr = disk.hr
        /\ disk'.rows = disk.rows
    BY <2>2, <2>3, <1>2 DEF FilesTyped, File
  <2>5. FilesFit(job, "report", "closed", m, work', disk')
    BY <2>1, <2>2, <2>4, <1>1, <1>2, <1>3
       DEF FilesFit, WorkFits, ExportsFit, MainFits, CompanionFits, RowsFit, Started, LastRow
  <2>6. QED
    BY <2>2, <2>4, <2>5, <1>5 DEF FileStage
<1>8. CASE RenameCheckpoint
  <2>1. PICK p : p = IF Tracking THEN "companion" ELSE "flush"
    OBVIOUS
  <2>2. /\ disk' = [disk EXCEPT !.main = disk.tmp, !.tmp = NoFile] /\ work' = work
        /\ phase' = [phase EXCEPT ![Root] = p] /\ s = "closed"
    BY <2>1, <1>0, <1>8 DEF RenameCheckpoint
  <2>3. PICK main : main = disk.tmp
    OBVIOUS
  <2>4. /\ main.iter = m.iter /\ main.mf = m.mf /\ main.ham = m.ham /\ main.job = job.no
        /\ main \in Checkpoint
    <3>1. main = [iter |-> m.iter, mf |-> m.mf, ham |-> m.ham, job |-> job.no]
      BY <2>2, <2>3, <1>2 DEF FilesFit, MainFits
    <3>2. job.no \in 1 .. MaxJob
      BY <1>1, RunAssumption DEF IInv, TypeOK, CallsInv, PhasesOK
    <3>3. QED
      BY <3>1, <3>2, <1>3 DEF Checkpoint
  <2>5. main # NoFile
    BY <2>4, FileAssumption
  <2>6. /\ FilesTyped(work', disk') /\ disk'.main = main /\ disk'.comp = disk.comp
        /\ disk'.hr = disk.hr /\ disk'.rows = disk.rows
    BY <2>2, <2>3, <2>4, <1>2 DEF FilesTyped, File
  <2>7. MainFits(job, "report", p, m, disk')
    <3>1. job.no \in Int
      BY DEF IInv, TypeOK
    <3>2. QED
      BY <2>1, <2>4, <2>5, <2>6, <3>1, <1>3 DEF MainFits, Tracking
  <2>8. RowsFit(job, "report", p, m, disk')
    <3>1. LastRow(disk') = m.iter - 1
      BY <2>6, <1>3 DEF LastRow
    <3>2. \A k \in 1 .. Len(disk.rows) : disk.rows[k] = disk.rows[1] + k - 1
      BY <1>2 DEF FilesFit, RowsFit
    <3>3. QED
      BY <2>1, <2>4, <2>6, <3>1, <3>2, <1>3 DEF RowsFit, Started
  <2>9. FilesFit(job, "report", p, m, work', disk')
    BY <2>2, <2>6, <2>7, <2>8, <1>2 DEF FilesFit, WorkFits, ExportsFit, CompanionFits
  <2>10. QED
    BY <2>1, <2>2, <2>6, <2>9, <1>5 DEF FileStage
<1>9. CASE WriteCompanion
  <2>1. PICK comp : comp = [iter |-> m.iter, mf |-> m.mf, parent |-> m.parent]
    OBVIOUS
  <2>2. /\ disk' = [disk EXCEPT !.comp = comp] /\ work' = work
        /\ phase' = [phase EXCEPT ![Root] = "flush"] /\ s = "companion"
    BY <2>1, <1>0, <1>m, <1>9 DEF WriteCompanion
  <2>3. m.parent = m.mf
    BY <2>2, <1>2, <1>3 DEF FilesFit, MainFits, RankFits, ParentFits, Tracking
  <2>4. comp \in Companion /\ comp.iter = m.iter /\ comp.mf = m.iter /\ comp.parent = m.iter
    BY <2>1, <2>3, <1>3 DEF Companion
  <2>5. /\ FilesTyped(work', disk') /\ disk'.comp = comp /\ disk'.main = disk.main
        /\ disk'.hr = disk.hr /\ disk'.rows = disk.rows
    BY <2>2, <2>4, <1>2 DEF FilesTyped, File
  <2>6. FilesFit(job, "report", "flush", m, work', disk')
    BY <2>2, <2>4, <2>5, <1>2
       DEF FilesFit, WorkFits, ExportsFit, MainFits, CompanionFits, RowsFit, Started, LastRow
  <2>7. QED
    BY <2>2, <2>5, <2>6, <1>5 DEF FileStage
<1>10. QED
  BY <1>6, <1>7, <1>8, <1>9

(* The end of a job: what is in memory goes, the files stay as they are.   *)
LEMMA GoneKeeps ==
  ASSUME IInv, Gone
  PROVE  IInv'
<1>0. TypeOK /\ FilesOK
  BY DEF IInv
<1>1. /\ job'.on = FALSE /\ job'.resume = FALSE /\ job'.limit = 0 /\ job'.ext = "none"
      /\ job'.no = job.no /\ disk' = disk /\ work' = NoWork
      /\ job' \in [no: 0 .. MaxJob, resume: BOOLEAN, limit: Iter, on: BOOLEAN,
                    ext: {"none", "response", "tracking"}]
  <2>1. job \in [no: 0 .. MaxJob, resume: BOOLEAN, limit: Iter, on: BOOLEAN,
                 ext: {"none", "response", "tracking"}]
    BY <1>0 DEF TypeOK
  <2>2. 0 \in Iter
    BY RunAssumption DEF Iter
  <2>3. job' = [job EXCEPT !.on = FALSE, !.limit = 0, !.resume = FALSE, !.ext = "none"]
    BY DEF Gone
  <2>4. disk' = disk /\ work' = NoWork
    BY DEF Gone
  <2>5. QED
    BY <2>1, <2>2, <2>3, <2>4
<1>2. /\ DOMAIN pc' = Rank /\ DOMAIN phase' = Rank /\ DOMAIN calls' = Rank
      /\ mem' = [r \in Rank |-> Launched]
      /\ \A r \in Rank : pc'[r] = "setup" /\ phase'[r] = "run" /\ calls'[r] = <<>>
  BY DEF Gone
<1>3. TypeOK'
  <2>1. Launched \in Memory
    BY RunAssumption DEF Launched, Memory, Iter, Version
  <2>2. NoWork \in [delta: [state: Version, base: Version],
                      sigma: [state: Version, frame: Version \cup {RefH}],
                      conv: BOOLEAN, buf: Seq(Iter)]
    BY EmptySeq DEF NoWork, Version
  <2>3. mem' \in [Rank -> Memory]
    BY <2>1, <1>2
  <2>4. QED
    BY <2>2, <2>3, <1>0, <1>1, <1>2 DEF TypeOK
<1>4. \A r \in Rank : /\ Met(r)' = 0 /\ Place(r)' = 1 /\ LabelAt(r, 1)' = "setup"
                      /\ IterAt(r, 1)' = 0 /\ mem'[r] = Launched
  BY <1>2 DEF Met, Place, LabelAt, IterAt, Launched
<1>5. PhasesOK' /\ IdleOK'
  <2>1. \A r \in Rank : calls'[r] = [k \in 1 .. Met(r)' |-> calls'[r][k]]
    <3>1. 1 .. 0 = {} /\ <<>> = [k \in {} |-> <<>>[k]]
      OBVIOUS
    <3>2. QED
      BY <3>1, <1>2, <1>4
  <2>2. "setup" \in Label /\ "run" \notin FileStage
    BY DEF Label, LocalPoint, FileStage
  <2>3. PhasesOK'
    BY <2>1, <2>2, <1>1, <1>2, <1>4 DEF PhasesOK
  <2>4. IdleOK'
    BY <1>1, <1>2, <1>4 DEF IdleOK
  <2>5. QED
    BY <2>3, <2>4
<1>6. Chain' /\ InStep' /\ LoadsOK'
  BY <1>4 DEF Chain, InStep, LoadsOK
<1>7. RanksOK'
  <2>1. \A r \in Rank : Standing(r)' = "run"
    BY <1>2 DEF Standing
  <2>2. \A r \in Rank : RankFits(job', r, "setup", "run", Launched)
    BY <1>1, RunAssumption DEF RankFits, StateFits, LimitFits, ParentFits, Launched,
       Beginning, Building, Ending
  <2>3. QED
    BY <2>1, <2>2, <1>2, <1>4 DEF RanksOK
<1>8. FilesOK'
  <2>1. Standing(Root)' = "run" /\ pc'[Root] = "setup" /\ mem'[Root] = Launched
    BY <1>2, <1>4, Numbers DEF Standing
  <2>2. FilesFit(job', "setup", "run", Launched, NoWork, disk)
    BY <1>0, <1>1
       DEF FilesOK, FilesFit, WorkFits, ExportsFit, MainFits, RowsFit, Started, NoWork
  <2>3. QED
    BY <2>1, <2>2, <1>1 DEF FilesOK
<1>9. QED
  BY <1>3, <1>5, <1>6, <1>7, <1>8 DEF IInv, CallsInv

(* A new job starts from nothing in memory, and no checkpoint on disk is   *)
(* its own.                                                                *)
LEMMA SubmitKeeps ==
  ASSUME IInv, NEW resume \in BOOLEAN, NEW limit \in 1 .. MaxIter, NEW ext \in Extension,
         Submit(resume, limit, ext)
  PROVE  IInv'
<1>0. TypeOK /\ IdleOK /\ FilesOK /\ PhasesOK
  BY DEF IInv, CallsInv
<1>1. /\ ~ job.on /\ job.no < MaxJob /\ UNCHANGED <<pc, phase, mem, work, calls, disk>>
      /\ job'.no = job.no + 1 /\ job'.resume = resume /\ job'.limit = limit
      /\ job'.ext = ext /\ job'.on = TRUE
      /\ job' = [no |-> job.no + 1, resume |-> resume, limit |-> limit, ext |-> ext, on |-> TRUE]
  BY DEF Submit
<1>2. \A r \in Rank : /\ pc[r] = "setup" /\ phase[r] = "run" /\ mem[r] = Launched
                      /\ calls[r] = <<>> /\ Met(r) = 0
  BY <1>0, <1>1 DEF IdleOK, Met
<1>3. job.no \in Nat /\ job.no + 1 \in 0 .. MaxJob
  BY <1>0, <1>1, RunAssumption DEF TypeOK
<1>4. TypeOK'
  <2>1. limit \in Iter /\ ext \in {"none", "response", "tracking"}
    BY RunAssumption DEF Iter
  <2>2. job' \in [no: 0 .. MaxJob, resume: BOOLEAN, limit: Iter, on: BOOLEAN,
                   ext: {"none", "response", "tracking"}]
    BY <2>1, <1>1, <1>3
  <2>3. QED
    BY <2>2, <1>0, <1>1 DEF TypeOK
<1>5. \A r \in Rank : /\ Met(r)' = 0 /\ Place(r)' = 1 /\ LabelAt(r, 1)' = "setup"
                      /\ IterAt(r, 1)' = 0
  BY <1>1, <1>2 DEF Met, Place, LabelAt, IterAt, Launched
<1>6. PhasesOK' /\ IdleOK'
  <2>1. limit > 0 /\ job.no + 1 > 0
    BY <1>3
  <2>2. \A r \in Rank : Met(r)' = Met(r)
    BY <1>1 DEF Met
  <2>3. PhasesOK'
    BY <2>1, <2>2, <1>0, <1>1 DEF PhasesOK
  <2>4. QED
    BY <2>3, <1>1 DEF IdleOK
<1>7. Chain' /\ InStep' /\ LoadsOK'
  BY <1>5 DEF Chain, InStep, LoadsOK
<1>8. RanksOK'
  <2>1. \A r \in Rank : Standing(r)' = "run"
    BY <1>1, <1>2 DEF Standing
  <2>2. \A r \in Rank : RankFits(job', r, "setup", "run", Launched)
    BY DEF RankFits, StateFits, LimitFits, ParentFits, Launched, Beginning, Building, Ending
  <2>3. QED
    BY <2>1, <2>2, <1>1, <1>2 DEF RanksOK
<1>9. FilesOK'
  <2>1. /\ Standing(Root) = "run" /\ Standing(Root)' = "run"
        /\ pc[Root] = "setup" /\ mem[Root] = Launched
    BY <1>1, <1>2, Numbers DEF Standing
  <2>2. FilesFit(job, "setup", "run", Launched, work, disk)
    BY <2>1, <1>0 DEF FilesOK
  <2>3. disk.main # NoFile => disk.main.job \in Int
    BY <1>0 DEF TypeOK, File, Checkpoint
  <2>4. FilesFit(job', "setup", "run", Launched, work, disk)
    BY <2>2, <2>3, <1>1, <1>3
       DEF FilesFit, WorkFits, ExportsFit, MainFits, RowsFit, Started
  <2>5. QED
    BY <2>1, <2>4, <1>1 DEF FilesOK
<1>10. QED
  BY <1>4, <1>6, <1>7, <1>8, <1>9 DEF IInv, CallsInv

(* The first job finds no file.                                            *)
LEMMA InitFits ==
  ASSUME Init
  PROVE  IInv
<1>1. /\ job = [no |-> 0, resume |-> FALSE, limit |-> 0, ext |-> "none", on |-> FALSE]
      /\ job.no = 0 /\ job.on = FALSE /\ job.resume = FALSE
      /\ work = NoWork /\ mem = [r \in Rank |-> Launched]
      /\ DOMAIN pc = Rank /\ DOMAIN phase = Rank /\ DOMAIN calls = Rank
      /\ \A r \in Rank : /\ pc[r] = "setup" /\ phase[r] = "run"
                         /\ calls[r] = <<>> /\ Met(r) = 0 /\ mem[r] = Launched
  BY DEF Init, Met
<1>2. /\ disk = [main |-> NoFile, tmp |-> NoFile, comp |-> NoFile,
                 rows |-> <<>>, hr |-> [i \in Iter |-> NoFile]]
      /\ disk.main = NoFile /\ disk.comp = NoFile /\ disk.rows = <<>>
      /\ \A i \in Iter : disk.hr[i] = NoFile
  BY DEF Init
<1>3. TypeOK
  <2>1. Launched \in Memory
    BY RunAssumption DEF Launched, Memory, Iter, Version
  <2>2. NoWork \in [delta: [state: Version, base: Version],
                      sigma: [state: Version, frame: Version \cup {RefH}],
                      conv: BOOLEAN, buf: Seq(Iter)]
    BY EmptySeq DEF NoWork, Version
  <2>3. disk \in [main: File(Checkpoint), tmp: File(Checkpoint \cup {Torn}),
                  comp: File(Companion), rows: Seq(Iter),
                  hr: [Iter -> File(Version \cup {RefH})]]
    BY <1>2, EmptySeq DEF File
  <2>4. job \in [no: 0 .. MaxJob, resume: BOOLEAN, limit: Iter, on: BOOLEAN,
                 ext: {"none", "response", "tracking"}]
    BY <1>1, RunAssumption DEF Iter
  <2>5. QED
    BY <2>1, <2>2, <2>3, <2>4, <1>1 DEF TypeOK
<1>4. \A r \in Rank : /\ Place(r) = 1 /\ LabelAt(r, 1) = "setup" /\ IterAt(r, 1) = 0
                      /\ Standing(r) = "run"
  <2> SUFFICES ASSUME NEW r \in Rank
               PROVE  /\ Place(r) = 1 /\ LabelAt(r, 1) = "setup" /\ IterAt(r, 1) = 0
                      /\ Standing(r) = "run"
    OBVIOUS
  <2>1. Met(r) = 0 /\ pc[r] = "setup" /\ phase[r] = "run" /\ mem[r] = Launched
    BY <1>1
  <2>2. QED
    BY <2>1 DEF Place, LabelAt, IterAt, Launched, Standing
<1>5. PhasesOK /\ IdleOK
  <2>1. \A r \in Rank : calls[r] = [k \in 1 .. Met(r) |-> calls[r][k]]
    <3>1. 1 .. 0 = {} /\ <<>> = [k \in {} |-> <<>>[k]]
      OBVIOUS
    <3>2. QED
      BY <3>1, <1>1
  <2>2. "setup" \in Label /\ "run" \notin FileStage
    BY DEF Label, LocalPoint, FileStage
  <2>3. QED
    BY <2>1, <2>2, <1>1 DEF PhasesOK, IdleOK
<1>6. Chain /\ InStep /\ LoadsOK
  BY <1>1, <1>4 DEF Chain, InStep, LoadsOK
<1>7. RanksOK
  <2>1. \A r \in Rank : RankFits(job, r, "setup", "run", Launched)
    BY <1>1 DEF RankFits, StateFits, LimitFits, ParentFits, Launched,
       Beginning, Building, Ending
  <2>2. QED
    BY <2>1, <1>1, <1>4 DEF RanksOK
<1>8. FilesOK
  <2>1. Standing(Root) = "run" /\ pc[Root] = "setup" /\ mem[Root] = Launched
    BY <1>1, <1>4, Numbers
  <2>2. FilesFit(job, "setup", "run", Launched, NoWork, disk)
    BY <1>1, <1>2
       DEF FilesFit, WorkFits, ExportsFit, MainFits, CompanionFits, RowsFit, Started, NoWork
  <2>3. QED
    BY <2>1, <2>2, <1>1 DEF FilesOK
<1>9. QED
  BY <1>3, <1>5, <1>6, <1>7, <1>8 DEF IInv, CallsInv
-----------------------------------------------------------------------------
(* Every step keeps the invariant.                                         *)
LEMMA NextKeeps ==
  ASSUME IInv, [Next]_vars
  PROVE  IInv'
<1>1. ASSUME NEW resume \in BOOLEAN, NEW limit \in 1 .. MaxIter, NEW ext \in Extension,
             Submit(resume, limit, ext)
      PROVE  IInv'
  BY <1>1, SubmitKeeps
<1>2. ASSUME Crash \/ Leave PROVE IInv'
  BY <1>2, GoneKeeps DEF Crash, Leave
<1>3. ASSUME RootStep PROVE IInv'
  BY <1>3, CallsOnly, RestoreKeeps, InitialOutputKeeps, InitialExportKeeps,
     UpdateHamiltonianKeeps, ExportHamiltonianKeeps, FileStepsKeep, ReportDoneKeeps,
     FinalTraceKeeps DEF RootStep
<1>4. ASSUME NEW r \in Rank, RankStep(r) PROVE IInv'
  BY <1>4, CallsOnly, ThrowKeeps, ThrowAloneKeeps, StraightMoves, CaptureKeeps, TakeRestoredKeeps,
     ExportedInitialKeeps, ReadCompanionKeeps, FirstUpdateKeeps, BuildSigmaKeeps,
     SigmaCollectedKeeps, TakeMixedKeeps, DiagonalizeKeeps, StateUpdatedKeeps,
     NextUpdateKeeps, LeaveLoopKeeps, EvaluateFinalKeeps DEF RankStep
<1>5. ASSUME UNCHANGED vars PROVE IInv'
  <2>1. /\ job' = job /\ pc' = pc /\ phase' = phase /\ mem' = mem /\ work' = work
        /\ calls' = calls /\ disk' = disk
    BY <1>5 DEF vars
  <2>2. TypeOK' /\ RanksOK' /\ FilesOK'
    BY <2>1 DEF IInv, TypeOK, RanksOK, FilesOK, Standing, Met
  <2>3. CallsInv'
    BY <2>1, StutterKeepsCalls
  <2>4. QED
    BY <2>2, <2>3 DEF IInv
<1>6. QED
  BY <1>1, <1>2, <1>3, <1>4, <1>5 DEF Next, JobStep
-----------------------------------------------------------------------------
(* The invariant holds in every reachable state.                           *)
THEOREM Inductive == Spec => []IInv
<1>1. Init => IInv
  BY InitFits
<1>2. IInv /\ [Next]_vars => IInv'
  BY NextKeeps
<1>3. QED
  BY <1>1, <1>2, PTL DEF Spec

(* Every variable has its type. *)
THEOREM TypeCorrect == Spec => []TypeOK
<1>1. IInv => TypeOK
  BY DEF IInv
<1>2. QED
  BY <1>1, Inductive, PTL

(* The k-th collective of one rank is the k-th of every other: each rank   *)
(* decides from what all ranks have, so that none takes a broadcast for    *)
(* another one.                                                            *)
THEOREM RanksCallTheSame == Spec => []CollectivesMatch
<1>1. IInv => CollectivesMatch
  <2> SUFFICES ASSUME IInv, NEW p \in Rank, NEW q \in Rank, NEW k \in 1 .. Met(p), k <= Met(q)
               PROVE  /\ calls[p][k].label = calls[q][k].label
                      /\ calls[p][k].iter = calls[q][k].iter
                         \/ calls[p][k].label \in {"restore", "restored"}
    BY DEF CollectivesMatch
  <2>1. Met(p) \in Nat /\ Met(q) \in Nat
    BY DEF IInv, CallsInv, PhasesOK
  <2>2. k \in 1 .. Place(p) /\ k <= Place(q) /\ k <= Met(p)
    BY <2>1 DEF Place
  <2>3. /\ LabelAt(p, k) = LabelAt(q, k)
        /\ IterAt(p, k) = IterAt(q, k) \/ LabelAt(p, k) \in {"restore", "restored"}
    BY <2>2 DEF IInv, CallsInv, InStep
  <2>4. QED
    BY <2>2, <2>3 DEF LabelAt, IterAt
<1>2. QED
  BY <1>1, Inductive, PTL

(* Through jobs, crashes and restarts, what is held, saved or exported is  *)
(* the state an uninterrupted run reaches, and a checkpoint has its        *)
(* Hamiltonian file.                                                       *)
THEOREM OneTrajectoryKept == Spec => []OneTrajectory
<1>1. IInv => OneTrajectory
  <2> SUFFICES ASSUME IInv PROVE OneTrajectory
    OBVIOUS
  <2>1. ASSUME NEW r \in Rank PROVE mem[r].mf # Bad /\ mem[r].ham # Bad
    <3>1. PICK m, s, l : /\ m = mem[r] /\ l = pc[r] /\ m \in Memory /\ StateFits(r, l, s, m)
                         /\ l \in Label \cup {"end"}
      BY RankFacts DEF RankFits, IInv, CallsInv, PhasesOK
    <3>2. m.iter \in Nat /\ m.start \in Nat
      BY <3>1, Numbers DEF Memory
    <3>3. CASE l \in Beginning
      BY <3>1, <3>2, <3>3 DEF StateFits, Bad
    <3>4. CASE l \notin Beginning
      <4>1. m.iter > 0 /\ m.iter - 1 >= 0
        BY <3>1, <3>2, <3>4 DEF StateFits
      <4>2. l \in Building \cup {"export", "diagonalize"} \cup Ending
        BY <3>1, <3>4 DEF Label, LocalPoint, Joint, Beginning, Building, Ending
      <4>3. m.mf \in {m.iter, m.iter - 1} /\ m.ham \in {m.iter, m.iter - 1}
        BY <3>1, <4>2 DEF StateFits
      <4>4. QED
        BY <3>1, <3>2, <4>1, <4>3 DEF Bad
    <3>5. QED
      BY <3>3, <3>4
  <2>2. \E l, s, m : ExportsFit(l, s, m, disk) /\ MainFits(job, l, s, m, disk)
    BY DEF IInv, FilesOK, FilesFit
  <2>3. QED
    BY <2>1, <2>2 DEF OneTrajectory, ExportsFit, MainFits, FrameOf
<1>2. QED
  BY <1>1, Inductive, PTL

(* Every velocity is in the frame of the live Hamiltonian, restarted or    *)
(* not.                                                                    *)
THEOREM VelocityStaysInFrame == Spec => []VelocityInLiveFrame
<1>1. IInv => VelocityInLiveFrame
  <2> SUFFICES ASSUME IInv, NEW r \in Rank, NEW k \in 1 .. Met(r),
                      calls[r][k].label \in {"respond", "final"}, calls[r][k].flag = "ok"
               PROVE  calls[r][k].load.frame = IF calls[r][k].load.state = 0
                                                 THEN RefH ELSE calls[r][k].load.state
    BY DEF VelocityInLiveFrame
  <2>1. LoadFits(r, calls[r][k].label, calls[r][k].iter, calls[r][k].load)
    BY DEF IInv, CallsInv, LoadsOK
  <2>2. PICK c, i : c = calls[r][k].load
                    /\ c \in {[state |-> i, frame |-> FrameOf(i)]}
    BY <2>1 DEF LoadFits
  <2>3. c.state = i /\ c.frame = FrameOf(i)
    BY <2>2
  <2>4. QED
    BY <2>2, <2>3 DEF FrameOf
<1>2. QED
  BY <1>1, Inductive, PTL

(* The iteration table has no gap and no repeat, and is at most the        *)
(* checkpoint of its own job behind.                                       *)
THEOREM TraceStaysContiguous == Spec => []TraceIsContiguous
<1>1. IInv => TraceIsContiguous
  BY DEF IInv, FilesOK, FilesFit, RowsFit, LastRow, TraceIsContiguous
<1>2. QED
  BY <1>1, Inductive, PTL

(* The tracked parent belongs to the live state, and a companion is one    *)
(* state.                                                                  *)
THEOREM ParentStaysLive == Spec => []ParentIsLive
<1>1. IInv => ParentIsLive
  BY DEF IInv, RanksOK, RankFits, ParentFits, Tracking, FilesOK, FilesFit, CompanionFits,
     ParentIsLive
<1>2. QED
  BY <1>1, Inductive, PTL
-----------------------------------------------------------------------------
(* A rank that threw out of a collective did so because the collective had *)
(* failed on a rank that decides it.                                       *)
ThrownForAReason ==
  \A r \in Rank : phase[r] = "thrown" =>
    \E q \in Needed(r) : Met(r) <= Met(q) /\ calls[q][Met(r)].flag = "failed"

(* Of one rank only the place changes in a step, and histories only grow.  *)
LEMMA OneRankMoves ==
  ASSUME IInv, RootStep \/ \E r \in Rank : RankStep(r)
  PROVE  \E r \in Rank :
           /\ \A q \in Rank : q # r => phase'[q] = phase[q] /\ pc'[q] = pc[q]
           /\ \A q \in Rank : /\ Met(q)' \in {Met(q), Met(q) + 1} /\ Met(q) \in Nat
                              /\ q # r => calls'[q] = calls[q]
                              /\ \A k \in 1 .. Met(q) : calls'[q][k] = calls[q][k]
           /\ phase'[r] # "thrown" \/ Throw(r)
<1>0. /\ TypeOK /\ PhasesOK /\ Root \in Rank
      /\ \A q \in Rank : Met(q) \in Nat
  BY RunAssumption DEF IInv, CallsInv, PhasesOK
<1> DEFINE Moves(r) ==
      /\ \A q \in Rank : q # r => phase'[q] = phase[q] /\ pc'[q] = pc[q]
      /\ \A q \in Rank : /\ Met(q)' \in {Met(q), Met(q) + 1} /\ Met(q) \in Nat
                         /\ q # r => calls'[q] = calls[q]
                         /\ \A k \in 1 .. Met(q) : calls'[q][k] = calls[q][k]
      /\ phase'[r] # "thrown" \/ Throw(r)
<1>1. ASSUME NEW r \in Rank, NEW flag, NEW load, Enter(r, flag, load) PROVE Moves(r)
  <2>1. /\ Met(r)' = Met(r) + 1
        /\ \A k \in 1 .. Met(r) : calls'[r][k] = calls[r][k]
        /\ \A q \in Rank : q # r => calls'[q] = calls[q] /\ phase'[q] = phase[q]
        /\ phase'[r] = "wait" /\ pc' = pc
    BY <1>0, <1>1, EnterFacts
  <2>2. \A q \in Rank : q # r => Met(q)' = Met(q)
    BY <2>1 DEF Met
  <2>3. QED
    BY <1>0, <2>1, <2>2
<1>2. ASSUME NEW r \in Rank, calls' = calls,
             \A q \in Rank : q # r => phase'[q] = phase[q] /\ pc'[q] = pc[q],
             phase'[r] # "thrown" \/ Throw(r)
      PROVE  Moves(r)
  <2>1. \A q \in Rank : Met(q)' = Met(q)
    BY <1>2 DEF Met
  <2>2. QED
    BY <1>0, <1>2, <2>1
<1>3. ASSUME NEW r \in Rank, NEW l, GoTo(r, l) PROVE Moves(r)
  <2>1. /\ calls' = calls /\ phase'[r] # "thrown"
        /\ \A q \in Rank : q # r => phase'[q] = phase[q] /\ pc'[q] = pc[q]
    BY <1>0, <1>3 DEF GoTo, TypeOK
  <2>2. QED
    BY <1>2, <2>1
<1>4. ASSUME NEW from, NEW to, FileStep(from, to), to # "thrown" PROVE Moves(Root)
  <2>1. /\ calls' = calls /\ phase'[Root] # "thrown" /\ pc' = pc
        /\ \A q \in Rank : q # Root => phase'[q] = phase[q]
    BY <1>0, <1>4 DEF FileStep, TypeOK
  <2>2. QED
    BY <1>0, <1>2, <2>1
<1>5. ASSUME NEW r \in Rank, Throw(r) \/ ThrowsAlone(r) PROVE Moves(r)
  <2>1. /\ calls' = calls /\ pc' = pc
        /\ \A q \in Rank : q # r => phase'[q] = phase[q]
        /\ phase'[r] # "thrown" \/ Throw(r)
    BY <1>0, <1>5 DEF Throw, ThrowsAlone, TypeOK
  <2>2. QED
    BY <1>2, <2>1
<1>6. ASSUME RootStep PROVE Moves(Root)
  <2>1. ASSUME \/ Validate \/ Restore \/ SendRestored \/ InitialOutput \/ InitialExport
               \/ UpdateHamiltonian \/ SendMixed \/ ExportHamiltonian
               \/ ReportDone \/ ReportFails \/ SendConverged \/ FinalTrace \/ RootFails
        PROVE  \E flag, load : Enter(Root, flag, load)
    BY <2>1 DEF Validate, Restore, SendRestored, InitialOutput, InitialExport,
       UpdateHamiltonian, SendMixed, ExportHamiltonian, ReportDone, ReportFails,
       SendConverged, FinalTrace, RootFails
  <2>2. ASSUME OpenCheckpoint \/ CloseCheckpoint \/ RenameCheckpoint \/ WriteCompanion
        PROVE  \E from, to : FileStep(from, to) /\ to # "thrown"
    BY <2>2 DEF OpenCheckpoint, CloseCheckpoint, RenameCheckpoint, WriteCompanion
  <2>3. QED
    BY <1>0, <1>1, <1>4, <1>6, <2>1, <2>2 DEF RootStep
<1>7. ASSUME NEW r \in Rank, RankStep(r) PROVE Moves(r)
  <2>1. ASSUME \/ Idle(r) \/ StageFails(r) \/ ReadCompanion(r) \/ EvaluateHartree(r)
               \/ BuildSigma(r) \/ Diagonalize(r) \/ EvaluateFinal(r)
        PROVE  \E flag, load : Enter(r, flag, load)
    BY <2>1 DEF Idle, StageFails, ReadCompanion, EvaluateHartree, BuildSigma,
       Diagonalize, EvaluateFinal
  <2>2. ASSUME \/ Capture(r) \/ Restored(r) \/ TakeRestored(r) \/ Initialized(r)
               \/ ExportedInitial(r) \/ CompanionRead(r) \/ FirstUpdate(r)
               \/ SigmaCollected(r) \/ Updated(r) \/ TakeMixed(r) \/ Exported(r)
               \/ StateUpdated(r) \/ Reported(r) \/ NextUpdate(r) \/ LeaveLoop(r)
               \/ FinalEvaluated(r) \/ Finished(r)
        PROVE  \E l : GoTo(r, l)
    BY <2>2 DEF Capture, Restored, TakeRestored, Initialized, ExportedInitial,
       CompanionRead, FirstUpdate, SigmaCollected, Updated, TakeMixed, Exported,
       StateUpdated, Reported, NextUpdate, LeaveLoop, FinalEvaluated, Finished
  <2>3. QED
    BY <1>1, <1>3, <1>5, <1>7, <2>1, <2>2 DEF RankStep
<1>8. QED
  BY <1>0, <1>6, <1>7

(* The reason stays: calls are never taken back.                           *)
LEMMA ReasonKept ==
  ASSUME IInv, ThrownForAReason, [Next]_vars
  PROVE  ThrownForAReason'
<1>1. CASE RootStep \/ \E r \in Rank : RankStep(r)
  <2>1. PICK r \in Rank :
          /\ \A q \in Rank : q # r => phase'[q] = phase[q] /\ pc'[q] = pc[q]
          /\ \A q \in Rank : /\ Met(q)' \in {Met(q), Met(q) + 1} /\ Met(q) \in Nat
                             /\ q # r => calls'[q] = calls[q]
                             /\ \A k \in 1 .. Met(q) : calls'[q][k] = calls[q][k]
          /\ phase'[r] # "thrown" \/ Throw(r)
    BY <1>1, OneRankMoves
  <2> SUFFICES ASSUME NEW p \in Rank, phase'[p] = "thrown"
               PROVE  \E q \in Needed(p)' : Met(p)' <= Met(q)'
                                            /\ calls'[q][Met(p)'].flag = "failed"
    BY DEF ThrownForAReason
  <2>2. /\ pc'[p] = pc[p] /\ Met(p)' = Met(p) /\ Met(p) \in Nat /\ Met(p) > 0
        /\ \E q \in Needed(p) : Met(p) <= Met(q) /\ calls[q][Met(p)].flag = "failed"
    <3>1. CASE p # r
      <4>1. phase[p] = "thrown" /\ pc'[p] = pc[p] /\ calls'[p] = calls[p]
        BY <2>1, <3>1
      <4>2. Met(p)' = Met(p)
        BY <4>1 DEF Met
      <4>3. QED
        BY <2>1, <4>1, <4>2 DEF ThrownForAReason, IInv, CallsInv, PhasesOK
    <3>2. CASE p = r
      <4>1. Throw(p)
        BY <2>1, <3>2
      <4>2. /\ pc' = pc /\ calls' = calls /\ phase[p] = "wait"
            /\ \A q \in Needed(p) : Met(q) >= Met(p)
            /\ \E q \in Needed(p) : calls[q][Met(p)].flag = "failed"
        BY <4>1 DEF Throw, Returns, AnyFailed
      <4>3. Met(p)' = Met(p) /\ Met(p) \in Nat /\ Met(p) > 0
        BY <4>2 DEF Met, IInv, CallsInv, PhasesOK
      <4>4. \A q \in Needed(p) : Met(q) \in Nat
        <5>1. Needed(p) \subseteq Rank
          BY RunAssumption DEF Needed
        <5>2. \A q \in Rank : Met(q) \in Nat
          BY DEF IInv, CallsInv, PhasesOK
        <5>3. QED
          BY <5>1, <5>2
      <4>5. QED
        BY <4>2, <4>3, <4>4
    <3>3. QED
      BY <3>1, <3>2
  <2>3. Needed(p)' = Needed(p) /\ Needed(p) \subseteq Rank
    BY <2>2, RunAssumption DEF Needed
  <2>4. PICK q \in Rank : q \in Needed(p) /\ Met(p) <= Met(q) /\ calls[q][Met(p)].flag = "failed"
    BY <2>2, <2>3
  <2>5. /\ Met(q) \in Nat /\ Met(q)' \in {Met(q), Met(q) + 1}
        /\ Met(p) \in 1 .. Met(q)
    BY <2>1, <2>2, <2>4
  <2>6. calls'[q][Met(p)] = calls[q][Met(p)] /\ Met(p) <= Met(q)'
    BY <2>1, <2>2, <2>5
  <2>7. QED
    BY <2>2, <2>3, <2>4, <2>6
<1>2. CASE Crash \/ Leave
  BY <1>2 DEF Crash, Leave, Gone, ThrownForAReason
<1>3. CASE UNCHANGED <<pc, phase, calls>>
  BY <1>3 DEF ThrownForAReason, Needed, Met
<1>4. CASE \E resume \in BOOLEAN, limit \in 1 .. MaxIter, ext \in Extension :
             Submit(resume, limit, ext)
  BY <1>3, <1>4 DEF Submit
<1>5. QED
  BY <1>1, <1>2, <1>3, <1>4 DEF Next, JobStep, vars

(* No rank can go on, and some wait.                                       *)
Stuck ==
  /\ \E q \in Rank : phase[q] = "wait"
  /\ \A q \in Rank : /\ phase[q] \in {"wait", "thrown", "alone", "done"}
                     /\ phase[q] = "wait" => ~ Returns(q)

(* Only a rank that throws outside every stage can leave others waiting:   *)
(* with any number of ranks, when none of them can go on and some wait,    *)
(* then one of those waited for threw on its own.                          *)
THEOREM OnlyLoneThrowsStrand == Spec => [](Stuck => Deserted)
<1>1. Init => ThrownForAReason
  BY DEF Init, ThrownForAReason
<1>2. IInv /\ ThrownForAReason /\ [Next]_vars => ThrownForAReason'
  BY ReasonKept
<1>3. IInv /\ ThrownForAReason => (Stuck => Deserted)
  <2> SUFFICES ASSUME IInv, ThrownForAReason, Stuck PROVE Deserted
    OBVIOUS
  <2>0. PhasesOK /\ Chain /\ InStep /\ \A q \in Rank : Met(q) \in Nat
    BY DEF IInv, CallsInv, PhasesOK
  <2>1. PICK q \in Rank : phase[q] = "wait"
    BY DEF Stuck
  <2>2. PICK p \in Rank : Met(p) < Met(q)
    <3>1. \E p \in Needed(q) : ~ (Met(p) >= Met(q))
      BY <2>1 DEF Stuck, Returns
    <3>2. Needed(q) \subseteq Rank
      BY RunAssumption DEF Needed
    <3>3. QED
      BY <2>0, <3>1, <3>2
  <2>3. Place(q) = Met(q)
    BY <2>1 DEF Place
  <2>4. CASE phase[p] \in {"wait", "thrown"}
    (* q is past the call p is in: p has returned from it without failure. *)
    <3>1. Place(p) = Met(p) /\ Met(p) > 0 /\ calls[p][Met(p)].label = pc[p]
      BY <2>0, <2>4 DEF Place, PhasesOK
    <3>2. Met(p) \in 1 .. Place(q) - 1 /\ Met(p) \in 1 .. Place(p)
      BY <2>0, <2>2, <2>3, <3>1
    <3>3. Passed(q, Met(p))
      BY <2>0, <3>2 DEF Chain
    <3>4. LabelAt(q, Met(p)) = pc[p]
      <4>1. LabelAt(p, Met(p)) = LabelAt(q, Met(p))
        BY <2>0, <2>2, <2>3, <3>1 DEF InStep
      <4>2. LabelAt(p, Met(p)) = calls[p][Met(p)].label
        BY <2>0 DEF LabelAt
      <4>3. QED
        BY <3>1, <4>1, <4>2
    <3>5. \A x \in Needed(p) : Met(p) <= Met(x) /\ calls[x][Met(p)].flag = "ok"
      BY <3>3, <3>4 DEF Passed, Needed
    <3>6. \A x \in Needed(p) : Met(x) \in Nat
      BY <2>0, RunAssumption DEF Needed
    <3>7. CASE phase[p] = "wait"
      BY <2>0, <3>5, <3>6, <3>7 DEF Stuck, Returns
    <3>8. CASE phase[p] = "thrown"
      BY <3>5, <3>8 DEF ThrownForAReason
    <3>9. QED
      BY <2>4, <3>7, <3>8
  <2>5. CASE phase[p] = "done"
    (* q is in a call where p has returned from run(). *)
    <3>1. pc[p] = "end" /\ Place(p) = Met(p) + 1
      BY <2>0, <2>5 DEF PhasesOK, Place
    <3>2. Met(p) + 1 \in 1 .. Place(p) /\ Met(p) + 1 <= Place(q)
      BY <2>0, <2>2, <2>3, <3>1
    <3>3. LabelAt(p, Met(p) + 1) = LabelAt(q, Met(p) + 1)
      BY <2>0, <3>2 DEF InStep
    <3>4. LabelAt(p, Met(p) + 1) = "end"
      BY <2>0, <3>1 DEF LabelAt
    <3>5. Met(p) + 1 \in 1 .. Met(q)
      BY <2>0, <2>2
    <3>6. LabelAt(q, Met(p) + 1) \in Label
      <4>1. calls[q][Met(p) + 1].label \in Label
        BY <2>0, <3>5 DEF PhasesOK
      <4>2. Met(p) + 1 <= Met(q)
        BY <2>0, <3>5
      <4>3. QED
        BY <4>1, <4>2 DEF LabelAt
    <3>7. "end" \notin Label
      BY DEF Label, LocalPoint, Joint
    <3>8. QED
      BY <3>3, <3>4, <3>6, <3>7
  <2>6. phase[p] \in {"wait", "thrown", "alone", "done"}
    BY DEF Stuck
  <2>7. CASE phase[p] = "alone"
    BY <2>1, <2>2, <2>7 DEF Deserted
  <2>8. QED
    BY <2>4, <2>5, <2>6, <2>7
<1>4. QED
  BY <1>1, <1>2, <1>3, Inductive, PTL DEF Spec
-----------------------------------------------------------------------------
(* A step that changes neither the root's live state nor the checkpoint.   *)
Quiet == UNCHANGED <<job, mem[Root].mf, disk.main>>

(* Of the root's own steps only two are seen: the checkpoint is taken, or  *)
(* it is renamed.                                                          *)
LEMMA RootIsQuiet ==
  ASSUME IInv, RootStep
  PROVE  Quiet \/ Restore \/ RenameCheckpoint
<1>1. /\ mem \in [Rank -> Memory] /\ FilesTyped(work, disk)
      /\ disk \in [main: File(Checkpoint), tmp: File(Checkpoint \cup {Torn}),
                   comp: File(Companion), rows: Seq(Iter),
                   hr: [Iter -> File(Version \cup {RefH})]]
  BY RankFacts, Numbers DEF IInv, TypeOK, FilesTyped
<1>2. \A r, flag, load : Enter(r, flag, load) => job' = job
  BY DEF Enter
<1>3. ASSUME \/ Validate \/ SendRestored \/ SendMixed \/ ReportFails \/ SendConverged
             \/ RootFails
      PROVE  Quiet
  BY <1>2, <1>3 DEF Validate, SendRestored, SendMixed, ReportFails, SendConverged,
     RootFails, Quiet
<1>4. ASSUME InitialOutput \/ ReportDone \/ FinalTrace PROVE Quiet
  <2>1. \E rows : disk' = [disk EXCEPT !.rows = rows]
    BY <1>4 DEF InitialOutput, ReportDone, FinalTrace, Flush
  <2>2. disk'.main = disk.main
    BY <2>1, <1>1
  <2>3. QED
    BY <2>2, <1>2, <1>4 DEF InitialOutput, ReportDone, FinalTrace, Quiet
<1>5. ASSUME InitialExport \/ ExportHamiltonian PROVE Quiet
  <2>1. \E hr : disk' = [disk EXCEPT !.hr = hr]
    BY <1>5 DEF InitialExport, ExportHamiltonian
  <2>2. disk'.main = disk.main
    BY <2>1, <1>1
  <2>3. QED
    BY <2>2, <1>2, <1>5 DEF InitialExport, ExportHamiltonian, Quiet
<1>6. ASSUME UpdateHamiltonian PROVE Quiet
  <2>1. \E x : mem' = [mem EXCEPT ![Root].mixed = x]
    BY <1>6 DEF UpdateHamiltonian
  <2>2. mem'[Root].mf = mem[Root].mf
    BY <2>1, <1>1, Numbers DEF Memory
  <2>3. QED
    BY <2>2, <1>2, <1>6 DEF UpdateHamiltonian, Quiet
<1>7. ASSUME OpenCheckpoint \/ CloseCheckpoint \/ WriteCompanion PROVE Quiet
  <2>1. \E x : disk' \in {[disk EXCEPT !.tmp = x], [disk EXCEPT !.comp = x]}
    BY <1>7 DEF OpenCheckpoint, CloseCheckpoint, WriteCompanion
  <2>2. disk'.main = disk.main
    BY <2>1, <1>1
  <2>3. QED
    BY <2>2, <1>7 DEF OpenCheckpoint, CloseCheckpoint, WriteCompanion, FileStep, Quiet
<1>8. QED
  BY <1>3, <1>4, <1>5, <1>6, <1>7 DEF RootStep

(* Of the steps all ranks make, only the root's diagonalization is seen.   *)
LEMMA RankIsQuiet ==
  ASSUME IInv, NEW r \in Rank, RankStep(r)
  PROVE  Quiet \/ (r = Root /\ Diagonalize(r))
<1>1. mem \in [Rank -> Memory]
  BY DEF IInv, TypeOK
<1>2. \A flag, load, m : Enter(r, flag, load) \/ GoTo(r, m) => job' = job
  BY DEF Enter, GoTo
<1>3. \A m : GoTo(r, m) => disk' = disk
  BY DEF GoTo
<1>4. ASSUME \/ Idle(r) \/ StageFails(r) \/ EvaluateHartree(r)
      PROVE  Quiet
  BY <1>2, <1>4 DEF Idle, StageFails, EvaluateHartree, Quiet
<1>5. ASSUME Throw(r) \/ ThrowsAlone(r) PROVE Quiet
  BY <1>5 DEF Throw, ThrowsAlone, Quiet
<1>6. ASSUME \/ Restored(r) \/ Initialized(r) \/ ExportedInitial(r) \/ CompanionRead(r)
             \/ SigmaCollected(r) \/ Updated(r) \/ Exported(r) \/ Reported(r)
             \/ LeaveLoop(r) \/ FinalEvaluated(r) \/ Finished(r)
      PROVE  Quiet
  BY <1>2, <1>3, <1>6
     DEF Restored, Initialized, ExportedInitial, CompanionRead, SigmaCollected, Updated,
         Exported, Reported, LeaveLoop, FinalEvaluated, Finished, Quiet
<1>7. ASSUME ReadCompanion(r) \/ BuildSigma(r) \/ EvaluateFinal(r) PROVE Quiet
  <2>1. mem' = mem \/ \E x : mem' = [mem EXCEPT ![r].parent = x]
    BY <1>7 DEF ReadCompanion, BuildSigma, EvaluateFinal
  <2>2. mem'[Root].mf = mem[Root].mf
    BY <2>1, <1>1, Numbers DEF Memory
  <2>3. job' = job /\ disk' = disk
    BY <1>2, <1>7 DEF ReadCompanion, BuildSigma, EvaluateFinal
  <2>4. QED
    BY <2>2, <2>3 DEF Quiet
<1>8. ASSUME Capture(r) \/ FirstUpdate(r) \/ NextUpdate(r) \/ TakeMixed(r) \/ StateUpdated(r)
      PROVE  Quiet
  <2>1. ASSUME Capture(r) PROVE mem'[Root].mf = mem[Root].mf
    BY <2>1, <1>1, Numbers DEF Memory, Capture
  <2>2. ASSUME FirstUpdate(r) \/ NextUpdate(r) PROVE mem'[Root].mf = mem[Root].mf
    BY <2>2, <1>1, Numbers DEF Memory, FirstUpdate, NextUpdate
  <2>3. ASSUME TakeMixed(r) PROVE mem'[Root].mf = mem[Root].mf
    <3>1. PICK x : mem' = [mem EXCEPT ![r] = [@ EXCEPT !.mixed = x, !.ham = x]]
      BY <2>3 DEF TakeMixed
    <3>2. mem'[r].mf = mem[r].mf
      BY <3>1, <1>1 DEF Memory
    <3>3. Root # r => mem'[Root] = mem[Root]
      BY <3>1, <1>1, Numbers
    <3>4. QED
      BY <3>2, <3>3
  <2>4. ASSUME StateUpdated(r) PROVE mem'[Root].mf = mem[Root].mf
    BY <2>4, <1>1, Numbers DEF Memory, StateUpdated
  <2>5. mem'[Root].mf = mem[Root].mf
    BY <1>8, <2>1, <2>2, <2>3, <2>4
  <2>6. job' = job /\ disk' = disk
    BY <1>2, <1>3, <1>8 DEF Capture, FirstUpdate, NextUpdate, TakeMixed, StateUpdated
  <2>7. QED
    BY <2>5, <2>6 DEF Quiet
<1>9. ASSUME TakeRestored(r) PROVE Quiet
  <2>0. Back(r, "restored") /\ job' = job /\ disk' = disk
    BY <1>2, <1>3, <1>9 DEF TakeRestored
  <2>1. mem' = [mem EXCEPT ![r] = [@ EXCEPT !.start = Sent(r).start, !.iter = Sent(r).start,
                                            !.mf = Sent(r).mf, !.ham = Sent(r).ham]]
    BY <1>9 DEF TakeRestored
  <2>2. r = Root => Sent(r).mf = mem[r].mf
    <3>1. LoadFits(Root, "restored", calls[Root][Met(r)].iter, Sent(r))
      BY <2>0, BackFacts
    <3>2. calls[r][Met(r)].iter = mem[r].iter
      BY <2>0, BackIter
    <3>3. pc[r] = "restored" /\ RankFits(job, r, pc[r], Standing(r), mem[r])
      BY <2>0, RankFacts DEF Back
    <3>4. mem[r].mf = mem[r].iter
      BY <3>3 DEF RankFits, StateFits, Beginning
    <3>5. QED
      BY <3>1, <3>2, <3>4 DEF LoadFits
  <2>3. mem'[Root].mf = mem[Root].mf
    BY <2>1, <2>2, <1>1, Numbers DEF Memory
  <2>4. QED
    BY <2>0, <2>3 DEF Quiet
<1>10. ASSUME Diagonalize(r), r # Root PROVE Quiet
  <2>1. mem'[Root] = mem[Root] /\ disk' = disk /\ job' = job
    BY <1>1, <1>2, <1>10, Numbers DEF Diagonalize
  <2>2. QED
    BY <2>1 DEF Quiet
<1>11. QED
  BY <1>4, <1>5, <1>6, <1>7, <1>8, <1>9, <1>10 DEF RankStep

(* A restored root goes from the reference to the checkpoint.              *)
LEMMA RestoreResumes ==
  ASSUME IInv, Restore
  PROVE  /\ job.on /\ job' = job /\ disk' = disk /\ disk.main # NoFile
         /\ mem[Root].mf = 0 /\ mem'[Root].mf = disk.main.iter
<1>1. /\ At(Root, "restore") /\ disk' = disk /\ job' = job
      /\ disk.main # NoFile
  BY DEF Restore, Enter
<1>2. PICK main : main = disk.main
  OBVIOUS
<1>3. /\ mem' = [mem EXCEPT ![Root] = [mem[Root] EXCEPT !.mf = main.mf, !.ham = main.ham,
                                      !.start = main.iter, !.iter = main.iter]]
      /\ mem \in [Rank -> Memory]
  BY <1>2 DEF Restore, IInv, TypeOK
<1>4. mem'[Root].mf = main.mf
  BY <1>3, Numbers DEF Memory
<1>5. /\ RankFits(job, Root, "restore", "run", mem[Root]) /\ job.on
      /\ FilesFit(job, "restore", "run", mem[Root], work, disk)
  BY <1>1, AtFacts, Numbers
<1>6. main.iter = main.mf
  BY <1>1, <1>2, <1>5 DEF FilesFit, MainFits
<1>7. mem[Root].mf = 0
  BY <1>5 DEF RankFits, StateFits, Beginning
<1>8. QED
  BY <1>1, <1>2, <1>4, <1>5, <1>6, <1>7

(* The root that diagonalizes advances by one state. *)
LEMMA DiagonalizeAdvances ==
  ASSUME IInv, Diagonalize(Root)
  PROVE  /\ job.on /\ job' = job /\ disk' = disk
         /\ mem'[Root].mf = mem[Root].mf + 1
<1>1. /\ At(Root, "diagonalize") /\ disk' = disk /\ job' = job
      /\ mem' = [mem EXCEPT ![Root].mf = mem[Root].mixed]
      /\ mem \in [Rank -> Memory]
  BY DEF Diagonalize, Enter, IInv, TypeOK
<1>2. /\ RankFits(job, Root, "diagonalize", "run", mem[Root]) /\ job.on
      /\ mem[Root] \in Memory
  BY <1>1, AtFacts, Numbers
<1>3. mem[Root].mixed = mem[Root].iter /\ mem[Root].mf = mem[Root].iter - 1
  BY <1>2 DEF RankFits, StateFits
<1>4. mem'[Root].mf = mem[Root].mixed
  BY <1>1, Numbers DEF Memory
<1>5. QED
  BY <1>1, <1>2, <1>3, <1>4, Numbers DEF Memory

(* A renamed checkpoint is the live state of the root, which is past the   *)
(* reference, and not behind a checkpoint the job continued.               *)
LEMMA RenameSaves ==
  ASSUME IInv, RenameCheckpoint
  PROVE  /\ job.on /\ job' = job /\ mem' = mem
         /\ disk'.main \in Checkpoint /\ disk'.main.iter = mem[Root].mf
         /\ mem[Root].mf # 0
         /\ job.resume => disk.main.iter <= disk'.main.iter
<1>m. PICK m : m = mem[Root]
  OBVIOUS
<1>1. /\ job.on /\ pc[Root] = "report" /\ phase[Root] = "closed" /\ job' = job /\ mem' = mem
      /\ disk' = [disk EXCEPT !.main = disk.tmp, !.tmp = NoFile]
  BY DEF RenameCheckpoint, FileStep
<1>2. /\ m \in Memory /\ FilesTyped(work, disk)
      /\ RankFits(job, Root, "report", "closed", m)
      /\ FilesFit(job, "report", "closed", m, work, disk)
      /\ job.no \in 0 .. MaxJob /\ job.no > 0
  <2>1. /\ mem[Root] \in Memory /\ FilesTyped(work, disk) /\ Standing(Root) = "closed"
        /\ RankFits(job, Root, pc[Root], Standing(Root), mem[Root])
        /\ FilesFit(job, pc[Root], Standing(Root), mem[Root], work, disk)
    BY <1>1, RankFacts, Numbers
  <2>2. job.no \in 0 .. MaxJob /\ job.no > 0
    BY <1>1 DEF IInv, CallsInv, PhasesOK, TypeOK
  <2>3. QED
    BY <1>m, <1>1, <2>1, <2>2
<1>3. m.mf = m.iter /\ m.ham = m.iter /\ m.start < m.iter
  BY <1>2 DEF RankFits, StateFits, Beginning, Ending
<1>4. disk.tmp = [iter |-> m.iter, mf |-> m.mf, ham |-> m.ham, job |-> job.no]
  BY <1>2 DEF FilesFit, MainFits
<1>5. disk'.main = disk.tmp
  BY <1>1, <1>2 DEF FilesTyped
<1>6. job.no \in 1 .. MaxJob
  BY <1>2, RunAssumption
<1>7. disk.tmp \in Checkpoint /\ disk.tmp.iter = m.iter
  BY <1>2, <1>4, <1>6 DEF Checkpoint, Memory
<1>8. m.mf # 0
  <2>1. m.start \in Nat /\ m.iter \in Nat
    BY <1>2, Numbers DEF Memory
  <2>2. QED
    BY <2>1, <1>3
<1>9. job.resume => disk.main.iter <= m.iter
  BY <1>2 DEF FilesFit, MainFits
<1>10. QED
  BY <1>m, <1>1, <1>3, <1>5, <1>7, <1>8, <1>9

(* The checkpoint is never taken away, and a continued job never replaces  *)
(* it by an earlier one.                                                   *)
THEOREM ProgressIsDurable == Spec => DurableProgress
<1> DEFINE Kept == disk.main # NoFile =>
                     /\ disk'.main \notin {NoFile, Torn}
                     /\ job.resume => disk'.main.iter >= disk.main.iter
<1>1. IInv /\ [Next]_vars => [Kept]_vars
  <2> SUFFICES ASSUME IInv, Next PROVE Kept
    OBVIOUS
  <2>1. disk.main \in File(Checkpoint)
    BY DEF IInv, TypeOK
  <2>2. ASSUME disk'.main = disk.main PROVE Kept
    <3>1. disk.main # NoFile => disk.main \in Checkpoint /\ disk.main.iter \in Int
      BY <2>1, Numbers DEF File, Checkpoint
    <3>2. QED
      BY <2>2, <3>1, FileAssumption
  <2>3. ASSUME RenameCheckpoint PROVE Kept
    <3>1. disk'.main \in Checkpoint
      BY <2>3, RenameSaves
    <3>2. disk'.main.iter \in Int /\ disk'.main \notin {NoFile, Torn}
      BY <3>1, Numbers, FileAssumption DEF Checkpoint
    <3>3. job.resume => disk.main.iter <= disk'.main.iter
      BY <2>3, RenameSaves
    <3>4. disk.main # NoFile => disk.main.iter \in Int
      BY <2>1, Numbers DEF File, Checkpoint
    <3>5. QED
      BY <3>2, <3>3, <3>4
  <2>4. ASSUME RootStep PROVE Kept
    BY <2>2, <2>3, <2>4, RootIsQuiet, RestoreResumes DEF Quiet
  <2>5. ASSUME NEW r \in Rank, RankStep(r) PROVE Kept
    BY <2>2, <2>5, RankIsQuiet, DiagonalizeAdvances DEF Quiet
  <2>6. QED
    BY <2>2, <2>4, <2>5 DEF Next, JobStep, Submit, Crash, Leave, Gone, vars
<1>2. QED
  BY <1>1, Inductive, PTL DEF Spec, DurableProgress
-----------------------------------------------------------------------------
(* What QsgwTrajectory sees of a job. *)
Live  == IF job.on THEN mem[Root].mf ELSE NoFile
Saved == IF disk.main = NoFile THEN NoFile ELSE disk.main.iter

(* A job, seen from its root and its checkpoint file, is a behaviour of    *)
(* QsgwTrajectory: it begins at 0 or where the file says, advances one     *)
(* state at a time, and saves the state it is at.                          *)
THEOREM RunFollowsTrajectory == Spec => FollowsTrajectory
<1>1. Init => Trajectory!Init
  BY DEF Init, Trajectory!Init
<1>2. IInv /\ [Next]_vars => [Trajectory!Next]_(Trajectory!tvars)
  <2> SUFFICES ASSUME IInv, [Next]_vars
               PROVE  Trajectory!Next \/ UNCHANGED <<Live, Saved>>
    BY DEF Trajectory!tvars, Live, Saved
  <2>1. /\ \A v \in Version : v # NoFile
        /\ mem[Root].mf \in Version
        /\ disk.main \in File(Checkpoint)
    BY FileAssumption, Numbers DEF IInv, TypeOK, Memory
  <2>2. ASSUME Quiet PROVE UNCHANGED <<Live, Saved>>
    BY <2>2 DEF Quiet, Live, Saved
  <2>3. ASSUME Restore PROVE Trajectory!Next
    <3>1. Live = 0 /\ Saved # NoFile /\ Live' = Saved /\ Saved' = Saved
      <4>1. disk.main.iter \in Version /\ disk.main # NoFile
        BY <2>1, <2>3, RestoreResumes, Numbers DEF File, Checkpoint
      <4>2. QED
        BY <2>1, <2>3, <4>1, RestoreResumes DEF Live, Saved
    <3>2. QED
      BY <3>1 DEF Trajectory!Next, Trajectory!Resume, Live, Saved
  <2>4. ASSUME Diagonalize(Root) PROVE Trajectory!Next
    <3>1. Live # NoFile /\ Live' = Live + 1 /\ Saved' = Saved
      BY <2>1, <2>4, DiagonalizeAdvances DEF Live, Saved
    <3>2. QED
      BY <3>1 DEF Trajectory!Next, Trajectory!Advance, Live, Saved
  <2>5. ASSUME RenameCheckpoint PROVE Trajectory!Next
    <3>1. disk'.main # NoFile
      BY <2>5, RenameSaves, FileAssumption
    <3>2. Live # NoFile /\ Live # 0 /\ Saved' = Live /\ Live' = Live
      BY <2>1, <2>5, <3>1, RenameSaves DEF Live, Saved
    <3>3. QED
      BY <3>2 DEF Trajectory!Next, Trajectory!Save, Live, Saved
  <2>6. ASSUME NEW resume, NEW limit, NEW ext, Submit(resume, limit, ext)
        PROVE  Trajectory!Next
    <3>1. ~ job.on /\ job'.on /\ mem' = mem /\ disk' = disk
      BY <2>6 DEF Submit
    <3>2. mem[Root].mf = 0
      BY <3>1, Numbers DEF IInv, CallsInv, IdleOK, Launched
    <3>3. Live = NoFile /\ Live' = 0 /\ Saved' = Saved
      BY <3>1, <3>2 DEF Live, Saved
    <3>4. QED
      BY <3>3 DEF Trajectory!Next, Trajectory!Begin, Live, Saved
  <2>7. ASSUME Crash \/ Leave PROVE Trajectory!Next
    <3>1. job.on /\ disk' = disk /\ job' = [job EXCEPT !.on = FALSE, !.limit = 0,
                                                     !.resume = FALSE, !.ext = "none"]
      BY <2>7 DEF Crash, Leave, Gone
    <3>2. ~ job'.on
      BY <3>1 DEF IInv, TypeOK
    <3>3. Live # NoFile /\ Live' = NoFile /\ Saved' = Saved
      BY <2>1, <3>1, <3>2 DEF Live, Saved
    <3>4. QED
      BY <3>3 DEF Trajectory!Next, Trajectory!End, Live, Saved
  <2>8. ASSUME RootStep PROVE Trajectory!Next \/ UNCHANGED <<Live, Saved>>
    BY <2>2, <2>3, <2>5, <2>8, RootIsQuiet
  <2>9. ASSUME NEW r \in Rank, RankStep(r)
        PROVE  Trajectory!Next \/ UNCHANGED <<Live, Saved>>
    BY <2>2, <2>4, <2>9, RankIsQuiet
  <2>10. ASSUME UNCHANGED vars PROVE UNCHANGED <<Live, Saved>>
    BY <2>10 DEF vars, Live, Saved
  <2>11. QED
    BY <2>6, <2>7, <2>8, <2>9, <2>10 DEF Next, JobStep
<1>3. QED
  BY <1>1, <1>2, Inductive, PTL DEF Spec, FollowsTrajectory, Trajectory!Spec
=============================================================================
