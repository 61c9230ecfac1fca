---------------------------- MODULE IndexSchedule ----------------------------
(***************************************************************************)
(* Converting a distributed matrix between atom-pair blocks and ScaLAPACK  *)
(* pieces: IndexScheduler (core/utils_atomic_basis_blacs) works out on each*)
(* process, without a message, which elements it exchanges with which other*)
(* one; fill_local_mat_from_ap_dist_scheduler and its inverse              *)
(* fill_ap_map_from_blacs_dist_scheduler (math/utils_matrix_m_mpi.h) move  *)
(* bare numbers in that order.  Nothing but the order says what a number   *)
(* is, every message has tag 0, and a process does not wait for the others *)
(* before its next conversion.                                             *)
(***************************************************************************)
EXTENDS BlockCyclic

CONSTANTS Layout,   \* set of [d: descriptor, owners: maps from pair to process]
          Script,   \* what the callers do, in order: sequences of [op, owners]
          Nobody    \* no process has blocks of the pair

ASSUME LayoutAssumption ==
  \A l \in Layout :
    /\ l.d \in Descriptor /\ SourceInGrid(l.d)
    /\ Nobody \notin Procs(l.d)
    /\ \A o \in DOMAIN l.owners :
         l.owners[o] \in [Pairs(l.d) -> Procs(l.d) \cup {Nobody}]

(* A conversion is made with the owners of the latest schedule.            *)
ASSUME ScriptAssumption ==
  \A s \in Script :
    /\ s \in Seq([op: {"init", "to blacs", "to ap"},
                   owners: UNION {DOMAIN l.owners : l \in Layout}])
    /\ \A k \in DOMAIN s :
         /\ s[1].op = "init"
         /\ s[k].op # "init" => s[k].owners = s[k - 1].owners
         /\ \A l \in Layout : s[k].owners \in DOMAIN l.owners

VARIABLES layout, script,  \* chosen once
          eager,           \* a send completes before its receive is posted
          sched,           \* the IndexScheduler of each process
          done,            \* steps of the script a process has ended
          waiting,         \* it is in MPI_Waitall
          local,           \* the arrays it is filling, or has filled
          chan             \* messages sent and not yet received, per pair

vars == <<layout, script, eager, sched, done, waiting, local, chan>>

(* Mutant: both strides come from the row basis. *)
SlotByRows(d, e) ==
  LET IJ == PairOf(d, e)
  IN Flat(d, d.rows[IJ[1]], d.rows[IJ[2]],
          GetLocalIndex(d.rows, e[1]), GetLocalIndex(d.cols, e[2]))

(* The place in the block.  The stride of a column-major block is the size *)
(* of its row atom, which is looked up in the column basis.                *)
SlotInBlock(d, e) ==
  LET IJ == PairOf(d, e)
  IN Flat(d, d.cols[IJ[1]], d.cols[IJ[2]],
          GetLocalIndex(d.rows, e[1]), GetLocalIndex(d.cols, e[2]))

(* An array on a process and a slot in it: its piece, or the block of a    *)
(* pair.  Arrays are given as functions from these to what they hold.      *)
Whole == <<0, 0>>
Pieces(d, p) == [id \in {Whole} \X DOMAIN Piece(d, p) |-> Piece(d, p)[id[2]]]
Blocks(d)    == [id \in UNION {{IJ} \X DOMAIN Block(d, IJ) : IJ \in Pairs(d)} |->
                   Block(d, id[1])[id[2]]]

(* What ArrayDesc and AtomicBasis keep in tables; and for InPlace the      *)
(* places in the pieces by counting.                                       *)
Table(l) ==
  LET d == l.d
      E == {Elements(d)[k] : k \in DOMAIN Elements(d)}
  IN [owners  |-> l.owners,
      order   |-> Elements(d),
      pair    |-> [e \in E |-> PairOf(d, e)],
      holder  |-> [e \in E |-> ProcBlacs(d, e[1], e[2])],
      inPiece |-> [e \in E |-> <<Whole, SlotInPiece(d, ProcBlacs(d, e[1], e[2]), e)>>],
      inBlock |-> [e \in E |-> <<PairOf(d, e), SlotInBlock(d, e)>>],
      piece   |-> [p \in Procs(d) |-> Pieces(d, p)],
      block   |-> Blocks(d),
      counted |-> [e \in E |-> <<Whole, CountedSlot(d, ProcBlacs(d, e[1], e[2]), e)>>]]

Proc == DOMAIN layout.piece
Owner(k) == layout.owners[script[k].owners]

(* The step a process is in or comes to next.                              *)
Now(p) == script[done[p] + 1].op
-----------------------------------------------------------------------------
(* init_impl_: every process walks through all elements in the same order. *)
(* Of each it notes, for the process at the other end, the slot in its     *)
(* piece if it holds the element there, or the pair and the slot in the    *)
(* block if it holds that.  Between are the elements p has in blocks and q *)
(* in its piece, by the tables t.                                          *)
Between(t, p, q, owner) ==
  LET Noted(e) == owner[t.pair[e]] = p /\ t.holder[e] = q
      list[k \in 0 .. Len(t.order)] ==
        IF k = 0 THEN <<>>
        ELSE IF Noted(t.order[k]) THEN Append(list[k - 1], t.order[k])
                                  ELSE list[k - 1]
  IN list[Len(t.order)]

Slots(f, s) == [k \in DOMAIN s |-> f[s[k]]]

(* Mutant: the lists of the last schedule are not cleared. *)
ScheduleMore(p, owner) ==
  [pairs |-> {layout.pair[e] : e \in {e \in DOMAIN layout.pair : owner[layout.pair[e]] = p}},
   blacs |-> [q \in Proc |->
      (IF done[p] = 0 THEN <<>> ELSE sched[p].blacs[q]) \o
      IF q = p THEN <<>> ELSE Slots(layout.inPiece, Between(layout, q, p, owner))],
   ap    |-> [q \in Proc |-> IF q = p THEN <<>>
                ELSE Slots(layout.inBlock, Between(layout, p, q, owner))]]

(* reset, and the lists for the new owners.                                *)
Schedule(p, owner) ==
  [pairs |-> {layout.pair[e] : e \in {e \in DOMAIN layout.pair : owner[layout.pair[e]] = p}},
   blacs |-> [q \in Proc |-> IF q = p THEN <<>>
                ELSE Slots(layout.inPiece, Between(layout, q, p, owner))],
   ap    |-> [q \in Proc |-> IF q = p THEN <<>>
                ELSE Slots(layout.inBlock, Between(layout, p, q, owner))]]

NoSchedule == [pairs |-> {}, blacs |-> <<>>, ap |-> <<>>]

Initialize(p) ==
  /\ ~ waiting[p] /\ done[p] < Len(script) /\ Now(p) = "init"
  /\ sched' = [sched EXCEPT ![p] = Schedule(p, Owner(done[p] + 1))]
  /\ done' = [done EXCEPT ![p] = @ + 1]
  /\ UNCHANGED <<layout, script, eager, waiting, local, chan>>
-----------------------------------------------------------------------------
(* The arrays hold elements of the matrix of the k-th step.                *)
Value(k, e) == <<k, e>>
Zero        == <<0, "zero">>
Unknown     == <<0, "outside">>   \* read beyond the end of an array

Outgoing(p) == IF Now(p) = "to blacs" THEN sched[p].ap ELSE sched[p].blacs
Incoming(p) == IF Now(p) = "to blacs" THEN sched[p].blacs ELSE sched[p].ap

MyBlocks(p) == {id \in DOMAIN layout.block : id[1] \in sched[p].pairs}

(* The message from the slots of a schedule: what the caller has there.    *)
Packed(p, ids) ==
  LET arrays == IF Now(p) = "to blacs" THEN layout.block ELSE layout.piece[p]
  IN [i \in DOMAIN ids |-> IF ids[i] \in DOMAIN arrays
                             THEN Value(done[p] + 1, arrays[ids[i]]) ELSE Unknown]

(* What is here already is copied by index, not by the schedule; the rest  *)
(* of a piece is what the caller has there, the blocks are new.            *)
OwnPart(p) ==
  IF Now(p) = "to blacs"
    THEN [id \in DOMAIN layout.piece[p] |->
            LET e == layout.piece[p][id]
            IN IF layout.pair[e] \in sched[p].pairs THEN Value(done[p] + 1, e) ELSE Zero]
    ELSE [id \in MyBlocks(p) |->
            LET e == layout.block[id]
            IN IF layout.holder[e] = p THEN Value(done[p] + 1, e) ELSE Zero]

(* Copy what stays, post the receives, then the sends.                     *)
Start(p) ==
  /\ ~ waiting[p] /\ done[p] < Len(script) /\ Now(p) # "init"
  /\ local' = [local EXCEPT ![p] = OwnPart(p)]
  /\ chan' = [pq \in DOMAIN chan |->
       IF pq[1] = p /\ Outgoing(p)[pq[2]] # <<>>
         THEN Append(chan[pq], Packed(p, Outgoing(p)[pq[2]]))
         ELSE chan[pq]]
  /\ waiting' = [waiting EXCEPT ![p] = TRUE]
  /\ UNCHANGED <<layout, script, eager, sched, done>>

(* Mutant: a receive is posted only behind the sends. *)
PostedLate(q, k) == done[q] >= k

Posted(q, k) == done[q] >= k \/ (done[q] = k - 1 /\ waiting[q])

(* MPI_Waitall: a message from every process that owes one has come, and   *)
(* the sends are off.                                                      *)
Complete(p) ==
  \A q \in Proc :
    /\ Incoming(p)[q] # <<>> => chan[<<q, p>>] # <<>>
    /\ Outgoing(p)[q] # <<>> => eager \/ Posted(q, done[p] + 1)

(* The slots messages came for, and from where: the i-th number goes to    *)
(* the i-th slot of the list.                                              *)
Arrived(p) ==
  UNION {{<<Incoming(p)[q][i], Head(chan[<<q, p>>])[i]>> :
            i \in DOMAIN Incoming(p)[q] \cap DOMAIN Head(chan[<<q, p>>])} :
         q \in {q \in Proc : Incoming(p)[q] # <<>>}}

Finish(p) ==
  /\ waiting[p] /\ Complete(p)
  /\ local' = [local EXCEPT ![p] =
       [slot \in DOMAIN @ |->
          IF \E a \in Arrived(p) : a[1] = slot
            THEN (CHOOSE a \in Arrived(p) : a[1] = slot)[2] ELSE @[slot]]]
  /\ chan' = [qp \in DOMAIN chan |->
       IF qp[2] = p /\ Incoming(p)[qp[1]] # <<>> THEN Tail(chan[qp]) ELSE chan[qp]]
  /\ done' = [done EXCEPT ![p] = @ + 1]
  /\ waiting' = [waiting EXCEPT ![p] = FALSE]
  /\ UNCHANGED <<layout, script, eager, sched>>
-----------------------------------------------------------------------------
Init ==
  /\ layout \in {Table(l) : l \in Layout} /\ script \in Script /\ eager \in BOOLEAN
  /\ sched = [p \in Proc |-> NoSchedule]
  /\ done = [p \in Proc |-> 0] /\ waiting = [p \in Proc |-> FALSE]
  /\ local = [p \in Proc |-> <<>>]
  /\ chan = [pq \in Proc \X Proc |-> <<>>]

AllDone == \A p \in Proc : done[p] = Len(script)

Next ==
  \/ \E p \in Proc : Initialize(p) \/ Start(p) \/ Finish(p)
  \/ AllDone /\ UNCHANGED vars

Spec == Init /\ [][Next]_vars

(* A process that can go on does; each step ends one of finitely many.     *)
FairSpec == Spec /\ WF_vars(\E p \in Proc : Initialize(p) \/ Start(p) \/ Finish(p))
-----------------------------------------------------------------------------
(* Types; and the lists a process keeps name places its arrays have.       *)
TypeOK ==
  /\ script \in Script /\ eager \in BOOLEAN
  /\ done \in [Proc -> 0 .. Len(script)] /\ waiting \in [Proc -> BOOLEAN]
  /\ DOMAIN chan = Proc \X Proc
  /\ \A p \in Proc : sched[p] # NoSchedule => \A q \in Proc :
       /\ \A i \in DOMAIN sched[p].blacs[q] :
            sched[p].blacs[q][i] \in DOMAIN layout.piece[p]
       /\ \A i \in DOMAIN sched[p].ap[q] : sched[p].ap[q][i] \in MyBlocks(p)

(* When a conversion has returned on a process, each element of its share  *)
(* of the matrix is at its place, from that conversion and no other,       *)
(* however far the other processes are; a piece keeps what it had where    *)
(* nobody has the pair.                                                    *)
InPlace ==
  \A p \in Proc :
    LET k == done[p]
    IN IF waiting[p] \/ k = 0 \/ script[k].op = "init" THEN TRUE
       ELSE IF script[k].op = "to blacs"
         THEN \A e \in DOMAIN layout.holder : layout.holder[e] = p =>
                local[p][layout.counted[e]] =
                  IF Owner(k)[layout.pair[e]] = Nobody THEN Zero ELSE Value(k, e)
         ELSE local[p] = [id \in {id \in DOMAIN layout.block : Owner(k)[id[1]] = p} |->
                            Value(k, layout.block[id])]

(* The message a process takes in MPI_Waitall is the one of this call and  *)
(* as long as its receive; in the end none is left over.                   *)
MessagesMatch ==
  /\ \A p, q \in Proc :
       waiting[p] /\ Incoming(p)[q] # <<>> /\ chan[<<q, p>>] # <<>> =>
         /\ Len(Head(chan[<<q, p>>])) = Len(Incoming(p)[q])
         /\ \A i \in DOMAIN Head(chan[<<q, p>>]) : Head(chan[<<q, p>>])[i][1] = done[p] + 1
  /\ AllDone => \A pq \in DOMAIN chan : chan[pq] = <<>>

(* No process waits in MPI_Waitall for ever, whether MPI buffers or not.   *)
ConversionsEnd == <>AllDone
=============================================================================
