---------------------------- MODULE KpointLayout ----------------------------
(***************************************************************************)
(* KPointBlacsParallelContext (mpi/kpoint_blacs_parallel_context.cpp): the *)
(* processes are cut into groups, each group owns some k-points and works  *)
(* on their matrices together, and lists of other items (lattice vectors)  *)
(* are shared out along the communicators that join the groups.  Every     *)
(* process keeps a context of its own; the contexts are made by collective *)
(* calls, which is why opening and sharing are joint steps.                *)
(***************************************************************************)
EXTENDS Dispatch

CONSTANTS MaxProc,    \* bound: processes in the communicator
          MaxKpoint,  \* bound: number of k-points
          MaxItem,    \* bound: length of a shared list
          MaxRequest, \* bound: explicitly requested outer or inner size
          MaxOpen     \* bound: calls of init

ASSUME LayoutAssumption ==
  {MaxProc, MaxKpoint, MaxItem, MaxRequest, MaxOpen} \subseteq Nat \ {0}

VARIABLES nproc,  \* size of the communicator
          ctx,    \* ctx[r]: the context object of process r
          nitem,  \* length of the list shared last, 0 if none
          aux,    \* aux[r]: what local_aux_indices(nitem) gave to r
          opens   \* how often init was called

vars == <<nproc, ctx, nitem, aux, opens>>

Proc == 0 .. nproc - 1

(* A default constructed context.                                          *)
Blank == [ready |-> FALSE, shape |-> NoShape, group |-> 0, rank |-> 0,
          nk |-> 0, layout |-> "inner", sequential |-> FALSE,
          grid |-> [rows |-> 0, cols |-> 0], mine |-> <<>>]

Init ==
  /\ nproc \in 1 .. MaxProc
  /\ ctx = [r \in Proc |-> Blank]
  /\ nitem = 0 /\ aux = [r \in Proc |-> <<>>]
  /\ opens = 0

(* finalize: an early return for a context that is not initialized.        *)
Finalized(c) == IF c.ready THEN Blank ELSE c

Opened(r, shape, grid, nk, layout, sequential) ==
  LET at == SplitRank(r, shape, layout)
  IN [ready |-> TRUE, shape |-> shape, group |-> at.group, rank |-> at.rank,
      nk |-> nk, layout |-> layout, sequential |-> sequential, grid |-> grid,
      mine |-> Share(nk, at.group, shape.outer, sequential)]

(* init: an earlier layout is given up first; a request that does not fit  *)
(* throws on every process after the settings were stored.                 *)
Open(request, favorSquare, nk, layout, sequential) ==
  /\ opens' = opens + 1
  /\ ctx' =
       IF RequestFits(request, nproc, nk)
         THEN LET shape == ResolvedShape(request, nproc, nk, favorSquare)
                  grid  == ChosenGrid(shape.inner, shape.inner, shape.inner,
                                      TRUE, favorSquare)
              IN [r \in Proc |-> Opened(r, shape, grid, nk, layout, sequential)]
         ELSE [r \in Proc |-> [Finalized(ctx[r]) EXCEPT
                 !.nk = nk, !.layout = layout, !.sequential = sequential]]
  /\ nitem' = 0 /\ aux' = [r \in Proc |-> <<>>]
  /\ UNCHANGED nproc

Finalize ==
  /\ ctx' = [r \in Proc |-> Finalized(ctx[r])]
  /\ nitem' = 0 /\ aux' = [r \in Proc |-> <<>>]
  /\ UNCHANGED <<nproc, opens>>

(* The allgather over comm_kpoint_h: the processes with the inner rank of  *)
(* r, ordered by group, contribute the length of their k-point list.       *)
Weights(r) ==
  [g \in 0 .. ctx[r].shape.outer - 1 |->
     LET q == CHOOSE q \in Proc : ctx[q].group = g /\ ctx[q].rank = ctx[r].rank
     IN Len(ctx[q].mine)]

(* local_aux_indices.                                                      *)
ShareList(n) ==
  /\ \A r \in Proc : ctx[r].ready
  /\ nitem' = n
  /\ aux' = [r \in Proc |-> IF n = 0 THEN <<>>
                            ELSE BalancedShare(n, Weights(r), ctx[r].group)]
  /\ UNCHANGED <<nproc, ctx, opens>>

Next ==
  \/ opens < MaxOpen /\
     \E outer, inner \in 0 .. MaxRequest, favorSquare, sequential \in BOOLEAN,
        nk \in 0 .. MaxKpoint, layout \in {"inner", "outer"} :
       Open([outer |-> outer, inner |-> inner], favorSquare, nk, layout, sequential)
  \/ Finalize
  \/ \E n \in 0 .. MaxItem : ShareList(n)

Spec == Init /\ [][Next]_vars
-----------------------------------------------------------------------------
Nobody == -1   \* the query throws

(* The searches go through the groups from 0 up. *)
First(groups) ==
  IF groups = {} THEN Nobody
  ELSE CHOOSE g \in groups : \A h \in groups : g <= h

(* kpoint_owner, which does not ask whether the context is initialized.    *)
KpointOwner(r, k) ==
  LET c == ctx[r]
  IN First({g \in 0 .. c.shape.outer - 1 :
              k \in Entries(Share(c.nk, g, c.shape.outer, c.sequential))})

(* aux_index_owner, itself collective over comm_kpoint_h.                  *)
AuxOwner(r, i) ==
  First({g \in 0 .. ctx[r].shape.outer - 1 :
           i \in Entries(BalancedShare(nitem, Weights(r), g))})

(* kpoint_blacs_root_global_rank.                                          *)
RootOf(r, k) == GlobalRank(ctx[r].shape, ctx[r].layout, KpointOwner(r, k), 0)

Ready == \A r \in Proc : ctx[r].ready
Kpoints == 0 .. ctx[0].nk - 1
-----------------------------------------------------------------------------
(* Every context is of its type, its group and rank inside its shape.      *)
(* (What a process may find in aux is part of ListPartitioned.)            *)
TypeOK ==
  /\ nproc \in 1 .. MaxProc /\ nitem \in 0 .. MaxItem /\ opens \in 0 .. MaxOpen
  /\ \A r \in Proc :
       LET c == ctx[r]
       IN /\ c.ready => /\ c.group \in 0 .. c.shape.outer - 1
                        /\ c.rank \in 0 .. c.shape.inner - 1
                        /\ c.shape.outer * c.shape.inner = nproc
                        /\ c.grid.rows * c.grid.cols = c.shape.inner
          /\ c.mine \in Seq(Nat)

(* Whatever shape, layout and distribution were asked for, every k-point   *)
(* is held by exactly one group, as all the members of that group see it;  *)
(* and no group is left without one, for which every later sharing of a    *)
(* list would throw (a weight of zero).                                    *)
KpointsPartitioned ==
  Ready =>
    /\ \A k \in Kpoints :
         \E g \in 0 .. ctx[0].shape.outer - 1 : \A r \in Proc :
           ctx[r].group = g <=> k \in Entries(ctx[r].mine)
    /\ \A r \in Proc : Len(ctx[r].mine) > 0

(* The process that receives a k-point's wave functions holds the k-point  *)
(* and is rank 0 of its group's BLACS communicator.                        *)
RootHolds ==
  Ready => \A k \in Kpoints : \A r \in Proc :
    LET root == RootOf(r, k)
    IN root \in Proc /\ ctx[root].rank = 0 /\ k \in Entries(ctx[root].mine)

(* A shared list is divided among the groups without gap or overlap, each  *)
(* process of a group has the same part, and the owner query finds it.     *)
ListPartitioned ==
  Ready =>
    /\ \A r \in Proc : aux[r] \in Seq(0 .. nitem - 1)
    /\ \A i \in 0 .. nitem - 1, r, q \in Proc :
         /\ AuxOwner(r, i) # Nobody
         /\ i \in Entries(aux[q]) <=> AuxOwner(r, i) = ctx[q].group
=============================================================================
