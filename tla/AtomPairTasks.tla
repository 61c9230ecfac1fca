---------------------------- MODULE AtomPairTasks ----------------------------
(***************************************************************************)
(* Which process works on which atom pair, and which process holds which   *)
(* block of the Coulomb matrices (api/dataset_helper.cpp, api/dataset.cpp).*)
(* Each compute call lets every process choose its pairs, exchanges the    *)
(* lists, and, the first time, moves the Coulomb matrices from their input *)
(* layout to the processes that chose the pairs.  Later calls find the     *)
(* matrices where that first call put them.                                *)
(***************************************************************************)
EXTENDS Dispatch

CONSTANTS MaxRow, MaxCol,  \* bounds: shape of the process grid
          MaxAtom,         \* bound: number of atoms
          MaxCall          \* bound: compute calls

ASSUME GridAssumption ==
  {MaxRow, MaxCol, MaxAtom, MaxCall} \subseteq Nat \ {0}

Matrix  == {"bare", "cut"}
Routing == {"rtau", "atompair", "libri"}

(* The routings under which the pairs are shared out. *)
Triangular(routing) == routing \in {"atompair", "libri"}

VARIABLES grid,    \* shape of the process grid: rows and cols
          natom,
          given,   \* the matrices set by the host program
          local,   \* atpairs_local of each process
          book,    \* atpairs_unique_all of each process
          held,    \* blocks vq and vq_cut of each process
          done,    \* coul_blacs2ap_redistributed_
          calls    \* the routings of the compute calls so far

vars == <<grid, natom, given, local, book, held, done, calls>>

Proc == (0 .. grid.rows - 1) \X (0 .. grid.cols - 1)

(* generate_atom_pair_from_nat. *)
Pairs == {pair \in (0 .. natom - 1) \X (0 .. natom - 1) : pair[1] <= pair[2]}

Assigned(routing, p) ==
  IF Triangular(routing) THEN UpperTasks(natom, grid.rows, grid.cols, p[1], p[2])
                         ELSE BlockPairs(natom, 1, 1, 0, 0)
-----------------------------------------------------------------------------
Init ==
  /\ grid \in [rows: 1 .. MaxRow, cols: 1 .. MaxCol]
  /\ natom \in 1 .. MaxAtom
  /\ given = {} /\ done = FALSE /\ calls = <<>>
  /\ local = [p \in Proc |-> <<>>]
  /\ book = [p \in Proc |-> <<>>]
  /\ held = [m \in Matrix |-> [p \in Proc |-> {}]]

(* The input is complete before the first computation. *)
Give(m) ==
  /\ calls = <<>> /\ m \notin given
  /\ given' = given \cup {m}
  /\ UNCHANGED <<grid, natom, local, book, held, done, calls>>

(* Mutant: a process fills in its own entry only. *)
NoteOwn(lists) ==
  [p \in Proc |-> IF book[p] = <<>> THEN [q \in Proc |->
                     IF q = p THEN Entries(lists[q]) ELSE {}] ELSE book[p]]

(* collect_atpairs_all.  An entry that exists is kept: emplace. *)
Note(lists) ==
  [p \in Proc |-> [q \in Proc |->
     IF q \in DOMAIN book[p] THEN book[p][q] ELSE Entries(lists[q])]]

(* Mutant: with the book from before the call. *)
MovedByOldBook(known) ==
  [m \in Matrix |-> [p \in Proc |->
     {pair \in Pairs : m \in given /\ \A q \in Proc :
                         p \in DOMAIN book[q] /\ pair \in book[q][p]}]]

(* redistribute_coulomb_blacs2ap.  Every process holds a part of each      *)
(* block; one arrives at p if all of them have it in their entry for p.    *)
Moved(known) ==
  [m \in Matrix |-> [p \in Proc |->
     {pair \in Pairs : m \in given /\ \A q \in Proc : pair \in known[q][p]}]]

(* What build_exx, build_g0w0_sigma and get_rpa_correlation_energy do      *)
(* first.  All processes call it with the same options.                    *)
Prepare(routing) ==
  LET move == ~ done /\ given # {}
  IN /\ Len(calls) < MaxCall
     /\ calls' = Append(calls, routing)
     /\ local' = [p \in Proc |-> Assigned(routing, p)]
     /\ book' = Note(local')
     /\ held' = IF move THEN Moved(book') ELSE held
     /\ done' = (done \/ move)
     /\ UNCHANGED <<grid, natom, given>>

Next == \/ \E m \in Matrix : Give(m)
        \/ \E routing \in Routing : Prepare(routing)

Spec == Init /\ [][Next]_vars
-----------------------------------------------------------------------------
NoRepeats(s) == \A i, j \in DOMAIN s : s[i] = s[j] => i = j

(* The lists hold pairs of this system, each at most once, and the blocks  *)
(* a process holds are among them.                                         *)
TypeOK ==
  /\ \A p \in Proc :
       /\ Entries(local[p]) \subseteq Pairs
       /\ NoRepeats(local[p])
       /\ book[p] = <<>> \/ book[p] \in [Proc -> SUBSET Pairs]
  /\ held \in [Matrix -> [Proc -> SUBSET Pairs]]
  /\ given \subseteq Matrix /\ done \in BOOLEAN /\ calls \in Seq(Routing)

LastIsTriangular == calls # <<>> /\ Triangular(calls[Len(calls)])

(* Under a triangular routing the processes share the pairs out between    *)
(* them: no pair is left out and none is worked on twice, on any grid, for *)
(* any number of atoms, although no process knows what the others took.    *)
PairsSharedOut ==
  LastIsTriangular =>
    /\ UNION {Entries(local[p]) : p \in Proc} = Pairs
    /\ \A p, q \in Proc :
         p # q => Entries(local[p]) \cap Entries(local[q]) = {}

(* The move loses nothing: afterwards every block of every matrix that was *)
(* given is on some process, and, if the pairs were shared out, on one.    *)
InputSurvives ==
  done => \A m \in given :
    /\ UNION {held[m][p] : p \in Proc} = Pairs
    /\ Triangular(Head(calls)) =>
         \A p, q \in Proc : p # q => held[m][p] \cap held[m][q] = {}

(* As long as the program stays with triangular or with replicated         *)
(* routings, a process holds the blocks of all pairs it works on, in later *)
(* calls as well, where nothing is moved again.                            *)
HoldsWhatItNeeds ==
  /\ calls # <<>>
  /\ \A i \in DOMAIN calls : Triangular(calls[i]) = Triangular(Head(calls))
  => \A m \in given, p \in Proc : Entries(local[p]) \subseteq held[m][p]
=============================================================================
