------------------------ MODULE EigvecRedistribution ------------------------
(***************************************************************************)
(* Moving the SCF wave functions from where the host program set them to   *)
(* where LibRPA computes with them (api/dataset.cpp, core/meanfield_mpi).  *)
(* A dense matrix of each k-point goes to the root of the team of          *)
(* processes that owns the k-point; the two-dimensional redistribution     *)
(* then spreads it over that team.  Each process walks through the         *)
(* k-points on its own, joined by allreduces and by point-to-point sends   *)
(* of several chunks.  A call may throw, and may be repeated.              *)
(***************************************************************************)
EXTENDS Naturals, Sequences, FiniteSets

CONSTANTS Rank,
          Reads,       \* <<r, k>>: process r may be given k-point k
          NKpoint,
          Root,        \* Root[k]: kpoint_blacs_root_global_rank(k)
          Team,        \* Team[k]: the processes of the k-group that owns k
          NChunk,      \* chunks a matrix is sent in
          MaxBuffer,   \* bound: chunks MPI may take before they are received
          MaxSet,      \* bound: calls of librpa_set_wfc
          MaxCall      \* bound: redistributions, those that throw included

Kpoint == 1 .. NKpoint

ASSUME TeamAssumption ==
  /\ IsFiniteSet(Rank)
  /\ {NKpoint, NChunk} \subseteq Nat \ {0}
  /\ {MaxBuffer, MaxSet, MaxCall} \subseteq Nat
  /\ Root \in [Kpoint -> Rank] /\ Team \in [Kpoint -> SUBSET Rank]
  /\ Reads \subseteq Rank \X Kpoint
  /\ \A k \in Kpoint : Root[k] \in Team[k]
  /\ \A j, k \in Kpoint : Team[j] = Team[k] \/ Team[j] \cap Team[k] = {}

VARIABLES held,     \* mf.get_eigenvectors() of each process
          newest,   \* the latest version set of each k-point, by anyone
          sets,
          script,   \* the calls the host makes, the same on every process
          results,  \* how the calls of each process ended
          at, now,  \* where a process is, and at which k-point
          chan,     \* chunks sent and not yet received, per pair
          buffer,   \* how many of them do not block the sender
          sent, part,   \* chunks sent, and received, of the present matrix
          peer,     \* source_rank, as the root of the team remembers it
          packed,   \* wfc_dst of each process
          moved, spread \* eigvecs_kpara_redistributed_, ..._2d_...

vars == <<held, newest, sets, script, results, at, now, chan, buffer, sent,
          part, peer, packed, moved, spread>>
wires == <<chan, sent, part, peer>>

Copy   == [form: {"dense", "odd", "block"}, of: Kpoint, version: 1 .. MaxSet]
NoCopy == [form |-> "none", of |-> 0, version |-> 0]

Mine(r) == {k \in Kpoint : r \in Team[k]}

Init ==
  /\ held = [r \in Rank |-> [k \in Kpoint |-> NoCopy]]
  /\ newest = [k \in Kpoint |-> 0] /\ sets = 0
  /\ script = <<>> /\ results = [r \in Rank |-> <<>>]
  /\ at = [r \in Rank |-> "host"] /\ now = [r \in Rank |-> 1]
  /\ chan = [s \in Rank |-> [d \in Rank |-> <<>>]] /\ buffer \in 0 .. MaxBuffer
  /\ sent = [r \in Rank |-> 0] /\ part = [r \in Rank |-> <<>>]
  /\ peer = [r \in Rank |-> r]
  /\ packed = [r \in Rank |-> [k \in Kpoint |-> NoCopy]]
  /\ moved = [r \in Rank |-> FALSE] /\ spread = [r \in Rank |-> FALSE]
-----------------------------------------------------------------------------
(* librpa_set_wfc, with a matrix of the right shape or not, on any process *)
(* that is not computing.  Input precedes the move it is for.              *)
SetWfc(r, k, form) ==
  /\ at[r] = "host" /\ ~ moved[r] /\ sets < MaxSet
  /\ sets' = sets + 1
  /\ held' = [held EXCEPT ![r][k] = [form |-> form, of |-> k, version |-> sets']]
  /\ newest' = [newest EXCEPT ![k] = sets']
  /\ UNCHANGED <<script, results, at, now, wires, buffer, packed, moved, spread>>

Leave(ranks, result) ==
  /\ at' = [r \in Rank |-> IF r \in ranks THEN "host" ELSE at[r]]
  /\ results' = [r \in Rank |-> IF r \in ranks THEN Append(results[r], result)
                                               ELSE results[r]]

(* redistribute_eigvecs_kpara or ..._2d: each returns at once if its own   *)
(* flag is set.                                                            *)
Call(r, op) ==
  LET n == Len(results[r]) + 1
  IN /\ at[r] = "host" /\ n <= MaxCall
     /\ IF n <= Len(script) THEN op = script[n] /\ UNCHANGED script
                            ELSE script' = Append(script, op)
     /\ IF IF op = "2d" THEN spread[r] ELSE moved[r]
          THEN Leave({r}, "ok") /\ UNCHANGED now
          ELSE /\ at' = [at EXCEPT ![r] = "meet"]
               /\ now' = [now EXCEPT ![r] = 1]
               /\ UNCHANGED results
     /\ UNCHANGED <<held, newest, sets, wires, buffer, packed, moved, spread>>

Onward(r) == IF now[r] < NKpoint THEN "meet" ELSE "total"

Owners(k) == {r \in Rank : held[r][k] # NoCopy}

(* Mutant: the shape is not looked at. *)
MovableInAnyShape(k) == Cardinality(Owners(k)) = 1

(* One owner, and a matrix of the right shape. *)
Movable(k) ==
  /\ Cardinality(Owners(k)) = 1
  /\ \A r \in Owners(k) : held[r][k].form = "dense"

(* Mutant: only the processes without the matrix throw; its owners skip it.*)
MeetThrowingApart(k) ==
  /\ \A r \in Rank : at[r] = "meet" /\ now[r] = k
  /\ Leave(Rank \ Owners(k), "error")
  /\ now' = [r \in Rank |-> IF r \in Owners(k) THEN k + 1 ELSE k]
  /\ UNCHANGED <<held, newest, sets, script, wires, buffer, packed, moved, spread>>

(* The allreduces over the owners, the shapes and the source, between      *)
(* which no process does anything: all processes learn the same, and throw *)
(* or go on together, the source and the root of the team to the transfer. *)
Meet(k) ==
  /\ \A r \in Rank : at[r] = "meet" /\ now[r] = k
  /\ IF Movable(k)
       THEN LET source == CHOOSE r \in Owners(k) : TRUE
                Next(r) == IF source = Root[k] \/ r \notin {source, Root[k]}
                             THEN Onward(r)
                           ELSE IF r = source THEN "send" ELSE "recv"
            IN /\ at' = [r \in Rank |-> Next(r)]
               /\ now' = [r \in Rank |-> IF Next(r) \in {"meet", "total"}
                                           THEN k + 1 ELSE k]
               /\ sent' = [r \in Rank |-> 0] /\ part' = [r \in Rank |-> <<>>]
               /\ peer' = [peer EXCEPT ![Root[k]] = source]
               /\ UNCHANGED results
       ELSE Leave(Rank, "error") /\ UNCHANGED <<now, sent, part, peer>>
  /\ UNCHANGED <<held, newest, sets, script, chan, buffer, packed, moved, spread>>

(* MPI_Send of the next chunk: it is on its way to the root.               *)
Send(r) ==
  LET k == now[r]
  IN /\ at[r] = "send" /\ sent[r] < NChunk
     /\ Len(chan[r][Root[k]]) <= buffer
     /\ sent' = [sent EXCEPT ![r] = @ + 1]
     /\ chan' = [chan EXCEPT ![r][Root[k]] =
                   Append(@, [copy |-> held[r][k], chunk |-> sent'[r]])]
     /\ UNCHANGED <<held, newest, sets, script, results, at, now, buffer, part,
                    peer, packed, moved, spread>>

(* Mutant: the copy that was sent stays. *)
SentButKept(r) ==
  /\ at[r] = "send" /\ sent[r] = NChunk
  /\ Len(chan[r][Root[now[r]]]) <= buffer
  /\ at' = [at EXCEPT ![r] = Onward(r)] /\ now' = [now EXCEPT ![r] = @ + 1]
  /\ UNCHANGED <<held, newest, sets, script, results, wires, buffer, packed,
                 moved, spread>>

(* The last send returned: erase_wfc. *)
Sent(r) ==
  /\ at[r] = "send" /\ sent[r] = NChunk
  /\ Len(chan[r][Root[now[r]]]) <= buffer
  /\ held' = [held EXCEPT ![r][now[r]] = NoCopy]
  /\ at' = [at EXCEPT ![r] = Onward(r)] /\ now' = [now EXCEPT ![r] = @ + 1]
  /\ UNCHANGED <<newest, sets, script, results, wires, buffer, packed, moved,
                 spread>>

(* Mutant: stored as soon as the first chunk is there. *)
ReceiveOne(r) ==
  /\ at[r] = "recv" /\ chan[peer[r]][r] # <<>>
  /\ chan' = [chan EXCEPT ![peer[r]][r] = Tail(@)]
  /\ part' = [part EXCEPT ![r] = Append(@, Head(chan[peer[r]][r]))]
  /\ held' = [held EXCEPT ![r][now[r]] = part'[r][1].copy]
  /\ at' = [at EXCEPT ![r] = Onward(r)] /\ now' = [now EXCEPT ![r] = @ + 1]
  /\ UNCHANGED <<newest, sets, script, results, buffer, sent, peer, packed,
                 moved, spread>>

(* MPI_Recv of the next chunk from the source; the last one completes the  *)
(* matrix, which is stored under the k-point this process is at.  The      *)
(* chunks of two matrices would make garbage: a copy of no k-point.        *)
Receive(r) ==
  LET whole == /\ Len(part'[r]) = NChunk
               /\ \A c \in 1 .. NChunk : part'[r][c] =
                                         [copy |-> part'[r][1].copy, chunk |-> c]
  IN /\ at[r] = "recv" /\ chan[peer[r]][r] # <<>>
     /\ chan' = [chan EXCEPT ![peer[r]][r] = Tail(@)]
     /\ part' = [part EXCEPT ![r] = Append(@, Head(chan[peer[r]][r]))]
     /\ IF Len(part'[r]) < NChunk
          THEN UNCHANGED <<held, at, now>>
          ELSE /\ held' = [held EXCEPT ![r][now[r]] =
                              IF whole THEN part'[r][1].copy
                                       ELSE [NoCopy EXCEPT !.form = "dense"]]
               /\ at' = [at EXCEPT ![r] = Onward(r)]
               /\ now' = [now EXCEPT ![r] = @ + 1]
     /\ UNCHANGED <<newest, sets, script, results, buffer, sent, peer, packed,
                    moved, spread>>

Dense(r) == script[Len(results[r]) + 1] = "dense"

NextMine(r, k) ==
  IF \E j \in Mine(r) : j > k
    THEN CHOOSE j \in Mine(r) : j > k /\ \A i \in Mine(r) : i > k => j <= i
    ELSE NKpoint + 1

(* The allreduce that counts the moves ends the first part; the dense      *)
(* redistribution raises its flag and returns.                             *)
Total ==
  /\ \A r \in Rank : at[r] = "total"
  /\ moved' = [r \in Rank |-> moved[r] \/ Dense(r)]
  /\ at' = [r \in Rank |-> IF Dense(r) THEN "host"
                            ELSE IF Mine(r) = {} THEN "swap" ELSE "pack"]
  /\ results' = [r \in Rank |-> IF Dense(r) THEN Append(results[r], "ok")
                                             ELSE results[r]]
  /\ now' = [r \in Rank |-> NextMine(r, 0)]
  /\ packed' = [r \in Rank |-> [k \in Kpoint |-> NoCopy]]
  /\ UNCHANGED <<held, newest, sets, script, wires, buffer, spread>>

(* The root must hold the dense matrix and nobody else in the team any.    *)
Packable(k) ==
  \A r \in Team[k] : IF r = Root[k] THEN held[r][k].form = "dense"
                                     ELSE held[r][k] = NoCopy

(* Mutant: processes of other teams make an entry as well. *)
PackEverywhere(k) ==
  /\ \A r \in Team[k] : at[r] = "pack" /\ now[r] = k
  /\ packed' = [r \in Rank |->
        [packed[r] EXCEPT ![k] = [held[Root[k]][k] EXCEPT !.form = "block"]]]
  /\ now' = [r \in Rank |-> IF r \in Team[k] THEN NextMine(r, k) ELSE now[r]]
  /\ at' = [r \in Rank |-> IF r \in Team[k] /\ now'[r] > NKpoint
                              THEN "swap" ELSE at[r]]
  /\ UNCHANGED <<results, held, newest, sets, script, wires, buffer, moved, spread>>

(* redistribute_meanfield_eigvecs_kblacs, one k-point: the team checks its *)
(* blocks and spreads the matrix, or throws; other teams do not learn.     *)
Pack(k) ==
  /\ \A r \in Team[k] : at[r] = "pack" /\ now[r] = k
  /\ IF Packable(k)
       THEN /\ packed' = [r \in Rank |-> IF r \in Team[k]
                 THEN [packed[r] EXCEPT ![k] = [held[Root[k]][k] EXCEPT !.form = "block"]]
                 ELSE packed[r]]
            /\ now' = [r \in Rank |-> IF r \in Team[k] THEN NextMine(r, k) ELSE now[r]]
            /\ at' = [r \in Rank |-> IF r \in Team[k] /\ now'[r] > NKpoint
                                        THEN "swap" ELSE at[r]]
            /\ UNCHANGED results
       ELSE Leave(Team[k], "error") /\ UNCHANGED <<packed, now>>
  /\ UNCHANGED <<held, newest, sets, script, wires, buffer, moved, spread>>

(* All blocks are there: the maps are swapped and both flags raised.       *)
Swap(r) ==
  /\ at[r] = "swap"
  /\ held' = [held EXCEPT ![r] = packed[r]]
  /\ moved' = [moved EXCEPT ![r] = TRUE]
  /\ spread' = [spread EXCEPT ![r] = TRUE]
  /\ Leave({r}, "ok")
  /\ UNCHANGED <<newest, sets, script, now, wires, buffer, packed>>

(* The host has made its last call; any other state without a successor is *)
(* a hang.                                                                 *)
Ended ==
  /\ \A r \in Rank : at[r] = "host" /\ Len(results[r]) = MaxCall
  /\ UNCHANGED vars

Work(r) == Send(r) \/ Sent(r) \/ Receive(r) \/ Swap(r)
Joint   == Total \/ \E k \in Kpoint : Meet(k) \/ Pack(k)

Next ==
  \/ \E rk \in Reads, form \in {"dense", "odd"} : SetWfc(rk[1], rk[2], form)
  \/ \E r \in Rank, op \in {"dense", "2d"} : Call(r, op)
  \/ \E r \in Rank : Work(r)
  \/ Joint
  \/ Ended

Spec == Init /\ [][Next]_vars

Follow(r) == Len(results[r]) < Len(script) /\ \E op \in {"dense", "2d"} : Call(r, op)

(* As long as a process can make a call that another has made, go on with  *)
(* its part of one, or return from a collective that all have entered,     *)
(* one of them does.  More is not needed: every call has finitely many     *)
(* steps.                                                                  *)
Fairness == WF_vars(Joint \/ \E r \in Rank : Follow(r) \/ Work(r))

FairSpec == Spec /\ Fairness
-----------------------------------------------------------------------------
Chunk == [copy: Copy, chunk: 1 .. NChunk]

(* Types; and what has been packed and not yet swapped in are blocks of    *)
(* this process's own k-points.                                            *)
TypeOK ==
  /\ {held, packed} \subseteq [Rank -> [Kpoint -> Copy \cup {NoCopy}]]
  /\ \A r \in Rank, k \in Kpoint :
       packed[r][k] # NoCopy => packed[r][k].form = "block" /\ k \in Mine(r)
  /\ newest \in [Kpoint -> 0 .. MaxSet] /\ sets \in 0 .. MaxSet
  /\ script \in Seq({"dense", "2d"}) /\ results \in [Rank -> Seq({"ok", "error"})]
  /\ \A r \in Rank : Len(results[r]) <= Len(script)
  /\ at \in [Rank -> {"host", "meet", "send", "recv", "total", "pack", "swap"}]
  /\ now \in [Rank -> 1 .. NKpoint + 1]
  /\ chan \in [Rank -> [Rank -> Seq(Chunk)]] /\ buffer \in 0 .. MaxBuffer
  /\ sent \in [Rank -> 0 .. NChunk] /\ part \in [Rank -> Seq(Chunk)]
  /\ peer \in [Rank -> Rank]
  /\ {moved, spread} \subseteq [Rank -> BOOLEAN]

(* A call ends the same way on every process: nobody goes on with wave     *)
(* functions that another process could not move or spread.                *)
OneVerdict ==
  \A r, s \in Rank :
    \A i \in DOMAIN results[r] \cap DOMAIN results[s] : results[r][i] = results[s][i]

InFlight(k) ==
  \E s, r \in Rank :
    \/ \E i \in DOMAIN chan[s][r] : chan[s][r][i].copy.of = k
    \/ at[r] = "recv" /\ now[r] = k /\ part[r] # <<>>

(* A matrix that was set is somewhere at every moment, on a process or on  *)
(* its way, whatever other k-point a call failed over; and what a process  *)
(* keeps under a k-point was put together from chunks of that k-point,     *)
(* however far the sender ran ahead.                                       *)
NothingLost ==
  \A k \in Kpoint :
    /\ newest[k] # 0 =>
         InFlight(k) \/ \E r \in Rank : held[r][k].version = newest[k]
    /\ \A r \in Rank : held[r][k] # NoCopy => held[r][k].of = k

(* When a redistribution has returned on a process, that process holds     *)
(* what the layout wants and nothing else: the latest matrices of the      *)
(* k-points it is the root of, or blocks of all the k-points of its team.  *)
ReadyIsComplete ==
  \A r \in Rank, k \in Kpoint :
    LET expected == IF spread[r] THEN k \in Mine(r) ELSE r = Root[k]
        layout   == IF spread[r] THEN "block" ELSE "dense"
    IN moved[r] \/ spread[r] =>
         held[r][k] = IF expected
                        THEN [form |-> layout, of |-> k, version |-> newest[k]]
                        ELSE NoCopy

(* No process is left behind in a call the others have returned from: in   *)
(* the end all have made the same calls and all are out of them.           *)
CallsReturn ==
  []<> \A r \in Rank : at[r] = "host" /\ Len(results[r]) = Len(script)
=============================================================================
