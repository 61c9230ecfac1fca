---------------------- MODULE EigvecRedistributionProofs ----------------------
(***************************************************************************)
(* Proofs about EigvecRedistribution for any processes, teams, k-points,   *)
(* chunks and buffering: a call ends the same way everywhere, no matrix is *)
(* lost, and what a call leaves behind is complete.                        *)
(*                                                                         *)
(* The argument has three parts.  The processes walk through the k-points  *)
(* in step, with at most one matrix under way at a time (WalkInv,          *)
(* WireInv).  What they have walked past is at home (HomeInv), so that the *)
(* second phase, whose error no other team would learn of, never fails     *)
(* (SpreadInv).  And a process can be ahead of another one only by calls   *)
(* that have nothing left to do (CallInv).                                 *)
(***************************************************************************)
EXTENDS EigvecRedistribution, FiniteSetTheorems, SequenceTheorems,
        NaturalsInduction, WellFoundedInduction, TLAPS

Met(r) == Len(results[r])

Walking   == {"meet", "send", "recv", "total"}
Spreading == {"pack", "swap"}

(* The latest matrix of k as it was set, and the blocks made of it. *)
Newest(k) == [form |-> "dense", of |-> k, version |-> newest[k]]
Block(k)  == [form |-> "block", of |-> k, version |-> newest[k]]

(* What process r holds of k between the two phases, and after both. *)
AtHome(r, k) == IF r = Root[k] THEN Newest(k) ELSE NoCopy
Blocks(r, k) == IF k \in Mine(r) THEN Block(k) ELSE NoCopy

(* The first phase is over for r, for good. *)
Arrived(r) == moved[r] \/ at[r] \in Spreading
-----------------------------------------------------------------------------
(* The flags go up together, up to the processes that are still in the     *)
(* second phase.                                                           *)
FlagInv ==
  /\ \A r \in Rank : spread[r] => moved[r] /\ at[r] = "host"
  /\ \A r, q \in Rank : Arrived(r) => Arrived(q)
  /\ \A r, q \in Rank : at[r] \in Spreading \/ spread[r] => at[q] \in Spreading \/ spread[q]

(* Processes inside a call are inside the same one, and one that is ahead  *)
(* of another has made calls that returned at once.                        *)
SameCall ==
  /\ \A r \in Rank : at[r] # "host" =>
       /\ Met(r) < Len(script)
       /\ script[Met(r) + 1] = "2d" \/ (~ moved[r] /\ at[r] \notin Spreading)
  /\ \A r, q \in Rank : at[r] # "host" /\ at[q] # "host" => Met(r) = Met(q)

NothingLeftToDo ==
  \A r, q \in Rank : \A i \in Met(q) + 1 .. Met(r) :
    /\ results[r][i] = "ok" /\ moved[r]
    /\ spread[r] \/ script[i] = "dense"

CallInv == SameCall /\ NothingLeftToDo
-----------------------------------------------------------------------------
(* All but the two ends of a transfer are one k-point further. *)
WalkInv ==
  /\ \A r \in Rank : /\ at[r] \in {"meet", "send", "recv"} => now[r] \in Kpoint
                     /\ at[r] = "total" => now[r] = NKpoint + 1
                     /\ at[r] \in {"send", "recv"} => ~ moved[r]
  /\ \A r, q \in Rank : at[r] \in {"send", "recv"} =>
       \/ at[q] \in {"send", "recv"} /\ now[q] = now[r]
       \/ at[q] \in {"meet", "total"} /\ now[q] = now[r] + 1
  /\ \A r, q \in Rank : at[r] \in {"meet", "total"} /\ now[r] > 1 =>
       \/ at[q] \in {"send", "recv"} /\ now[q] + 1 = now[r]
       \/ at[q] \in {"meet", "total"} /\ now[q] = now[r]

(* The source is done with k, or is sending and still holds it. *)
SourceFits(s, k) ==
  \/ at[s] = "send" /\ now[s] = k /\ held[s][k] = Newest(k)
  \/ /\ at[s] \in {"meet", "total"} /\ now[s] = k + 1
     /\ sent[s] = NChunk /\ held[s][k] = NoCopy

(* Process d receives k from s: what has arrived and what is on its way    *)
(* are the chunks sent, in order, of the one matrix there is.              *)
Carried(s, d, k) ==
  /\ s # d /\ d = Root[k]
  /\ Len(part[d]) < NChunk /\ sent[s] = Len(part[d]) + Len(chan[s][d])
  /\ \A c \in 1 .. Len(part[d]) : part[d][c] = [copy |-> Newest(k), chunk |-> c]
  /\ \A c \in 1 .. Len(chan[s][d]) :
       chan[s][d][c] = [copy |-> Newest(k), chunk |-> Len(part[d]) + c]
  /\ \A q \in Rank : q # s => held[q][k] = NoCopy
  /\ SourceFits(s, k)

(* The matrix of k has arrived at d, and s has yet to return from its last *)
(* send and to erase its copy.                                             *)
Delivered(s, d, k) ==
  /\ at[d] \in {"meet", "total"} /\ now[d] = k + 1
  /\ sent[s] = NChunk
  /\ \A q \in Rank : held[q][k] = IF q \in {s, d} THEN Newest(k) ELSE NoCopy

WireInv ==
  /\ \A d \in Rank : at[d] = "recv" => Carried(peer[d], d, now[d])
  /\ \A s \in Rank : at[s] = "send" => LET d == Root[now[s]] IN
       /\ s # d /\ peer[d] = s
       /\ (at[d] = "recv" /\ now[d] = now[s]) \/ Delivered(s, d, now[s])
  /\ \A s, d \in Rank : chan[s][d] # <<>> => at[d] = "recv" /\ peer[d] = s
-----------------------------------------------------------------------------
Received(k) == \E d \in Rank : at[d] = "recv" /\ now[d] = k
UnderWay(k) == \E d \in Rank : at[d] \in {"send", "recv"} /\ now[d] = k

(* A set matrix is held or being received, and is kept under its k-point;  *)
(* behind the processes each k-point is at home.                           *)
HomeInv ==
  /\ \A r \in Rank, k \in Kpoint : held[r][k] # NoCopy => held[r][k].of = k /\ newest[k] # 0
  /\ \A k \in Kpoint : newest[k] # 0 =>
       Received(k) \/ \E r \in Rank : held[r][k].version = newest[k]
  /\ \A r \in Rank : at[r] \in Walking => \A k \in Kpoint : k < now[r] =>
       UnderWay(k) \/ \A q \in Rank : held[q][k] = AtHome(q, k)
  /\ \A r \in Rank : Arrived(r) => \A k \in Kpoint :
       held[r][k] = IF spread[r] THEN Blocks(r, k) ELSE AtHome(r, k)

(* A team packs its k-points in step. *)
SpreadInv ==
  /\ \A r \in Rank : at[r] = "pack" =>
       /\ now[r] \in Mine(r)
       /\ \A k \in Kpoint : packed[r][k] = IF k < now[r] THEN Blocks(r, k) ELSE NoCopy
  /\ \A r \in Rank : at[r] = "swap" => \A k \in Kpoint : packed[r][k] = Blocks(r, k)
  /\ \A k \in Kpoint : \A r, q \in Team[k] :
       at[r] = "pack" => at[q] = "pack" /\ now[q] = now[r]

IInv == /\ TypeOK /\ OneVerdict
        /\ FlagInv /\ CallInv /\ WalkInv /\ WireInv /\ HomeInv /\ SpreadInv
-----------------------------------------------------------------------------
(* The domains of the constants.                                           *)
LEMMA Domains ==
  /\ Kpoint \subseteq Nat \ {0} /\ NKpoint \in Nat \ {0} /\ NChunk \in Nat \ {0}
  /\ \A k \in Kpoint : k <= NKpoint /\ Root[k] \in Rank /\ Team[k] \subseteq Rank
                       /\ Root[k] \in Team[k]
  /\ \A k \in Nat : k > 0 /\ k <= NKpoint => k \in Kpoint
  /\ IsFiniteSet(Rank)
BY TeamAssumption DEF Kpoint

(* A copy is never mistaken for no copy.                                   *)
LEMMA CopyFacts ==
  /\ NoCopy \notin Copy
  /\ \A x \in Copy : /\ x.version \in Nat \ {0} /\ x.form # "none" /\ x.version <= MaxSet
                     /\ x = [form |-> x.form, of |-> x.of, version |-> x.version]
  /\ \A k : Newest(k) # NoCopy /\ Block(k) # NoCopy
BY TeamAssumption DEF Copy, NoCopy, Newest, Block

(* A new copy of one k-point on one process. *)
LEMMA HeldFacts ==
  ASSUME NEW S, NEW K, NEW h \in [Rank -> [K -> S]], NEW r \in Rank, NEW k \in K,
         NEW x \in S, NEW g, g = [h EXCEPT ![r][k] = x]
  PROVE  /\ g \in [Rank -> [K -> S]] /\ g[r][k] = x
         /\ \A q \in Rank, j \in K : q # r \/ j # k => g[q][j] = h[q][j]
OBVIOUS

(* A process outside the call: nothing is under way. *)
LEMMA NothingUnderWay ==
  ASSUME IInv, NEW r \in Rank, at[r] \notin Walking
  PROVE  /\ \A q \in Rank : at[q] \notin {"send", "recv", "total"}
         /\ \A q \in Rank : at[q] = "meet" => now[q] = 1
         /\ \A s, d \in Rank : chan[s][d] = <<>>
<1>1. WalkInv /\ WireInv /\ TypeOK
  BY DEF IInv
<1>2. \A q \in Rank : at[q] \notin {"send", "recv"}
  BY <1>1 DEF WalkInv, Walking
<1>3. \A q \in Rank : now[q] \in Nat \ {0}
  <2>1. now \in [Rank -> 1 .. NKpoint + 1]
    BY <1>1 DEF TypeOK
  <2>2. \A n \in 1 .. NKpoint + 1 : n \in Nat \ {0}
    BY Domains
  <2>3. QED
    BY <2>1, <2>2
<1>4. \A q \in Rank : at[q] \in {"meet", "total"} => now[q] = 1
  BY <1>1, <1>2, <1>3 DEF WalkInv, Walking
<1>5. \A q \in Rank : at[q] # "total"
  BY <1>1, <1>4, Domains DEF WalkInv
<1>6. \A s, d \in Rank : chan[s][d] = <<>>
  BY <1>1, <1>2 DEF WireInv
<1>7. QED
  BY <1>2, <1>4, <1>5, <1>6

(* There is one transfer at a time, with one source and one receiver.      *)
LEMMA OneTransfer ==
  ASSUME IInv, NEW r \in Rank, NEW q \in Rank,
         at[r] \in {"send", "recv"}, at[q] \in {"send", "recv"}
  PROVE  /\ now[r] = now[q] /\ now[r] \in Kpoint
         /\ at[r] = at[q] => r = q
         /\ at[r] = "recv" => r = Root[now[r]]
<1>1. WalkInv /\ WireInv /\ TypeOK
  BY DEF IInv
<1>2. now[r] = now[q] /\ now[r] \in Kpoint
  BY <1>1 DEF WalkInv
<1>3. at[r] = "recv" => r = Root[now[r]]
  BY <1>1 DEF WireInv, Carried
<1>4. at[q] = "recv" => q = Root[now[q]]
  BY <1>1 DEF WireInv, Carried
<1>5. at[r] = "send" => peer[Root[now[r]]] = r
  BY <1>1 DEF WireInv
<1>6. at[q] = "send" => peer[Root[now[q]]] = q
  BY <1>1 DEF WireInv
<1>7. QED
  BY <1>2, <1>3, <1>4, <1>5, <1>6
-----------------------------------------------------------------------------
(* What a return adds to the results. *)
LEMMA LeaveFacts ==
  ASSUME TypeOK, NEW ranks \in SUBSET Rank, NEW v \in {"ok", "error"}, Leave(ranks, v)
  PROVE  /\ results' \in [Rank -> Seq({"ok", "error"})]
         /\ \A r \in Rank : /\ Met(r) \in Nat
                            /\ Met(r)' = IF r \in ranks THEN Met(r) + 1 ELSE Met(r)
                            /\ \A i \in 1 .. Met(r) : results'[r][i] = results[r][i]
                            /\ r \in ranks => results'[r][Met(r) + 1] = v
                            /\ at'[r] = IF r \in ranks THEN "host" ELSE at[r]
<1>1. results \in [Rank -> Seq({"ok", "error"})] /\ at' = [r \in Rank |-> IF r \in ranks THEN "host" ELSE at[r]]
  BY DEF TypeOK, Leave
<1>2. \A r \in Rank : results'[r] = IF r \in ranks THEN Append(results[r], v) ELSE results[r]
  BY DEF Leave
<1>3. \A r \in Rank : /\ Append(results[r], v) \in Seq({"ok", "error"})
                      /\ Len(Append(results[r], v)) = Len(results[r]) + 1
                      /\ \A i \in 1 .. Len(results[r]) : Append(results[r], v)[i] = results[r][i]
                      /\ Append(results[r], v)[Len(results[r]) + 1] = v
  BY <1>1, AppendProperties
<1>4. DOMAIN results' = Rank /\ results' = [r \in Rank |-> results'[r]]
  BY DEF Leave
<1>5. results' \in [Rank -> Seq({"ok", "error"})]
  <2>1. \A r \in Rank : results[r] \in Seq({"ok", "error"})
    BY <1>1
  <2>2. \A r \in Rank : results'[r] \in Seq({"ok", "error"})
    BY <2>1, <1>2, <1>3
  <2>3. QED
    BY <2>2, <1>4
<1>6. \A r \in Rank : Met(r) \in Nat
  BY <1>1, LenProperties DEF Met
<1>7. QED
  BY <1>1, <1>2, <1>3, <1>5, <1>6 DEF Met

(* Returning from a call for which nothing is left to do keeps the         *)
(* verdicts: whoever is ahead has returned from it as well.                *)
LEMMA ReturnKeeps ==
  ASSUME IInv, NEW ranks \in SUBSET Rank, Leave(ranks, "ok"),
         \A i \in 1 .. Len(script) : script'[i] = script[i],
         \A r \in Rank : (moved[r] => moved'[r]) /\ (spread[r] => spread'[r]),
         \A r \in ranks : moved'[r] /\ (spread'[r] \/ script'[Met(r) + 1] = "dense")
  PROVE  OneVerdict' /\ NothingLeftToDo'
<1>1. TypeOK /\ OneVerdict /\ NothingLeftToDo
  BY DEF IInv, CallInv
<1>2. /\ results' \in [Rank -> Seq({"ok", "error"})]
      /\ \A r \in Rank : /\ Met(r) \in Nat
                         /\ Met(r)' = IF r \in ranks THEN Met(r) + 1 ELSE Met(r)
                         /\ \A i \in 1 .. Met(r) : results'[r][i] = results[r][i]
                         /\ r \in ranks => results'[r][Met(r) + 1] = "ok"
  BY <1>1, LeaveFacts
<1>3. /\ \A r \in Rank : DOMAIN results[r] = 1 .. Met(r)
      /\ \A r \in Rank : DOMAIN results'[r] = 1 .. Met(r)'
  BY <1>1, <1>2 DEF TypeOK, Met
<1>4. \A r \in Rank : \A i \in 1 .. Met(r)' : i \in 1 .. Met(r) \/ (i = Met(r) + 1 /\ r \in ranks)
  BY <1>2
<1>5. OneVerdict'
  <2> SUFFICES ASSUME NEW r \in Rank, NEW s \in Rank, NEW i \in Nat,
                      i \in 1 .. Met(r)', i \in 1 .. Met(s)'
               PROVE  results'[r][i] = results'[s][i]
    <3>1. \A r \in Rank : \A i \in DOMAIN results'[r] : i \in Nat /\ i \in 1 .. Met(r)'
      BY <1>2, <1>3
    <3>2. QED
      BY <3>1 DEF OneVerdict
  <2>1. CASE i <= Met(r) /\ i <= Met(s)
    <3>1. i \in 1 .. Met(r) /\ i \in 1 .. Met(s)
      <4>1. 1 <= i /\ Met(r) \in Nat /\ Met(s) \in Nat
        BY <1>2
      <4>2. QED
        BY <4>1, <2>1
    <3>2. i \in DOMAIN results[r] \cap DOMAIN results[s]
      BY <3>1, <1>3
    <3>3. results[r][i] = results[s][i]
      BY <3>2, <1>1 DEF OneVerdict
    <3>4. results'[r][i] = results[r][i] /\ results'[s][i] = results[s][i]
      BY <3>1, <1>2
    <3>5. QED
      BY <3>3, <3>4
  <2>2. CASE i > Met(r)
    <3>1. r \in ranks /\ i = Met(r) + 1 /\ results'[r][i] = "ok"
      BY <2>2, <1>2, <1>4
    <3>2. results'[s][i] = "ok"
      BY <3>1, <1>1, <1>2, <1>4, SMTT(30) DEF NothingLeftToDo
    <3>3. QED
      BY <3>1, <3>2
  <2>3. CASE i > Met(s)
    <3>1. s \in ranks /\ i = Met(s) + 1 /\ results'[s][i] = "ok"
      BY <2>3, <1>2, <1>4
    <3>2. results'[r][i] = "ok"
      BY <3>1, <1>1, <1>2, <1>4 DEF NothingLeftToDo
    <3>3. QED
      BY <3>1, <3>2
  <2>4. QED
    BY <2>1, <2>2, <2>3, <1>2
<1>6. NothingLeftToDo'
  <2> SUFFICES ASSUME NEW r \in Rank, NEW q \in Rank, NEW i \in Met(q)' + 1 .. Met(r)'
               PROVE  /\ results'[r][i] = "ok" /\ moved'[r]
                      /\ spread'[r] \/ script'[i] = "dense"
    BY DEF NothingLeftToDo
  <2>1. i \in Nat /\ i >= Met(q) + 1 /\ i <= Met(r)' /\ i >= 1
    <3>1. Met(q)' \in Nat /\ Met(q)' >= Met(q) /\ Met(q) \in Nat /\ Met(r)' \in Nat
      BY <1>2
    <3>2. QED
      BY <3>1
  <2>2. CASE i <= Met(r)
    <3>1. i \in Met(q) + 1 .. Met(r) /\ i \in 1 .. Len(script)
      BY <2>1, <2>2, <1>1, <1>2 DEF TypeOK, Met
    <3>2. results[r][i] = "ok" /\ moved[r] /\ (spread[r] \/ script[i] = "dense")
      BY <3>1, <1>1 DEF NothingLeftToDo
    <3>3. results'[r][i] = results[r][i] /\ script'[i] = script[i]
      BY <2>1, <2>2, <3>1, <1>2
    <3>4. QED
      BY <3>2, <3>3
  <2>3. CASE i > Met(r)
    BY <2>1, <2>3, <1>2, <1>4
  <2>4. QED
    BY <2>1, <2>2, <2>3, <1>2
<1>7. QED
  BY <1>5, <1>6

(* New input: nobody has moved anything yet, and nothing is under way.     *)
LEMMA SetWfcKeeps ==
  ASSUME IInv, NEW r \in Rank, NEW k \in Kpoint, NEW form \in {"dense", "odd"},
         SetWfc(r, k, form)
  PROVE  IInv'
<1>1. TypeOK /\ OneVerdict /\ FlagInv /\ CallInv /\ WalkInv /\ WireInv /\ HomeInv /\ SpreadInv
  BY DEF IInv
<1> DEFINE x == [form |-> form, of |-> k, version |-> sets']
<1>2. /\ at[r] = "host" /\ ~ moved[r] /\ sets < MaxSet /\ sets' = sets + 1
      /\ held' = [held EXCEPT ![r][k] = x] /\ newest' = [newest EXCEPT ![k] = sets']
      /\ script' = script /\ results' = results /\ at' = at /\ now' = now /\ chan' = chan
      /\ sent' = sent /\ part' = part /\ peer' = peer /\ buffer' = buffer
      /\ packed' = packed /\ moved' = moved /\ spread' = spread
  BY DEF SetWfc, wires
<1>3. sets' \in 1 .. MaxSet /\ sets \in Nat
  <2>1. sets \in 0 .. MaxSet
    BY <1>1 DEF TypeOK
  <2>2. QED
    BY <2>1, <1>2, TeamAssumption
<1>4. x \in Copy
  BY <1>3 DEF Copy
<1> HIDE DEF x
<1>5. /\ held' \in [Rank -> [Kpoint -> Copy \cup {NoCopy}]] /\ held'[r][k] = x
      /\ \A q \in Rank, j \in Kpoint : q # r \/ j # k => held'[q][j] = held[q][j]
  BY <1>1, <1>2, <1>4, HeldFacts DEF TypeOK
<1>6. /\ newest' \in [Kpoint -> 0 .. MaxSet] /\ newest'[k] = sets'
      /\ \A j \in Kpoint : j # k => newest'[j] = newest[j]
  BY <1>1, <1>2, <1>3 DEF TypeOK
<1>7. /\ \A q \in Rank : at[q] \notin {"send", "recv", "total"}
      /\ \A q \in Rank : at[q] = "meet" => now[q] = 1
  BY <1>2, NothingUnderWay DEF Walking
<1>8. \A q \in Rank : ~ Arrived(q)
  BY <1>1, <1>2 DEF FlagInv, Arrived, Spreading
<1>9. TypeOK'
  BY <1>1, <1>2, <1>3, <1>5, <1>6 DEF TypeOK, Mine
<1>10. OneVerdict' /\ FlagInv' /\ CallInv' /\ WalkInv'
  BY <1>1, <1>2 DEF OneVerdict, FlagInv, CallInv, SameCall, NothingLeftToDo, WalkInv, Met,
        Arrived
<1>11. WireInv'
  BY <1>1, <1>2, <1>7 DEF WireInv
<1>12. HomeInv'
  <2>1. \A q \in Rank, j \in Kpoint : held'[q][j] # NoCopy => held'[q][j].of = j /\ newest'[j] # 0
    BY <1>1, <1>3, <1>5, <1>6 DEF HomeInv, x
  <2>2. \A j \in Kpoint : newest'[j] # 0 =>
          \E q \in Rank : held'[q][j].version = newest'[j]
    <3> SUFFICES ASSUME NEW j \in Kpoint, newest'[j] # 0
                 PROVE  \E q \in Rank : held'[q][j].version = newest'[j]
      OBVIOUS
    <3>1. CASE j = k
      BY <3>1, <1>5, <1>6 DEF x
    <3>2. CASE j # k
      BY <3>2, <1>1, <1>5, <1>6, <1>7 DEF HomeInv, Received
    <3>3. QED
      BY <3>1, <3>2
  <2>3. \A q \in Rank : at[q] \in Walking => \A j \in Kpoint : ~ (j < now[q])
    BY <1>7, Domains DEF Walking
  <2>4. QED
    BY <2>1, <2>2, <2>3, <1>2, <1>8 DEF HomeInv, Received, Arrived
<1>13. SpreadInv'
  BY <1>1, <1>2, <1>8 DEF SpreadInv, Arrived, Spreading
<1>14. QED
  BY <1>9, <1>10, <1>11, <1>12, <1>13 DEF IInv

(* The script is the same for all; a call that has not been made yet is    *)
(* added to its end.                                                       *)
LEMMA ScriptFacts ==
  ASSUME TypeOK, NEW r \in Rank, NEW op \in {"dense", "2d"}, Call(r, op)
  PROVE  /\ script' \in Seq({"dense", "2d"}) /\ Len(script') >= Len(script)
         /\ \A i \in 1 .. Len(script) : script'[i] = script[i]
         /\ Met(r) + 1 <= Len(script') /\ script'[Met(r) + 1] = op
<1>1. /\ script \in Seq({"dense", "2d"}) /\ Met(r) \in Nat /\ Met(r) <= Len(script)
      /\ Len(script) \in Nat
  BY LenProperties DEF TypeOK, Met
<1>2. CASE Met(r) + 1 <= Len(script)
  BY <1>1, <1>2 DEF Call, Met
<1>3. CASE ~ (Met(r) + 1 <= Len(script))
  <2>1. script' = Append(script, op) /\ Met(r) + 1 = Len(script) + 1
    BY <1>1, <1>3 DEF Call, Met
  <2>2. /\ Append(script, op) \in Seq({"dense", "2d"})
        /\ Len(Append(script, op)) = Len(script) + 1
        /\ \A i \in 1 .. Len(script) : Append(script, op)[i] = script[i]
        /\ Append(script, op)[Len(script) + 1] = op
    BY <1>1, AppendProperties
  <2>3. QED
    BY <1>1, <2>1, <2>2
<1>4. QED
  BY <1>2, <1>3

(* A call either returns at once, as its flag is set, or takes its process *)
(* to the first k-point.                                                   *)
LEMMA CallKeeps ==
  ASSUME IInv, NEW r \in Rank, NEW op \in {"dense", "2d"}, Call(r, op)
  PROVE  IInv'
<1>1. TypeOK /\ OneVerdict /\ FlagInv /\ SameCall /\ NothingLeftToDo /\ WalkInv /\ WireInv
      /\ HomeInv /\ SpreadInv
  BY DEF IInv, CallInv
<1>2. /\ script' \in Seq({"dense", "2d"}) /\ Len(script') >= Len(script)
      /\ \A i \in 1 .. Len(script) : script'[i] = script[i]
      /\ Met(r) + 1 <= Len(script') /\ script'[Met(r) + 1] = op
  BY <1>1, ScriptFacts
<1>3. /\ at[r] = "host" /\ held' = held /\ newest' = newest /\ sets' = sets
      /\ chan' = chan /\ sent' = sent /\ part' = part /\ peer' = peer
      /\ buffer' = buffer /\ packed' = packed /\ moved' = moved /\ spread' = spread
  BY DEF Call, wires
<1>4. /\ \A q \in Rank : at[q] \notin {"send", "recv", "total"}
      /\ \A q \in Rank : at[q] = "meet" => now[q] = 1
  BY <1>3, NothingUnderWay DEF Walking
<1>5. /\ \A q \in Rank : Met(q) \in Nat /\ Met(q) <= Len(script)
      /\ Len(script) \in Nat /\ Len(script') \in Nat
  BY <1>1, <1>2, LenProperties DEF TypeOK, Met
<1>6. \A q \in Rank : at[q] # "host" => script'[Met(q) + 1] = script[Met(q) + 1]
  BY <1>1, <1>2, <1>5 DEF SameCall
<1>7. CASE Leave({r}, "ok") /\ now' = now /\ IF op = "2d" THEN spread[r] ELSE moved[r]
  <2>1. /\ results' \in [Rank -> Seq({"ok", "error"})]
        /\ \A q \in Rank : Met(q)' = IF q = r THEN Met(q) + 1 ELSE Met(q)
        /\ \A q \in Rank : at'[q] = at[q]
    BY <1>1, <1>3, <1>7, LeaveFacts
  <2>2. at' \in [Rank -> {"host", "meet", "send", "recv", "total", "pack", "swap"}] /\ at' = at
    <3>1. at' = [q \in Rank |-> at'[q]] /\ at = [q \in Rank |-> at[q]]
      BY <1>1, <1>7 DEF TypeOK, Leave
    <3>2. QED
      BY <3>1, <2>1, <1>1 DEF TypeOK
  <2>3. moved[r] /\ (spread[r] \/ op = "dense")
    BY <1>1, <1>7 DEF FlagInv
  <2>4. OneVerdict' /\ NothingLeftToDo'
    BY <1>2, <1>3, <1>7, <2>3, ReturnKeeps
  <2>5. TypeOK'
    <3>1. \A q \in Rank : Met(q)' <= Len(script')
      BY <1>2, <1>5, <2>1
    <3>2. \A q \in Rank : Len(results'[q]) <= Len(script')
      BY <3>1 DEF Met
    <3>3. QED
      BY <1>1, <1>2, <1>3, <1>7, <2>1, <2>2, <3>2 DEF TypeOK, Mine
  <2>6. SameCall'
    <3>1. \A q \in Rank : at[q] # "host" => Met(q)' = Met(q)
      BY <1>3, <2>1
    <3>2. \A q \in Rank : at[q] # "host" => Met(q) < Len(script')
      BY <1>1, <1>2, <1>5 DEF SameCall
    <3>3. QED
      BY <1>1, <1>3, <1>6, <2>2, <3>1, <3>2 DEF SameCall
  <2>7. FlagInv' /\ WalkInv' /\ WireInv' /\ HomeInv' /\ SpreadInv'
    <3>1. FlagInv' /\ WalkInv'
      BY <1>1, <1>3, <1>7, <2>2 DEF FlagInv, WalkInv, Arrived
    <3>2. WireInv'
      BY <1>1, <1>3, <1>4, <1>7, <2>2 DEF WireInv
    <3>3. HomeInv'
      BY <1>1, <1>3, <1>7, <2>2 DEF HomeInv, Arrived, Received, UnderWay, Newest, Block,
         AtHome, Blocks
    <3>4. SpreadInv'
      BY <1>1, <1>3, <1>7, <2>2 DEF SpreadInv, Block, Blocks
    <3>5. QED
      BY <3>1, <3>2, <3>3, <3>4
  <2>8. QED
    BY <2>4, <2>5, <2>6, <2>7 DEF IInv, CallInv
<1>8. CASE /\ at' = [at EXCEPT ![r] = "meet"] /\ now' = [now EXCEPT ![r] = 1]
           /\ results' = results /\ ~ IF op = "2d" THEN spread[r] ELSE moved[r]
  <2>1. /\ at' \in [Rank -> {"host", "meet", "send", "recv", "total", "pack", "swap"}]
        /\ now' \in [Rank -> 1 .. NKpoint + 1] /\ 1 \in Kpoint
        /\ at'[r] = "meet" /\ now'[r] = 1
        /\ \A q \in Rank : q # r => at'[q] = at[q] /\ now'[q] = now[q]
    BY <1>1, <1>8, Domains DEF TypeOK, Kpoint
  <2>2. \A q \in Rank : at[q] \notin Spreading /\ ~ spread[q]
    BY <1>1, <1>3, <1>8 DEF FlagInv, Spreading
  <2>3. \A q \in Rank : moved[q] <=> moved[r]
    BY <1>1, <2>2 DEF FlagInv, Arrived
  <2>4. \A q \in Rank : at[q] # "host" => Met(q) = Met(r)
    <3> SUFFICES ASSUME NEW q \in Rank, at[q] # "host" PROVE Met(q) = Met(r)
      OBVIOUS
    <3>1. /\ Met(q) < Len(script)
          /\ script[Met(q) + 1] = "2d" \/ ~ moved[r]
      BY <1>1, <2>2, <2>3 DEF SameCall
    <3>2. CASE Met(q) < Met(r)
      <4>1. Met(q) + 1 \in Met(q) + 1 .. Met(r)
        BY <3>2, <1>5
      <4>2. moved[r] /\ script[Met(q) + 1] = "dense"
        BY <4>1, <1>1, <2>2 DEF NothingLeftToDo
      <4>3. QED
        BY <4>2, <3>1
    <3>3. CASE Met(r) < Met(q)
      <4>1. Met(r) + 1 \in Met(r) + 1 .. Met(q)
        BY <3>3, <1>5
      <4>2. moved[r] /\ script[Met(r) + 1] = "dense"
        BY <4>1, <1>1, <2>2, <2>3 DEF NothingLeftToDo
      <4>3. script'[Met(r) + 1] = script[Met(r) + 1]
        BY <3>3, <1>2, <1>5
      <4>4. QED
        BY <4>2, <4>3, <1>2, <1>8
    <3>4. QED
      BY <3>2, <3>3, <1>5
  <2>5. \A q \in Rank : Met(q)' = Met(q)
    BY <1>8 DEF Met
  <2>6. TypeOK'
    <3>1. script' \in Seq({"dense", "2d"}) /\ \A q \in Rank : Len(results[q]) <= Len(script')
      BY <1>1, <1>2, <1>5 DEF TypeOK, Met
    <3>2. QED
      BY <3>1, <1>1, <1>3, <1>8, <2>1 DEF TypeOK, Mine
  <2>7. FlagInv'
    BY <1>1, <1>3, <2>1, <2>2 DEF FlagInv, Arrived, Spreading
  <2>8. SameCall'
    <3>1. \A q \in Rank : at'[q] # "host" =>
            /\ Met(q) < Len(script')
            /\ script'[Met(q) + 1] = "2d" \/ (~ moved[q] /\ at'[q] \notin Spreading)
      <4>1. script'[Met(r) + 1] = "2d" \/ ~ moved[r]
        BY <1>2, <1>8
      <4>2. QED
        BY <4>1, <1>1, <1>2, <1>5, <1>6, <2>1, SMTT(30) DEF SameCall, Spreading
    <3>2. QED
      BY <3>1, <1>3, <2>1, <2>4, <2>5 DEF SameCall
  <2>9. OneVerdict' /\ NothingLeftToDo'
    <3>1. \A q, s \in Rank : \A i \in Met(q) + 1 .. Met(s) : i \in 1 .. Len(script)
      BY <1>5
    <3>2. \A q, s \in Rank : \A i \in Met(q) + 1 .. Met(s) : script'[i] = script[i]
      BY <3>1, <1>2
    <3>3. QED
      BY <3>2, <1>1, <1>3, <1>8, <2>5 DEF OneVerdict, NothingLeftToDo
  <2>10. WalkInv'
    BY <1>1, <1>4, <2>1 DEF WalkInv
  <2>11. WireInv'
    BY <1>1, <1>3, <1>4, <2>1 DEF WireInv
  <2>12. HomeInv'
    <3>1. \A q \in Rank : at'[q] \in Walking => \A k \in Kpoint : ~ (k < now'[q])
      BY <1>4, <2>1, Domains DEF Walking
    <3>2. \A k \in Kpoint : ~ Received(k)
      BY <1>4 DEF Received
    <3>3. \A q \in Rank : Arrived(q)' <=> Arrived(q)
      BY <1>3, <2>1 DEF Arrived, Spreading
    <3>4. QED
      BY <3>1, <3>2, <3>3, <1>1, <1>3 DEF HomeInv, AtHome, Blocks, Newest, Block
  <2>13. SpreadInv'
    <3>1. \A q \in Rank : at'[q] \notin Spreading
      BY <2>1, <2>2 DEF Spreading
    <3>2. \A k \in Kpoint : Team[k] \subseteq Rank
      BY Domains
    <3>3. QED
      BY <3>1, <3>2 DEF SpreadInv, Spreading
  <2>14. QED
    BY <2>6, <2>7, <2>8, <2>9, <2>10, <2>11, <2>12, <2>13 DEF IInv, CallInv
<1>9. QED
  BY <1>7, <1>8 DEF Call
-----------------------------------------------------------------------------
(* A k-point that can be moved is held by one process, in its latest form. *)
LEMMA OwnerFacts ==
  ASSUME IInv, NEW k \in Kpoint, Movable(k), ~ Received(k)
  PROVE  \E s \in Rank : /\ Owners(k) = {s} /\ held[s][k] = Newest(k)
                         /\ \A q \in Rank : q # s => held[q][k] = NoCopy
<1>1. TypeOK /\ HomeInv
  BY DEF IInv
<1>2. Owners(k) \subseteq Rank /\ IsFiniteSet(Owners(k))
  BY Domains, FS_Subset DEF Owners
<1>3. PICK s : Owners(k) = {s}
  BY <1>2, FS_Singleton DEF Movable
<1>4. s \in Rank /\ held[s][k] # NoCopy /\ \A q \in Rank : q # s => held[q][k] = NoCopy
  BY <1>2, <1>3 DEF Owners
<1>5. held[s][k] \in Copy /\ held[s][k].form = "dense" /\ held[s][k].of = k
  BY <1>1, <1>3, <1>4 DEF Movable, TypeOK, HomeInv
<1>6. held[s][k].version = newest[k]
  <2>1. newest[k] # 0
    BY <1>1, <1>4 DEF HomeInv
  <2>2. PICK q \in Rank : held[q][k].version = newest[k]
    BY <2>1, <1>1 DEF HomeInv
  <2>3. held[q][k] # NoCopy
    BY <2>1, <2>2 DEF NoCopy
  <2>4. QED
    BY <2>2, <2>3, <1>4
<1>7. held[s][k] = Newest(k)
  BY <1>5, <1>6, CopyFacts DEF Newest
<1>8. QED
  BY <1>3, <1>4, <1>7

(* What has arrived can be moved again, and is not.                        *)
LEMMA MovedStaysPut ==
  ASSUME IInv, NEW k \in Kpoint, NEW r \in Rank, Arrived(r), \A q \in Rank : ~ spread[q]
  PROVE  Movable(k) /\ Owners(k) = {Root[k]}
<1>1. TypeOK /\ HomeInv /\ FlagInv
  BY DEF IInv
<1>2. \A q \in Rank : held[q][k] = AtHome(q, k)
  BY <1>1 DEF HomeInv, FlagInv
<1>3. Root[k] \in Rank /\ Newest(k) # NoCopy
  BY Domains, CopyFacts
<1>4. Owners(k) = {Root[k]}
  BY <1>2, <1>3 DEF Owners, AtHome
<1>5. Cardinality(Owners(k)) = 1
  BY <1>4, FS_Singleton
<1>6. held[Root[k]][k].form = "dense"
  BY <1>2, <1>3 DEF AtHome, Newest
<1>7. QED
  BY <1>4, <1>5, <1>6 DEF Movable

(* All processes meet at a k-point they cannot move: the call is over for  *)
(* all of them.                                                            *)
LEMMA MeetingFails ==
  ASSUME IInv, NEW k \in Kpoint, Meet(k), ~ Movable(k)
  PROVE  IInv'
<1>1. TypeOK /\ OneVerdict /\ FlagInv /\ SameCall /\ NothingLeftToDo /\ WalkInv /\ WireInv
      /\ HomeInv /\ SpreadInv
  BY DEF IInv, CallInv
<1>2. /\ \A r \in Rank : at[r] = "meet" /\ now[r] = k
      /\ Leave(Rank, "error") /\ now' = now /\ sent' = sent /\ part' = part /\ peer' = peer
      /\ held' = held /\ newest' = newest /\ sets' = sets /\ script' = script
      /\ chan' = chan /\ buffer' = buffer /\ packed' = packed /\ moved' = moved
      /\ spread' = spread
  BY DEF Meet, wires
<1>3. /\ results' \in [Rank -> Seq({"ok", "error"})]
      /\ \A r \in Rank : /\ Met(r) \in Nat
                         /\ Met(r)' = Met(r) + 1
                         /\ \A i \in 1 .. Met(r) : results'[r][i] = results[r][i]
                         /\ results'[r][Met(r) + 1] = "error"
                         /\ at'[r] = "host"
  BY <1>1, <1>2, LeaveFacts
<1>4. \A r, q \in Rank : Met(r) = Met(q) /\ Met(r) < Len(script)
  BY <1>1, <1>2 DEF SameCall
<1>5. \A r \in Rank : ~ spread[r] /\ ~ moved[r]
  <2>1. \A r \in Rank : ~ spread[r]
    BY <1>1, <1>2 DEF FlagInv
  <2>2. QED
    BY <2>1, <1>2, MovedStaysPut DEF Arrived
<1>6. at' \in [Rank -> {"host", "meet", "send", "recv", "total", "pack", "swap"}]
  <2>1. at' = [r \in Rank |-> at'[r]]
    BY <1>2 DEF Leave
  <2>2. QED
    BY <2>1, <1>3
<1>7. TypeOK'
  <2>1. \A r \in Rank : Met(r)' <= Len(script)
    BY <1>1, <1>3, <1>4, LenProperties DEF TypeOK
  <2>2. \A r \in Rank : Len(results'[r]) <= Len(script)
    BY <2>1 DEF Met
  <2>3. QED
    BY <2>2, <1>1, <1>2, <1>3, <1>6 DEF TypeOK, Mine
<1>8. OneVerdict'
  <2> SUFFICES ASSUME NEW r \in Rank, NEW s \in Rank,
                      NEW i \in DOMAIN results'[r] \cap DOMAIN results'[s]
               PROVE  results'[r][i] = results'[s][i]
    BY DEF OneVerdict
  <2>1. DOMAIN results'[r] = 1 .. Met(r)' /\ DOMAIN results[r] = 1 .. Met(r)
        /\ DOMAIN results[s] = 1 .. Met(s)
    BY <1>1, <1>3 DEF TypeOK, Met
  <2>2. i \in 1 .. Met(r) \/ i = Met(r) + 1
    BY <2>1, <1>3
  <2>3. CASE i \in 1 .. Met(r)
    BY <2>1, <2>3, <1>1, <1>3, <1>4 DEF OneVerdict
  <2>4. CASE i = Met(r) + 1
    BY <2>4, <1>3, <1>4
  <2>5. QED
    BY <2>2, <2>3, <2>4
<1>9. FlagInv' /\ WalkInv'
  BY <1>2, <1>3, <1>5 DEF FlagInv, WalkInv, Arrived, Spreading
<1>10. CallInv'
  <2>1. \A r, q \in Rank : Met(q)' = Met(r)' /\ Met(q)' \in Nat
    BY <1>3, <1>4
  <2>2. \A r, q \in Rank : Met(q)' + 1 .. Met(r)' = {}
    BY <2>1
  <2>3. QED
    BY <2>2, <1>3 DEF CallInv, SameCall, NothingLeftToDo
<1>11. WireInv'
  BY <1>1, <1>2, <1>3 DEF WireInv
<1>12. HomeInv'
  BY <1>1, <1>2, <1>3, <1>5 DEF HomeInv, Received, Arrived, Walking, Spreading
<1>13. SpreadInv'
  <2>1. \A j \in Kpoint : Team[j] \subseteq Rank
    BY Domains
  <2>2. QED
    BY <2>1, <1>3 DEF SpreadInv
<1>14. QED
  BY <1>7, <1>8, <1>9, <1>10, <1>11, <1>12, <1>13 DEF IInv

(* All processes meet at a k-point that can be moved: all but its source   *)
(* and its root go on to the next one.                                     *)
LEMMA MeetingMoves ==
  ASSUME IInv, NEW k \in Kpoint, Meet(k), Movable(k)
  PROVE  IInv'
<1>1. TypeOK /\ OneVerdict /\ FlagInv /\ SameCall /\ NothingLeftToDo /\ WalkInv /\ WireInv
      /\ HomeInv /\ SpreadInv
  BY DEF IInv, CallInv
<1>2. \A r \in Rank : at[r] = "meet" /\ now[r] = k
  BY DEF Meet
<1>3. PICK s \in Rank : /\ Owners(k) = {s} /\ held[s][k] = Newest(k)
                        /\ \A q \in Rank : q # s => held[q][k] = NoCopy
  BY <1>2, OwnerFacts DEF Received
<1>d. PICK d : d = Root[k]
  OBVIOUS
<1> DEFINE Goes(r) == IF s = d \/ r \notin {s, d} THEN Onward(r)
                      ELSE IF r = s THEN "send" ELSE "recv"
<1>4. /\ at' = [r \in Rank |-> Goes(r)]
      /\ now' = [r \in Rank |-> IF Goes(r) \in {"meet", "total"} THEN k + 1 ELSE k]
      /\ sent' = [r \in Rank |-> 0] /\ part' = [r \in Rank |-> <<>>]
      /\ peer' = [peer EXCEPT ![d] = s]
      /\ results' = results
      /\ held' = held /\ newest' = newest /\ sets' = sets /\ script' = script
      /\ chan' = chan /\ buffer' = buffer /\ packed' = packed /\ moved' = moved
      /\ spread' = spread
  <2>1. (CHOOSE r \in Owners(k) : TRUE) = s
    BY <1>3
  <2>2. QED
    BY <1>d, <2>1, Zenon DEF Meet
<1>5. k \in Nat \ {0} /\ k <= NKpoint /\ NKpoint \in Nat /\ d \in Rank
      /\ (k < NKpoint => k + 1 \in Kpoint) /\ NChunk \in Nat \ {0}
  BY <1>d, Domains
<1>6. /\ \A r \in Rank : s # d /\ r \in {s, d} =>
           at'[r] = (IF r = s THEN "send" ELSE "recv") /\ now'[r] = k
      /\ \A r \in Rank : ~ (s # d /\ r \in {s, d}) =>
           /\ now'[r] = k + 1
           /\ (at'[r] = "meet" /\ k < NKpoint) \/ (at'[r] = "total" /\ k = NKpoint)
  BY <1>2, <1>4, <1>5 DEF Onward
<1>7. /\ at' \in [Rank -> {"host", "meet", "send", "recv", "total", "pack", "swap"}]
      /\ now' \in [Rank -> 1 .. NKpoint + 1]
  <2>1. at' = [r \in Rank |-> at'[r]] /\ now' = [r \in Rank |-> now'[r]]
    BY <1>4
  <2>2. QED
    BY <2>1, <1>5, <1>6
<1> HIDE DEF Goes
<1>8. \A r \in Rank : at'[r] \in Walking /\ at[r] \in Walking /\ ~ spread[r]
  BY <1>1, <1>2, <1>6 DEF Walking, FlagInv
<1>9. s # d => \A r \in Rank : ~ moved[r]
  BY <1>3, <1>d, <1>8, MovedStaysPut DEF Arrived
<1>10. TypeOK'
  <2>1. sent' \in [Rank -> 0 .. NChunk] /\ part' \in [Rank -> Seq(Chunk)]
        /\ peer' \in [Rank -> Rank]
    BY <1>1, <1>4, <1>5 DEF TypeOK
  <2>2. QED
    BY <2>1, <1>1, <1>4, <1>7 DEF TypeOK, Mine
<1>11. FlagInv'
  BY <1>1, <1>4, <1>8 DEF FlagInv, Arrived, Spreading, Walking
<1>12. OneVerdict' /\ CallInv'
  <2>1. OneVerdict' /\ NothingLeftToDo'
    BY <1>1, <1>4 DEF OneVerdict, NothingLeftToDo, Met
  <2>2. SameCall'
    BY <1>1, <1>2, <1>4, <1>8 DEF SameCall, Met, Spreading, Walking
  <2>3. QED
    BY <2>1, <2>2 DEF CallInv
<1>13. WalkInv'
  BY <1>4, <1>5, <1>6, <1>9 DEF WalkInv
<1>14. \A p, q \in Rank : chan[p][q] = <<>>
  BY <1>1, <1>2 DEF WireInv
<1>15. WireInv'
  <2>1. ASSUME NEW r \in Rank, at'[r] = "recv" PROVE Carried(peer[r], r, now[r])'
    <3>1. r = d /\ s # d /\ now'[r] = k /\ at'[s] = "send" /\ now'[s] = k
      BY <2>1, <1>6
    <3>2. peer'[r] = s /\ part'[r] = <<>> /\ sent'[s] = 0 /\ chan'[s][r] = <<>>
      BY <3>1, <1>1, <1>4, <1>5, <1>14 DEF TypeOK
    <3>3. SourceFits(s, k)'
      BY <3>1, <1>3, <1>4 DEF SourceFits, Newest
    <3>4. Carried(s, r, k)'
      BY <3>1, <3>2, <3>3, <1>3, <1>4, <1>5, <1>d DEF Carried
    <3>5. QED
      BY <3>1, <3>2, <3>4
  <2>2. ASSUME NEW r \in Rank, at'[r] = "send"
        PROVE  /\ r # Root[now'[r]] /\ peer'[Root[now'[r]]] = r
               /\ at'[Root[now'[r]]] = "recv" /\ now'[Root[now'[r]]] = now'[r]
    <3>1. r = s /\ s # d /\ now'[r] = k /\ at'[d] = "recv" /\ now'[d] = k
      BY <2>2, <1>5, <1>6
    <3>2. peer'[d] = s
      BY <1>1, <1>4, <1>5 DEF TypeOK
    <3>3. QED
      BY <3>1, <3>2, <1>d
  <2>3. QED
    BY <2>1, <2>2, <1>4, <1>14 DEF WireInv
<1>16. HomeInv'
  <2>1. \A j \in Kpoint : ~ Received(j) /\ ~ UnderWay(j)
    BY <1>2 DEF Received, UnderWay
  <2>2. \A r \in Rank, j \in Kpoint : held'[r][j] # NoCopy => held'[r][j].of = j /\ newest'[j] # 0
    BY <1>1, <1>4 DEF HomeInv
  <2>3. \A j \in Kpoint : newest'[j] # 0 => \E r \in Rank : held'[r][j].version = newest'[j]
    BY <1>1, <1>4, <2>1 DEF HomeInv
  <2>4. \A j \in Kpoint : j < k => \A q \in Rank : held[q][j] = AtHome(q, j)
    BY <1>1, <1>2, <1>3, <1>8, <2>1 DEF HomeInv
  <2>5. s = d => \A q \in Rank : held[q][k] = AtHome(q, k)
    BY <1>3, <1>d DEF AtHome
  <2>6. s # d => UnderWay(k)'
    BY <1>6 DEF UnderWay
  <2>7. ASSUME NEW r \in Rank, NEW j \in Kpoint, j < now'[r]
        PROVE  UnderWay(j)' \/ \A q \in Rank : held'[q][j] = AtHome(q, j)'
    <3>1. j < k \/ j = k
      BY <2>7, <1>5, <1>6, Domains
    <3>2. (\A q \in Rank : held[q][j] = AtHome(q, j)) => \A q \in Rank : held'[q][j] = AtHome(q, j)'
      BY <1>4 DEF AtHome, Newest
    <3>3. QED
      BY <3>1, <3>2, <2>4, <2>5, <2>6
  <2>8. \A r \in Rank : Arrived(r)' <=> Arrived(r)
    BY <1>4, <1>8 DEF Arrived, Walking, Spreading
  <2>9. \A r \in Rank : Arrived(r)' => \A j \in Kpoint :
          held'[r][j] = IF spread'[r] THEN Blocks(r, j)' ELSE AtHome(r, j)'
    BY <1>1, <1>4, <2>8 DEF HomeInv, AtHome, Blocks, Newest, Block
  <2>10. QED
    BY <2>2, <2>3, <2>7, <2>9 DEF HomeInv
<1>17. SpreadInv'
  <2>1. \A j \in Kpoint : Team[j] \subseteq Rank
    BY Domains
  <2>2. QED
    BY <2>1, <1>8 DEF SpreadInv, Walking
<1>18. QED
  BY <1>10, <1>11, <1>12, <1>13, <1>15, <1>16, <1>17 DEF IInv

(* What a step of a transfer, which returns from no call, leaves alone.    *)
LEMMA TransferLeaves ==
  ASSUME IInv, NEW r \in Rank, at[r] \in {"send", "recv"},
         at'[r] \in Walking, \A q \in Rank : q # r => at'[q] = at[q],
         script' = script, results' = results, moved' = moved, spread' = spread
  PROVE  OneVerdict' /\ FlagInv' /\ CallInv' /\ SpreadInv'
         /\ \A q \in Rank : at[q] \in Walking /\ at'[q] \in Walking /\ ~ spread[q] /\ ~ moved[q]
<1>1. TypeOK /\ OneVerdict /\ FlagInv /\ SameCall /\ NothingLeftToDo /\ WalkInv
  BY DEF IInv, CallInv
<1>2. \A q \in Rank : at[q] \in Walking /\ at'[q] \in Walking
  BY <1>1 DEF WalkInv, Walking
<1>3. \A q \in Rank : ~ spread[q] /\ ~ moved[q]
  BY <1>1, <1>2 DEF FlagInv, WalkInv, Arrived, Walking, Spreading
<1>4. OneVerdict' /\ NothingLeftToDo'
  BY <1>1 DEF OneVerdict, NothingLeftToDo, Met
<1>5. FlagInv' /\ SameCall'
  BY <1>1, <1>2, <1>3 DEF FlagInv, SameCall, Met, Arrived, Walking, Spreading
<1>6. SpreadInv'
  <2>1. \A j \in Kpoint : Team[j] \subseteq Rank
    BY Domains
  <2>2. QED
    BY <2>1, <1>2 DEF SpreadInv, Walking
<1>7. QED
  BY <1>2, <1>3, <1>4, <1>5, <1>6 DEF CallInv

(* The next chunk is on its way to the receiver. *)
LEMMA SendKeeps ==
  ASSUME IInv, NEW r \in Rank, Send(r)
  PROVE  IInv'
<1>1. TypeOK /\ WalkInv /\ WireInv /\ HomeInv
  BY DEF IInv
<1>k. PICK k, d : k = now[r] /\ d = Root[k]
  OBVIOUS
<1> DEFINE e == [copy |-> held[r][k], chunk |-> sent[r] + 1]
<1>2. /\ at[r] = "send" /\ sent[r] < NChunk
      /\ sent' = [sent EXCEPT ![r] = sent[r] + 1]
      /\ chan' = [chan EXCEPT ![r][d] = Append(chan[r][d], [copy |-> held[r][k], chunk |-> sent'[r]])]
      /\ held' = held /\ newest' = newest /\ sets' = sets /\ script' = script
      /\ results' = results /\ at' = at /\ now' = now /\ buffer' = buffer /\ part' = part
      /\ peer' = peer /\ packed' = packed /\ moved' = moved /\ spread' = spread
  BY <1>k DEF Send
<1>3. /\ k \in Kpoint /\ d \in Rank /\ NChunk \in Nat
      /\ sent[r] \in Nat /\ sent'[r] = sent[r] + 1 /\ sent'[r] \in 1 .. NChunk
      /\ \A q \in Rank : q # r => sent'[q] = sent[q]
      /\ sent' \in [Rank -> 0 .. NChunk]
  <2>1. k \in Kpoint /\ d \in Rank /\ NChunk \in Nat
    BY <1>1, <1>2, <1>k, Domains DEF WalkInv
  <2>2. sent \in [Rank -> 0 .. NChunk] /\ sent[r] \in 0 .. NChunk
    BY <1>1 DEF TypeOK
  <2>3. sent[r] + 1 \in 1 .. NChunk
    BY <1>2, <2>1, <2>2
  <2>4. QED
    BY <1>2, <2>1, <2>2, <2>3
<1>4. at[d] = "recv" /\ now[d] = k /\ peer[d] = r /\ r # d
  BY <1>1, <1>2, <1>3, <1>k DEF WireInv, Delivered
<1>5. Carried(r, d, k)
  BY <1>1, <1>3, <1>4 DEF WireInv
<1>6. held[r][k] = Newest(k) /\ held[r][k] \in Copy
  BY <1>1, <1>2, <1>3, <1>5, CopyFacts DEF Carried, SourceFits, TypeOK
<1>7. e \in Chunk /\ e = [copy |-> Newest(k), chunk |-> sent[r] + 1]
  BY <1>3, <1>6 DEF Chunk
<1>8. chan' = [chan EXCEPT ![r][d] = Append(chan[r][d], e)]
  BY <1>2, <1>3
<1> HIDE DEF e
<1>9. /\ chan[r][d] \in Seq(Chunk) /\ Append(chan[r][d], e) \in Seq(Chunk)
      /\ Len(chan[r][d]) \in Nat
      /\ Len(Append(chan[r][d], e)) = Len(chan[r][d]) + 1
      /\ \A c \in 1 .. Len(chan[r][d]) : Append(chan[r][d], e)[c] = chan[r][d][c]
      /\ Append(chan[r][d], e)[Len(chan[r][d]) + 1] = e
  <2>1. chan[r][d] \in Seq(Chunk)
    BY <1>1, <1>3 DEF TypeOK
  <2>2. QED
    BY <2>1, <1>7, AppendProperties, LenProperties
<1>10. /\ chan' \in [Rank -> [Rank -> Seq(Chunk)]] /\ chan'[r][d] = Append(chan[r][d], e)
       /\ \A p, q \in Rank : p # r \/ q # d => chan'[p][q] = chan[p][q]
  <2>1. chan \in [Rank -> [Rank -> Seq(Chunk)]]
    BY <1>1 DEF TypeOK
  <2>2. QED
    BY <2>1, <1>3, <1>8, <1>9, HeldFacts
<1>11. TypeOK'
  <2>1. sent' \in [Rank -> 0 .. NChunk] /\ chan' \in [Rank -> [Rank -> Seq(Chunk)]]
    BY <1>3, <1>10
  <2>2. QED
    BY <2>1, <1>1, <1>2 DEF TypeOK, Mine
<1>12. OneVerdict' /\ FlagInv' /\ CallInv' /\ SpreadInv'
  BY <1>1, <1>2, TransferLeaves DEF Walking
<1>13. WalkInv'
  BY <1>1, <1>2 DEF WalkInv
<1>14. Carried(r, d, k)'
  <2>0. PICK z \in Nat, l \in Nat, n \in Nat :
          z = sent[r] /\ l = Len(part[d]) /\ n = Len(chan[r][d])
    BY <1>1, <1>3, <1>9, LenProperties DEF TypeOK
  <2>1. z = l + n
    BY <2>0, <1>5 DEF Carried
  <2>m. Len(chan'[r][d]) = n + 1
    BY <2>0, <1>9, <1>10
  <2>2. \A c \in 1 .. Len(chan'[r][d]) :
          chan'[r][d][c] = [copy |-> Newest(k), chunk |-> Len(part[d]) + c]
    <3> SUFFICES ASSUME NEW c \in 1 .. n + 1
                 PROVE  chan'[r][d][c] = [copy |-> Newest(k), chunk |-> l + c]
      BY <2>0, <2>m
    <3>1. CASE c \in 1 .. n
      BY <3>1, <2>0, <1>5, <1>9, <1>10 DEF Carried
    <3>2. CASE c = n + 1
      <4>1. l + c = z + 1
        BY <3>2, <2>1
      <4>2. chan'[r][d][c] = e
        BY <3>2, <2>0, <1>9, <1>10
      <4>3. QED
        BY <4>1, <4>2, <2>0, <1>7
    <3>3. QED
      BY <3>1, <3>2
  <2>3. sent'[r] = Len(part[d]) + Len(chan'[r][d])
    <3>1. sent'[r] = l + n + 1
      BY <2>0, <2>1, <1>3
    <3>2. l + n + 1 = l + (n + 1)
      OBVIOUS
    <3>3. QED
      BY <3>1, <3>2, <2>0, <2>m, <1>2
  <2>4. SourceFits(r, k)'
    BY <1>2, <1>6, <1>k DEF SourceFits, Newest
  <2>5. QED
    BY <2>2, <2>3, <2>4, <1>2, <1>5 DEF Carried, Newest
<1>15. WireInv'
  <2>1. ASSUME NEW q \in Rank, at'[q] = "recv" PROVE Carried(peer[q], q, now[q])'
    <3>1. q = d
      BY <2>1, <1>2, <1>3, <1>4, OneTransfer
    <3>2. QED
      BY <3>1, <1>2, <1>4, <1>14
  <2>2. ASSUME NEW q \in Rank, at'[q] = "send" PROVE q = r
    BY <2>2, <1>2, OneTransfer
  <2>3. ASSUME NEW p \in Rank, NEW q \in Rank, chan'[p][q] # <<>>
        PROVE  at'[q] = "recv" /\ peer'[q] = p
    BY <2>3, <1>1, <1>2, <1>3, <1>4, <1>10, SMTT(30) DEF WireInv
  <2>4. r # d /\ d = Root[now'[r]] /\ peer'[d] = r /\ at'[d] = "recv" /\ now'[d] = now'[r]
    BY <1>2, <1>4, <1>k
  <2>5. QED
    BY <2>1, <2>2, <2>3, <2>4 DEF WireInv
<1>16. HomeInv'
  BY <1>1, <1>2 DEF HomeInv, Received, UnderWay, Arrived, AtHome, Blocks, Newest, Block
<1>17. QED
  BY <1>11, <1>12, <1>13, <1>15, <1>16 DEF IInv

(* The last send has returned: the source goes on without its copy, which  *)
(* is being received or at home by now.                                    *)
LEMMA SentKeeps ==
  ASSUME IInv, NEW r \in Rank, Sent(r)
  PROVE  IInv'
<1>1. TypeOK /\ WalkInv /\ WireInv /\ HomeInv
  BY DEF IInv
<1>k. PICK k, d : k = now[r] /\ d = Root[k]
  OBVIOUS
<1>2. /\ at[r] = "send" /\ sent[r] = NChunk
      /\ held' = [held EXCEPT ![r][k] = NoCopy]
      /\ at' = [at EXCEPT ![r] = Onward(r)] /\ now' = [now EXCEPT ![r] = now[r] + 1]
      /\ newest' = newest /\ sets' = sets /\ script' = script
      /\ results' = results /\ chan' = chan /\ buffer' = buffer /\ sent' = sent /\ part' = part
      /\ peer' = peer /\ packed' = packed /\ moved' = moved /\ spread' = spread
  BY <1>k DEF Sent, wires
<1>3. /\ k \in Kpoint /\ d \in Rank /\ k \in Nat \ {0} /\ NKpoint \in Nat /\ k <= NKpoint
      /\ (k < NKpoint => k + 1 \in Kpoint) /\ r # d /\ peer[d] = r
      /\ (at[d] = "recv" /\ now[d] = k) \/ Delivered(r, d, k)
  <2>1. k \in Kpoint
    BY <1>1, <1>2, <1>k DEF WalkInv
  <2>2. QED
    BY <2>1, <1>1, <1>2, <1>k, Domains DEF WireInv
<1>4. /\ now'[r] = k + 1 /\ now'[r] \in 1 .. NKpoint + 1
      /\ (at'[r] = "meet" /\ k < NKpoint) \/ (at'[r] = "total" /\ k = NKpoint)
      /\ \A q \in Rank : q # r => at'[q] = at[q] /\ now'[q] = now[q]
      /\ at' \in [Rank -> {"host", "meet", "send", "recv", "total", "pack", "swap"}]
      /\ now' \in [Rank -> 1 .. NKpoint + 1]
  <2>1. at \in [Rank -> {"host", "meet", "send", "recv", "total", "pack", "swap"}]
        /\ now \in [Rank -> 1 .. NKpoint + 1]
    BY <1>1 DEF TypeOK
  <2>2. k + 1 \in 1 .. NKpoint + 1
    BY <1>3
  <2>3. (Onward(r) = "meet" /\ k < NKpoint) \/ (Onward(r) = "total" /\ k = NKpoint)
    BY <1>k, <1>3 DEF Onward
  <2>4. QED
    BY <2>1, <2>2, <2>3, <1>2, <1>k
<1>5. /\ held' \in [Rank -> [Kpoint -> Copy \cup {NoCopy}]] /\ held'[r][k] = NoCopy
      /\ \A q \in Rank, j \in Kpoint : q # r \/ j # k => held'[q][j] = held[q][j]
  <2>1. held \in [Rank -> [Kpoint -> Copy \cup {NoCopy}]] /\ NoCopy \in Copy \cup {NoCopy}
    BY <1>1 DEF TypeOK
  <2>2. QED
    BY <2>1, <1>2, <1>3, HeldFacts
<1>6. TypeOK'
  BY <1>1, <1>2, <1>4, <1>5, SMTT(30) DEF TypeOK, Mine
<1>7. /\ OneVerdict' /\ FlagInv' /\ CallInv' /\ SpreadInv'
      /\ \A q \in Rank : at'[q] \in Walking /\ ~ moved[q]
  BY <1>2, <1>4, TransferLeaves DEF Walking
<1>8. \A q \in Rank : \/ at[q] \in {"send", "recv"} /\ now[q] = k
                      \/ at[q] \in {"meet", "total"} /\ now[q] = k + 1
  BY <1>1, <1>2, <1>k DEF WalkInv
<1>9. \A q \in Rank : q # r => at[q] # "send"
  BY <1>2, OneTransfer
<1>10. WalkInv'
  <2>1. \A q \in Rank : \/ at'[q] = "recv" /\ now'[q] = k
                        \/ at'[q] = "meet" /\ now'[q] = k + 1 /\ k + 1 \in Kpoint
                        \/ at'[q] = "total" /\ now'[q] = k + 1 /\ k = NKpoint
    <3>1. \A q \in Rank : at[q] = "meet" => k + 1 \in Kpoint
      BY <1>1, <1>8 DEF WalkInv
    <3>2. \A q \in Rank : at[q] = "total" => k = NKpoint
      BY <1>1, <1>3, <1>8 DEF WalkInv
    <3>3. QED
      BY <3>1, <3>2, <1>3, <1>4, <1>8, <1>9
  <2>2. \A q \in Rank : ~ moved'[q]
    BY <1>2, <1>7
  <2>3. QED
    BY <2>1, <2>2, <1>3 DEF WalkInv
<1>11. ASSUME at[d] = "recv" PROVE Carried(r, d, k)'
  <2>1. now[d] = k
    BY <1>11, <1>2, <1>3, <1>k, OneTransfer
  <2>2. Carried(r, d, k)
    BY <2>1, <1>1, <1>3, <1>11 DEF WireInv
  <2>3. SourceFits(r, k)'
    BY <1>2, <1>4, <1>5 DEF SourceFits
  <2>4. \A q \in Rank : q # r => held'[q][k] = NoCopy
    BY <2>2, <1>3, <1>5 DEF Carried
  <2>5. QED
    BY <2>2, <2>3, <2>4, <1>2 DEF Carried, Newest
<1>12. WireInv'
  <2>1. ASSUME NEW q \in Rank, at'[q] = "recv" PROVE Carried(peer[q], q, now[q])'
    <3>1. q # r /\ at[q] = "recv" /\ now[q] = k /\ now'[q] = k
      BY <2>1, <1>4, <1>8
    <3>2. q = d
      BY <3>1, <1>k, OneTransfer
    <3>3. QED
      BY <3>1, <3>2, <1>2, <1>3, <1>11
  <2>2. \A q \in Rank : at'[q] # "send"
    BY <1>4, <1>9
  <2>3. ASSUME NEW p \in Rank, NEW q \in Rank, chan'[p][q] # <<>>
        PROVE  at'[q] = "recv" /\ peer'[q] = p
    BY <2>3, <1>1, <1>2, <1>4 DEF WireInv
  <2>4. QED
    BY <2>1, <2>2, <2>3 DEF WireInv
<1>13. HomeInv'
  <2>1. \A j \in Kpoint : Received(j) => Received(j)'
    BY <1>2, <1>4 DEF Received
  <2>2. at[d] = "recv" => Received(k)' /\ UnderWay(k)'
    BY <1>2, <1>3, <1>4, <1>8 DEF Received, UnderWay
  <2>3. at[d] # "recv" => \A q \in Rank : held'[q][k] = AtHome(q, k)'
    BY <1>2, <1>3, <1>5, <1>k DEF Delivered, AtHome, Newest
  <2>4. \A q \in Rank, j \in Kpoint : held'[q][j] # NoCopy => held'[q][j].of = j /\ newest'[j] # 0
    BY <1>1, <1>2, <1>5 DEF HomeInv
  <2>5. ASSUME NEW j \in Kpoint, newest'[j] # 0
        PROVE  Received(j)' \/ \E q \in Rank : held'[q][j].version = newest'[j]
    <3>1. CASE j = k
      BY <3>1, <2>2, <2>3, <1>3, <1>k DEF AtHome, Newest
    <3>2. CASE j # k
      BY <3>2, <2>1, <2>5, <1>1, <1>2, <1>5 DEF HomeInv
    <3>3. QED
      BY <3>1, <3>2
  <2>6. ASSUME NEW q \in Rank, NEW j \in Kpoint, j < now'[q]
        PROVE  UnderWay(j)' \/ \A p \in Rank : held'[p][j] = AtHome(p, j)'
    <3>1. j = k \/ j < k
      BY <2>6, <1>3, <1>4, <1>8, Domains
    <3>2. CASE j = k
      BY <3>2, <2>2, <2>3
    <3>3. CASE j < k
      <4>1. ~ UnderWay(j) /\ j # k
        BY <3>3, <1>3, <1>8, Domains DEF UnderWay
      <4>2. \A p \in Rank : held[p][j] = AtHome(p, j)
        BY <4>1, <3>3, <1>1, <1>2, <1>k DEF HomeInv, Walking
      <4>3. QED
        BY <4>1, <4>2, <1>2, <1>5 DEF AtHome, Newest
    <3>4. QED
      BY <3>1, <3>2, <3>3
  <2>7. \A q \in Rank : ~ Arrived(q)'
    BY <1>2, <1>7 DEF Arrived, Walking, Spreading
  <2>8. QED
    BY <2>4, <2>5, <2>6, <2>7 DEF HomeInv
<1>14. QED
  BY <1>6, <1>7, <1>10, <1>12, <1>13 DEF IInv

(* What the next chunk makes of the two ends: one more chunk of the same   *)
(* matrix, at its place.                                                   *)
LEMMA ChunkArrives ==
  ASSUME IInv, NEW r \in Rank, NEW s \in Rank, NEW k \in Kpoint,
         Carried(s, r, k), chan[s][r] # <<>>,
         chan' = [chan EXCEPT ![s][r] = Tail(chan[s][r])],
         part' = [part EXCEPT ![r] = Append(part[r], Head(chan[s][r]))]
  PROVE  /\ chan' \in [Rank -> [Rank -> Seq(Chunk)]] /\ part' \in [Rank -> Seq(Chunk)]
         /\ \A p, q \in Rank : p # s \/ q # r => chan'[p][q] = chan[p][q]
         /\ Newest(k) \in Copy
         /\ Len(part'[r]) = Len(part[r]) + 1 /\ Len(part[r]) \in Nat
         /\ Len(chan[s][r]) = Len(chan'[s][r]) + 1 /\ Len(chan'[s][r]) \in Nat
         /\ \A c \in 1 .. Len(part'[r]) : part'[r][c] = [copy |-> Newest(k), chunk |-> c]
         /\ \A c \in 1 .. Len(chan'[s][r]) :
              chan'[s][r][c] = [copy |-> Newest(k), chunk |-> Len(part'[r]) + c]
<1>1. chan \in [Rank -> [Rank -> Seq(Chunk)]] /\ part \in [Rank -> Seq(Chunk)]
  BY DEF IInv, TypeOK
<1> DEFINE h == Head(chan[s][r])
           t == Tail(chan[s][r])
           a == Append(part[r], h)
<1>2. chan[s][r] \in Seq(Chunk) /\ part[r] \in Seq(Chunk)
  BY <1>1
<1>3. /\ Len(chan[s][r]) \in Nat \ {0} /\ h = chan[s][r][1] /\ h \in Chunk
      /\ t \in Seq(Chunk) /\ Len(t) = Len(chan[s][r]) - 1
      /\ \A c \in 1 .. Len(t) : t[c] = chan[s][r][c + 1]
  BY <1>2, HeadTailProperties, EmptySeq, LenProperties, ElementOfSeq
<1>4. /\ Len(part[r]) \in Nat /\ a \in Seq(Chunk) /\ Len(a) = Len(part[r]) + 1
      /\ \A c \in 1 .. Len(part[r]) : a[c] = part[r][c]
      /\ a[Len(part[r]) + 1] = h
  BY <1>2, <1>3, AppendProperties, LenProperties
<1>5. chan' = [chan EXCEPT ![s][r] = t] /\ part' = [part EXCEPT ![r] = a]
  OBVIOUS
<1> HIDE DEF h, t, a
<1>6. /\ chan' \in [Rank -> [Rank -> Seq(Chunk)]] /\ chan'[s][r] = t
      /\ \A p, q \in Rank : p # s \/ q # r => chan'[p][q] = chan[p][q]
  BY <1>1, <1>3, <1>5, HeldFacts, SMTT(30)
<1>7. part' \in [Rank -> Seq(Chunk)] /\ part'[r] = a
  BY <1>1, <1>4, <1>5
<1> HIDE DEF Newest
<1>8. PICK l \in Nat, m \in Nat : l = Len(part[r]) /\ m = Len(t)
  BY <1>3, <1>4, LenProperties
<1>9. Len(chan[s][r]) = m + 1
  BY <1>3, <1>8
<1>10. /\ \A c \in 1 .. l : part[r][c] = [copy |-> Newest(k), chunk |-> c]
       /\ \A c \in 1 .. m + 1 : chan[s][r][c] = [copy |-> Newest(k), chunk |-> l + c]
  BY <1>8, <1>9 DEF Carried
<1>11. h = [copy |-> Newest(k), chunk |-> l + 1]
  <2>1. 1 \in 1 .. m + 1
    BY <1>8
  <2>2. chan[s][r][1] = [copy |-> Newest(k), chunk |-> l + 1]
    BY <2>1, <1>10
  <2>3. QED
    BY <2>2, <1>3
<1>12. Newest(k) \in Copy
  BY <1>3, <1>11 DEF Chunk
<1>13. \A c \in 1 .. l + 1 : a[c] = [copy |-> Newest(k), chunk |-> c]
  BY <1>4, <1>8, <1>10, <1>11, SMTT(30)
<1>14. \A c \in 1 .. m : t[c] = [copy |-> Newest(k), chunk |-> (l + 1) + c]
  <2> SUFFICES ASSUME NEW c \in 1 .. m
               PROVE  t[c] = [copy |-> Newest(k), chunk |-> (l + 1) + c]
    OBVIOUS
  <2>1. t[c] = chan[s][r][c + 1]
    BY <1>3, <1>8
  <2>2. l \in Nat /\ m \in Nat
    BY <1>8
  <2>3. c + 1 \in 1 .. m + 1 /\ l + (c + 1) = (l + 1) + c
    BY <2>2
  <2>4. QED
    BY <2>1, <2>3, <1>10
<1>15. Len(part'[r]) = l + 1 /\ Len(chan'[s][r]) = m
  BY <1>4, <1>6, <1>7, <1>8
<1>16. /\ \A c \in 1 .. Len(part'[r]) : part'[r][c] = [copy |-> Newest(k), chunk |-> c]
       /\ \A c \in 1 .. Len(chan'[s][r]) :
            chan'[s][r][c] = [copy |-> Newest(k), chunk |-> Len(part'[r]) + c]
  BY <1>6, <1>7, <1>13, <1>14, <1>15, ZenonT(60)
<1>17. QED
  BY <1>6, <1>7, <1>8, <1>9, <1>12, <1>15, <1>16

(* A chunk is received; with the last one the matrix is whole, is stored   *)
(* under its k-point, and that k-point is at home once its source returns. *)
LEMMA ReceiveKeeps ==
  ASSUME IInv, NEW r \in Rank, Receive(r)
  PROVE  IInv'
<1>1. TypeOK /\ WalkInv /\ WireInv /\ HomeInv
  BY DEF IInv
<1>k. PICK k, s : k = now[r] /\ s = peer[r]
  OBVIOUS
<1>2. /\ at[r] = "recv" /\ chan[s][r] # <<>>
      /\ chan' = [chan EXCEPT ![s][r] = Tail(chan[s][r])]
      /\ part' = [part EXCEPT ![r] = Append(part[r], Head(chan[s][r]))]
      /\ newest' = newest /\ sets' = sets /\ script' = script
      /\ results' = results /\ buffer' = buffer /\ sent' = sent
      /\ peer' = peer /\ packed' = packed /\ moved' = moved /\ spread' = spread
  BY <1>k DEF Receive
<1>3. /\ k \in Kpoint /\ s \in Rank /\ k \in Nat \ {0} /\ NKpoint \in Nat /\ k <= NKpoint
      /\ (k < NKpoint => k + 1 \in Kpoint) /\ NChunk \in Nat /\ Carried(s, r, k)
      /\ s # r /\ r = Root[k]
  <2>1. k \in Kpoint /\ s \in Rank /\ Carried(s, r, k)
    BY <1>1, <1>2, <1>k DEF WalkInv, WireInv, TypeOK
  <2>2. QED
    BY <2>1, Domains DEF Carried
<1>4. /\ chan' \in [Rank -> [Rank -> Seq(Chunk)]] /\ part' \in [Rank -> Seq(Chunk)]
      /\ \A p, q \in Rank : p # s \/ q # r => chan'[p][q] = chan[p][q]
      /\ Newest(k) \in Copy
      /\ Len(part'[r]) = Len(part[r]) + 1 /\ Len(part[r]) \in Nat
      /\ Len(chan[s][r]) = Len(chan'[s][r]) + 1 /\ Len(chan'[s][r]) \in Nat
      /\ \A c \in 1 .. Len(part'[r]) : part'[r][c] = [copy |-> Newest(k), chunk |-> c]
      /\ \A c \in 1 .. Len(chan'[s][r]) :
           chan'[s][r][c] = [copy |-> Newest(k), chunk |-> Len(part'[r]) + c]
  <2>1. Carried(s, r, k) /\ chan[s][r] # <<>> /\ s \in Rank /\ k \in Kpoint
    BY <1>2, <1>3
  <2>2. /\ chan' = [chan EXCEPT ![s][r] = Tail(chan[s][r])]
        /\ part' = [part EXCEPT ![r] = Append(part[r], Head(chan[s][r]))]
    BY <1>2
  <2> HIDE DEF Newest, Chunk, Copy
  <2>3. QED
    BY <2>1, <2>2, ChunkArrives, ZenonT(60)
<1>t. chan' \in [Rank -> [Rank -> Seq(Chunk)]] /\ part' \in [Rank -> Seq(Chunk)]
  BY <1>4
<1>5. sent[s] = Len(part'[r]) + Len(chan'[s][r]) /\ sent[s] <= NChunk
  <2>1. sent[s] = Len(part[r]) + Len(chan[s][r])
    BY <1>3 DEF Carried
  <2>2. sent[s] \in 0 .. NChunk
    BY <1>1, <1>3 DEF TypeOK
  <2>3. PICK l \in Nat, m \in Nat : l = Len(part[r]) /\ m = Len(chan'[s][r])
    BY <1>4
  <2>4. Len(part[r]) + Len(chan[s][r]) = l + (m + 1)
    BY <2>3, <1>4
  <2>5. Len(part'[r]) + Len(chan'[s][r]) = (l + 1) + m
    BY <2>3, <1>4
  <2>6. l + (m + 1) = (l + 1) + m
    OBVIOUS
  <2>7. sent[s] <= NChunk
    BY <2>2, <1>3
  <2>8. QED
    BY <2>1, <2>4, <2>5, <2>6, <2>7
<1>6. ASSUME NEW p \in Rank, NEW q \in Rank, chan'[p][q] # <<>>
      PROVE  at[q] = "recv" /\ peer[q] = p
  BY <1>6, <1>1, <1>2, <1>4, <1>k, SMTT(30) DEF WireInv
<1>7. CASE Len(part'[r]) < NChunk
  <2>1. held' = held /\ at' = at /\ now' = now
    BY <1>7 DEF Receive
  <2>2. TypeOK'
    BY <2>1, <1>1, <1>2, <1>t DEF TypeOK, Mine
  <2>3. OneVerdict' /\ FlagInv' /\ CallInv' /\ SpreadInv'
    BY <2>1, <1>2, TransferLeaves DEF Walking
  <2>4. WalkInv'
    BY <2>1, <1>1, <1>2 DEF WalkInv
  <2>5. Carried(s, r, k)'
    <3>1. SourceFits(s, k)'
      BY <2>1, <1>2, <1>3 DEF Carried, SourceFits, Newest
    <3>2. \A q \in Rank : q # s => held'[q][k] = NoCopy
      BY <2>1, <1>3 DEF Carried
    <3>3. Newest(k)' = Newest(k)
      BY <1>2 DEF Newest
    <3>4. sent'[s] = Len(part'[r]) + Len(chan'[s][r])
      BY <1>2, <1>5
    <3> HIDE DEF Newest
    <3>5. QED
      BY <3>1, <3>2, <3>3, <3>4, <1>3, <1>4, <1>7 DEF Carried
  <2>6. WireInv'
    <3>1. ASSUME NEW q \in Rank, at'[q] = "recv" PROVE Carried(peer[q], q, now[q])'
      <4>1. q = r
        BY <3>1, <2>1, <1>2, OneTransfer
      <4>2. QED
        BY <4>1, <2>1, <2>5, <1>2, <1>k
    <3>2. ASSUME NEW q \in Rank, at'[q] = "send"
          PROVE  LET d == Root[now[q]]
                 IN q # d /\ peer[d] = q /\ at[d] = "recv" /\ now[d] = now[q]
      <4>1. now[q] = k
        BY <3>2, <2>1, <1>2, <1>k, OneTransfer
      <4>2. QED
        BY <4>1, <3>2, <2>1, <1>1, <1>2, <1>3, <1>k DEF WireInv, Delivered
    <3>3. QED
      BY <3>1, <3>2, <2>1, <1>2, <1>6 DEF WireInv
  <2>7. HomeInv'
    BY <2>1, <1>1, <1>2 DEF HomeInv, Received, UnderWay, Arrived, AtHome, Blocks, Newest, Block
  <2>8. QED
    BY <2>2, <2>3, <2>4, <2>6, <2>7 DEF IInv
<1>8. CASE ~ (Len(part'[r]) < NChunk)
  <2>1. Len(part'[r]) = NChunk /\ chan'[s][r] = <<>> /\ sent[s] = NChunk
    <3>1. PICK l \in Nat, m \in Nat : l = Len(part[r]) /\ m = Len(chan'[s][r])
      BY <1>4
    <3>2. Len(part'[r]) = l + 1 /\ l < NChunk /\ ~ (l + 1 < NChunk)
      BY <3>1, <1>3, <1>4, <1>8 DEF Carried
    <3>3. sent[s] = l + 1 + m /\ sent[s] <= NChunk
      BY <3>1, <3>2, <1>5
    <3>4. l + 1 = NChunk /\ m = 0 /\ sent[s] = NChunk
      BY <3>2, <3>3, <1>3
    <3>5. chan'[s][r] \in Seq(Chunk)
      BY <1>3, <1>4
    <3>6. QED
      BY <3>1, <3>2, <3>4, <3>5, EmptySeq
  <2>2. /\ held' = [held EXCEPT ![r][k] = Newest(k)]
        /\ at' = [at EXCEPT ![r] = Onward(r)] /\ now' = [now EXCEPT ![r] = now[r] + 1]
    <3>1. \A c \in 1 .. NChunk : part'[r][c] = [copy |-> Newest(k), chunk |-> c]
      BY <2>1, <1>4
    <3>2. 1 \in 1 .. NChunk
      BY Domains
    <3>3. part'[r][1].copy = Newest(k)
      <4>1. part'[r][1] = [copy |-> Newest(k), chunk |-> 1]
        BY <3>1, <3>2
      <4>2. QED
        BY <4>1
    <3>4. /\ Len(part'[r]) = NChunk
          /\ \A c \in 1 .. NChunk : part'[r][c] = [copy |-> part'[r][1].copy, chunk |-> c]
      BY <2>1, <3>1, <3>3
    <3> HIDE DEF Newest
    <3>5. QED
      BY <3>3, <3>4, <1>8, <1>k DEF Receive
  <2>3. /\ held' \in [Rank -> [Kpoint -> Copy \cup {NoCopy}]] /\ held'[r][k] = Newest(k)
        /\ \A q \in Rank, j \in Kpoint : q # r \/ j # k => held'[q][j] = held[q][j]
    <3>1. held \in [Rank -> [Kpoint -> Copy \cup {NoCopy}]] /\ Newest(k) \in Copy \cup {NoCopy}
      BY <1>1, <1>4 DEF TypeOK
    <3>2. QED
      BY <3>1, <2>2, <1>3, HeldFacts
  <2>4. /\ now'[r] = k + 1 /\ now'[r] \in 1 .. NKpoint + 1
        /\ (at'[r] = "meet" /\ k < NKpoint) \/ (at'[r] = "total" /\ k = NKpoint)
        /\ \A q \in Rank : q # r => at'[q] = at[q] /\ now'[q] = now[q]
        /\ at' \in [Rank -> {"host", "meet", "send", "recv", "total", "pack", "swap"}]
        /\ now' \in [Rank -> 1 .. NKpoint + 1]
    <3>1. at \in [Rank -> {"host", "meet", "send", "recv", "total", "pack", "swap"}]
          /\ now \in [Rank -> 1 .. NKpoint + 1]
      BY <1>1 DEF TypeOK
    <3>2. k + 1 \in 1 .. NKpoint + 1
      BY <1>3
    <3>3. (Onward(r) = "meet" /\ k < NKpoint) \/ (Onward(r) = "total" /\ k = NKpoint)
      BY <1>k, <1>3 DEF Onward
    <3>4. QED
      BY <3>1, <3>2, <3>3, <2>2, <1>k
  <2>5. TypeOK'
    <3>1. held' \in [Rank -> [Kpoint -> Copy \cup {NoCopy}]]
      BY <2>3
    <3>2. /\ at' \in [Rank -> {"host", "meet", "send", "recv", "total", "pack", "swap"}]
          /\ now' \in [Rank -> 1 .. NKpoint + 1]
      BY <2>4
    <3>3. /\ newest' = newest /\ sets' = sets /\ script' = script /\ results' = results
          /\ buffer' = buffer /\ sent' = sent /\ peer' = peer /\ packed' = packed
          /\ moved' = moved /\ spread' = spread
      BY <1>2
    <3>4. QED
      BY <3>1, <3>2, <3>3, <1>1, <1>t DEF TypeOK, Mine
  <2>6. /\ OneVerdict' /\ FlagInv' /\ CallInv' /\ SpreadInv'
        /\ \A q \in Rank : at'[q] \in Walking /\ ~ moved[q]
    BY <2>4, <1>2, TransferLeaves DEF Walking
  <2>7. \A q \in Rank : \/ at[q] \in {"send", "recv"} /\ now[q] = k
                        \/ at[q] \in {"meet", "total"} /\ now[q] = k + 1
    BY <1>1, <1>2, <1>k DEF WalkInv
  <2>8. \A q \in Rank : (q # r => at[q] # "recv") /\ (at[q] = "send" => q = s)
    <3>1. \A q \in Rank : q # r => at[q] # "recv"
      BY <1>2, OneTransfer
    <3>2. \A q \in Rank : at[q] = "send" => q = s
      BY <2>7, <1>1, <1>3, <1>k DEF WireInv
    <3>3. QED
      BY <3>1, <3>2
  <2>9. WalkInv'
    <3>1. \A q \in Rank : \/ at'[q] = "send" /\ now'[q] = k
                          \/ at'[q] = "meet" /\ now'[q] = k + 1 /\ k + 1 \in Kpoint
                          \/ at'[q] = "total" /\ now'[q] = k + 1 /\ k = NKpoint
      <4>1. \A q \in Rank : at[q] = "meet" => k + 1 \in Kpoint
        BY <1>1, <2>7 DEF WalkInv
      <4>2. \A q \in Rank : at[q] = "total" => k = NKpoint
        BY <1>1, <1>3, <2>7 DEF WalkInv
      <4>3. QED
        BY <4>1, <4>2, <1>3, <2>4, <2>7, <2>8
    <3>2. \A q \in Rank : ~ moved'[q]
      BY <1>2, <2>6
    <3>3. QED
      BY <3>1, <3>2, <1>3 DEF WalkInv
  <2>10. ASSUME at[s] = "send" PROVE Delivered(s, r, k)'
    <3>1. held'[s][k] = Newest(k)
      BY <2>3, <2>10, <1>3 DEF Carried, SourceFits
    <3>2. \A q \in Rank : q \notin {s, r} => held'[q][k] = NoCopy
      BY <2>3, <1>3 DEF Carried
    <3>3. QED
      BY <3>1, <3>2, <2>1, <2>3, <2>4, <1>2 DEF Delivered, Newest
  <2>11. ASSUME at[s] # "send" PROVE \A q \in Rank : held'[q][k] = AtHome(q, k)'
    <3>1. \A q \in Rank : q # r => held[q][k] = NoCopy
      BY <2>11, <1>3 DEF Carried, SourceFits
    <3>2. Newest(k)' = Newest(k)
      BY <1>2 DEF Newest
    <3> HIDE DEF Newest
    <3>3. QED
      BY <3>1, <3>2, <2>3, <1>3 DEF AtHome
  <2>12. WireInv'
    <3>1. \A q \in Rank : at'[q] # "recv"
      BY <2>4, <2>8
    <3>2. ASSUME NEW q \in Rank, at'[q] = "send"
          PROVE  q = s /\ at[s] = "send" /\ now'[q] = k
      BY <3>2, <2>4, <2>7, <2>8
    <3>3. \A p, q \in Rank : chan'[p][q] = <<>>
      <4> SUFFICES ASSUME NEW p \in Rank, NEW q \in Rank, chan'[p][q] # <<>> PROVE FALSE
        OBVIOUS
      <4>1. q = r /\ p = s
        BY <1>6, <2>8, <1>k
      <4>2. QED
        BY <4>1, <2>1
    <3>4. QED
      BY <3>1, <3>2, <3>3, <2>10, <1>2, <1>3, <1>k DEF WireInv
  <2>13. HomeInv'
    <3>1. \A j \in Kpoint : j # k => ~ Received(j) /\ ~ UnderWay(j)
      BY <2>7 DEF Received, UnderWay
    <3>2. at[s] = "send" => UnderWay(k)'
      BY <2>4, <2>7, <1>3 DEF UnderWay
    <3>3. newest[k] # 0
      BY <1>4, CopyFacts DEF Newest
    <3>4. \A q \in Rank, j \in Kpoint : held'[q][j] # NoCopy => held'[q][j].of = j /\ newest'[j] # 0
      BY <2>3, <3>3, <1>1, <1>2 DEF HomeInv, Newest
    <3>5. ASSUME NEW j \in Kpoint, newest'[j] # 0
          PROVE  \E q \in Rank : held'[q][j].version = newest'[j]
      <4>1. CASE j = k
        BY <4>1, <2>3, <1>2 DEF Newest
      <4>2. CASE j # k
        BY <4>2, <3>1, <3>5, <2>3, <1>1, <1>2 DEF HomeInv
      <4>3. QED
        BY <4>1, <4>2
    <3>6. ASSUME NEW q \in Rank, NEW j \in Kpoint, j < now'[q]
          PROVE  UnderWay(j)' \/ \A p \in Rank : held'[p][j] = AtHome(p, j)'
      <4>1. j = k \/ j < k
        BY <3>6, <1>3, <2>4, <2>7, Domains
      <4>2. CASE j = k
        BY <4>2, <3>2, <2>11
      <4>3. CASE j < k
        <5>1. ~ UnderWay(j) /\ j # k
          BY <4>3, <3>1, <1>3, Domains
        <5>2. \A p \in Rank : held[p][j] = AtHome(p, j)
          BY <5>1, <4>3, <1>1, <1>2, <1>k DEF HomeInv, Walking
        <5>3. QED
          BY <5>1, <5>2, <1>2, <2>3 DEF AtHome, Newest
      <4>4. QED
        BY <4>1, <4>2, <4>3
    <3>7. \A q \in Rank : ~ Arrived(q)'
      BY <1>2, <2>6 DEF Arrived, Walking, Spreading
    <3>8. QED
      BY <3>4, <3>5, <3>6, <3>7 DEF HomeInv
  <2>14. QED
    BY <2>5, <2>6, <2>9, <2>12, <2>13 DEF IInv
<1>9. QED
  BY <1>7, <1>8

(* The next k-point of this process's team, if there is one. *)
LEMMA NextMineFacts ==
  ASSUME NEW r \in Rank, NEW k \in Nat
  PROVE  /\ NextMine(r, k) \in 1 .. NKpoint + 1
         /\ \/ /\ NextMine(r, k) \in Mine(r) /\ NextMine(r, k) > k
               /\ \A i \in Mine(r) : i > k => NextMine(r, k) <= i
            \/ NextMine(r, k) = NKpoint + 1 /\ \A i \in Mine(r) : i <= k
<1>1. Mine(r) \subseteq Nat /\ \A i \in Mine(r) : i >= 1 /\ i <= NKpoint
  <2>1. Mine(r) \subseteq Kpoint
    BY DEF Mine
  <2>2. QED
    BY <2>1, Domains DEF Kpoint
<1>2. CASE \E j \in Mine(r) : j > k
  <2> DEFINE T == {j \in Mine(r) : j > k}
  <2>1. T \subseteq Nat /\ T # {}
    BY <1>1, <1>2
  <2>2. \E x \in T : \A y \in T : ~ (<<y, x>> \in OpToRel(<, Nat))
    <3> HIDE DEF T
    <3>1. QED
      BY <2>1, NatLessThanWellFounded, WFMin, Zenon
  <2>3. PICK x \in T : \A y \in T : ~ (y < x)
    BY <2>1, <2>2 DEF OpToRel
  <2>4. x \in Mine(r) /\ x > k /\ \A i \in Mine(r) : i > k => x <= i
    BY <2>1, <2>3
  <2>5. NextMine(r, k) = CHOOSE j \in Mine(r) : j > k /\ \A i \in Mine(r) : i > k => j <= i
    BY <1>2 DEF NextMine
  <2>6. /\ NextMine(r, k) \in Mine(r) /\ NextMine(r, k) > k
        /\ \A i \in Mine(r) : i > k => NextMine(r, k) <= i
    BY <2>4, <2>5
  <2>7. QED
    BY <2>6, <1>1, Domains
<1>3. CASE ~ \E j \in Mine(r) : j > k
  BY <1>1, <1>3, Domains DEF NextMine
<1>4. QED
  BY <1>2, <1>3

(* The k-points of two members of one team are the same. *)
LEMMA TeamFacts ==
  ASSUME NEW k \in Kpoint, NEW r \in Team[k], NEW q \in Team[k]
  PROVE  r \in Rank /\ k \in Mine(r) /\ Mine(q) = Mine(r) /\ \A j : NextMine(q, j) = NextMine(r, j)
<1>1. Mine(q) = Mine(r)
  <2> SUFFICES ASSUME NEW j \in Kpoint PROVE q \in Team[j] <=> r \in Team[j]
    BY DEF Mine
  <2>1. Team[j] = Team[k] \/ Team[j] \cap Team[k] = {}
    BY TeamAssumption
  <2>2. QED
    BY <2>1
<1>2. r \in Rank /\ k \in Mine(r)
  <2>1. Team[k] \subseteq Rank
    BY Domains
  <2>2. QED
    BY <2>1 DEF Mine
<1>3. QED
  BY <1>1, <1>2 DEF NextMine

(* Behind the last k-point all are at home, in the one call all are in.    *)
LEMMA TotalFacts ==
  ASSUME IInv, \A r \in Rank : at[r] = "total"
  PROVE  /\ \A r \in Rank, k \in Kpoint : held[r][k] = AtHome(r, k)
         /\ \A s, d \in Rank : chan[s][d] = <<>>
         /\ \A k \in Kpoint : ~ Received(k)
         /\ \A r \in Rank : ~ spread[r] /\ Met(r) \in Nat /\ Met(r) < Len(script)
                            /\ (Dense(r) => ~ moved[r])
                            /\ script[Met(r) + 1] = IF Dense(r) THEN "dense" ELSE "2d"
         /\ \A r, q \in Rank : Met(r) = Met(q) /\ Dense(r) = Dense(q)
<1>1. TypeOK /\ FlagInv /\ SameCall /\ WalkInv /\ WireInv /\ HomeInv
  BY DEF IInv, CallInv
<1>2. \A k \in Kpoint : ~ Received(k) /\ ~ UnderWay(k)
  BY DEF Received, UnderWay
<1>3. ASSUME NEW r \in Rank, NEW k \in Kpoint PROVE held[r][k] = AtHome(r, k)
  <2>1. at[r] \in Walking /\ now[r] = NKpoint + 1 /\ k < NKpoint + 1
    BY <1>1, Domains DEF WalkInv, Walking
  <2>2. QED
    BY <2>1, <1>1, <1>2 DEF HomeInv
<1>4. \A s, d \in Rank : chan[s][d] = <<>>
  BY <1>1 DEF WireInv
<1>5. ASSUME NEW r \in Rank
      PROVE  /\ ~ spread[r] /\ Met(r) \in Nat /\ Met(r) < Len(script)
             /\ (Dense(r) => ~ moved[r])
             /\ script[Met(r) + 1] = IF Dense(r) THEN "dense" ELSE "2d"
  <2>1. ~ spread[r]
    BY <1>1 DEF FlagInv
  <2>2. Met(r) \in Nat /\ Len(script) \in Nat /\ script \in [1 .. Len(script) -> {"dense", "2d"}]
    BY <1>1, LenProperties DEF TypeOK, Met
  <2>3. Met(r) < Len(script) /\ (script[Met(r) + 1] = "2d" \/ ~ moved[r])
    BY <1>1 DEF SameCall
  <2>4. script[Met(r) + 1] \in {"dense", "2d"}
    BY <2>2, <2>3
  <2>5. QED
    BY <2>1, <2>2, <2>3, <2>4 DEF Dense, Met
<1>6. \A r, q \in Rank : Met(r) = Met(q) /\ Dense(r) = Dense(q)
  <2>1. \A r, q \in Rank : Met(r) = Met(q)
    BY <1>1 DEF SameCall
  <2>2. QED
    BY <2>1 DEF Met, Dense
<1>7. QED
  BY <1>2, <1>3, <1>4, <1>5, <1>6

(* The dense redistribution returns on all processes at once. *)
LEMMA DenseTotalKeeps ==
  ASSUME IInv, Total, NEW z \in Rank, Dense(z)
  PROVE  IInv'
<1>1. TypeOK /\ FlagInv /\ HomeInv
  BY DEF IInv
<1>2. \A r \in Rank : at[r] = "total"
  BY DEF Total
<1>3. \A r \in Rank : Dense(r) /\ ~ spread[r] /\ Met(r) < Len(script)
                      /\ script[Met(r) + 1] = "dense"
  BY <1>2, TotalFacts
<1>4. /\ moved' = [r \in Rank |-> TRUE] /\ Leave(Rank, "ok")
      /\ now' = [r \in Rank |-> NextMine(r, 0)]
      /\ packed' = [r \in Rank |-> [k \in Kpoint |-> NoCopy]]
      /\ held' = held /\ newest' = newest /\ sets' = sets /\ script' = script /\ chan' = chan
      /\ sent' = sent /\ part' = part /\ peer' = peer /\ buffer' = buffer /\ spread' = spread
  <2>1. moved' = [r \in Rank |-> TRUE] /\ at' = [r \in Rank |-> "host"]
        /\ results' = [r \in Rank |-> Append(results[r], "ok")]
    BY <1>3 DEF Total
  <2>2. Leave(Rank, "ok")
    BY <2>1 DEF Leave
  <2>3. QED
    BY <2>1, <2>2 DEF Total, wires
<1>5. /\ results' \in [Rank -> Seq({"ok", "error"})]
      /\ \A r \in Rank : Met(r) \in Nat /\ Met(r)' = Met(r) + 1 /\ at'[r] = "host"
  BY <1>1, <1>4, LeaveFacts
<1>6. OneVerdict' /\ NothingLeftToDo'
  BY <1>3, <1>4, ReturnKeeps
<1>7. TypeOK'
  <2>1. \A r \in Rank : Met(r)' <= Len(script)
    <3>1. Len(script) \in Nat
      BY <1>1, LenProperties DEF TypeOK
    <3>2. QED
      BY <3>1, <1>3, <1>5
  <2>2. \A r \in Rank : Len(results'[r]) <= Len(script)
    BY <2>1 DEF Met
  <2>3. at' \in [Rank -> {"host", "meet", "send", "recv", "total", "pack", "swap"}]
    BY <1>4 DEF Leave
  <2>4. now' \in [Rank -> 1 .. NKpoint + 1]
    BY <1>4, NextMineFacts
  <2>5. packed' \in [Rank -> [Kpoint -> Copy \cup {NoCopy}]]
        /\ \A r \in Rank, k \in Kpoint : packed'[r][k] = NoCopy
    BY <1>4
  <2>6. moved' \in [Rank -> BOOLEAN]
    BY <1>4
  <2>7. held' = held /\ newest' = newest /\ sets' = sets /\ script' = script /\ chan' = chan
        /\ sent' = sent /\ part' = part /\ peer' = peer /\ buffer' = buffer /\ spread' = spread
    BY <1>4
  <2>8. QED
    BY <2>2, <2>3, <2>4, <2>5, <2>6, <2>7, <1>1, <1>5 DEF TypeOK, Mine
<1>8. FlagInv' /\ SameCall' /\ WalkInv'
  BY <1>3, <1>4, <1>5 DEF FlagInv, SameCall, WalkInv, Arrived, Spreading
<1>9. WireInv'
  BY <1>2, <1>4, <1>5, TotalFacts DEF WireInv
<1>10. HomeInv'
  <2>1. \A r \in Rank, k \in Kpoint : held[r][k] = AtHome(r, k) /\ ~ Received(k)
    BY <1>2, TotalFacts
  <2>2. \A r \in Rank : ~ spread'[r] /\ at'[r] \notin Walking
    BY <1>3, <1>4, <1>5 DEF Walking
  <2>3. \A r \in Rank, k \in Kpoint : AtHome(r, k)' = AtHome(r, k)
    BY <1>4 DEF AtHome, Newest
  <2>4. QED
    BY <2>1, <2>2, <2>3, <1>1, <1>4 DEF HomeInv
<1>11. SpreadInv'
  <2>1. \A j \in Kpoint : Team[j] \subseteq Rank
    BY Domains
  <2>2. QED
    BY <2>1, <1>5 DEF SpreadInv
<1>12. QED
  BY <1>6, <1>7, <1>8, <1>9, <1>10, <1>11 DEF IInv, CallInv

(* The two-dimensional one goes on to its second phase on all of them.     *)
LEMMA SpreadTotalKeeps ==
  ASSUME IInv, Total, NEW z \in Rank, ~ Dense(z)
  PROVE  IInv'
<1>1. TypeOK /\ OneVerdict /\ NothingLeftToDo /\ SameCall /\ FlagInv /\ HomeInv
  BY DEF IInv, CallInv
<1>2. \A r \in Rank : at[r] = "total"
  BY DEF Total
<1>3. \A r \in Rank : ~ Dense(r) /\ ~ spread[r] /\ Met(r) < Len(script)
                      /\ script[Met(r) + 1] = "2d"
  BY <1>2, TotalFacts
<1>4. /\ at' = [r \in Rank |-> IF Mine(r) = {} THEN "swap" ELSE "pack"]
      /\ now' = [r \in Rank |-> NextMine(r, 0)]
      /\ packed' = [r \in Rank |-> [k \in Kpoint |-> NoCopy]]
      /\ held' = held /\ newest' = newest /\ sets' = sets /\ script' = script /\ chan' = chan
      /\ sent' = sent /\ part' = part /\ peer' = peer /\ buffer' = buffer /\ spread' = spread
  BY <1>3 DEF Total, wires
<1>5. moved' = moved /\ results' = results
  <2>1. moved' = [r \in Rank |-> moved[r]] /\ results' = [r \in Rank |-> results[r]]
    <3>1. moved \in [Rank -> BOOLEAN]
      BY <1>1 DEF TypeOK
    <3>2. \A r \in Rank : (moved[r] \/ Dense(r)) = moved[r]
      BY <3>1, <1>3
    <3>3. QED
      BY <3>2, <1>3 DEF Total
  <2>2. QED
    BY <2>1, <1>1 DEF TypeOK
<1>6. \A r \in Rank : /\ NextMine(r, 0) \in 1 .. NKpoint + 1
                      /\ Mine(r) # {} => NextMine(r, 0) \in Mine(r)
                      /\ \A i \in Mine(r) : NextMine(r, 0) <= i
  <2>1. \A r \in Rank : \A i \in Mine(r) : i \in Nat /\ i > 0
    <3>1. \A r \in Rank : Mine(r) \subseteq Nat \ {0}
      BY Domains DEF Mine
    <3>2. QED
      BY <3>1
  <2>2. QED
    BY <2>1, NextMineFacts
<1>7. TypeOK'
  <2>1. at' \in [Rank -> {"host", "meet", "send", "recv", "total", "pack", "swap"}]
        /\ now' \in [Rank -> 1 .. NKpoint + 1]
    BY <1>4, <1>6
  <2>2. packed' \in [Rank -> [Kpoint -> Copy \cup {NoCopy}]]
        /\ \A r \in Rank, k \in Kpoint : packed'[r][k] = NoCopy
    BY <1>4
  <2>3. held' = held /\ newest' = newest /\ sets' = sets /\ script' = script /\ chan' = chan
        /\ sent' = sent /\ part' = part /\ peer' = peer /\ buffer' = buffer /\ spread' = spread
    BY <1>4
  <2>4. QED
    BY <2>1, <2>2, <2>3, <1>1, <1>5 DEF TypeOK, Mine
<1>8. \A r \in Rank : at'[r] \in Spreading
  BY <1>4 DEF Spreading
<1>9. OneVerdict' /\ CallInv'
  <2>1. OneVerdict' /\ NothingLeftToDo'
    BY <1>1, <1>4, <1>5 DEF OneVerdict, NothingLeftToDo, Met
  <2>2. SameCall'
    BY <1>1, <1>2, <1>3, <1>4, <1>5 DEF SameCall, Met
  <2>3. QED
    BY <2>1, <2>2 DEF CallInv
<1>10. FlagInv' /\ WalkInv'
  BY <1>3, <1>4, <1>8 DEF FlagInv, WalkInv, Arrived, Spreading
<1>11. WireInv'
  BY <1>2, <1>4, <1>8, TotalFacts DEF WireInv, Spreading
<1>12. HomeInv'
  <2>1. \A r \in Rank, k \in Kpoint : held[r][k] = AtHome(r, k) /\ ~ Received(k)
    BY <1>2, TotalFacts
  <2>2. \A r \in Rank : ~ spread'[r] /\ at'[r] \notin Walking
    BY <1>3, <1>4, <1>8 DEF Walking, Spreading
  <2>3. \A r \in Rank, k \in Kpoint : AtHome(r, k)' = AtHome(r, k)
    BY <1>4 DEF AtHome, Newest
  <2>4. QED
    BY <2>1, <2>2, <2>3, <1>1, <1>4 DEF HomeInv
<1>13. SpreadInv'
  <2>1. ASSUME NEW r \in Rank, NEW k \in Kpoint, k < now'[r] \/ at'[r] = "swap"
        PROVE  Blocks(r, k)' = NoCopy
    <3>1. k \notin Mine(r)
      <4>1. k \in Nat /\ now'[r] = NextMine(r, 0) /\ NextMine(r, 0) \in Nat
        BY <1>4, <1>6, Domains
      <4>2. QED
        BY <4>1, <2>1, <1>4, <1>6
    <3>2. QED
      BY <3>1 DEF Blocks, Mine
  <2>2. ASSUME NEW k \in Kpoint, NEW r \in Team[k], NEW q \in Team[k], at'[r] = "pack"
        PROVE  at'[q] = "pack" /\ now'[q] = now'[r]
    <3>1. r \in Rank /\ q \in Rank /\ Mine(q) = Mine(r) /\ NextMine(q, 0) = NextMine(r, 0)
      BY TeamFacts
    <3>2. QED
      BY <3>1, <2>2, <1>4
  <2>3. ASSUME NEW r \in Rank, at'[r] = "pack" PROVE now'[r] \in Mine(r)
    BY <2>3, <1>4, <1>6
  <2>4. \A r \in Rank, k \in Kpoint : packed'[r][k] = NoCopy
    BY <1>4
  <2>5. QED
    BY <2>1, <2>2, <2>3, <2>4 DEF SpreadInv, Mine
<1>14. QED
  BY <1>7, <1>9, <1>10, <1>11, <1>12, <1>13 DEF IInv

(* What a process of the second phase holds is at home; so the check that  *)
(* a team makes there succeeds.                                            *)
LEMMA SpreadingFacts ==
  ASSUME IInv, NEW r \in Rank, at[r] \in Spreading
  PROVE  /\ ~ spread[r] /\ \A k \in Kpoint : held[r][k] = AtHome(r, k)
         /\ \A q \in Rank : at[q] \notin {"send", "recv", "total"} /\ (at[q] = "meet" => now[q] = 1)
         /\ \A s, d \in Rank : chan[s][d] = <<>>
<1>1. FlagInv /\ HomeInv
  BY DEF IInv
<1>2. ~ spread[r] /\ Arrived(r) /\ at[r] \notin Walking
  BY <1>1 DEF FlagInv, Arrived, Spreading, Walking
<1>3. \A k \in Kpoint : held[r][k] = AtHome(r, k)
  BY <1>1, <1>2 DEF HomeInv
<1>4. QED
  BY <1>2, <1>3, NothingUnderWay

(* A team packs the next of its k-points. *)
LEMMA PackKeeps ==
  ASSUME IInv, NEW k \in Kpoint, Pack(k)
  PROVE  IInv'
<1>1. TypeOK /\ OneVerdict /\ FlagInv /\ SameCall /\ NothingLeftToDo /\ WalkInv /\ WireInv
      /\ HomeInv /\ SpreadInv
  BY DEF IInv, CallInv
<1>2. \A r \in Team[k] : r \in Rank /\ at[r] = "pack" /\ at[r] \in Spreading /\ now[r] = k
  BY Domains DEF Pack, Spreading
<1>3. \A r \in Team[k] : held[r][k] = AtHome(r, k)
  BY <1>2, SpreadingFacts
<1>4. Root[k] \in Team[k] /\ k \in Nat \ {0} /\ k <= NKpoint /\ NKpoint \in Nat
  BY Domains
<1>5. held[Root[k]][k] = Newest(k) /\ Block(k) \in Copy
  <2>1. held[Root[k]][k] = Newest(k)
    BY <1>3, <1>4 DEF AtHome
  <2>2. held[Root[k]][k] \in Copy \cup {NoCopy}
    BY <1>1, <1>2, <1>4 DEF TypeOK
  <2>3. Newest(k) \in Copy
    BY <2>1, <2>2, CopyFacts
  <2>4. QED
    BY <2>1, <2>3 DEF Newest, Block, Copy
<1>6. Packable(k)
  BY <1>3 DEF Packable, AtHome, Newest
<1>7. /\ packed' = [r \in Rank |-> IF r \in Team[k] THEN [packed[r] EXCEPT ![k] = Block(k)]
                                                     ELSE packed[r]]
      /\ now' = [r \in Rank |-> IF r \in Team[k] THEN NextMine(r, k) ELSE now[r]]
      /\ at' = [r \in Rank |-> IF r \in Team[k] /\ now'[r] > NKpoint THEN "swap" ELSE at[r]]
      /\ results' = results /\ held' = held /\ newest' = newest /\ sets' = sets
      /\ script' = script /\ chan' = chan /\ sent' = sent /\ part' = part /\ peer' = peer
      /\ buffer' = buffer /\ moved' = moved /\ spread' = spread
  <2>1. [held[Root[k]][k] EXCEPT !.form = "block"] = Block(k)
    BY <1>5 DEF Newest, Block
  <2>2. QED
    BY <2>1, <1>6 DEF Pack, wires
<1>8. /\ now' \in [Rank -> 1 .. NKpoint + 1]
      /\ at' \in [Rank -> {"host", "meet", "send", "recv", "total", "pack", "swap"}]
  <2>1. /\ now \in [Rank -> 1 .. NKpoint + 1]
        /\ at \in [Rank -> {"host", "meet", "send", "recv", "total", "pack", "swap"}]
    BY <1>1 DEF TypeOK
  <2>2. \A r \in Rank : NextMine(r, k) \in 1 .. NKpoint + 1
    BY <1>4, NextMineFacts
  <2>3. QED
    BY <2>1, <2>2, <1>7
<1>9. \A r \in Rank : r \notin Team[k] =>
        at'[r] = at[r] /\ now'[r] = now[r] /\ packed'[r] = packed[r]
  BY <1>7
<1>10. \A r \in Team[k] : /\ now'[r] = NextMine(r, k) /\ at'[r] \in Spreading
                          /\ at'[r] = IF NextMine(r, k) > NKpoint THEN "swap" ELSE "pack"
  BY <1>2, <1>7 DEF Spreading
<1>11. \A r \in Team[k] : /\ packed'[r] \in [Kpoint -> Copy \cup {NoCopy}]
                          /\ packed'[r][k] = Block(k)
                          /\ \A j \in Kpoint : j # k => packed'[r][j] = packed[r][j]
  <2>1. \A r \in Rank : packed[r] \in [Kpoint -> Copy \cup {NoCopy}]
    BY <1>1 DEF TypeOK
  <2>2. \A r \in Team[k] : packed'[r] = [packed[r] EXCEPT ![k] = Block(k)]
    BY <1>2, <1>7
  <2> HIDE DEF Block
  <2>3. QED
    BY <2>1, <2>2, <1>2, <1>5, ZenonT(60)
<1>12. \A r \in Team[k] : k \in Mine(r)
  BY DEF Mine
<1>13. TypeOK'
  <2>1. packed' \in [Rank -> [Kpoint -> Copy \cup {NoCopy}]]
    <3>1. packed' = [r \in Rank |-> packed'[r]]
      BY <1>7
    <3>2. \A r \in Rank : packed'[r] \in [Kpoint -> Copy \cup {NoCopy}]
      BY <1>1, <1>9, <1>11 DEF TypeOK
    <3>3. QED
      BY <3>1, <3>2
  <2>2. \A r \in Rank, j \in Kpoint : packed'[r][j] # NoCopy =>
          packed'[r][j].form = "block" /\ j \in Mine(r)
    <3>1. \A r \in Rank, j \in Kpoint : packed[r][j] # NoCopy =>
            packed[r][j].form = "block" /\ j \in Mine(r)
      BY <1>1 DEF TypeOK
    <3>2. Block(k).form = "block"
      BY DEF Block
    <3> HIDE DEF Block
    <3>3. QED
      BY <3>1, <3>2, <1>9, <1>11, <1>12
  <2>3. results' = results /\ held' = held /\ newest' = newest /\ sets' = sets
      /\ script' = script /\ chan' = chan /\ sent' = sent /\ part' = part /\ peer' = peer
      /\ buffer' = buffer /\ moved' = moved /\ spread' = spread
    BY <1>7
  <2>4. QED
    BY <2>1, <2>2, <2>3, <1>1, <1>8 DEF TypeOK, Mine
<1>14. \A r \in Rank : /\ at'[r] \in Spreading <=> at[r] \in Spreading
                       /\ at'[r] \notin Spreading => at'[r] = at[r] /\ now'[r] = now[r]
  BY <1>2, <1>9, <1>10
<1>15. OneVerdict' /\ FlagInv' /\ CallInv'
  <2>1. OneVerdict' /\ NothingLeftToDo'
    BY <1>1, <1>7 DEF OneVerdict, NothingLeftToDo, Met
  <2>2. \A r \in Rank : (at'[r] # "host" <=> at[r] # "host") /\ Met(r)' = Met(r)
    BY <1>7, <1>14 DEF Spreading, Met
  <2>3. SameCall' /\ FlagInv'
    BY <2>2, <1>1, <1>7, <1>14 DEF SameCall, FlagInv, Arrived
  <2>4. QED
    BY <2>1, <2>3 DEF CallInv
<1>16. /\ \A q \in Rank : at'[q] \notin {"send", "recv", "total"} /\ (at'[q] = "meet" => now'[q] = 1)
       /\ \A s, d \in Rank : chan'[s][d] = <<>>
  BY <1>2, <1>4, <1>7, <1>14, SpreadingFacts DEF Spreading
<1>17. WalkInv' /\ WireInv'
  BY <1>16, Domains DEF WalkInv, WireInv
<1>18. HomeInv'
  <2>1. \A j \in Kpoint : ~ Received(j)
    BY <1>2, <1>4, SpreadingFacts DEF Received
  <2>2. \A r \in Rank : at'[r] \in Walking => now'[r] = 1
    BY <1>16 DEF Walking
  <2>3. \A r \in Rank, j \in Kpoint : AtHome(r, j)' = AtHome(r, j) /\ Blocks(r, j)' = Blocks(r, j)
    BY <1>7 DEF AtHome, Newest, Blocks, Block, Mine
  <2>4. \A r \in Rank : Arrived(r)' <=> Arrived(r)
    BY <1>7, <1>14 DEF Arrived
  <2>5. \A j \in Kpoint : ~ (j < 1)
    BY Domains
  <2>6. QED
    BY <2>1, <2>2, <2>3, <2>4, <2>5, <1>1, <1>7 DEF HomeInv
<1>19. SpreadInv'
  <2>1. \A r \in Rank, j \in Kpoint : Blocks(r, j)' = Blocks(r, j)
    BY <1>7 DEF Blocks, Block, Mine
  <2>2. ASSUME NEW r \in Team[k], NEW j \in Kpoint
        PROVE  packed'[r][j] = IF j < NextMine(r, k) THEN Blocks(r, j) ELSE NoCopy
    <3>1. /\ NextMine(r, k) \in Nat /\ k < NextMine(r, k) /\ j \in Nat
          /\ j \in Mine(r) /\ k < j => NextMine(r, k) <= j
      BY <1>2, <1>4, NextMineFacts, Domains DEF Mine
    <3>2. packed[r][j] = IF j < k THEN Blocks(r, j) ELSE NoCopy
      BY <1>1, <1>2 DEF SpreadInv
    <3>3. CASE j < k
      BY <3>1, <3>2, <3>3, <1>4, <1>11
    <3>4. CASE j = k
      BY <3>1, <3>4, <1>11, <1>12 DEF Blocks
    <3>5. CASE k < j
      <4>1. packed'[r][j] = NoCopy
        BY <3>1, <3>2, <3>5, <1>4, <1>11
      <4>2. j < NextMine(r, k) => Blocks(r, j) = NoCopy
        BY <3>1, <3>5 DEF Blocks
      <4>3. QED
        BY <4>1, <4>2
    <3>6. QED
      BY <3>1, <3>3, <3>4, <3>5, <1>4
  <2>3. ASSUME NEW r \in Team[k]
        PROVE  /\ at'[r] = "pack" => now'[r] \in Mine(r)
               /\ at'[r] = "swap" => \A j \in Kpoint : j < NextMine(r, k)
    <3>1. NextMine(r, k) \in 1 .. NKpoint + 1 /\ (NextMine(r, k) \in Mine(r) \/ NextMine(r, k) = NKpoint + 1)
      BY <1>2, <1>4, NextMineFacts
    <3>2. at'[r] = "pack" => NextMine(r, k) \in Mine(r)
      BY <3>1, <1>4, <1>10
    <3>3. at'[r] = "swap" => \A j \in Kpoint : j < NextMine(r, k)
      BY <3>1, <1>4, <1>10, Domains
    <3>4. QED
      BY <3>2, <3>3, <1>10
  <2>4. ASSUME NEW j \in Kpoint, NEW r \in Team[j], NEW q \in Team[j], at'[r] = "pack"
        PROVE  at'[q] = "pack" /\ now'[q] = now'[r]
    <3>1. r \in Rank /\ q \in Rank /\ (Team[j] = Team[k] \/ Team[j] \cap Team[k] = {})
      BY Domains, TeamAssumption
    <3>2. CASE Team[j] = Team[k]
      <4>1. NextMine(q, k) = NextMine(r, k)
        BY <3>2, TeamFacts
      <4>2. QED
        BY <4>1, <3>2, <2>4, <1>10
    <3>3. CASE Team[j] \cap Team[k] = {}
      BY <3>1, <3>3, <2>4, <1>1, <1>9 DEF SpreadInv
    <3>4. QED
      BY <3>1, <3>2, <3>3
  <2>5. ASSUME NEW r \in Rank
        PROVE  /\ at'[r] = "pack" =>
                    /\ now'[r] \in Mine(r)
                    /\ \A j \in Kpoint : packed'[r][j] = IF j < now'[r] THEN Blocks(r, j) ELSE NoCopy
               /\ at'[r] = "swap" => \A j \in Kpoint : packed'[r][j] = Blocks(r, j)
    <3>1. CASE r \in Team[k]
      BY <3>1, <2>2, <2>3, <1>10
    <3>2. CASE r \notin Team[k]
      BY <3>2, <1>1, <1>9 DEF SpreadInv
    <3>3. QED
      BY <3>1, <3>2
  <2>6. QED
    BY <2>1, <2>4, <2>5 DEF SpreadInv, Mine
<1>20. QED
  BY <1>13, <1>15, <1>17, <1>18, <1>19 DEF IInv

(* The blocks are swapped in and the call returns.                         *)
LEMMA SwapKeeps ==
  ASSUME IInv, NEW r \in Rank, Swap(r)
  PROVE  IInv'
<1>1. TypeOK /\ FlagInv /\ SameCall /\ WalkInv /\ HomeInv /\ SpreadInv
  BY DEF IInv, CallInv
<1>2. /\ at[r] = "swap" /\ at[r] \in Spreading /\ Leave({r}, "ok")
      /\ held' = [held EXCEPT ![r] = packed[r]]
      /\ moved' = [moved EXCEPT ![r] = TRUE] /\ spread' = [spread EXCEPT ![r] = TRUE]
      /\ newest' = newest /\ sets' = sets /\ script' = script /\ now' = now /\ chan' = chan
      /\ sent' = sent /\ part' = part /\ peer' = peer /\ buffer' = buffer /\ packed' = packed
  BY DEF Swap, wires, Spreading
<1>3. /\ results' \in [Rank -> Seq({"ok", "error"})]
      /\ at'[r] = "host" /\ \A q \in Rank : q # r => at'[q] = at[q] /\ Met(q)' = Met(q)
      /\ Met(r) \in Nat /\ Met(r)' = Met(r) + 1
  BY <1>1, <1>2, LeaveFacts
<1>4. /\ held' \in [Rank -> [Kpoint -> Copy \cup {NoCopy}]]
      /\ \A k \in Kpoint : held'[r][k] = Blocks(r, k) /\ held'[r][k] = packed[r][k]
      /\ \A q \in Rank : q # r => held'[q] = held[q]
  <2>1. held \in [Rank -> [Kpoint -> Copy \cup {NoCopy}]]
        /\ packed[r] \in [Kpoint -> Copy \cup {NoCopy}]
    BY <1>1 DEF TypeOK
  <2>2. \A k \in Kpoint : packed[r][k] = Blocks(r, k)
    BY <1>1, <1>2 DEF SpreadInv
  <2>3. QED
    BY <2>1, <2>2, <1>2
<1>5. /\ moved' \in [Rank -> BOOLEAN] /\ spread' \in [Rank -> BOOLEAN]
      /\ moved'[r] /\ spread'[r]
      /\ \A q \in Rank : q # r => moved'[q] = moved[q] /\ spread'[q] = spread[q]
  BY <1>1, <1>2 DEF TypeOK
<1>6. OneVerdict' /\ NothingLeftToDo'
  <2>1. \A q \in Rank : (moved[q] => moved'[q]) /\ (spread[q] => spread'[q])
    BY <1>5
  <2>2. \A i \in 1 .. Len(script) : script'[i] = script[i]
    BY <1>2
  <2>3. \A q \in {r} : moved'[q] /\ (spread'[q] \/ script'[Met(q) + 1] = "dense")
    BY <1>5
  <2>4. {r} \in SUBSET Rank /\ Leave({r}, "ok")
    BY <1>2
  <2>5. QED
    BY <2>1, <2>2, <2>3, <2>4, ReturnKeeps
<1>7. TypeOK'
  <2>1. \A q \in Rank : Met(q)' <= Len(script)
    <3>1. Met(r) < Len(script) /\ Len(script) \in Nat
      BY <1>1, <1>2, LenProperties DEF SameCall, TypeOK
    <3>2. \A q \in Rank : Met(q) <= Len(script)
      BY <1>1 DEF TypeOK, Met
    <3>3. QED
      BY <3>1, <3>2, <1>3
  <2>2. \A q \in Rank : Len(results'[q]) <= Len(script)
    BY <2>1 DEF Met
  <2>3. at' \in [Rank -> {"host", "meet", "send", "recv", "total", "pack", "swap"}]
    <3>1. at' = [q \in Rank |-> at'[q]]
      BY <1>2 DEF Leave
    <3>2. QED
      BY <3>1, <1>1, <1>3 DEF TypeOK
  <2>4. results' \in [Rank -> Seq({"ok", "error"})]
        /\ held' \in [Rank -> [Kpoint -> Copy \cup {NoCopy}]]
        /\ moved' \in [Rank -> BOOLEAN] /\ spread' \in [Rank -> BOOLEAN]
    BY <1>3, <1>4, <1>5
  <2>5. /\ newest' = newest /\ sets' = sets /\ script' = script /\ now' = now /\ chan' = chan
        /\ sent' = sent /\ part' = part /\ peer' = peer /\ buffer' = buffer /\ packed' = packed
    BY <1>2
  <2>6. QED
    BY <2>2, <2>3, <2>4, <2>5, <1>1 DEF TypeOK, Mine
<1>8. /\ \A q \in Rank : at[q] \notin {"send", "recv", "total"} /\ (at[q] = "meet" => now[q] = 1)
      /\ \A s, d \in Rank : chan[s][d] = <<>>
      /\ ~ spread[r] /\ \A k \in Kpoint : held[r][k] = AtHome(r, k)
  BY <1>2, SpreadingFacts
<1>9. WalkInv' /\ WireInv'
  <2>1. \A q \in Rank : at'[q] \notin {"send", "recv", "total"} /\ (at'[q] = "meet" => now'[q] = 1)
    BY <1>2, <1>3, <1>8
  <2>2. QED
    BY <2>1, <1>2, <1>8, Domains DEF WalkInv, WireInv
<1>10. \A q \in Rank : Arrived(q) /\ Arrived(q)'
  <2>1. \A q \in Rank : Arrived(q)
    BY <1>1, <1>2 DEF FlagInv, Arrived
  <2>2. QED
    BY <2>1, <1>3, <1>5 DEF Arrived
<1>11. FlagInv' /\ SameCall'
  <2>1. \A q \in Rank : spread'[q] => moved'[q] /\ at'[q] = "host"
    BY <1>1, <1>3, <1>5 DEF FlagInv
  <2>2. \A q \in Rank : at'[q] \in Spreading \/ spread'[q]
    BY <1>1, <1>2, <1>3, <1>5 DEF FlagInv
  <2>3. SameCall'
    <3> SUFFICES ASSUME NEW q \in Rank, at'[q] # "host", NEW p \in Rank, at'[p] # "host"
                 PROVE  /\ Met(q)' < Len(script)
                        /\ script[Met(q)' + 1] = "2d" \/ (~ moved'[q] /\ at'[q] \notin Spreading)
                        /\ Met(q)' = Met(p)'
      BY <1>2 DEF SameCall
    <3>1. q # r /\ p # r
      BY <1>3
    <3>2. at'[q] = at[q] /\ at'[p] = at[p] /\ moved'[q] = moved[q]
          /\ Met(q)' = Met(q) /\ Met(p)' = Met(p)
      BY <3>1, <1>3, <1>5
    <3>3. QED
      BY <3>2, <1>1 DEF SameCall
  <2>4. QED
    BY <2>1, <2>2, <2>3, <1>10 DEF FlagInv
<1>12. HomeInv'
  <2>1. \A q \in Rank, k \in Kpoint : AtHome(q, k)' = AtHome(q, k) /\ Blocks(q, k)' = Blocks(q, k)
    BY <1>2 DEF AtHome, Newest, Blocks, Block, Mine
  <2>2. \A q \in Rank, k \in Kpoint : held'[q][k] =
          IF spread'[q] THEN Blocks(q, k) ELSE AtHome(q, k)
    BY <1>1, <1>4, <1>5, <1>10 DEF HomeInv
  <2>3. ASSUME NEW q \in Rank, NEW k \in Kpoint, held'[q][k] # NoCopy
        PROVE  held'[q][k].of = k /\ newest[k] # 0
    <3>1. CASE q = r
      <4>1. held'[q][k] \in Copy
        BY <2>3, <1>4
      <4>2. held'[q][k] = Block(k)
        BY <3>1, <2>3, <1>4 DEF Blocks
      <4>3. QED
        BY <4>1, <4>2, CopyFacts DEF Block
    <3>2. CASE q # r
      BY <3>2, <2>3, <1>1, <1>4 DEF HomeInv
    <3>3. QED
      BY <3>1, <3>2
  <2>4. ASSUME NEW k \in Kpoint, newest[k] # 0
        PROVE  \E q \in Rank : held'[q][k].version = newest[k]
    <3>1. ~ Received(k)
      BY <1>8 DEF Received
    <3>2. PICK q \in Rank : held[q][k].version = newest[k]
      BY <3>1, <2>4, <1>1 DEF HomeInv
    <3>3. CASE q # r
      BY <3>2, <3>3, <1>4
    <3>4. CASE q = r
      <4>1. r = Root[k]
        BY <3>2, <3>4, <2>4, <1>8 DEF AtHome, NoCopy
      <4>2. held'[r][k] = Block(k)
        BY <4>1, <1>4, Domains DEF Blocks, Mine
      <4>3. QED
        BY <4>2 DEF Block
    <3>5. QED
      BY <3>3, <3>4
  <2>5. \A q \in Rank : at'[q] \in Walking => now'[q] = 1
    BY <1>2, <1>3, <1>8 DEF Walking
  <2>6. \A k \in Kpoint : ~ (k < 1)
    BY Domains
  <2>7. QED
    BY <2>1, <2>2, <2>3, <2>4, <2>5, <2>6, <1>2 DEF HomeInv
<1>13. SpreadInv'
  <2>1. \A q \in Rank, k \in Kpoint : Blocks(q, k)' = Blocks(q, k)
    BY <1>2 DEF Blocks, Block, Mine
  <2>2. ASSUME NEW k \in Kpoint, NEW p \in Team[k], NEW q \in Team[k], at'[p] = "pack"
        PROVE  at'[q] = "pack" /\ now'[q] = now'[p]
    <3>1. p \in Rank /\ q \in Rank
      BY Domains
    <3>2. at[p] = "pack"
      BY <3>1, <2>2, <1>3
    <3>3. at[q] = "pack" /\ now[q] = now[p]
      BY <3>2, <1>1 DEF SpreadInv
    <3>4. QED
      BY <3>1, <3>3, <1>2, <1>3
  <2>3. QED
    <3>1. \A q \in Rank : at'[q] \in {"pack", "swap"} =>
            at[q] = at'[q] /\ now'[q] = now[q] /\ packed'[q] = packed[q]
      BY <1>2, <1>3
    <3>2. \A q \in Rank : Mine(q)' = Mine(q)
      BY DEF Mine
    <3>3. QED
      BY <3>1, <3>2, <2>1, <2>2, <1>1 DEF SpreadInv
<1>14. QED
  BY <1>6, <1>7, <1>9, <1>11, <1>12, <1>13 DEF IInv, CallInv
-----------------------------------------------------------------------------
(* Before anything is set, everything is where it should be.               *)
LEMMA InitHolds == Init => IInv
<1> SUFFICES ASSUME Init PROVE IInv
  OBVIOUS
<1>1. TypeOK
  <2>1. held \in [Rank -> [Kpoint -> Copy \cup {NoCopy}]]
        /\ packed \in [Rank -> [Kpoint -> Copy \cup {NoCopy}]]
        /\ \A r \in Rank, k \in Kpoint : packed[r][k] = NoCopy
    BY DEF Init
  <2>2. /\ newest \in [Kpoint -> 0 .. MaxSet] /\ sets \in 0 .. MaxSet
        /\ now \in [Rank -> 1 .. NKpoint + 1] /\ sent \in [Rank -> 0 .. NChunk]
    BY TeamAssumption DEF Init
  <2>3. script \in Seq({"dense", "2d"}) /\ results \in [Rank -> Seq({"ok", "error"})]
        /\ chan \in [Rank -> [Rank -> Seq(Chunk)]] /\ part \in [Rank -> Seq(Chunk)]
    BY EmptySeq DEF Init
  <2>4. \A r \in Rank : Len(results[r]) <= Len(script)
    BY DEF Init
  <2>5. QED
    BY <2>1, <2>2, <2>3, <2>4 DEF Init, TypeOK
<1>2. OneVerdict /\ CallInv
  BY DEF Init, OneVerdict, CallInv, SameCall, NothingLeftToDo, Met
<1>3. FlagInv /\ WalkInv /\ WireInv
  BY DEF Init, FlagInv, WalkInv, WireInv, Arrived, Spreading
<1>4. HomeInv
  BY DEF Init, HomeInv, Received, Arrived, Spreading, Walking
<1>5. SpreadInv
  <2>1. \A j \in Kpoint : Team[j] \subseteq Rank
    BY Domains
  <2>2. QED
    BY <2>1 DEF Init, SpreadInv
<1>6. QED
  BY <1>1, <1>2, <1>3, <1>4, <1>5 DEF IInv

(* Every step keeps the inductive invariant. *)
LEMMA NextKeeps == IInv /\ [Next]_vars => IInv'
<1> SUFFICES ASSUME IInv, [Next]_vars PROVE IInv'
  OBVIOUS
<1>1. ASSUME NEW rk \in Reads, NEW form \in {"dense", "odd"}, SetWfc(rk[1], rk[2], form)
      PROVE  IInv'
  <2>1. rk[1] \in Rank /\ rk[2] \in Kpoint
    BY TeamAssumption
  <2>2. QED
    BY <2>1, <1>1, SetWfcKeeps
<1>2. ASSUME NEW r \in Rank, NEW op \in {"dense", "2d"}, Call(r, op) PROVE IInv'
  BY <1>2, CallKeeps
<1>3. ASSUME NEW r \in Rank, Work(r) PROVE IInv'
  BY <1>3, SendKeeps, SentKeeps, ReceiveKeeps, SwapKeeps DEF Work
<1>4. ASSUME NEW k \in Kpoint, Meet(k) PROVE IInv'
  BY <1>4, MeetingFails, MeetingMoves
<1>5. ASSUME NEW k \in Kpoint, Pack(k) PROVE IInv'
  BY <1>5, PackKeeps
<1>6. ASSUME Total PROVE IInv'
  <2>1. CASE \E z \in Rank : Dense(z)
    BY <2>1, <1>6, DenseTotalKeeps
  <2>2. CASE \E z \in Rank : ~ Dense(z)
    BY <2>2, <1>6, SpreadTotalKeeps
  <2>3. \E z \in Rank : TRUE
    BY Domains
  <2>4. QED
    BY <2>1, <2>2, <2>3
<1>7. ASSUME UNCHANGED vars PROVE IInv'
  <2>1. /\ held' = held /\ newest' = newest /\ sets' = sets /\ script' = script
        /\ results' = results /\ at' = at /\ now' = now /\ chan' = chan /\ buffer' = buffer
        /\ sent' = sent /\ part' = part /\ peer' = peer /\ packed' = packed
        /\ moved' = moved /\ spread' = spread
    BY <1>7 DEF vars
  <2>2. TypeOK' /\ OneVerdict' /\ FlagInv' /\ WalkInv'
    BY <2>1 DEF IInv, TypeOK, OneVerdict, FlagInv, WalkInv, Arrived, Mine
  <2>3. CallInv'
    BY <2>1 DEF IInv, CallInv, SameCall, NothingLeftToDo, Met
  <2>4. WireInv'
    <3>1. ASSUME NEW s, NEW d, NEW k, Carried(s, d, k) PROVE Carried(s, d, k)'
      <4>1. Newest(k)' = Newest(k) /\ SourceFits(s, k)'
        BY <3>1, <2>1 DEF Carried, SourceFits, Newest
      <4> HIDE DEF Newest
      <4>2. QED
        BY <3>1, <2>1, <4>1 DEF Carried
    <3>2. \A s, d, k : Delivered(s, d, k) => Delivered(s, d, k)'
      BY <2>1 DEF Delivered, Newest
    <3>3. ASSUME NEW d \in Rank, at'[d] = "recv" PROVE Carried(peer[d], d, now[d])'
      <4>1. Carried(peer[d], d, now[d])
        BY <3>3, <2>1 DEF IInv, WireInv
      <4>2. QED
        BY <4>1, <3>1, <2>1
    <3>4. ASSUME NEW s \in Rank, at'[s] = "send"
          PROVE  LET d == Root[now[s]]
                 IN /\ s # d /\ peer[d] = s
                    /\ (at[d] = "recv" /\ now[d] = now[s]) \/ Delivered(s, d, now[s])
      BY <3>4, <2>1 DEF IInv, WireInv
    <3>5. ASSUME NEW s \in Rank, at'[s] = "send"
          PROVE  /\ s # Root[now'[s]] /\ peer'[Root[now'[s]]] = s
                 /\ \/ at'[Root[now'[s]]] = "recv" /\ now'[Root[now'[s]]] = now'[s]
                    \/ Delivered(s, Root[now[s]], now[s])'
      <4>1. PICK k, d : k = now[s] /\ d = Root[k]
        OBVIOUS
      <4>2. s # d /\ peer[d] = s /\ ((at[d] = "recv" /\ now[d] = k) \/ Delivered(s, d, k))
        BY <4>1, <3>4, <3>5
      <4>3. (at[d] = "recv" /\ now[d] = k) \/ Delivered(s, d, k)'
        BY <4>2, <3>2
      <4>4. k = now'[s] /\ d = Root[now'[s]]
        BY <4>1, <2>1
      <4>5. Delivered(s, d, k)' => Delivered(s, Root[now[s]], now[s])'
        BY <4>4 DEF Delivered, Newest
      <4>6. QED
        BY <4>2, <4>3, <4>4, <4>5, <2>1
    <3>6. QED
      BY <3>3, <3>5, <2>1 DEF IInv, WireInv
  <2>5. HomeInv' /\ SpreadInv'
    BY <2>1 DEF IInv, HomeInv, SpreadInv, Received, UnderWay, Arrived, AtHome, Blocks, Newest,
                Block, Mine
  <2>6. QED
    BY <2>2, <2>3, <2>4, <2>5 DEF IInv
<1>8. QED
  BY <1>1, <1>2, <1>3, <1>4, <1>5, <1>6, <1>7 DEF Next, Joint, Ended
-----------------------------------------------------------------------------
(* The inductive invariant holds in every state.                           *)
THEOREM Inductive == Spec => []IInv
BY InitHolds, NextKeeps, PTL DEF Spec

(* Types, and what is packed: blocks of the k-points of one's own team.    *)
THEOREM TypeCorrect == Spec => []TypeOK
<1>1. IInv => TypeOK
  BY DEF IInv
<1>2. QED
  BY Inductive, <1>1, PTL

(* Every call ends the same way on all processes: the errors of the first  *)
(* phase are raised by all, and the one of the second phase, which a team  *)
(* would raise without the others, cannot happen.                          *)
THEOREM VerdictsAgree == Spec => []OneVerdict
<1>1. IInv => OneVerdict
  BY DEF IInv
<1>2. QED
  BY Inductive, <1>1, PTL

(* A matrix that was set is held or on its way in every state, whatever    *)
(* calls failed, and is kept under its own k-point.                        *)
THEOREM MatricesSurvive == Spec => []NothingLost
<1>1. ASSUME IInv PROVE NothingLost
  <2>1. TypeOK /\ WireInv /\ HomeInv
    BY <1>1 DEF IInv
  <2>2. ASSUME NEW k \in Kpoint, Received(k)
        PROVE  InFlight(k) \/ \E r \in Rank : held[r][k].version = newest[k]
    <3>1. PICK d \in Rank : at[d] = "recv" /\ now[d] = k
      BY <2>2 DEF Received
    <3>2. PICK s \in Rank : Carried(s, d, k)
      BY <3>1, <2>1 DEF WireInv, TypeOK
    <3>3. CASE held[s][k] = Newest(k)
      BY <3>3 DEF Newest
    <3>4. CASE held[s][k] # Newest(k)
      <4>0. part[d] \in Seq(Chunk) /\ chan[s][d] \in Seq(Chunk)
        BY <2>1 DEF TypeOK
      <4>1. PICK l \in Nat, n \in Nat : l = Len(part[d]) /\ n = Len(chan[s][d])
        BY <4>0, LenProperties
      <4>2. l < NChunk /\ NChunk = l + n
        BY <3>2, <3>4, <4>1 DEF Carried, SourceFits
      <4>3. 1 \in 1 .. n
        <5>1. NChunk \in Nat /\ l \in Nat /\ n \in Nat
          BY <4>1, Domains
        <5>2. QED
          BY <5>1, <4>2
      <4>4. chan[s][d][1] = [copy |-> Newest(k), chunk |-> l + 1]
        BY <4>1, <4>3, <3>2 DEF Carried
      <4>5. chan[s][d][1].copy.of = k
        BY <4>4 DEF Newest
      <4>6. DOMAIN chan[s][d] = 1 .. n
        BY <4>0, <4>1, LenProperties
      <4>7. QED
        BY <4>3, <4>5, <4>6 DEF InFlight
    <3>5. QED
      BY <3>3, <3>4
  <2>3. QED
    BY <2>1, <2>2 DEF HomeInv, NothingLost
<1>2. QED
  BY Inductive, <1>1, PTL

(* What a redistribution leaves on a process is exactly what the layout    *)
(* wants there, in the latest version.                                     *)
THEOREM LayoutIsComplete == Spec => []ReadyIsComplete
<1>1. ASSUME IInv PROVE ReadyIsComplete
  <2>1. FlagInv /\ HomeInv
    BY <1>1 DEF IInv
  <2>2. ASSUME NEW r \in Rank, NEW k \in Kpoint, moved[r] \/ spread[r]
        PROVE  held[r][k] = IF spread[r] THEN Blocks(r, k) ELSE AtHome(r, k)
    BY <2>1, <2>2 DEF FlagInv, HomeInv, Arrived
  <2>3. QED
    <3> SUFFICES ASSUME NEW r \in Rank, NEW k \in Kpoint, moved[r] \/ spread[r]
                 PROVE  LET expected == IF spread[r] THEN k \in Mine(r) ELSE r = Root[k]
                            layout   == IF spread[r] THEN "block" ELSE "dense"
                        IN held[r][k] = IF expected
                             THEN [form |-> layout, of |-> k, version |-> newest[k]]
                             ELSE NoCopy
      BY DEF ReadyIsComplete
    <3>1. CASE spread[r]
      BY <3>1, <2>2 DEF Blocks, Block
    <3>2. CASE ~ spread[r]
      BY <3>2, <2>2 DEF AtHome, Newest
    <3>3. QED
      BY <3>1, <3>2
<1>2. QED
  BY Inductive, <1>1, PTL
=============================================================================
