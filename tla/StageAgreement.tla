--------------------------- MODULE StageAgreement ---------------------------
(***************************************************************************)
(* What a caller of a collective stage of LibRPA may rely on, without any  *)
(* message passing: a list of stages is judged in order, each stage gets   *)
(* one verdict for the whole communicator, and every rank either passes a  *)
(* stage or stops in it according to that verdict.                         *)
(***************************************************************************)
EXTENDS Naturals

CONSTANTS Rank,     \* processes of the communicator
          NStage    \* number of consecutive stages

VARIABLES verdict,  \* verdict[s]: the one judgement of stage s
          at,       \* at[r]: the stage rank r is in, NStage + 1 after the last
          stopped   \* stopped[r]: rank r has left its stage with an error

avars == <<verdict, at, stopped>>

Stage == 1 .. NStage

Init ==
  /\ verdict = [s \in Stage |-> "open"]
  /\ at      = [r \in Rank |-> 1]
  /\ stopped = [r \in Rank |-> FALSE]

(* A stage is judged once, and only after every earlier one was passed.    *)
Judge(s) ==
  /\ verdict[s] = "open"
  /\ \A e \in 1 .. s - 1 : verdict[e] = "pass"
  /\ \E v \in {"pass", "fail"} : verdict' = [verdict EXCEPT ![s] = v]
  /\ UNCHANGED <<at, stopped>>

Pass(r) ==
  /\ at[r] \in Stage
  /\ verdict[at[r]] = "pass"
  /\ at' = [at EXCEPT ![r] = @ + 1]
  /\ UNCHANGED <<verdict, stopped>>

Stop(r) ==
  /\ at[r] \in Stage
  /\ ~ stopped[r]
  /\ verdict[at[r]] = "fail"
  /\ stopped' = [stopped EXCEPT ![r] = TRUE]
  /\ UNCHANGED <<verdict, at>>

Next ==
  \/ \E s \in Stage : Judge(s)
  \/ \E r \in Rank : Pass(r) \/ Stop(r)

Spec == Init /\ [][Next]_avars
=============================================================================
