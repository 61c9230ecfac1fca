--------------------------- MODULE CollectiveStage --------------------------
(***************************************************************************)
(* The error-propagating stages every collective computation of LibRPA is  *)
(* cut into.  collective_all_stage (mpi/collective_stage.h) runs an        *)
(* operation on every rank and joins the failure flags in an allreduce;    *)
(* collective_root_stage (core/qsgw/task.cpp) runs it on the root only and *)
(* broadcasts the root's flag.  Each rank is a process that walks through  *)
(* a list of such stages; an operation may throw on any rank that runs it. *)
(*                                                                         *)
(* The communicator is modelled by the flags posted to the collective call *)
(* of each stage.  An allreduce returns once every rank has posted, a      *)
(* broadcast returns once the root has posted, so the root may run ahead.  *)
(***************************************************************************)
EXTENDS Naturals

CONSTANTS Rank,     \* processes of the communicator
          Root,     \* rank 0, whose flag a root stage broadcasts
          NStage,   \* number of consecutive stages of the computation
          Kind      \* Kind[s]: which of the two helpers wraps stage s

Stage == 1 .. NStage

ASSUME CommAssumption ==
  /\ Root \in Rank
  /\ NStage \in Nat \ {0}
  /\ Kind \in [Stage -> {"all", "root"}]

VARIABLES at,       \* at[r]: the stage rank r is in, NStage + 1 after the last
          phase,    \* what r is doing in that stage
          posted,   \* posted[s][r]: flag r handed to the collective of stage s
          error     \* which exception left the stage on rank r

vars == <<at, phase, posted, error>>

Init ==
  /\ at     = [r \in Rank |-> 1]
  /\ phase  = [r \in Rank |-> "run"]
  /\ posted = [s \in Stage |-> [r \in Rank |-> "none"]]
  /\ error  = [r \in Rank |-> "none"]

(* Whether the helper calls the operation on this rank: on all of them, or *)
(* only behind `if (communicator.is_root())'.                              *)
Runs(r, s) == Kind[s] = "all" \/ r = Root

(* try { operation(); } catch ...; then the flag enters the collective.    *)
Post(r) ==
  /\ phase[r] = "run"
  /\ \E flag \in IF Runs(r, at[r]) THEN {"ok", "failed"} ELSE {"ok"} :
        posted' = [posted EXCEPT ![at[r]][r] = flag]
  /\ phase' = [phase EXCEPT ![r] = "wait"]
  /\ UNCHANGED <<at, error>>

(* MPI's guarantee for the call of stage s, as seen by a rank inside it.   *)
Returned(s) ==
  IF Kind[s] = "all" THEN \A r \in Rank : posted[s][r] # "none"
                     ELSE posted[s][Root] # "none"

AnyFailed(s) == \E r \in Rank : posted[s][r] = "failed"

(* Mutant: the own flag decides instead of the joined one. *)
ProceedOnOwnFlag(r) ==
  /\ phase[r] = "wait"
  /\ Returned(at[r]) /\ posted[at[r]][r] = "ok"
  /\ at' = [at EXCEPT ![r] = @ + 1]
  /\ phase' = [phase EXCEPT ![r] = IF at[r] = NStage THEN "done" ELSE "run"]
  /\ UNCHANGED <<posted, error>>

(* Mutant: a stage is skipped after a successful one. *)
ProceedTwice(r) ==
  /\ phase[r] = "wait"
  /\ Returned(at[r]) /\ ~ AnyFailed(at[r])
  /\ at' = [at EXCEPT ![r] = @ + 2]
  /\ phase' = [phase EXCEPT ![r] = IF at[r] >= NStage - 1 THEN "done" ELSE "run"]
  /\ UNCHANGED <<posted, error>>

(* No rank failed: the helper returns and the caller goes on.              *)
Proceed(r) ==
  /\ phase[r] = "wait"
  /\ Returned(at[r]) /\ ~ AnyFailed(at[r])
  /\ at' = [at EXCEPT ![r] = @ + 1]
  /\ phase' = [phase EXCEPT ![r] = IF at[r] = NStage THEN "done" ELSE "run"]
  /\ UNCHANGED <<posted, error>>

(* Mutant: every rank rethrows, whether or not it holds an exception. *)
ThrowOwn(r) ==
  /\ phase[r] = "wait"
  /\ Returned(at[r]) /\ AnyFailed(at[r])
  /\ error' = [error EXCEPT ![r] = "local"]
  /\ phase' = [phase EXCEPT ![r] = "thrown"]
  /\ UNCHANGED <<at, posted>>

(* Mutant: only the ranks that hold an exception leave. *)
ThrowOnlyOwn(r) ==
  /\ phase[r] = "wait"
  /\ Returned(at[r]) /\ posted[at[r]][r] = "failed"
  /\ error' = [error EXCEPT ![r] = "local"]
  /\ phase' = [phase EXCEPT ![r] = "thrown"]
  /\ UNCHANGED <<at, posted>>

(* Some rank failed: rethrow the own exception, or report the other rank's.*)
Throw(r) ==
  /\ phase[r] = "wait"
  /\ Returned(at[r]) /\ AnyFailed(at[r])
  /\ error' = [error EXCEPT
       ![r] = IF posted[at[r]][r] = "failed" THEN "local" ELSE "remote"]
  /\ phase' = [phase EXCEPT ![r] = "thrown"]
  /\ UNCHANGED <<at, posted>>

(* Every rank has left the computation; anything else without a successor  *)
(* is a hang and shows up as a deadlock.                                   *)
Ended ==
  /\ \A r \in Rank : phase[r] \in {"done", "thrown"}
  /\ UNCHANGED vars

Next == Ended \/ \E r \in Rank : Post(r) \/ Proceed(r) \/ Throw(r)

Spec == Init /\ [][Next]_vars

(* A rank keeps computing, and a collective all ranks entered returns.     *)
Fairness == \A r \in Rank : WF_vars(Post(r) \/ Proceed(r) \/ Throw(r))

FairSpec == Spec /\ Fairness
-----------------------------------------------------------------------------
(* Every variable has its type. *)
TypeOK ==
  /\ at \in [Rank -> 1 .. NStage + 1]
  /\ phase \in [Rank -> {"run", "wait", "thrown", "done"}]
  /\ posted \in [Stage -> [Rank -> {"none", "ok", "failed"}]]
  /\ error \in [Rank -> {"none", "local", "remote"}]

(* Once an operation has thrown on some rank, no rank ever gets past that  *)
(* stage: later stages may assume that the failed one succeeded everywhere.*)
NobodyPassesAFailure ==
  \A s \in Stage : AnyFailed(s) => \A r \in Rank : at[r] <= s

(* A rank that leaves with an error leaves behind no rank that will finish *)
(* the computation, and every other leaver left the very same stage.       *)
ThrowersAgree ==
  \A p, q \in Rank :
    phase[p] = "thrown" =>
      /\ phase[q] # "done"
      /\ phase[q] = "thrown" => at[q] = at[p]

(* "failed on another rank" is never a lie: some rank really holds the     *)
(* exception of that stage, and a rank with an exception of its own        *)
(* rethrows that one.                                                      *)
BlameIsReal ==
  \A r \in Rank :
    /\ error[r] = "local" => posted[at[r]][r] = "failed"
    /\ error[r] = "remote" =>
         /\ posted[at[r]][r] = "ok"
         /\ \E q \in Rank \ {r} : posted[at[r]][q] = "failed"

(* No rank stays behind in a collective: all ranks finish, or all throw.   *)
AllEndTogether ==
  \/ <>[] \A r \in Rank : phase[r] = "done"
  \/ <>[] \A r \in Rank : phase[r] = "thrown"
-----------------------------------------------------------------------------
(* The refinement: a stage is judged "fail" by the first failed flag and   *)
(* "pass" when its collective can return without one.                      *)
Verdict ==
  [s \in Stage |-> IF AnyFailed(s) THEN "fail"
                   ELSE IF Returned(s) THEN "pass" ELSE "open"]

Agreement == INSTANCE StageAgreement
               WITH verdict <- Verdict,
                    stopped <- [r \in Rank |-> phase[r] = "thrown"]

(* The two helpers implement one verdict per stage for the communicator.   *)
ImplementsAgreement == Agreement!Spec
=============================================================================
