------------------------ MODULE CollectiveStageProofs -----------------------
(***************************************************************************)
(* Proofs about CollectiveStage for every set of ranks, every number of    *)
(* stages and every mix of root and all stages.                            *)
(***************************************************************************)
EXTENDS CollectiveStage, Integers, TLAPS

(* A flag is posted exactly for the stages a rank is past, and for the one *)
(* it waits in or was thrown out of.                                       *)
PostedUpToHere ==
  \A r \in Rank : \A s \in Stage :
    posted[s][r] # "none" <=>
      \/ s < at[r]
      \/ s = at[r] /\ phase[r] \in {"wait", "thrown"}

(* Leaving the last stage and being done are the same thing. *)
DoneIsPastTheEnd == \A r \in Rank : phase[r] = "done" <=> at[r] = NStage + 1

(* Only a rank that ran the operation can have failed. *)
OnlyRunnersFail ==
  \A r \in Rank : \A s \in Stage : posted[s][r] = "failed" => Runs(r, s)

(* A stage some rank is past has returned, and without a failure. *)
PassedStagesSucceeded ==
  \A r \in Rank : \A s \in Stage :
    s < at[r] => Returned(s) /\ ~ AnyFailed(s)

(* A rank throws only out of a stage in which some rank failed. *)
ThrownStagesFailed ==
  \A r \in Rank : phase[r] = "thrown" => AnyFailed(at[r])

(* error is set when the rank throws, and by nothing else. *)
ErrorOnlyWhenThrown == \A r \in Rank : error[r] # "none" <=> phase[r] = "thrown"

IInv ==
  /\ TypeOK
  /\ PostedUpToHere
  /\ DoneIsPastTheEnd
  /\ OnlyRunnersFail
  /\ PassedStagesSucceeded
  /\ ThrownStagesFailed
  /\ ErrorOnlyWhenThrown
  /\ BlameIsReal
-----------------------------------------------------------------------------
(* A rank that still runs or waits is inside the list of stages. *)
LEMMA InsideAStage ==
  ASSUME IInv, NEW r \in Rank, phase[r] # "done"
  PROVE  at[r] \in Stage
  BY CommAssumption DEF IInv, TypeOK, DoneIsPastTheEnd, Stage

(* Inductive step for the action that runs an operation and posts its flag:*)
(* the collective of that stage cannot have returned for anybody else yet. *)
LEMMA PostPreservesIInv ==
  ASSUME IInv, NEW r \in Rank, Post(r)
  PROVE  IInv'
<1> DEFINE s0 == at[r]
<1>1. s0 \in Stage
  BY InsideAStage DEF Post
<1>2. PICK flag \in {"ok", "failed"} :
        /\ flag = "failed" => Runs(r, s0)
        /\ posted' = [posted EXCEPT ![s0][r] = flag]
  BY DEF Post
<1>3. /\ phase[r] = "run"
      /\ phase' = [phase EXCEPT ![r] = "wait"]
      /\ at' = at /\ error' = error
  BY DEF Post
<1>4. \A s \in Stage : \A q \in Rank :
        posted'[s][q] = IF s = s0 /\ q = r THEN flag ELSE posted[s][q]
  BY <1>1, <1>2 DEF IInv, TypeOK
<1>5. \A q \in Rank : phase'[q] = IF q = r THEN "wait" ELSE phase[q]
  BY <1>3 DEF IInv, TypeOK
<1>6. posted[s0][r] = "none"
  <2>1. at[r] \in Int /\ ~ (at[r] < at[r])
    BY <1>1, CommAssumption DEF Stage
  <2>2. posted[at[r]][r] # "none" <=>
          \/ at[r] < at[r]
          \/ at[r] = at[r] /\ phase[r] \in {"wait", "thrown"}
    BY <1>1 DEF IInv, PostedUpToHere
  <2>3. QED
    BY <2>1, <2>2, <1>3
<1>7. TypeOK'
  BY <1>1, <1>2, <1>3 DEF IInv, TypeOK
<1>8. PostedUpToHere'
  BY <1>1, <1>2, <1>3, <1>4, <1>5, <1>6
     DEF IInv, PostedUpToHere, Stage, TypeOK
<1>9. DoneIsPastTheEnd'
  BY <1>1, <1>3, <1>5, CommAssumption DEF IInv, DoneIsPastTheEnd, Stage
<1>10. OnlyRunnersFail'
  BY <1>2, <1>4 DEF IInv, OnlyRunnersFail, Runs
<1>11. PassedStagesSucceeded'
  <2> SUFFICES ASSUME NEW q \in Rank, NEW s \in Stage, s < at[q]
               PROVE  Returned(s)' /\ ~ AnyFailed(s)'
    BY <1>3 DEF PassedStagesSucceeded
  <2>1. Returned(s) /\ ~ AnyFailed(s)
    BY DEF IInv, PassedStagesSucceeded
  <2>2. Returned(s)'
    BY <2>1, <1>2, <1>4, CommAssumption DEF Returned
  <2>3. s = s0 => flag # "failed"
    BY <2>1, <1>2, <1>6 DEF Returned, Runs
  <2>4. ~ AnyFailed(s)'
    BY <2>1, <2>3, <1>4 DEF AnyFailed
  <2>5. QED
    BY <2>2, <2>4
<1>12. ThrownStagesFailed'
  <2> SUFFICES ASSUME NEW q \in Rank, phase'[q] = "thrown"
               PROVE  AnyFailed(at[q])'
    BY <1>3 DEF ThrownStagesFailed, AnyFailed
  <2>1. phase[q] = "thrown" /\ at[q] \in Stage
    BY <1>5, InsideAStage
  <2>2. PICK p \in Rank : posted[at[q]][p] = "failed"
    BY <2>1 DEF IInv, ThrownStagesFailed, AnyFailed
  <2>3. posted'[at[q]][p] = "failed"
    BY <2>1, <2>2, <1>4, <1>6
  <2>4. QED
    BY <2>3, <1>3 DEF AnyFailed
<1>13. ErrorOnlyWhenThrown'
  BY <1>3, <1>5 DEF IInv, ErrorOnlyWhenThrown
<1>14. BlameIsReal'
  <2> SUFFICES ASSUME NEW q \in Rank, error[q] # "none"
               PROVE  /\ error[q] = "local" => posted'[at[q]][q] = "failed"
                      /\ error[q] = "remote" =>
                           /\ posted'[at[q]][q] = "ok"
                           /\ \E p \in Rank \ {q} : posted'[at[q]][p] = "failed"
    BY <1>3 DEF BlameIsReal, IInv, TypeOK
  <2>1. phase[q] = "thrown" /\ at[q] \in Stage /\ q # r
    BY <1>3, InsideAStage DEF IInv, ErrorOnlyWhenThrown
  <2>2. posted'[at[q]][q] = posted[at[q]][q]
    BY <2>1, <1>4
  <2>3. \A p \in Rank : posted[at[q]][p] = "failed" =>
                          posted'[at[q]][p] = "failed"
    BY <2>1, <1>4, <1>6
  <2>4. QED
    BY <2>2, <2>3 DEF IInv, BlameIsReal
<1>15. QED
  BY <1>7, <1>8, <1>9, <1>10, <1>11, <1>12, <1>13, <1>14 DEF IInv

(* Inductive step for a rank whose collective returned without a failure:  *)
(* the stage it moves to has not been entered by it before.                *)
LEMMA ProceedPreservesIInv ==
  ASSUME IInv, NEW r \in Rank, Proceed(r)
  PROVE  IInv'
<1>1. at[r] \in Stage /\ at[r] \in Int /\ at[r] + 1 \in 1 .. NStage + 1
  BY InsideAStage, CommAssumption DEF Proceed, Stage
<1>2. /\ phase[r] = "wait"
      /\ Returned(at[r]) /\ ~ AnyFailed(at[r])
      /\ posted' = posted /\ error' = error
  BY DEF Proceed
<1>3. \A q \in Rank : at'[q] = IF q = r THEN at[r] + 1 ELSE at[q]
  BY DEF Proceed, IInv, TypeOK
<1>4. \A q \in Rank : phase'[q] = IF q # r THEN phase[q]
                                  ELSE IF at[r] = NStage THEN "done" ELSE "run"
  BY DEF Proceed, IInv, TypeOK
<1>5. \A s \in Stage : s < at[r] + 1 <=> s < at[r] \/ s = at[r]
  BY <1>1, CommAssumption DEF Stage
<1>6. TypeOK'
  BY <1>1, <1>2 DEF Proceed, IInv, TypeOK
<1>7. PostedUpToHere'
  <2> SUFFICES ASSUME NEW q \in Rank, NEW s \in Stage
               PROVE  posted[s][q] # "none" <=>
                        \/ s < at'[q]
                        \/ s = at'[q] /\ phase'[q] \in {"wait", "thrown"}
    BY <1>2 DEF PostedUpToHere
  <2>1. posted[s][q] # "none" <=>
          \/ s < at[q]
          \/ s = at[q] /\ phase[q] \in {"wait", "thrown"}
    BY DEF IInv, PostedUpToHere
  <2>2. QED
    BY <2>1, <1>2, <1>3, <1>4, <1>5
<1>8. DoneIsPastTheEnd'
  BY <1>1, <1>3, <1>4, CommAssumption DEF IInv, DoneIsPastTheEnd, Stage
<1>9. OnlyRunnersFail'
  BY <1>2 DEF IInv, OnlyRunnersFail, Runs
<1>10. PassedStagesSucceeded'
  <2>1. \A s \in Stage : (Returned(s)' <=> Returned(s))
                      /\ (AnyFailed(s)' <=> AnyFailed(s))
    BY <1>2 DEF Returned, AnyFailed
  <2>2. QED
    BY <2>1, <1>2, <1>3, <1>5 DEF IInv, PassedStagesSucceeded
<1>11. ThrownStagesFailed'
  BY <1>2, <1>3, <1>4 DEF IInv, ThrownStagesFailed, AnyFailed
<1>12. ErrorOnlyWhenThrown'
  BY <1>2, <1>4 DEF IInv, ErrorOnlyWhenThrown
<1>13. BlameIsReal'
  <2>1. error[r] = "none"
    BY <1>2 DEF IInv, ErrorOnlyWhenThrown
  <2>2. QED
    BY <2>1, <1>2, <1>3 DEF IInv, BlameIsReal
<1>14. QED
  BY <1>6, <1>7, <1>8, <1>9, <1>10, <1>11, <1>12, <1>13 DEF IInv

(* Inductive step for a rank that leaves a failed stage: its flag tells it *)
(* whether the exception it holds is its own.                              *)
LEMMA ThrowPreservesIInv ==
  ASSUME IInv, NEW r \in Rank, Throw(r)
  PROVE  IInv'
<1>1. at[r] \in Stage
  BY InsideAStage DEF Throw
<1>2. /\ phase[r] = "wait" /\ AnyFailed(at[r])
      /\ posted' = posted /\ at' = at
  BY DEF Throw
<1>3. \A q \in Rank : phase'[q] = IF q = r THEN "thrown" ELSE phase[q]
  BY DEF Throw, IInv, TypeOK
<1>4. \A q \in Rank : error'[q] =
        IF q # r THEN error[q]
        ELSE IF posted[at[r]][r] = "failed" THEN "local" ELSE "remote"
  BY DEF Throw, IInv, TypeOK
<1>5. TypeOK'
  BY DEF Throw, IInv, TypeOK
<1>6. PostedUpToHere'
  <2> SUFFICES ASSUME NEW q \in Rank, NEW s \in Stage
               PROVE  posted[s][q] # "none" <=>
                        \/ s < at[q]
                        \/ s = at[q] /\ phase'[q] \in {"wait", "thrown"}
    BY <1>2 DEF PostedUpToHere
  <2>1. posted[s][q] # "none" <=>
          \/ s < at[q]
          \/ s = at[q] /\ phase[q] \in {"wait", "thrown"}
    BY DEF IInv, PostedUpToHere
  <2>2. QED
    BY <2>1, <1>2, <1>3
<1>7. DoneIsPastTheEnd'
  BY <1>2, <1>3 DEF IInv, DoneIsPastTheEnd
<1>8. OnlyRunnersFail'
  BY <1>2 DEF IInv, OnlyRunnersFail, Runs
<1>9. PassedStagesSucceeded'
  <2>1. \A s \in Stage : (Returned(s)' <=> Returned(s))
                      /\ (AnyFailed(s)' <=> AnyFailed(s))
    BY <1>2 DEF Returned, AnyFailed
  <2>2. QED
    BY <2>1, <1>2 DEF IInv, PassedStagesSucceeded
<1>10. ThrownStagesFailed'
  BY <1>2, <1>3 DEF IInv, ThrownStagesFailed, AnyFailed
<1>11. ErrorOnlyWhenThrown'
  BY <1>3, <1>4 DEF IInv, ErrorOnlyWhenThrown
<1>12. BlameIsReal'
  <2> SUFFICES ASSUME NEW q \in Rank
               PROVE  /\ error'[q] = "local" => posted[at[q]][q] = "failed"
                      /\ error'[q] = "remote" =>
                           /\ posted[at[q]][q] = "ok"
                           /\ \E p \in Rank \ {q} : posted[at[q]][p] = "failed"
    BY <1>2 DEF BlameIsReal
  <2>1. CASE q # r
    BY <2>1, <1>4 DEF IInv, BlameIsReal
  <2>2. CASE q = r
    <3>1. posted[at[r]][r] \in {"ok", "failed"}
      <4>1. posted[at[r]][r] # "none"
        BY <1>1, <1>2 DEF IInv, PostedUpToHere
      <4>2. QED
        BY <4>1, <1>1 DEF IInv, TypeOK
    <3>2. PICK p \in Rank : posted[at[r]][p] = "failed"
      BY <1>2 DEF AnyFailed
    <3>3. QED
      BY <2>2, <3>1, <3>2, <1>4
  <2>3. QED
    BY <2>1, <2>2
<1>13. QED
  BY <1>5, <1>6, <1>7, <1>8, <1>9, <1>10, <1>11, <1>12 DEF IInv
-----------------------------------------------------------------------------
(* IInv holds when the ranks enter the first stage. *)
LEMMA InitEstablishesIInv == Init => IInv
<1> SUFFICES ASSUME Init PROVE IInv
  OBVIOUS
<1>1. \A r \in Rank : at[r] = 1 /\ phase[r] = "run" /\ error[r] = "none"
  BY DEF Init
<1>2. \A s \in Stage : \A r \in Rank : posted[s][r] = "none"
  BY DEF Init
<1>3. \A s \in Stage : ~ (s < 1)
  BY CommAssumption DEF Stage
<1>4. TypeOK
  BY CommAssumption DEF Init, TypeOK
<1>5. PostedUpToHere /\ OnlyRunnersFail /\ PassedStagesSucceeded
  BY <1>1, <1>2, <1>3
     DEF PostedUpToHere, OnlyRunnersFail, PassedStagesSucceeded
<1>6. DoneIsPastTheEnd
  <2>1. NStage + 1 # 1
    BY CommAssumption
  <2>2. QED
    BY <2>1, <1>1 DEF DoneIsPastTheEnd
<1>7. ThrownStagesFailed /\ ErrorOnlyWhenThrown /\ BlameIsReal
  BY <1>1 DEF ThrownStagesFailed, ErrorOnlyWhenThrown, BlameIsReal
<1>8. QED
  BY <1>4, <1>5, <1>6, <1>7 DEF IInv

(* No step of any rank, nor a stuttering step, leaves IInv. *)
LEMMA NextPreservesIInv == IInv /\ [Next]_vars => IInv'
<1> SUFFICES ASSUME IInv, [Next]_vars PROVE IInv'
  OBVIOUS
<1>1. CASE \E r \in Rank : Post(r)
  BY <1>1, PostPreservesIInv
<1>2. CASE \E r \in Rank : Proceed(r)
  BY <1>2, ProceedPreservesIInv
<1>3. CASE \E r \in Rank : Throw(r)
  BY <1>3, ThrowPreservesIInv
<1>4. CASE UNCHANGED vars
  BY <1>4 DEF vars, IInv, TypeOK, PostedUpToHere, DoneIsPastTheEnd,
              OnlyRunnersFail, Runs, PassedStagesSucceeded, Returned,
              AnyFailed, ThrownStagesFailed, ErrorOnlyWhenThrown, BlameIsReal
<1>5. QED
  BY <1>1, <1>2, <1>3, <1>4 DEF Next, Ended

(* The inductive invariant holds in every reachable state. *)
THEOREM Inductive == Spec => []IInv
BY InitEstablishesIInv, NextPreservesIInv, PTL DEF Spec

(* Type correctness.  TypeOK alone is not inductive: that a waiting rank is *)
(* inside the list of stages needs DoneIsPastTheEnd.                       *)
THEOREM TypeCorrect == Spec => []TypeOK
<1>1. IInv => TypeOK
  BY DEF IInv
<1>2. QED
  BY <1>1, Inductive, PTL

(* No rank ever gets past a stage in which an operation threw anywhere.    *)
THEOREM FailureIsABarrier == Spec => []NobodyPassesAFailure
<1>1. IInv => NobodyPassesAFailure
  <2> SUFFICES ASSUME IInv, NEW s \in Stage, AnyFailed(s), NEW r \in Rank
               PROVE  at[r] <= s
    BY DEF NobodyPassesAFailure
  <2>1. ~ (s < at[r])
    BY DEF IInv, PassedStagesSucceeded
  <2>2. at[r] \in Int /\ s \in Int
    BY CommAssumption DEF IInv, TypeOK, Stage
  <2>3. QED
    BY <2>1, <2>2
<1>2. QED
  BY <1>1, Inductive, PTL

(* Ranks that throw all throw out of the same stage, and none is done.     *)
THEOREM OneExit == Spec => []ThrowersAgree
<1>1. IInv => ThrowersAgree
  <2> SUFFICES ASSUME IInv, NEW p \in Rank, NEW q \in Rank,
                      phase[p] = "thrown"
               PROVE  /\ phase[q] # "done"
                      /\ phase[q] = "thrown" => at[q] = at[p]
    BY DEF ThrowersAgree
  <2>1. at[p] \in Stage /\ at[p] \in Int /\ AnyFailed(at[p])
    BY InsideAStage, CommAssumption DEF IInv, ThrownStagesFailed, Stage
  <2>2. ~ (at[p] < at[q]) /\ at[q] \in Int
    BY <2>1, CommAssumption DEF IInv, TypeOK, PassedStagesSucceeded
  <2>3. phase[q] # "done"
    BY <2>1, <2>2, CommAssumption DEF IInv, DoneIsPastTheEnd, Stage
  <2>4. ASSUME phase[q] = "thrown" PROVE at[q] = at[p]
    <3>1. at[q] \in Stage /\ AnyFailed(at[q])
      BY <2>4, InsideAStage DEF IInv, ThrownStagesFailed
    <3>2. ~ (at[q] < at[p])
      BY <3>1 DEF IInv, PassedStagesSucceeded
    <3>3. QED
      BY <2>1, <2>2, <3>2
  <2>5. QED
    BY <2>3, <2>4
<1>2. QED
  BY <1>1, Inductive, PTL

(* The exception a rank throws names the place of the failure correctly.   *)
THEOREM BlameIsCorrect == Spec => []BlameIsReal
<1>1. IInv => BlameIsReal
  BY DEF IInv
<1>2. QED
  BY <1>1, Inductive, PTL
-----------------------------------------------------------------------------
Stopped == [r \in Rank |-> phase[r] = "thrown"]

(* Posting a flag judges the stage if it is the first failed flag or the   *)
(* one the collective was waiting for, and changes no verdict otherwise.   *)
LEMMA PostJudges ==
  ASSUME IInv, NEW r \in Rank, Post(r)
  PROVE  Agreement!Judge(at[r]) \/ UNCHANGED <<Verdict, at, Stopped>>
<1>1. at[r] \in Stage
  BY InsideAStage DEF Post
<1>2. PICK flag \in {"ok", "failed"} :
        /\ flag = "failed" => Runs(r, at[r])
        /\ posted' = [posted EXCEPT ![at[r]][r] = flag]
  BY DEF Post
<1>3. phase[r] = "run" /\ at' = at /\ phase' = [phase EXCEPT ![r] = "wait"]
  BY DEF Post
<1>4. \A s \in Stage : \A q \in Rank :
        posted'[s][q] = IF s = at[r] /\ q = r THEN flag ELSE posted[s][q]
  BY <1>1, <1>2 DEF IInv, TypeOK
<1>5. posted[at[r]][r] = "none"
  <2>1. at[r] \in Int /\ ~ (at[r] < at[r])
    BY <1>1, CommAssumption DEF Stage
  <2>2. posted[at[r]][r] # "none" <=>
          \/ at[r] < at[r]
          \/ at[r] = at[r] /\ phase[r] \in {"wait", "thrown"}
    BY <1>1 DEF IInv, PostedUpToHere
  <2>3. QED
    BY <2>1, <2>2, <1>3
<1>6. Stopped' = Stopped
  BY <1>3 DEF Stopped, IInv, TypeOK
<1>7. \A s \in Stage \ {at[r]} : Verdict'[s] = Verdict[s]
  <2> SUFFICES ASSUME NEW s \in Stage \ {at[r]}
               PROVE  Verdict'[s] = Verdict[s]
    OBVIOUS
  <2>1. \A q \in Rank : posted'[s][q] = posted[s][q]
    BY <1>4
  <2>2. Returned(s)' = Returned(s)
    BY <2>1, CommAssumption DEF Returned
  <2>3. AnyFailed(s)' = AnyFailed(s)
    BY <2>1 DEF AnyFailed
  <2>4. QED
    BY <2>2, <2>3 DEF Verdict
<1>8. DOMAIN Verdict = Stage /\ DOMAIN Verdict' = Stage
  BY DEF Verdict
<1>9. CASE Verdict[at[r]] = "open"
  <2>1. Verdict'[at[r]] \in {"open", "pass", "fail"}
    BY <1>1 DEF Verdict
  <2>2. Verdict' = [Verdict EXCEPT ![at[r]] = Verdict'[at[r]]]
    BY <1>1, <1>7, <1>8 DEF Verdict
  <2>3. \A e \in 1 .. at[r] - 1 : Verdict[e] = "pass"
    <3> SUFFICES ASSUME NEW e \in 1 .. at[r] - 1 PROVE Verdict[e] = "pass"
      OBVIOUS
    <3>1. e \in Stage /\ e < at[r]
      BY <1>1, CommAssumption DEF Stage
    <3>2. QED
      BY <3>1 DEF IInv, PassedStagesSucceeded, Verdict
  <2>4. CASE Verdict'[at[r]] = "open"
    BY <2>2, <2>4, <1>3, <1>6, <1>7, <1>8, <1>9 DEF Verdict
  <2>5. CASE Verdict'[at[r]] \in {"pass", "fail"}
    BY <2>2, <2>3, <2>5, <1>3, <1>6, <1>9 DEF Agreement!Judge, Stopped
  <2>6. QED
    BY <2>1, <2>4, <2>5
<1>10. CASE Verdict[at[r]] # "open"
  <2>1. ~ Returned(at[r]) \/ (Kind[at[r]] = "root" /\ r # Root)
    BY <1>1, <1>5, CommAssumption DEF Returned
  <2>2. Returned(at[r]) => posted'[at[r]][r] = "ok"
    BY <2>1, <1>1, <1>2, <1>4 DEF Runs
  <2>3. AnyFailed(at[r]) => AnyFailed(at[r])'
    <3> SUFFICES ASSUME NEW q \in Rank, posted[at[r]][q] = "failed"
                 PROVE  posted'[at[r]][q] = "failed"
      BY <1>3 DEF AnyFailed
    <3>1. QED
      BY <1>1, <1>4, <1>5
  <2>4. CASE AnyFailed(at[r])
    <3>1. Verdict[at[r]] = "fail" /\ Verdict'[at[r]] = "fail"
      BY <2>3, <2>4, <1>1, <1>3 DEF Verdict
    <3>2. QED
      BY <3>1, <1>3, <1>6, <1>7, <1>8 DEF Verdict
  <2>5. CASE ~ AnyFailed(at[r])
    <3>1. Returned(at[r]) /\ Verdict[at[r]] = "pass"
      BY <2>5, <1>1, <1>10 DEF Verdict
    <3>2. ~ AnyFailed(at[r])'
      BY <2>2, <2>5, <3>1, <1>1, <1>3, <1>4 DEF AnyFailed
    <3>3. Returned(at[r])'
      BY <3>1, <2>2, <1>1, <1>3, <1>4, CommAssumption DEF Returned
    <3>4. Verdict'[at[r]] = "pass"
      BY <3>2, <3>3, <1>1, <1>3 DEF Verdict
    <3>5. QED
      BY <3>1, <3>4, <1>3, <1>6, <1>7, <1>8 DEF Verdict
  <2>6. QED
    BY <2>4, <2>5
<1>11. QED
  BY <1>9, <1>10

(* The two ways out of a collective are the two uses of its verdict.       *)
LEMMA LeavingUsesTheVerdict ==
  ASSUME IInv, NEW r \in Rank
  PROVE  /\ Proceed(r) => Agreement!Pass(r)
         /\ Throw(r) => Agreement!Stop(r)
<1>1. ASSUME Proceed(r) PROVE Agreement!Pass(r)
  <2>1. at[r] \in Stage /\ posted' = posted
    BY <1>1, InsideAStage DEF Proceed
  <2>2. Verdict[at[r]] = "pass"
    BY <1>1, <2>1 DEF Proceed, Verdict
  <2>3. Verdict' = Verdict
    BY <2>1 DEF Verdict, AnyFailed, Returned
  <2>4. Stopped' = Stopped
    BY <1>1 DEF Proceed, Stopped, IInv, TypeOK
  <2>5. QED
    BY <1>1, <2>1, <2>2, <2>3, <2>4
       DEF Proceed, Agreement!Pass, Agreement!Stage, Stage, Stopped
<1>2. ASSUME Throw(r) PROVE Agreement!Stop(r)
  <2>1. at[r] \in Stage /\ posted' = posted /\ at' = at
    BY <1>2, InsideAStage DEF Throw
  <2>2. Verdict[at[r]] = "fail"
    BY <1>2, <2>1 DEF Throw, Verdict
  <2>3. Verdict' = Verdict
    BY <2>1 DEF Verdict, AnyFailed, Returned
  <2>4. ~ Stopped[r] /\ Stopped' = [Stopped EXCEPT ![r] = TRUE]
    BY <1>2 DEF Throw, Stopped, IInv, TypeOK
  <2>5. QED
    BY <2>1, <2>2, <2>3, <2>4
       DEF Agreement!Stop, Agreement!Stage, Stage, Stopped
<1>3. QED
  BY <1>1, <1>2

(* Every behaviour of the stages is a behaviour of StageAgreement: there   *)
(* is one verdict per stage, and each rank passes or stops by it.          *)
THEOREM StagesAgree == Spec => ImplementsAgreement
<1>1. Init => Agreement!Init
  <2> SUFFICES ASSUME Init PROVE Agreement!Init
    OBVIOUS
  <2>1. \A s \in Stage : ~ Returned(s) /\ ~ AnyFailed(s)
    BY CommAssumption DEF Init, Returned, AnyFailed
  <2>2. Verdict = [s \in Stage |-> "open"]
    BY <2>1 DEF Verdict
  <2>3. Stopped = [r \in Rank |-> FALSE]
    BY DEF Init, Stopped
  <2>4. QED
    BY <2>2, <2>3 DEF Init, Agreement!Init, Agreement!Stage, Stage, Stopped
<1>2. IInv /\ [Next]_vars => [Agreement!Next]_(Agreement!avars)
  <2> SUFFICES ASSUME IInv, [Next]_vars
               PROVE  Agreement!Next \/ UNCHANGED <<Verdict, at, Stopped>>
    BY DEF Agreement!avars, Stopped
  <2>1. ASSUME NEW r \in Rank, Post(r)
        PROVE  Agreement!Next \/ UNCHANGED <<Verdict, at, Stopped>>
    BY <2>1, PostJudges, InsideAStage
       DEF Agreement!Next, Agreement!Stage, Stage, Post
  <2>2. ASSUME NEW r \in Rank, Proceed(r) \/ Throw(r) PROVE Agreement!Next
    BY <2>2, LeavingUsesTheVerdict DEF Agreement!Next
  <2>3. CASE UNCHANGED vars
    BY <2>3 DEF vars, Verdict, AnyFailed, Returned, Stopped
  <2>4. QED
    BY <2>1, <2>2, <2>3 DEF Next, Ended
<1>3. QED
  BY <1>1, <1>2, Inductive, PTL DEF Spec, ImplementsAgreement, Agreement!Spec
=============================================================================
