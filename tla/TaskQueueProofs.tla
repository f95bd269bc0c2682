--------------------------- MODULE TaskQueueProofs ---------------------------
(***************************************************************************)
(* The claim stamp fences, and the retry budget is exact, for every set of *)
(* tasks, workers and runs, every budget and every number of claims.       *)
(*                                                                         *)
(* AtMostOneOwner is not inductive: nothing in it says that the stamp of a *)
(* new claim differs from the stamps of runs that lost the task.  IInv     *)
(* adds the order of stamps (StampsBelowRow, TopStampOwns), which a        *)
(* handed-back attempt would break were it not for the fact that only the  *)
(* top stamp's owner hands one back.  The lemmas are one per shape of      *)
(* write; InvStep applies them action by action.  The refinement of        *)
(* TaskLease rests on the same invariant.                                  *)
(***************************************************************************)
EXTENDS TaskQueue, TLAPS

(* An empty table with no runs satisfies the inductive invariant. *)
LEMMA InitIInv == Init => IInv
BY QueueConstants DEF Init, IInv, TypeOK, NoClaim, Claims, Phase, Status, Failure, NoEntries, GoneHasNoRuns, StampsBelowRow,
   TopStampOwns, StampsDistinct, ParkedOwnsNothing, RetryBudget,
   OwnerKnowsBudget, MarkedIsFailed, Alive, Live, Working, RetriesSpent

(* A statement that writes one row's status outside any run (enqueue, cancel, 
   reap, finalize) keeps the invariant when the budget allows the new status. *)
LEMMA StatusWrite ==
    ASSUME IInv, TypeOK', NEW t \in Tasks, NEW s \in Status \ {"running", "absent"},
           status' = [status EXCEPT ![t] = s],
           UNCHANGED <<attempts, resumes, worker, pc, claim, proc>>,
           s = "pending" => RetriesSpent(t) \in 0 .. TaskMaxAttempts - 1,
           s # "awaiting_batch",
           \A u \in Tasks : u # t => failure'[u] = failure[u],
           failure'[t] = "none" \/ (s = "failed" /\ failure'[t] = "chunks")
    PROVE  IInv'
<1> USE DEF IInv, TypeOK, RetriesSpent, TaskOf
<1>1. GoneHasNoRuns'
  BY DEF GoneHasNoRuns, Alive
<1>2. StampsBelowRow' /\ StampsDistinct'
  BY DEF StampsBelowRow, StampsDistinct, Live, Working
<1>3. TopStampOwns'
  BY DEF TopStampOwns, Live, Working, Alive
<1>4. ParkedOwnsNothing'
  BY DEF ParkedOwnsNothing, Owns, StampMatches, Alive
<1>5. OwnerKnowsBudget'
  BY DEF OwnerKnowsBudget, Owns, StampMatches, Live, Working, Alive
<1>6. RetryBudget'
  BY DEF RetryBudget
<1>7. MarkedIsFailed'
  BY DEF MarkedIsFailed
<1> QED
  BY <1>1, <1>2, <1>3, <1>4, <1>5, <1>6, <1>7 DEF IInv

(* A row put back to pending by its resume, its recovery or the exit path, 
   with its stamp no lower than any live run of it still carries. *)
LEMMA Requeue ==
    ASSUME IInv, TypeOK', NEW t \in Tasks, NEW a \in Nat, NEW n \in Nat, NEW v,
           status' = [status EXCEPT ![t] = "pending"],
           attempts' = [attempts EXCEPT ![t] = a],
           resumes' = [resumes EXCEPT ![t] = n],
           worker' = [worker EXCEPT ![t] = v],
           failure' = [failure EXCEPT ![t] = "none"],
           UNCHANGED <<pc, claim, proc>>,
           a - n \in 0 .. TaskMaxAttempts - 1,
           \A q \in Runs : Live(q) /\ TaskOf(q) = t /\ proc[claim[q].worker] = "up"
                              => claim[q].attempts <= a
    PROVE  IInv'
<1>b. \A q \in Runs : /\ TaskOf(q)' = TaskOf(q) /\ (Alive(q)' => Alive(q))
                     /\ (Live(q)' => Live(q) /\ TaskOf(q) \in Tasks)
  BY DEF TaskOf, Live, Working, Alive, IInv, TypeOK
<1>f. /\ \A u \in Tasks : u # t => /\ attempts'[u] = attempts[u] /\ worker'[u] = worker[u]
                                 /\ status'[u] = status[u] /\ failure'[u] = failure[u]
                                 /\ resumes'[u] = resumes[u]
      /\ attempts'[t] = a /\ status'[t] = "pending" /\ resumes'[t] = n /\ failure'[t] = "none"
  BY DEF IInv, TypeOK
<1>1. GoneHasNoRuns'
  BY <1>b DEF GoneHasNoRuns, IInv
<1>2. StampsBelowRow'
  BY <1>b, <1>f DEF StampsBelowRow, IInv
<1>3. TopStampOwns' /\ StampsDistinct'
  BY <1>b, <1>f DEF TopStampOwns, StampsDistinct, IInv
<1>4. ParkedOwnsNothing'
  BY <1>b, <1>f DEF ParkedOwnsNothing, Owns, StampMatches, Live, IInv
<1>5. OwnerKnowsBudget'
  BY <1>b, <1>f DEF OwnerKnowsBudget, Owns, StampMatches, IInv, RetriesSpent
<1>6. RetryBudget' /\ MarkedIsFailed'
  BY <1>f DEF RetryBudget, MarkedIsFailed, IInv, RetriesSpent
<1> QED
  BY <1>1, <1>2, <1>3, <1>4, <1>5, <1>6 DEF IInv

(* The guarded write of the run that owns its row, whatever it leaves behind. *)
LEMMA SettleOwned ==
    ASSUME IInv, TypeOK', NEW r \in Runs, Working(r), Owns(r),
           NEW s \in Status \ {"running", "absent"}, NEW a \in Nat,
           NEW p \in {"settled", "parked"},
           status' = [status EXCEPT ![TaskOf(r)] = s],
           attempts' = [attempts EXCEPT ![TaskOf(r)] = a],
           a = attempts[TaskOf(r)] \/ (a = attempts[TaskOf(r)] - 1 /\ p = "settled"),
           pc' = [pc EXCEPT ![r] = p],
           UNCHANGED <<resumes, claim, proc>>,
           s = "pending" => a - resumes[TaskOf(r)] < TaskMaxAttempts,
           s = "awaiting_batch" => a = attempts[TaskOf(r)],
           worker' = [worker EXCEPT ![TaskOf(r)] = worker'[TaskOf(r)]],
           failure' = [failure EXCEPT ![TaskOf(r)] = failure'[TaskOf(r)]],
           failure'[TaskOf(r)] = "none" \/ (/\ failure'[TaskOf(r)] = "payload"
                                       /\ s = "failed" /\ a = attempts[TaskOf(r)] - 1)
    PROVE  IInv'
<1> DEFINE t == TaskOf(r)
<1>a. t \in Tasks /\ status[t] = "running" /\ worker[t] = claim[r].worker
      /\ attempts[t] = claim[r].attempts /\ Live(r)
  BY DEF IInv, TypeOK, Working, Alive, Live, Owns, StampMatches
<1>b. \A q \in Runs : TaskOf(q)' = TaskOf(q)
  BY DEF TaskOf
<1>c. \A q \in Runs : Live(q)' => Live(q) /\ TaskOf(q) \in Tasks
  BY DEF Live, Working, IInv, TypeOK, Alive
<1>d. \A q \in Runs : claim[q].attempts \in Nat
  BY DEF IInv, TypeOK, Claims
<1>e. attempts \in [Tasks -> Nat] /\ resumes \in [Tasks -> Nat]
  BY DEF IInv, TypeOK
<1>f. /\ \A u \in Tasks : u # t => /\ attempts'[u] = attempts[u] /\ worker'[u] = worker[u]
                                 /\ status'[u] = status[u] /\ failure'[u] = failure[u]
      /\ attempts'[t] = a /\ status'[t] = s
  BY <1>a, <1>e DEF IInv, TypeOK
<1> HIDE DEF t
<1>1. GoneHasNoRuns'
  BY <1>a DEF GoneHasNoRuns, Alive, Working, IInv, TypeOK
<1>2. StampsBelowRow'
  <2> SUFFICES ASSUME NEW q \in Runs, Live(q), TaskOf(q) \in Tasks, Live(q)', proc[claim[q].worker] = "up"
               PROVE  claim[q].attempts <= attempts'[TaskOf(q)]
    BY <1>b, <1>c DEF StampsBelowRow
  <2>1. claim[q].attempts <= attempts[TaskOf(q)]
    BY DEF StampsBelowRow, IInv
  <2>2. CASE TaskOf(q) # t
    BY <2>1, <2>2, <1>f
  <2>3. CASE TaskOf(q) = t /\ a = attempts[t]
    BY <2>1, <2>3, <1>f
  <2>4. CASE TaskOf(q) = t /\ a = attempts[t] - 1 /\ p = "settled"
    <3>1. q # r
      BY <2>4 DEF Live, Working, IInv, TypeOK
    <3>2. ASSUME claim[q].attempts = attempts[t] PROVE FALSE
      <4>1. worker[t] = claim[q].worker
        BY <3>2, <2>4, <1>a DEF TopStampOwns, IInv
      <4> QED BY <4>1, <3>1, <3>2, <2>4, <1>a DEF StampsDistinct, IInv, t
    <3> QED BY <3>2, <2>1, <2>4, <1>d, <1>e, <1>f
  <2> QED BY <2>2, <2>3, <2>4 DEF t
<1>3. TopStampOwns'
  BY <1>a, <1>b, <1>c, <1>f DEF TopStampOwns, IInv
<1>4. ParkedOwnsNothing'
  <2> SUFFICES ASSUME NEW q \in Runs, pc'[q] = "parked", status'[TaskOf(q)] = "running"
               PROVE  ~StampMatches(q)'
    BY <1>b DEF ParkedOwnsNothing, Owns
  <2>1. TaskOf(q) \in Tasks /\ TaskOf(q) # t
    BY <1>c, <1>f DEF Live
  <2>2. pc[q] = "parked"
    BY <2>1 DEF t, IInv, TypeOK
  <2> QED BY <2>1, <2>2, <1>b, <1>f DEF ParkedOwnsNothing, Owns, StampMatches, IInv
<1>5. OwnerKnowsBudget'
  BY <1>a, <1>b, <1>c, <1>f DEF OwnerKnowsBudget, Owns, StampMatches, IInv, RetriesSpent
<1>6. RetryBudget'
  BY <1>a, <1>e, <1>f, QueueConstants DEF RetryBudget, IInv, RetriesSpent, t
<1>7. MarkedIsFailed'
  BY <1>a, <1>e, <1>f, QueueConstants DEF MarkedIsFailed, RetryBudget, IInv, RetriesSpent, t
<1>8. StampsDistinct'
  BY <1>b, <1>c DEF StampsDistinct, IInv
<1> QED
  BY <1>1, <1>2, <1>3, <1>4, <1>5, <1>6, <1>7, <1>8 DEF IInv

(* The guarded write of a run that lost its row changes the run alone. *)
LEMMA Lost ==
    ASSUME IInv, TypeOK', NEW r \in Runs, NEW p \in {"settled", "parked"},
           pc[r] \in {"running", "parked"}, ~Owns(r),
           pc' = [pc EXCEPT ![r] = p],
           UNCHANGED <<status, attempts, resumes, worker, failure, claim, proc>>
    PROVE  IInv'
<1>b. \A q \in Runs : TaskOf(q)' = TaskOf(q) /\ Owns(q)' = Owns(q)
  BY DEF TaskOf, Owns, StampMatches
<1>c. \A q \in Runs : Live(q)' => Live(q)
  BY DEF Live, Working, IInv, TypeOK
<1>1. GoneHasNoRuns'
  BY DEF GoneHasNoRuns, Alive, IInv, TypeOK
<1>2. StampsBelowRow' /\ TopStampOwns' /\ StampsDistinct'
  BY <1>b, <1>c DEF StampsBelowRow, TopStampOwns, StampsDistinct, IInv
<1>4. ParkedOwnsNothing'
  BY <1>b DEF ParkedOwnsNothing, IInv, TypeOK
<1>5. OwnerKnowsBudget' /\ RetryBudget' /\ MarkedIsFailed'
  BY <1>b, <1>c DEF OwnerKnowsBudget, RetryBudget, MarkedIsFailed, RetriesSpent, IInv
<1> QED
  BY <1>1, <1>2, <1>4, <1>5 DEF IInv

(* Rows unchanged, and every live run was there before with the same claim. *)
LEMMA Shrink ==
    ASSUME IInv, TypeOK', UNCHANGED <<status, attempts, resumes, worker, failure>>,
           \A w \in Workers : proc'[w] = "up" => proc[w] = "up" \/ \A q \in Runs : Alive(q)' => claim'[q].worker # w,
           \A q \in Runs : Alive(q)' => /\ Alive(q) /\ claim'[q] = claim[q]
                                        /\ (Live(q)' => Live(q))
                                        /\ (pc'[q] = "parked" => pc[q] = "parked")
                                        /\ proc'[claim[q].worker] # "down"
    PROVE  IInv'
<1>b. \A q \in Runs : Live(q)' => /\ Live(q) /\ TaskOf(q)' = TaskOf(q) /\ claim'[q] = claim[q]
                                 /\ Owns(q)' = Owns(q) /\ claim[q].worker \in Workers
                                 /\ (proc'[claim[q].worker] = "up" => proc[claim[q].worker] = "up")
  BY DEF TaskOf, Owns, StampMatches, Live, Working, Alive, IInv, TypeOK
<1>1. GoneHasNoRuns'
  BY DEF GoneHasNoRuns
<1>2. StampsBelowRow' /\ TopStampOwns' /\ StampsDistinct'
  BY <1>b DEF StampsBelowRow, TopStampOwns, StampsDistinct, IInv
<1>4. ParkedOwnsNothing'
  BY <1>b DEF ParkedOwnsNothing, IInv, Alive, Live
<1>5. OwnerKnowsBudget' /\ RetryBudget' /\ MarkedIsFailed'
  BY <1>b DEF OwnerKnowsBudget, RetryBudget, MarkedIsFailed, RetriesSpent, IInv
<1> QED
  BY <1>1, <1>2, <1>4, <1>5 DEF IInv
-----------------------------------------------------------------------------

(* Every step keeps the type invariant. *)
LEMMA TypeStep == IInv /\ [Next]_vars => TypeOK'
<1> SUFFICES ASSUME IInv, [Next]_vars PROVE TypeOK'
  OBVIOUS
<1> USE QueueConstants DEF IInv, TypeOK, stampVars, rowVars, runVars, procVars, TaskOf, Alive
<1>1. ASSUME NEW t \in Tasks, RowStep(t) PROVE TypeOK'
  <2>1. CASE Enqueue(t) BY <2>1 DEF Enqueue, Status
  <2>2. CASE Cancel(t) BY <2>2 DEF Cancel, Status
  <2>3. CASE ResumeParked(t) BY <2>3 DEF ResumeParked, Status
  <2>4. CASE FinalizeParent(t) BY <2>4 DEF FinalizeParent, Status, Failure
  <2>5. CASE RetryPayload(t) BY <2>5 DEF RetryPayload, Status, Failure
  <2>8. CASE ReopenParent(t) BY <2>8 DEF ReopenParent, Status, Failure
  <2>6. CASE BecomeDue(t) BY <2>6 DEF BecomeDue, Status
  <2>7. CASE Lapse(t) BY <2>7 DEF Lapse, Status
  <2> QED BY <1>1, <2>1, <2>2, <2>3, <2>4, <2>5, <2>6, <2>7, <2>8 DEF RowStep
<1>2. ASSUME NEW r \in Runs, RunStep(r) PROVE TypeOK'
  <2>1. CASE Register(r) BY <2>1 DEF Register, Phase, Claims
  <2>2. CASE Beat(r)
    <3>1. BeatReaches(r) \in BOOLEAN
      BY DEF BeatReaches, Owns
    <3>2. fresh' \in [Tasks -> BOOLEAN] /\ beating' \in [Runs -> BOOLEAN]
      BY <2>2, <3>1 DEF Beat
    <3>3. Alive(r)
      BY <2>2 DEF Beat
    <3> QED BY <2>2, <3>2, <3>3 DEF Beat
  <2>3. CASE Progress(r) BY <2>3 DEF Progress, InHandler
  <2>4. CASE ParkWaiting(r) BY <2>4 DEF ParkWaiting, Settle, Guarded, InHandler, Status, Phase
  <2>5. CASE FinishDone(r) BY <2>5 DEF FinishDone, Settle, Guarded, InHandler, Status, Phase
  <2>6. CASE FinishFailed(r) BY <2>6 DEF FinishFailed, Settle, Guarded, InHandler, Status, Phase
  <2>7. CASE ParkAwaitingBatch(r) BY <2>7 DEF ParkAwaitingBatch, Settle, Guarded, InHandler, Status, Phase
  <2>8. CASE Defer(r) BY <2>8 DEF Defer, Settle, Guarded, InHandler, Status, Phase, HandBack
  <2>9. CASE RequeueTransient(r) BY <2>9 DEF RequeueTransient, Settle, Guarded, InHandler, Status, Phase
  <2>10. CASE FailUnavailablePayload(r) BY <2>10 DEF FailUnavailablePayload, Settle, Guarded, InHandler, Status, Failure, Phase,
         HandBack
  <2>11. CASE ThreadDies(r) BY <2>11 DEF ThreadDies, InHandler, Phase
  <2>12. CASE End(r) BY <2>12 DEF End, Phase, NoClaim, Claims
  <2> QED BY <1>2, <2>1, <2>2, <2>3, <2>4, <2>5, <2>6, <2>7, <2>8, <2>9, <2>10, <2>11, <2>12 DEF RunStep
<1>3. ASSUME NEW w \in Workers, ProcessStep(w) PROVE TypeOK'
  <2>1. CASE Gone(w)
    <3>1. pc' \in [Runs -> Phase] /\ beating' \in [Runs -> BOOLEAN]
      BY <2>1 DEF Gone, Phase
    <3>2. claim' \in [Runs -> Claims]
      BY <2>1 DEF Gone, NoClaim, Claims
    <3>3. \A r \in Runs :
             IF claim[r].worker = w
             THEN pc'[r] = "free" /\ claim'[r] = NoClaim /\ beating'[r] = FALSE
             ELSE pc'[r] = pc[r] /\ claim'[r] = claim[r] /\ beating'[r] = beating[r]
      BY <2>1 DEF Gone
    <3>4. \A r \in Runs : /\ Alive(r)' => TaskOf(r)' \in Tasks /\ claim'[r].worker \in Workers
                         /\ ~Alive(r)' => claim'[r] = NoClaim /\ ~beating'[r]
      BY <3>3
    <3>5. /\ proc' \in [Workers -> {"up", "exiting", "down"}]
          /\ inFlight' \in [Workers -> [Tasks -> Nat]]
          /\ toRelease' \in [Workers -> [Tasks -> Nat]]
      BY <2>1 DEF Gone, NoEntries
    <3> QED BY <2>1, <3>1, <3>2, <3>4, <3>5 DEF Gone
  <2>2. CASE Sigterm(w) BY <2>2 DEF Sigterm
  <2>3. CASE Start(w) BY <2>3 DEF Start
  <2> QED BY <1>3, <2>1, <2>2, <2>3 DEF ProcessStep, Exit, Crash
<1>4. ASSUME NEW w \in Workers, NEW t \in Tasks,
             ReapRequeue(w, t) \/ ReapFail(w, t) \/ Release(w, t)
      PROVE  TypeOK'
  <2>1. CASE ReapRequeue(w, t) BY <2>1 DEF ReapRequeue, Status
  <2>2. CASE ReapFail(w, t) BY <2>2 DEF ReapFail, Status
  <2>3. CASE Release(w, t)
    <3>1. toRelease' \in [Workers -> [Tasks -> Nat]]
      BY <2>3 DEF Release
    <3>3. HandBack(attempts[t]) \in Nat
      BY DEF HandBack
    <3>2. /\ status' \in [Tasks -> Status] /\ attempts' \in [Tasks -> Nat]
          /\ fresh' \in [Tasks -> BOOLEAN]
      <4>1. CASE UNCHANGED <<status, attempts, fresh>>
        BY <4>1
      <4>2. CASE /\ status' = [status EXCEPT ![t] = "pending"]
                 /\ attempts' = [attempts EXCEPT ![t] = HandBack(attempts[t])]
                 /\ fresh' = [fresh EXCEPT ![t] = FALSE]
        BY <4>2, <3>3 DEF Status
      <4> QED BY <2>3, <4>1, <4>2 DEF Release
    <3> QED BY <2>3, <3>1, <3>2 DEF Release
  <2> QED BY <1>4, <2>1, <2>2, <2>3
<1>5. ASSUME NEW w \in Workers, NEW t \in Tasks, NEW r \in Runs, Claim(w, t, r)
      PROVE  TypeOK'
  BY <1>5 DEF Claim, Claims, Phase, Status, RetryBudget, RetriesSpent, ReturnedSpent
<1>6. CASE UNCHANGED vars
  BY <1>6 DEF vars
<1> QED
  BY <1>1, <1>2, <1>3, <1>4, <1>5, <1>6 DEF Next

(* Every step keeps the inductive invariant: one step per action of Next. *)
LEMMA InvStep == IInv /\ [Next]_vars => IInv'
<1> SUFFICES ASSUME IInv, [Next]_vars PROVE IInv'
  OBVIOUS
<1>t. TypeOK'
  BY TypeStep
<1> USE <1>t DEF stampVars, rowVars, runVars, procVars
<1>1. ASSUME NEW t \in Tasks, RowStep(t) PROVE IInv'
  <2>0. /\ status[t] # "failed" => failure[t] = "none"
        /\ status[t] = "absent" => RetriesSpent(t) = 0
    BY DEF IInv, MarkedIsFailed
  <2>a. /\ attempts[t] \in Nat /\ resumes[t] \in Nat /\ resumes[t] + 1 \in Nat
        /\ attempts = [attempts EXCEPT ![t] = attempts[t]]
        /\ resumes = [resumes EXCEPT ![t] = resumes[t]]
        /\ worker = [worker EXCEPT ![t] = worker[t]]
        /\ failure[t] = "none" => failure = [failure EXCEPT ![t] = "none"]
        /\ \A q \in Runs : Live(q) /\ TaskOf(q) = t /\ proc[claim[q].worker] = "up"
                              => claim[q].attempts <= attempts[t]
    BY DEF IInv, TypeOK, StampsBelowRow
  <2>1. CASE Enqueue(t)
    <3>1. RetriesSpent(t) \in 0 .. TaskMaxAttempts - 1 /\ failure[t] = "none"
      BY <2>0, <2>1, QueueConstants DEF Enqueue
    <3> QED BY <2>1, <3>1, StatusWrite DEF Enqueue, Status
  <2>2. CASE Cancel(t)
    BY <2>0, <2>2, StatusWrite DEF Cancel, Status
  <2>3. CASE ResumeParked(t)
    <3>1. attempts[t] - (resumes[t] + 1) \in 0 .. TaskMaxAttempts - 1
      BY <2>3, QueueConstants DEF ResumeParked, IInv, RetryBudget, RetriesSpent, TypeOK
    <3> QED BY <2>0, <2>3, <3>1, <2>a, Requeue DEF ResumeParked
  <2>4. CASE FinalizeParent(t)
    <3>1. /\ \A u \in Tasks : u # t => failure'[u] = failure[u]
          /\ \/ failure'[t] = "none" /\ status' = [status EXCEPT ![t] = "done"]
             \/ failure'[t] = "chunks" /\ status' = [status EXCEPT ![t] = "failed"]
      BY <2>0, <2>4 DEF FinalizeParent, IInv, TypeOK
    <3> QED BY <2>4, <3>1, StatusWrite DEF FinalizeParent, Status
  <2>7. CASE ReopenParent(t)
    <3>1. failure'[t] = "none" /\ \A u \in Tasks : u # t => failure'[u] = failure[u]
      BY <2>7 DEF ReopenParent, IInv, TypeOK
    <3> QED BY <2>7, <3>1, StatusWrite DEF ReopenParent, Status
  <2>5. CASE RetryPayload(t)
    <3>1. attempts[t] - resumes[t] \in 0 .. TaskMaxAttempts - 1
      BY <2>5 DEF RetryPayload, IInv, MarkedIsFailed, RetriesSpent
    <3> QED BY <2>5, <3>1, <2>a, Requeue DEF RetryPayload
  <2>6. CASE BecomeDue(t) \/ Lapse(t)
    BY <2>6, Shrink DEF BecomeDue, Lapse, Alive, Live, Working, IInv, GoneHasNoRuns
  <2> QED BY <1>1, <2>1, <2>2, <2>3, <2>4, <2>5, <2>6, <2>7 DEF RowStep
<1>2. ASSUME NEW r \in Runs, RunStep(r) PROVE IInv'
  <2> DEFINE t == TaskOf(r)
  <2>0. ASSUME pc[r] = "running", Owns(r)
        PROVE  /\ Working(r) /\ t \in Tasks /\ attempts[t] \in Nat /\ resumes[t] \in Nat
               /\ RetriesSpent(t) \in 1 .. TaskMaxAttempts
               /\ claim[r].spent = RetriesSpent(t)
               /\ failure[t] = "none"
               /\ HandBack(attempts[t]) = attempts[t] - 1 /\ attempts[t] - 1 \in Nat
               /\ attempts[t] - 1 - resumes[t] < TaskMaxAttempts
               /\ status = [status EXCEPT ![t] = status[t]]
               /\ attempts = [attempts EXCEPT ![t] = attempts[t]]
               /\ worker = [worker EXCEPT ![t] = worker[t]]
               /\ failure = [failure EXCEPT ![t] = failure[t]]
    <3>1. Working(r) /\ Live(r) /\ t \in Tasks
      BY <2>0 DEF Working, Live, Alive, IInv, TypeOK
    <3>2. attempts[t] \in Nat /\ resumes[t] \in Nat
      BY <3>1 DEF IInv, TypeOK
    <3>3. RetriesSpent(t) \in 1 .. TaskMaxAttempts /\ claim[r].spent = RetriesSpent(t) /\ failure[t] = "none"
      BY <2>0, <3>1 DEF IInv, RetryBudget, OwnerKnowsBudget, MarkedIsFailed, Owns
    <3>4. HandBack(attempts[t]) = attempts[t] - 1 /\ attempts[t] - 1 \in Nat
          /\ attempts[t] - 1 - resumes[t] < TaskMaxAttempts
      BY <3>2, <3>3, QueueConstants DEF HandBack, RetriesSpent
    <3> QED BY <3>1, <3>2, <3>3, <3>4 DEF IInv, TypeOK
  <2>1. CASE Register(r)
    BY <2>1, Shrink DEF Register, Alive, Live, Working, IInv, GoneHasNoRuns, TypeOK
  <2>2. CASE Beat(r) \/ Progress(r)
    BY <2>2, Shrink DEF Beat, Progress, Alive, Live, Working, IInv, GoneHasNoRuns
  <2>3. CASE ThreadDies(r) \/ End(r)
    BY <2>3, Shrink DEF ThreadDies, End, InHandler, Alive, Live, Working, IInv, GoneHasNoRuns, TypeOK
  <2>4. CASE FinishDone(r) /\ pc[r] = "parked"
    <3>1. ~Owns(r) BY <2>4 DEF IInv, ParkedOwnsNothing
    <3> QED BY <2>4, <3>1, Lost DEF FinishDone, Settle, Guarded
  <2>5. CASE pc[r] = "running" /\ ~Owns(r) /\ (ParkWaiting(r) \/ FinishDone(r)
              \/ FinishFailed(r) \/ ParkAwaitingBatch(r) \/ Defer(r)
              \/ RequeueTransient(r) \/ FailUnavailablePayload(r))
    BY <2>5, Lost DEF ParkWaiting, FinishDone, FinishFailed, ParkAwaitingBatch, Defer,
       RequeueTransient, FailUnavailablePayload, Settle, Guarded
  <2>6. CASE pc[r] = "running" /\ Owns(r) /\ ParkWaiting(r)
    BY <2>0, <2>6, SettleOwned DEF ParkWaiting, Settle, Guarded, Status
  <2>7. CASE pc[r] = "running" /\ Owns(r) /\ FinishDone(r)
    BY <2>0, <2>7, SettleOwned DEF FinishDone, Settle, Guarded, Status
  <2>12. CASE pc[r] = "running" /\ Owns(r) /\ FinishFailed(r)
    BY <2>0, <2>12, SettleOwned DEF FinishFailed, Settle, Guarded, Status
  <2>8. CASE pc[r] = "running" /\ Owns(r) /\ ParkAwaitingBatch(r)
    BY <2>0, <2>8, SettleOwned DEF ParkAwaitingBatch, Settle, Guarded, Status
  <2>9. CASE pc[r] = "running" /\ Owns(r) /\ Defer(r)
    <3>1. /\ status' = [status EXCEPT ![t] = "pending"]
          /\ attempts' = [attempts EXCEPT ![t] = attempts[t] - 1]
          /\ worker' = [worker EXCEPT ![t] = NoWorker]
          /\ UNCHANGED <<failure, resumes, claim, proc>>
          /\ pc' = [pc EXCEPT ![r] = "settled"]
      BY <2>0, <2>9 DEF Defer, Settle, Guarded
    <3>2. worker'[t] = NoWorker /\ failure'[t] = "none"
      BY <2>0, <2>9, <3>1 DEF IInv, TypeOK
    <3> QED BY <2>0, <2>9, <3>1, <3>2, SettleOwned DEF Status
  <2>10. CASE pc[r] = "running" /\ Owns(r) /\ RequeueTransient(r)
    BY <2>0, <2>10, SettleOwned DEF RequeueTransient, Settle, Guarded, Status, RetriesSpent
  <2>11. CASE pc[r] = "running" /\ Owns(r) /\ FailUnavailablePayload(r)
    <3>1. /\ status' = [status EXCEPT ![t] = "failed"]
          /\ attempts' = [attempts EXCEPT ![t] = attempts[t] - 1]
          /\ failure' = [failure EXCEPT ![t] = "payload"]
          /\ UNCHANGED <<worker, resumes, claim, proc>>
          /\ pc' = [pc EXCEPT ![r] = "settled"]
      BY <2>0, <2>11 DEF FailUnavailablePayload, Settle, Guarded
    <3>2. failure'[t] = "payload"
      BY <2>0, <2>11, <3>1 DEF IInv, TypeOK
    <3> QED BY <2>0, <2>11, <3>1, <3>2, SettleOwned DEF Status
  <2> QED
    BY <1>2, <2>1, <2>2, <2>3, <2>4, <2>5, <2>6, <2>7, <2>8, <2>9, <2>10, <2>11, <2>12
       DEF RunStep, InHandler, ParkWaiting, FinishDone, FinishFailed, ParkAwaitingBatch,
           Defer, RequeueTransient, FailUnavailablePayload
<1>3. ASSUME NEW w \in Workers, ProcessStep(w) PROVE IInv'
  <2>1. CASE Gone(w)
    <3>1. \A q \in Runs :
             IF claim[q].worker = w THEN ~Alive(q)'
             ELSE pc'[q] = pc[q] /\ claim'[q] = claim[q]
      BY <2>1 DEF Gone, Alive
    <3>2. \A v \in Workers : v # w => proc'[v] = proc[v]
      BY <2>1 DEF Gone, IInv, TypeOK
    <3>3. proc'[w] = "down"
      BY <2>1 DEF Gone, IInv, TypeOK
    <3>4. \A q \in Runs : Alive(q)' => /\ Alive(q) /\ claim'[q] = claim[q]
                                      /\ (Live(q)' => Live(q))
                                      /\ (pc'[q] = "parked" => pc[q] = "parked")
                                      /\ proc'[claim[q].worker] # "down"
      BY <3>1, <3>2 DEF Alive, Live, Working, IInv, GoneHasNoRuns, TypeOK
    <3> QED BY <2>1, <3>2, <3>3, <3>4, Shrink DEF Gone
  <2>2. CASE Sigterm(w)
    BY <2>2, Shrink DEF Sigterm, Alive, Live, Working, IInv, GoneHasNoRuns, TypeOK
  <2>3. CASE Start(w)
    BY <2>3, Shrink DEF Start, Alive, Live, Working, IInv, GoneHasNoRuns, TypeOK
  <2> QED BY <1>3, <2>1, <2>2, <2>3 DEF ProcessStep, Exit, Crash
<1>4. ASSUME NEW w \in Workers, NEW t \in Tasks,
             ReapRequeue(w, t) \/ ReapFail(w, t) \/ Release(w, t)
      PROVE  IInv'
  <2>0. ASSUME status[t] = "running"
        PROVE  RetriesSpent(t) \in 1 .. TaskMaxAttempts /\ failure[t] = "none"
    BY <2>0 DEF IInv, RetryBudget, MarkedIsFailed
  <2>1. CASE ReapRequeue(w, t)
    <3>1. RetriesSpent(t) \in 0 .. TaskMaxAttempts - 1 /\ failure[t] = "none"
      BY <2>0, <2>1, QueueConstants DEF ReapRequeue
    <3> QED BY <2>1, <3>1, StatusWrite DEF ReapRequeue, Status
  <2>2. CASE ReapFail(w, t)
    BY <2>0, <2>2, StatusWrite DEF ReapFail, Status
  <2>3. CASE Release(w, t) /\ UNCHANGED <<status, attempts, fresh>>
    BY <2>3, Shrink DEF Release, Alive, Live, Working, IInv, GoneHasNoRuns
  <2>4. CASE Release(w, t) /\ ~UNCHANGED <<status, attempts, fresh>>
    <3>1. /\ status[t] = "running" /\ worker[t] = w /\ proc[w] = "exiting"
          /\ status' = [status EXCEPT ![t] = "pending"]
          /\ attempts' = [attempts EXCEPT ![t] = HandBack(attempts[t])]
          /\ UNCHANGED <<resumes, worker, failure, pc, claim, proc>>
      BY <2>4 DEF Release, ReleaseMatches
    <3>2. attempts[t] \in Nat /\ resumes[t] \in Nat
      BY DEF IInv, TypeOK
    <3>3. /\ HandBack(attempts[t]) = attempts[t] - 1 /\ attempts[t] - 1 \in Nat
          /\ attempts[t] - 1 - resumes[t] \in 0 .. TaskMaxAttempts - 1
      BY <2>0, <3>1, <3>2, QueueConstants DEF HandBack, RetriesSpent
    <3>4. ASSUME NEW q \in Runs, Live(q), TaskOf(q) = t, proc[claim[q].worker] = "up"
          PROVE  claim[q].attempts <= attempts[t] - 1
      <4>1. claim[q].attempts \in Nat /\ claim[q].attempts <= attempts[t]
        BY <3>4 DEF IInv, TypeOK, Claims, StampsBelowRow
      <4>2. claim[q].attempts # attempts[t]
        BY <3>1, <3>4 DEF IInv, TopStampOwns
      <4> QED BY <3>2, <4>1, <4>2
    <3>5. /\ resumes' = [resumes EXCEPT ![t] = resumes[t]]
          /\ worker' = [worker EXCEPT ![t] = worker[t]]
          /\ failure' = [failure EXCEPT ![t] = "none"]
          /\ status' = [status EXCEPT ![t] = "pending"]
          /\ UNCHANGED <<pc, claim, proc>>
      BY <2>0, <3>1 DEF IInv, TypeOK
    <3> DEFINE a == attempts[t] - 1
    <3>6. /\ a \in Nat /\ a - resumes[t] \in 0 .. TaskMaxAttempts - 1
          /\ attempts' = [attempts EXCEPT ![t] = a]
          /\ \A q \in Runs : Live(q) /\ TaskOf(q) = t /\ proc[claim[q].worker] = "up"
                                => claim[q].attempts <= a
      BY <3>1, <3>3, <3>4
    <3> HIDE DEF a
    <3> QED BY <3>2, <3>5, <3>6, Requeue
  <2> QED BY <1>4, <2>1, <2>2, <2>3, <2>4
<1>5. ASSUME NEW w \in Workers, NEW t \in Tasks, NEW r \in Runs, Claim(w, t, r)
      PROVE  IInv'
  BY <1>5 DEF Claim, MainLoop, ReturnedSpent, IInv, TypeOK, Claims, GoneHasNoRuns, StampsBelowRow, TaskOf, procVars,
   TopStampOwns, StampsDistinct, ParkedOwnsNothing, RetryBudget,
   OwnerKnowsBudget, MarkedIsFailed, Alive, Live, Working, RetriesSpent, Owns, StampMatches
<1>6. CASE UNCHANGED vars
  BY <1>6, Shrink DEF vars, Alive, Live, Working, IInv, GoneHasNoRuns
<1> QED
  BY <1>1, <1>2, <1>3, <1>4, <1>5, <1>6 DEF Next

(* The type invariant, the range of the retries a claim reads included: a    *)
(* claim never finds its task's budget spent (claim_task, RETRIES_SPENT).    *)
THEOREM TypeCorrect == Spec => []TypeOK
<1>1. IInv => TypeOK
  BY DEF IInv
<1> QED
  BY InitIInv, InvStep, <1>1, PTL DEF Spec

(* claim_guard fences: of all runs of a task that can still write its status *)
(* at most one passes the guard, for any fleet and any number of re-claims.  *)
THEOREM Fencing == Spec => []AtMostOneOwner
<1>1. IInv => AtMostOneOwner
  BY DEF IInv, AtMostOneOwner, StampsDistinct, Owns, StampMatches
<1> QED
  BY InitIInv, InvStep, <1>1, PTL DEF Spec

(* The retry budget is exact: nothing requeues a row whose retries are spent *)
(* and nothing gives back more than was spent.                               *)
THEOREM BudgetKept == Spec => []RetryBudget
<1>1. IInv => RetryBudget
  BY DEF IInv
<1> QED
  BY InitIInv, InvStep, <1>1, PTL DEF Spec

-----------------------------------------------------------------------------
(* TaskQueue implements TaskLease, for every set of tasks, runs and workers  *)
(* and every retry budget.                                                   *)

(* A row that is not running has no holder. *)
LEMMA NotRunningFree ==
    ASSUME NEW t \in Tasks, status[t] # "running"
    PROVE  Holder[t] = {}
BY DEF Holder, Owns

(* The holder of a task is the only one. *)
LEMMA HolderIsOwner ==
    ASSUME IInv, NEW r \in Runs, Working(r), Owns(r)
    PROVE  TaskOf(r) \in Tasks /\ Holder[TaskOf(r)] = {r}
<1>1. TaskOf(r) \in Tasks
  BY DEF IInv, TypeOK, Working, Alive
<1>2. \A q \in Runs : Working(q) /\ TaskOf(q) = TaskOf(r) /\ Owns(q) => q = r
  BY DEF IInv, StampsDistinct, Owns, StampMatches, Live
<1> QED BY <1>1, <1>2 DEF Holder

(* A step that changes one row and no working run changes one holder. *)
LEMMA OneRow ==
    ASSUME NEW t \in Tasks, NEW s, s # "running",
           status' = [status EXCEPT ![t] = s], TypeOK, TypeOK',
           \A u \in Tasks : u # t => attempts'[u] = attempts[u] /\ worker'[u] = worker[u],
           claim' = claim,
           \A q \in Runs : TaskOf(q) # t => pc'[q] = pc[q]
    PROVE  Holder' = [Holder EXCEPT ![t] = {}]
<1>1. status'[t] # "running" /\ \A u \in Tasks : u # t => status'[u] = status[u]
  BY DEF TypeOK
<1>2. Holder'[t] = {}
  BY <1>1 DEF Holder, Owns, TaskOf
<1>3. ASSUME NEW u \in Tasks, u # t PROVE Holder'[u] = Holder[u]
  BY <1>1, <1>3 DEF Holder, Owns, StampMatches, TaskOf, Working
<1> QED BY <1>2, <1>3 DEF Holder

(* A step that leaves the rows alone and only ends working runs. *)
LEMMA RunsPerish ==
    ASSUME TypeOK, TypeOK', NEW R \in SUBSET ActiveRuns,
           UNCHANGED <<status, attempts, worker>>,
           \A q \in Runs : Working(q)' <=> Working(q) /\ q \notin R,
           \A q \in Runs : Working(q)' => claim'[q] = claim[q]
    PROVE  [Lease!Next]_(Lease!leaseVars)
<1>1. ActiveRuns' = ActiveRuns \ R
  BY DEF ActiveRuns
<1>2. ASSUME NEW t \in Tasks PROVE Holder'[t] = Holder[t] \ R
  BY DEF Holder, Owns, StampMatches, TaskOf
<1>3. Holder' = [t \in Tasks |-> Holder[t] \ R]
  BY <1>2 DEF Holder
<1> QED BY <1>1, <1>3 DEF Lease!Next, Lease!Perish

(* The owner's settling write is the lease holder's conclusion. *)
LEMMA OwnerConcludes ==
    ASSUME IInv, TypeOK', NEW r \in Runs, pc[r] = "running", Owns(r),
           NEW s \in {"pending", "waiting", "awaiting_batch", "done", "failed"},
           NEW p \in {"settled", "parked"}, Settle(r, s, p),
           attempts' = Guarded(r, attempts, attempts'[TaskOf(r)]),
           worker' = Guarded(r, worker, worker'[TaskOf(r)])
    PROVE  Lease!Next
<1> DEFINE t == TaskOf(r)
<1>1. Working(r) /\ t \in Tasks /\ status[t] = "running" /\ Holder[t] = {r}
  BY HolderIsOwner DEF Working, Owns
<1>2. /\ status' = [status EXCEPT ![t] = s] /\ pc' = [pc EXCEPT ![r] = p]
      /\ claim' = claim
  BY DEF Settle, Guarded
<1>3. \A u \in Tasks : u # t => attempts'[u] = attempts[u] /\ worker'[u] = worker[u]
  BY DEF Guarded, IInv, TypeOK
<1>4. \A q \in Runs : TaskOf(q) # t => pc'[q] = pc[q]
  BY <1>2 DEF IInv, TypeOK
<1>5. Holder' = [Holder EXCEPT ![t] = {}]
  BY <1>1, <1>2, <1>3, <1>4, OneRow DEF IInv
<1>6. ActiveRuns' = ActiveRuns \ {r}
  BY <1>2 DEF ActiveRuns, Working, IInv, TypeOK
<1> QED BY <1>1, <1>2, <1>5, <1>6 DEF Lease!Next, Lease!Conclude

(* A run that does not own its row ends without touching any. *)
LEMMA LostPerishes ==
    ASSUME IInv, TypeOK', NEW r \in Runs, pc[r] \in {"running", "parked"}, ~Owns(r),
           NEW p \in {"settled", "parked"}, NEW s, Settle(r, s, p),
           UNCHANGED <<attempts, worker>>
    PROVE  [Lease!Next]_(Lease!leaseVars)
<1> DEFINE R == {r} \cap ActiveRuns
<1>1. UNCHANGED <<status, claim>> /\ pc' = [pc EXCEPT ![r] = p]
  BY DEF Settle, Guarded
<1>2. \A q \in Runs : Working(q)' <=> Working(q) /\ q \notin R
  BY <1>1 DEF Working, ActiveRuns, IInv, TypeOK
<1> QED BY <1>1, <1>2, RunsPerish DEF IInv

(* Nothing the lease sees changes. *)
LEMMA Unseen ==
    ASSUME TypeOK, TypeOK', UNCHANGED <<status, attempts, worker>>,
           \A q \in Runs : Working(q)' <=> Working(q),
           \A q \in Runs : Working(q)' => claim'[q] = claim[q]
    PROVE  [Lease!Next]_(Lease!leaseVars)
<1> {} \in SUBSET ActiveRuns
  OBVIOUS
<1> QED BY RunsPerish

(* Every step of the queue is a step of the lease or leaves it unchanged. *)
LEMMA LeaseStep == IInv /\ IInv' /\ [Next]_vars => [Lease!Next]_(Lease!leaseVars)
<1> SUFFICES ASSUME IInv, IInv', [Next]_vars PROVE [Lease!Next]_(Lease!leaseVars)
  OBVIOUS
<1>t. TypeOK /\ TypeOK'
  BY DEF IInv
<1> USE <1>t DEF stampVars, rowVars, runVars, procVars
<1>1. ASSUME NEW t \in Tasks, RowStep(t) PROVE [Lease!Next]_(Lease!leaseVars)
  <2> USE DEF Lease!Next, Lease!Advance, Lease!Revoke, Lease!Moves
  <2>0. ASSUME NEW s \in {"pending", "waiting", "done", "failed", "cancelled"},
               status' = [status EXCEPT ![t] = s], attempts' = attempts, pc' = pc, claim' = claim,
               \A u \in Tasks : u # t => worker'[u] = worker[u]
        PROVE  Holder' = [Holder EXCEPT ![t] = {}] /\ ActiveRuns' = ActiveRuns
    BY <2>0, OneRow DEF ActiveRuns, Working
  <2>1. ASSUME status[t] # "running"
        PROVE  [Holder EXCEPT ![t] = {}] = Holder
    BY <2>1, NotRunningFree DEF Holder
  <2>2. CASE Enqueue(t)
    BY <2>0, <2>1, <2>2 DEF Enqueue
  <2>3. CASE Cancel(t)
    BY <2>0, <2>1, <2>3 DEF Cancel
  <2>4. CASE ResumeParked(t)
    BY <2>0, <2>1, <2>4 DEF ResumeParked
  <2>5. CASE FinalizeParent(t)
    BY <2>0, <2>1, <2>5 DEF FinalizeParent
  <2>6. CASE RetryPayload(t)
    BY <2>0, <2>1, <2>6 DEF RetryPayload, TypeOK
  <2>8. CASE ReopenParent(t)
    BY <2>0, <2>1, <2>8 DEF ReopenParent, IInv, MarkedIsFailed
  <2>7. CASE BecomeDue(t) \/ Lapse(t)
    BY <2>7, Unseen DEF BecomeDue, Lapse, Working
  <2> QED BY <1>1, <2>2, <2>3, <2>4, <2>5, <2>6, <2>7, <2>8 DEF RowStep
<1>2. ASSUME NEW r \in Runs, RunStep(r) PROVE [Lease!Next]_(Lease!leaseVars)
  <2>1. CASE Register(r) \/ Beat(r) \/ Progress(r) \/ End(r)
    BY <2>1, Unseen DEF Register, Beat, Progress, End, Working, TypeOK
  <2>2. CASE ThreadDies(r)
    <3>1. {r} \in SUBSET ActiveRuns
      BY <2>2 DEF ThreadDies, InHandler, ActiveRuns, Working
    <3>2. UNCHANGED <<status, attempts, worker, claim>>
      BY <2>2 DEF ThreadDies
    <3>3. \A q \in Runs : Working(q)' <=> Working(q) /\ q \notin {r}
      BY <2>2 DEF ThreadDies, InHandler, Working, TypeOK
    <3> HIDE DEF stampVars, rowVars, runVars, procVars
    <3> QED BY <3>1, <3>2, <3>3, RunsPerish
  <2>3. CASE FinishDone(r) /\ pc[r] = "parked"
    <3>1. ~Owns(r) BY <2>3 DEF IInv, ParkedOwnsNothing
    <3> QED BY <2>3, <3>1, LostPerishes DEF FinishDone
  <2>4. CASE pc[r] = "running" /\ ~Owns(r) /\ (ParkWaiting(r) \/ FinishDone(r)
              \/ FinishFailed(r) \/ ParkAwaitingBatch(r) \/ Defer(r)
              \/ RequeueTransient(r) \/ FailUnavailablePayload(r))
    BY <2>4, LostPerishes DEF ParkWaiting, FinishDone, FinishFailed, ParkAwaitingBatch,
       Defer, RequeueTransient, FailUnavailablePayload, Guarded
  <2>5. CASE pc[r] = "running" /\ Owns(r) /\ (ParkWaiting(r) \/ FinishDone(r)
              \/ FinishFailed(r) \/ ParkAwaitingBatch(r) \/ RequeueTransient(r))
    BY <2>5, OwnerConcludes DEF ParkWaiting, FinishDone, FinishFailed, ParkAwaitingBatch,
       RequeueTransient, Guarded, TypeOK
  <2>6. CASE pc[r] = "running" /\ Owns(r) /\ (Defer(r) \/ FailUnavailablePayload(r))
    BY <2>6, OwnerConcludes DEF Defer, FailUnavailablePayload, Guarded, TypeOK
  <2> QED
    BY <1>2, <2>1, <2>2, <2>3, <2>4, <2>5, <2>6
       DEF RunStep, InHandler, ParkWaiting, FinishDone, FinishFailed, ParkAwaitingBatch,
           Defer, RequeueTransient, FailUnavailablePayload
<1>3. ASSUME NEW w \in Workers, ProcessStep(w) PROVE [Lease!Next]_(Lease!leaseVars)
  <2>1. CASE Gone(w)
    <3> DEFINE R == {q \in ActiveRuns : claim[q].worker = w}
    <3>1. \A q \in Runs : Working(q)' <=> Working(q) /\ q \notin R
      BY <2>1 DEF Gone, Working, ActiveRuns
    <3>2. \A q \in Runs : Working(q)' => claim'[q] = claim[q]
      BY <2>1 DEF Gone, Working
    <3> HIDE DEF R
    <3>3. R \in SUBSET ActiveRuns
      BY DEF R
    <3> QED BY <2>1, <3>1, <3>2, <3>3, RunsPerish DEF Gone
  <2>2. CASE Sigterm(w) \/ Start(w)
    BY <2>2, Unseen DEF Sigterm, Start, Working
  <2> QED BY <1>3, <2>1, <2>2 DEF ProcessStep, Exit, Crash
<1>4. ASSUME NEW w \in Workers, NEW t \in Tasks,
             ReapRequeue(w, t) \/ ReapFail(w, t) \/ Release(w, t)
      PROVE  [Lease!Next]_(Lease!leaseVars)
  <2>1. CASE Release(w, t) /\ UNCHANGED <<status, attempts, fresh>>
    BY <2>1, Unseen DEF Release, Working
  <2>2. CASE ~(Release(w, t) /\ UNCHANGED <<status, attempts, fresh>>)
    <3>1. /\ status[t] = "running"
          /\ \E s \in {"pending", "failed"} : status' = [status EXCEPT ![t] = s]
          /\ attempts' = attempts \/ attempts' = [attempts EXCEPT ![t] = HandBack(attempts[t])]
          /\ UNCHANGED <<worker, pc, claim>>
      BY <1>4, <2>2 DEF ReapRequeue, ReapFail, Release, ReleaseMatches
    <3>2. \A u \in Tasks : u # t => attempts'[u] = attempts[u] /\ worker'[u] = worker[u]
      BY <3>1 DEF TypeOK
    <3>3. Holder' = [Holder EXCEPT ![t] = {}]
      BY <3>1, <3>2, OneRow
    <3>4. ActiveRuns' = ActiveRuns
      BY <3>1 DEF ActiveRuns, Working
    <3> QED BY <3>1, <3>3, <3>4 DEF Lease!Next, Lease!Revoke
  <2> QED BY <2>1, <2>2
<1>5. ASSUME NEW w \in Workers, NEW t \in Tasks, NEW r \in Runs, Claim(w, t, r)
      PROVE  [Lease!Next]_(Lease!leaseVars)
  <2>1. /\ Working(r)' /\ TaskOf(r)' = t /\ Owns(r)' /\ r \notin ActiveRuns
        /\ ActiveRuns' = ActiveRuns \cup {r}
    BY <1>5 DEF Claim, Working, TaskOf, Owns, StampMatches, TypeOK, ActiveRuns, Alive
  <2>2. \A q \in Runs : Working(q)' /\ TaskOf(q)' = t /\ Owns(q)' => q = r
    BY <2>1 DEF IInv, StampsDistinct, Owns, StampMatches, Live
  <2>3. Holder'[t] = {r}
    BY <2>1, <2>2 DEF Holder
  <2>4. ASSUME NEW u \in Tasks, u # t PROVE Holder'[u] = Holder[u]
    <3>1. /\ status'[u] = status[u] /\ attempts'[u] = attempts[u] /\ worker'[u] = worker[u]
          /\ \A q \in Runs : q # r => pc'[q] = pc[q] /\ claim'[q] = claim[q]
      BY <1>5, <2>4 DEF Claim, TypeOK
    <3>2. ~Working(r) /\ TaskOf(r)' # u
      BY <2>1, <2>4 DEF ActiveRuns
    <3> QED BY <3>1, <3>2 DEF Holder, Working, Owns, StampMatches, TaskOf
  <2>5. Holder' = [Holder EXCEPT ![t] = {r}]
    BY <2>3, <2>4 DEF Holder
  <2> QED BY <1>5, <2>1, <2>5 DEF Claim, Lease!Next, Lease!Grant
<1>6. CASE UNCHANGED vars
  BY <1>6, Unseen DEF vars, Working
<1> QED
  BY <1>1, <1>2, <1>3, <1>4, <1>5, <1>6 DEF Next

(* The queue keeps the lease's promise: see ImplementsLease in TaskQueue. *)
THEOREM LeaseImplemented == Spec => ImplementsLease
<1>1. Init => Lease!Init
  BY DEF Init, Lease!Init, Holder, ActiveRuns, Working
<1> QED
  BY <1>1, InitIInv, InvStep, LeaseStep, PTL DEF Spec, ImplementsLease, Lease!Spec
=============================================================================
