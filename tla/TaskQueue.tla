------------------------------ MODULE TaskQueue ------------------------------
(***************************************************************************)
(* The task queue and the worker fleet that drains it.                     *)
(*                                                                         *)
(* A task is one row of the `tasks` table.  Workers claim rows, run the    *)
(* handler of the row's kind, and settle the row with SQL statements that  *)
(* are guarded by the claim: (worker, attempts) as the claim returned it.  *)
(* Every action below is one SQL statement, or one step of a process       *)
(* between two statements, so that all interleavings of the fleet, the     *)
(* reaper, an administrator and SIGTERM are covered.                       *)
(*                                                                         *)
(* last_heartbeat is abstracted to `fresh`: it lies inside                 *)
(* task_heartbeat_timeout_minutes.  not_before is abstracted to `due`.     *)
(* Which eligible row a claim takes (CLAIM_ORDER, kinds, host slots) is    *)
(* left open: SKIP LOCKED already makes any order possible.                *)
(***************************************************************************)
EXTENDS Integers

CONSTANTS
    Tasks,            \* rows that may exist
    NoTask,
    Threaded,         \* the tasks of THREADED_KINDS: they run beside others
    Workers,          \* WORKER_NAMEs
    NoWorker,         \* SQL NULL in tasks.worker
    Runs,             \* identities for runs alive at the same time
    TaskMaxAttempts,  \* the config key task_max_attempts
    MaxClaims         \* bound: no row is claimed past this stamp

ASSUME QueueConstants ==
    /\ Threaded \subseteq Tasks
    /\ NoTask \notin Tasks
    /\ NoWorker \notin Workers
    /\ TaskMaxAttempts \in Nat \ {0}
    /\ MaxClaims \in Nat

VARIABLES
    \* the tasks table, one function per column
    status, attempts, resumes, worker, fresh, due,
    failure,          \* what a failed row is marked with (see Failure)
    \* executions of claimed tasks
    pc, claim, beating,
    \* worker processes
    proc,
    inFlight,         \* worker.py _in_flight: task id -> claimed attempts (0: no entry)
    toRelease         \* the copy of _in_flight that _release_all walks

stampVars == <<attempts, resumes, worker>>
rowVars == <<status, stampVars, fresh, due, failure>>
runVars == <<pc, claim, beating>>
procVars == <<proc, inFlight, toRelease>>
vars == <<rowVars, runVars, procVars>>

-----------------------------------------------------------------------------
Status == {"absent", "pending", "running", "waiting", "awaiting_batch",
           "done", "failed", "cancelled"}

(* "payload": the payload_recovery marker; "chunks": the error text that      *)
(* maybe_finalize_parent writes and _recoverable_parent looks for.            *)
Failure == {"none", "payload", "chunks"}

(* A run is "claimed" until run_task registers it, "parked" when the handler *)
(* of a parent has handed its work to chunks and only its trailing finish    *)
(* is left, "settled" when its last lifecycle write is behind it but its     *)
(* heartbeat thread and its _in_flight entry may still be there.             *)
Phase == {"free", "claimed", "running", "parked", "settled"}

Claims == [task : Tasks \cup {NoTask}, worker : Workers \cup {NoWorker},
           attempts : Nat, spent : 0 .. TaskMaxAttempts]

NoClaim == [task |-> NoTask, worker |-> NoWorker, attempts |-> 0, spent |-> 0]

TaskOf(r) == claim[r].task

Alive(r) == pc[r] # "free"

(* Runs that may still write their row's status; the parked one has only     *)
(* the finish that follows its park left.                                    *)
Working(r) == pc[r] \in {"claimed", "running"}

Live(r) == Working(r) \/ pc[r] = "parked"

(* The SQL of claim_guard: the row still carries this run's stamp. *)
StampMatches(r) ==
    /\ worker[TaskOf(r)] = claim[r].worker
    /\ attempts[TaskOf(r)] = claim[r].attempts

Owns(r) == status[TaskOf(r)] = "running" /\ StampMatches(r)

RetriesSpent(t) == attempts[t] - resumes[t]

(* A column after UPDATE ... WHERE status = 'running' AND <claim_guard>. *)
Guarded(r, column, value) ==
    IF Owns(r) THEN [column EXCEPT ![TaskOf(r)] = value] ELSE column

(* A kind outside THREADED_KINDS runs on the main thread, which then neither *)
(* claims nor does housekeeping until it ends.                               *)
MainBusy(w) ==
    \E r \in Runs : Alive(r) /\ claim[r].worker = w /\ TaskOf(r) \notin Threaded

MainLoop(w) == proc[w] = "up" /\ ~MainBusy(w)

(* The SIGTERM handler occupies the main thread until os._exit; threaded     *)
(* runs go on beside it.                                                     *)
CanStep(r) ==
    \/ proc[claim[r].worker] = "up"
    \/ proc[claim[r].worker] = "exiting" /\ TaskOf(r) \in Threaded

NoEntries == [t \in Tasks |-> 0]

Init ==
    /\ status = [t \in Tasks |-> "absent"]
    /\ attempts = [t \in Tasks |-> 0]
    /\ resumes = [t \in Tasks |-> 0]
    /\ worker = [t \in Tasks |-> NoWorker]
    /\ fresh = [t \in Tasks |-> FALSE]
    /\ due = [t \in Tasks |-> TRUE]
    /\ failure = [t \in Tasks |-> "none"]
    /\ pc = [r \in Runs |-> "free"]
    /\ claim = [r \in Runs |-> NoClaim]
    /\ beating = [r \in Runs |-> FALSE]
    /\ proc = [w \in Workers |-> "up"]
    /\ inFlight = [w \in Workers |-> NoEntries]
    /\ toRelease = [w \in Workers |-> NoEntries]

-----------------------------------------------------------------------------
(* Rows written outside any run.                                            *)

Enqueue(t) ==
    /\ status[t] = "absent"
    /\ status' = [status EXCEPT ![t] = "pending"]
    /\ UNCHANGED <<stampVars, fresh, due, failure, runVars, procVars>>

Cancel(t) ==
    /\ status[t] \in {"pending", "waiting", "running", "awaiting_batch"}
    /\ status' = [status EXCEPT ![t] = "cancelled"]
    /\ UNCHANGED <<stampVars, fresh, due, failure, runVars, procVars>>

(* Mutant: the resume is not counted, so the claim it causes reads as a retry. *)
ResumeParkedUncounted(t) ==
    /\ status[t] = "awaiting_batch"
    /\ status' = [status EXCEPT ![t] = "pending"]
    /\ UNCHANGED <<stampVars, fresh, due, failure, runVars, procVars>>

(* poll_batches found the parked task's batches terminal. *)
ResumeParked(t) ==
    /\ status[t] = "awaiting_batch"
    /\ status' = [status EXCEPT ![t] = "pending"]
    /\ resumes' = [resumes EXCEPT ![t] = @ + 1]
    /\ fresh' = [fresh EXCEPT ![t] = FALSE]
    /\ UNCHANGED <<attempts, worker, due, failure, runVars, procVars>>

(* The last chunk of a parent ended (module ChunkFanout has the chunks). *)
FinalizeParent(t) ==
    /\ status[t] = "waiting"
    /\ \/ /\ status' = [status EXCEPT ![t] = "done"]
          /\ UNCHANGED failure
       \/ /\ status' = [status EXCEPT ![t] = "failed"]
          /\ failure' = [failure EXCEPT ![t] = "chunks"]
    /\ UNCHANGED <<stampVars, fresh, due, runVars, procVars>>

(* An operator's retry of a chunk puts its failed parent back to waiting. *)
ReopenParent(t) ==
    /\ failure[t] = "chunks"
    /\ status' = [status EXCEPT ![t] = "waiting"]
    /\ failure' = [failure EXCEPT ![t] = "none"]
    /\ UNCHANGED <<stampVars, fresh, due, runVars, procVars>>

(* An operator's retry: only of a task that fail_unavailable_payload marked. *)
RetryPayload(t) ==
    /\ status[t] = "failed" /\ failure[t] = "payload"
    /\ status' = [status EXCEPT ![t] = "pending"]
    /\ failure' = [failure EXCEPT ![t] = "none"]
    /\ worker' = [worker EXCEPT ![t] = NoWorker]
    /\ fresh' = [fresh EXCEPT ![t] = FALSE]
    /\ UNCHANGED <<attempts, resumes, due, runVars, procVars>>

(* not_before passes. *)
BecomeDue(t) ==
    /\ ~due[t]
    /\ due' = [due EXCEPT ![t] = TRUE]
    /\ UNCHANGED <<status, stampVars, fresh, failure, runVars, procVars>>

(* The heartbeat window passes with no beat.  A live, beating owner's row    *)
(* can lapse too: its beats fail while the database refuses connections.     *)
Lapse(t) ==
    /\ status[t] = "running" /\ fresh[t]
    /\ fresh' = [fresh EXCEPT ![t] = FALSE]
    /\ UNCHANGED <<status, stampVars, due, failure, runVars, procVars>>

(* reap_stale_tasks, from the housekeeping of any worker's main loop. *)
ReapRequeue(w, t) ==
    /\ MainLoop(w)
    /\ status[t] = "running" /\ ~fresh[t]
    /\ RetriesSpent(t) < TaskMaxAttempts
    /\ status' = [status EXCEPT ![t] = "pending"]
    /\ UNCHANGED <<stampVars, fresh, due, failure, runVars, procVars>>

ReapFail(w, t) ==
    /\ MainLoop(w)
    /\ status[t] = "running" /\ ~fresh[t]
    /\ RetriesSpent(t) >= TaskMaxAttempts
    /\ status' = [status EXCEPT ![t] = "failed"]
    /\ UNCHANGED <<stampVars, fresh, due, failure, runVars, procVars>>

-----------------------------------------------------------------------------
(* Claiming and running.                                                    *)

(* retries_spent as the claim's RETURNING reads it, after the increment. *)
ReturnedSpent(t) == RetriesSpent(t) + 1

Claim(w, t, r) ==
    /\ MainLoop(w) /\ ~Alive(r)
    /\ status[t] = "pending" /\ due[t]
    /\ attempts[t] < MaxClaims
    /\ status' = [status EXCEPT ![t] = "running"]
    /\ attempts' = [attempts EXCEPT ![t] = @ + 1]
    /\ worker' = [worker EXCEPT ![t] = w]
    /\ fresh' = [fresh EXCEPT ![t] = TRUE]
    /\ pc' = [pc EXCEPT ![r] = "claimed"]
    /\ claim' = [claim EXCEPT ![r] = [task |-> t, worker |-> w,
                                      attempts |-> attempts[t] + 1,
                                      spent |-> ReturnedSpent(t)]]
    /\ UNCHANGED <<resumes, due, failure, beating, procVars>>

(* run_task mirrors the claim into _in_flight; run_held starts the beat. *)
Register(r) ==
    /\ pc[r] = "claimed" /\ CanStep(r)
    /\ pc' = [pc EXCEPT ![r] = "running"]
    /\ beating' = [beating EXCEPT ![r] = TRUE]
    /\ inFlight' = [inFlight EXCEPT ![claim[r].worker][TaskOf(r)] = claim[r].attempts]
    /\ UNCHANGED <<rowVars, claim, proc, toRelease>>

(* Mutant: the beat asks for the status and not for the claim. *)
BeatReachesAnyRun(r) == status[TaskOf(r)] = "running"

BeatReaches(r) == Owns(r)

(* The liveness thread: a beat that finds no row to stamp ends the thread,   *)
(* the handler goes on.                                                      *)
Beat(r) ==
    /\ beating[r]
    /\ fresh' = IF BeatReaches(r) THEN [fresh EXCEPT ![TaskOf(r)] = TRUE] ELSE fresh
    /\ beating' = [beating EXCEPT ![r] = BeatReaches(r)]
    /\ UNCHANGED <<status, stampVars, due, failure, pc, claim, procVars>>

InHandler(r) == pc[r] = "running" /\ CanStep(r)

(* set_progress and checkpoint carry a heartbeat too; set_progress asks for  *)
(* the stamp, not for the status.                                            *)
Progress(r) ==
    /\ InHandler(r) /\ StampMatches(r)
    /\ fresh' = [fresh EXCEPT ![TaskOf(r)] = TRUE]
    /\ UNCHANGED <<status, stampVars, due, failure, runVars, procVars>>

(* The guarded write of a new status; the run moves on whether or not it     *)
(* still owned its row.                                                      *)
Settle(r, newStatus, newPc) ==
    /\ status' = Guarded(r, status, newStatus)
    /\ pc' = [pc EXCEPT ![r] = newPc]
    /\ UNCHANGED <<claim, beating, resumes, procVars>>

(* A parent's handler has enqueued its chunks and parks on them; its finish  *)
(* still follows.                                                            *)
ParkWaiting(r) ==
    /\ InHandler(r)
    /\ Settle(r, "waiting", "parked")
    /\ UNCHANGED <<attempts, worker, fresh, due, failure>>

(* Mutant: finish restricted by status alone. *)
FinishDoneUnguarded(r) ==
    /\ pc[r] \in {"running", "parked"} /\ CanStep(r)
    /\ status' = IF status[TaskOf(r)] = "running"
                 THEN [status EXCEPT ![TaskOf(r)] = "done"] ELSE status
    /\ pc' = [pc EXCEPT ![r] = "settled"]
    /\ UNCHANGED <<stampVars, fresh, due, failure, claim, beating, procVars>>

FinishDone(r) ==
    /\ pc[r] \in {"running", "parked"} /\ CanStep(r)
    /\ Settle(r, "done", "settled")
    /\ UNCHANGED <<attempts, worker, fresh, due, failure>>

FinishFailed(r) ==
    /\ InHandler(r)
    /\ Settle(r, "failed", "settled")
    /\ UNCHANGED <<attempts, worker, fresh, due, failure>>

(* A submitted batch parks the task; so does one a collection left over. *)
ParkAwaitingBatch(r) ==
    /\ InHandler(r)
    /\ Settle(r, "awaiting_batch", "settled")
    /\ fresh' = Guarded(r, fresh, FALSE)
    /\ UNCHANGED <<attempts, worker, due, failure>>

(* GREATEST(attempts - 1, 0) *)
HandBack(n) == IF n > 0 THEN n - 1 ELSE 0

Defer(r) ==
    /\ InHandler(r)
    /\ Settle(r, "pending", "settled")
    /\ attempts' = Guarded(r, attempts, HandBack(attempts[TaskOf(r)]))
    /\ worker' = Guarded(r, worker, NoWorker)
    /\ due' = Guarded(r, due, FALSE)
    /\ fresh' = Guarded(r, fresh, FALSE)
    /\ UNCHANGED failure

(* The budget is the one read when the task was claimed. *)
RequeueTransient(r) ==
    /\ InHandler(r) /\ claim[r].spent < TaskMaxAttempts
    /\ Settle(r, "pending", "settled")
    /\ fresh' = Guarded(r, fresh, FALSE)
    /\ UNCHANGED <<attempts, worker, due, failure>>

FailUnavailablePayload(r) ==
    /\ InHandler(r)
    /\ Settle(r, "failed", "settled")
    /\ attempts' = Guarded(r, attempts, HandBack(attempts[TaskOf(r)]))
    /\ failure' = Guarded(r, failure, "payload")
    /\ UNCHANGED <<worker, fresh, due>>

(* The thread of a threaded run dies without a lifecycle write (a statement  *)
(* of its own failed, or its loop did); the row waits for the reaper.  On    *)
(* the main thread the same failure ends the process: Crash.                 *)
ThreadDies(r) ==
    /\ InHandler(r) /\ TaskOf(r) \in Threaded
    /\ pc' = [pc EXCEPT ![r] = "settled"]
    /\ UNCHANGED <<rowVars, claim, beating, procVars>>

(* Mutant: the beat outlives the claim it vouches for. *)
EndStillBeats(r) ==
    /\ pc[r] = "settled" /\ CanStep(r)
    /\ pc' = [pc EXCEPT ![r] = "free"]
    /\ claim' = [claim EXCEPT ![r] = NoClaim]
    /\ inFlight' = [inFlight EXCEPT ![claim[r].worker][TaskOf(r)] = 0]
    /\ UNCHANGED <<rowVars, beating, proc, toRelease>>

(* The finally of run_held and run_task: the beat is stopped and the entry   *)
(* of this task id is popped, whichever claim it holds.                      *)
End(r) ==
    /\ pc[r] = "settled" /\ CanStep(r)
    /\ pc' = [pc EXCEPT ![r] = "free"]
    /\ claim' = [claim EXCEPT ![r] = NoClaim]
    /\ beating' = [beating EXCEPT ![r] = FALSE]
    /\ inFlight' = [inFlight EXCEPT ![claim[r].worker][TaskOf(r)] = 0]
    /\ UNCHANGED <<rowVars, proc, toRelease>>

-----------------------------------------------------------------------------
(* Processes.                                                               *)

Sigterm(w) ==
    /\ proc[w] = "up"
    /\ proc' = [proc EXCEPT ![w] = "exiting"]
    /\ toRelease' = [toRelease EXCEPT ![w] = inFlight[w]]
    /\ UNCHANGED <<rowVars, runVars, inFlight>>

(* Mutant: the exit requeues by task id, not by claim. *)
ReleaseByTaskId(w, t) == status[t] = "running"

(* The WHERE of _REQUEUE_ON_EXIT_SQL. *)
ReleaseMatches(w, t) ==
    /\ status[t] = "running" /\ worker[t] = w
    /\ attempts[t] = toRelease[w][t]

(* One statement of _release_all, which may fail and is then passed over. *)
Release(w, t) ==
    /\ proc[w] = "exiting" /\ toRelease[w][t] # 0
    /\ toRelease' = [toRelease EXCEPT ![w][t] = 0]
    /\ \/ /\ ReleaseMatches(w, t)
          /\ status' = [status EXCEPT ![t] = "pending"]
          /\ attempts' = [attempts EXCEPT ![t] = HandBack(@)]
          /\ fresh' = [fresh EXCEPT ![t] = FALSE]
       \/ UNCHANGED <<status, attempts, fresh>>
    /\ UNCHANGED <<resumes, worker, due, failure, runVars, proc, inFlight>>

(* The process and every thread of it are gone; the rows are not told. *)
Gone(w) ==
    /\ proc' = [proc EXCEPT ![w] = "down"]
    /\ pc' = [r \in Runs |-> IF claim[r].worker = w THEN "free" ELSE pc[r]]
    /\ claim' = [r \in Runs |-> IF claim[r].worker = w THEN NoClaim ELSE claim[r]]
    /\ beating' = [r \in Runs |-> IF claim[r].worker = w THEN FALSE ELSE beating[r]]
    /\ inFlight' = [inFlight EXCEPT ![w] = NoEntries]
    /\ toRelease' = [toRelease EXCEPT ![w] = NoEntries]
    /\ UNCHANGED rowVars

Exit(w) == proc[w] = "exiting" /\ toRelease[w] = NoEntries /\ Gone(w)

Crash(w) == proc[w] # "down" /\ Gone(w)

Start(w) ==
    /\ proc[w] = "down"
    /\ proc' = [proc EXCEPT ![w] = "up"]
    /\ UNCHANGED <<rowVars, runVars, inFlight, toRelease>>

-----------------------------------------------------------------------------
RowStep(t) ==
    \/ Enqueue(t) \/ Cancel(t) \/ ResumeParked(t) \/ FinalizeParent(t)
    \/ RetryPayload(t) \/ ReopenParent(t) \/ BecomeDue(t) \/ Lapse(t)

RunStep(r) ==
    \/ Register(r) \/ Beat(r) \/ Progress(r) \/ ParkWaiting(r)
    \/ FinishDone(r) \/ FinishFailed(r) \/ ParkAwaitingBatch(r)
    \/ Defer(r) \/ RequeueTransient(r) \/ FailUnavailablePayload(r)
    \/ ThreadDies(r) \/ End(r)

ProcessStep(w) == Sigterm(w) \/ Exit(w) \/ Crash(w) \/ Start(w)

Next ==
    \/ \E t \in Tasks : RowStep(t)
    \/ \E r \in Runs : RunStep(r)
    \/ \E w \in Workers : ProcessStep(w)
    \/ \E w \in Workers, t \in Tasks :
          ReapRequeue(w, t) \/ ReapFail(w, t) \/ Release(w, t)
    \/ \E w \in Workers, t \in Tasks, r \in Runs : Claim(w, t, r)

Spec == Init /\ [][Next]_vars

(* Fairness.  The fleet's supervisor starts a stopped worker again, and a     *)
(* started worker does housekeeping before its first claim and every minute   *)
(* after, so a row that stays stale is reaped by whichever main loop comes    *)
(* round, between crashes too: strong fairness, over all workers.  The        *)
(* window passes on a row that no beat reaches.  Handlers on the main thread  *)
(* return, and a settled run's finally block completes (its join has a        *)
(* timeout); nothing is assumed of a handler in a thread.                     *)
LapseUnbeaten(t) ==
    /\ Lapse(t)
    /\ ~ \E r \in Runs : beating[r] /\ TaskOf(r) = t /\ BeatReaches(r)

Reap(t) == \E w \in Workers : ReapRequeue(w, t) \/ ReapFail(w, t)

MainEnds(r) ==
    /\ Alive(r) /\ TaskOf(r) \notin Threaded
    /\ Register(r) \/ FinishDone(r) \/ FinishFailed(r)

Fairness ==
    /\ \A w \in Workers : /\ WF_vars(Start(w))
                          /\ WF_vars(Exit(w) \/ \E t \in Tasks : Release(w, t))
    /\ \A r \in Runs : WF_vars(MainEnds(r)) /\ WF_vars(End(r))
    /\ \A t \in Tasks : WF_vars(LapseUnbeaten(t)) /\ SF_vars(Reap(t))

FairSpec == Spec /\ Fairness

-----------------------------------------------------------------------------
(* Type invariant: what a claim returned is a real task, worker and stamp,   *)
(* and the retries it read lie within the budget.                            *)
TypeOK ==
    /\ status \in [Tasks -> Status]
    /\ attempts \in [Tasks -> Nat] /\ resumes \in [Tasks -> Nat]
    /\ worker \in [Tasks -> Workers \cup {NoWorker}]
    /\ fresh \in [Tasks -> BOOLEAN] /\ due \in [Tasks -> BOOLEAN]
    /\ failure \in [Tasks -> Failure]
    /\ pc \in [Runs -> Phase] /\ beating \in [Runs -> BOOLEAN]
    /\ claim \in [Runs -> Claims]
    /\ \A r \in Runs :
         /\ Alive(r) => TaskOf(r) \in Tasks /\ claim[r].worker \in Workers
         /\ ~Alive(r) => claim[r] = NoClaim /\ ~beating[r]
    /\ proc \in [Workers -> {"up", "exiting", "down"}]
    /\ inFlight \in [Workers -> [Tasks -> Nat]]
    /\ toRelease \in [Workers -> [Tasks -> Nat]]

(* At most one run that can still write a task's status passes the claim     *)
(* guard, whatever was reaped, handed back, released or re-claimed: the      *)
(* generation stamp of TaskClaim fences every run that lost its task.        *)
AtMostOneOwner ==
    \A r, s \in Runs :
        Live(r) /\ Live(s) /\ TaskOf(r) = TaskOf(s) /\ Owns(r) /\ Owns(s) => r = s

(* No task is claimed more often than its retry budget, batch resumes and    *)
(* handed-back attempts apart: whatever put a row back to pending (reaper,   *)
(* transient error, deferral, resume, SIGTERM, recovery), a claim of it      *)
(* still fits, and no row has been given back more than it spent.            *)
RetryBudget ==
    \A t \in Tasks :
        /\ status[t] = "pending" => RetriesSpent(t) \in 0 .. TaskMaxAttempts - 1
        /\ status[t] \in {"running", "awaiting_batch"}
              => RetriesSpent(t) \in 1 .. TaskMaxAttempts

(* The inductive invariant behind the two above (proved in TaskQueueProofs). *)
(* A process that is gone has no runs.                                       *)
GoneHasNoRuns == \A r \in Runs : Alive(r) => proc[claim[r].worker] # "down"

(* A live run of a process that may still claim never carries a stamp above  *)
(* its row's, so the next claim's stamp is new to it.                        *)
StampsBelowRow ==
    \A r \in Runs :
        Live(r) /\ proc[claim[r].worker] = "up"
            => claim[r].attempts <= attempts[TaskOf(r)]

(* Of the live runs of such processes only the owner carries the row's own.  *)
(* Who hands an attempt back is the owner, so StampsBelowRow survives it.    *)
TopStampOwns ==
    \A r \in Runs :
        (/\ Live(r) /\ proc[claim[r].worker] = "up"
         /\ status[TaskOf(r)] = "running"
         /\ claim[r].attempts = attempts[TaskOf(r)])
            => worker[TaskOf(r)] = claim[r].worker

StampsDistinct ==
    \A r, s \in Runs :
        (/\ Live(r) /\ Live(s)
         /\ TaskOf(r) = TaskOf(s)
         /\ claim[r].worker = claim[s].worker
         /\ claim[r].attempts = claim[s].attempts)
            => r = s

ParkedOwnsNothing == \A r \in Runs : pc[r] = "parked" => ~Owns(r)

(* The budget the transient branch read at its claim is the row's. *)
OwnerKnowsBudget ==
    \A r \in Runs : Live(r) /\ Owns(r) => claim[r].spent = RetriesSpent(TaskOf(r))

(* Only a failed task is marked, its attempt handed back with its payload;  *)
(* a row not yet inserted has spent nothing.                                *)
MarkedIsFailed ==
    \A t \in Tasks :
        /\ failure[t] # "none" => status[t] = "failed"
        /\ failure[t] = "payload" => RetriesSpent(t) \in 0 .. TaskMaxAttempts - 1
        /\ status[t] = "absent" => RetriesSpent(t) = 0

IInv ==
    /\ TypeOK /\ GoneHasNoRuns /\ StampsBelowRow /\ TopStampOwns
    /\ StampsDistinct /\ ParkedOwnsNothing /\ RetryBudget
    /\ OwnerKnowsBudget /\ MarkedIsFailed

Attended(t) == \E r \in Runs : Working(r) /\ TaskOf(r) = t /\ Owns(r)

(* The stamp implements a lease: seen through "the working run that passes   *)
(* the claim guard holds the task", every statement of the fleet, the        *)
(* reaper, the administrator and the exit path is a step TaskLease allows.   *)
(* A run that lost its task changes nothing, and no ended task runs again    *)
(* except a failed one whose payload was recovered.                          *)
Holder == [t \in Tasks |-> {r \in Runs : Working(r) /\ TaskOf(r) = t /\ Owns(r)}]

ActiveRuns == {r \in Runs : Working(r)}

Lease == INSTANCE TaskLease WITH holder <- Holder, active <- ActiveRuns

ImplementsLease == Lease!Spec

(* A task whose run is gone (crash, dead thread, a claim SIGTERM did not      *)
(* know of) does not stay 'running': the reaper takes it over, and no run     *)
(* that lost the task keeps it looking alive with its heartbeats.             *)
LostClaimsAreReaped ==
    \A t \in Tasks :
        (status[t] = "running" /\ ~Attended(t)) ~> (status[t] # "running" \/ Attended(t))

=============================================================================
