------------------------------ MODULE BatchWork ------------------------------
(***************************************************************************)
(* The paid work of one batched task: requests submitted to a provider in  *)
(* waves, the task parked on them, poll_batches resuming it, and results   *)
(* checkpointed as receipts and consumed.                                  *)
(*                                                                         *)
(* A run of the task is a claim of it by a worker (module TaskQueue); here *)
(* a run owns the task until it settles it or the claim is taken away, and *)
(* then may go on: the batch ids in the payload, ai_batches and the        *)
(* receipts are written without the claim guard.  One action is one        *)
(* transaction or one provider call.                                       *)
(*                                                                         *)
(* A wave carries one request, so a batch stands for its request's receipt *)
(* (primary key: provider batch id and custom id).  Model choice, prices   *)
(* and the budget gates before a submission are left out: they only refuse.*)
(***************************************************************************)
EXTENDS Integers, FiniteSets

CONSTANTS
    Specs,            \* the requests the handler would send
    NoSpec,
    Batches,          \* provider batch ids
    NoBatch,
    Runs,             \* identities for runs alive at the same time
    NoRun,
    TaskMaxAttempts,  \* the config key task_max_attempts
    MaxExits          \* bound: how often SIGTERM meets a run of this task

ASSUME BatchConstants ==
    /\ NoSpec \notin Specs
    /\ NoBatch \notin Batches
    /\ NoRun \notin Runs
    /\ TaskMaxAttempts \in Nat \ {0}
    /\ MaxExits \in Nat

VARIABLES
    \* the task's row
    status, owner,
    spent,            \* RETRIES_SPENT: attempts - batch_resumes
    marked,           \* payload carries the payload_recovery marker
    exits,            \* SIGTERMs so far
    batchIds,         \* payload.batch_ids
    checkpointed,     \* payload.batch_collection_checkpointed
    \* other tables
    aiBatches,        \* batches with an ai_batches row
    receipt,          \* batch_result_receipts
    applied,          \* how often a result's verdicts and usage were written
    \* the provider
    provider, request,
    \* poll_batches, between its status calls and resume_parked
    resuming,
    \* the runs' local state
    pc,
    unsent,           \* requests not yet offered to the provider
    accepted,         \* the ids submit_batches will return
    entering,         \* the batch the provider accepted and the hook has not seen
    unread,           \* ids of `existing` not yet asked about
    unfinished,       \* ids to park on again
    results           \* batches whose results this run has in hand

payloadVars == <<batchIds, checkpointed>>
taskVars == <<status, owner, spent, marked, exits>>
tableVars == <<aiBatches, receipt, applied>>
providerVars == <<provider, request>>
submitVars == <<unsent, accepted, entering>>
collectVars == <<unread, unfinished, results>>
localVars == <<submitVars, collectVars>>
vars == <<taskVars, payloadVars, tableVars, providerVars, resuming, pc, localVars>>

-----------------------------------------------------------------------------
Status == {"pending", "running", "awaiting_batch", "done", "failed", "cancelled"}

Phase == {"free", "start", "submitting", "accepted", "collecting", "reading",
          "replaying", "consuming", "returned"}

Owns(r) == status = "running" /\ owner = r

(* Mutant: a batch the provider rejected is taken for one still open. *)
TerminalEndedOnly(b) == provider[b] = "ended"

(* is_terminal *)
Terminal(b) == provider[b] \in {"ended", "rejected"}

Init ==
    /\ status = "pending" /\ owner = NoRun /\ spent = 0 /\ marked = FALSE /\ exits = 0
    /\ batchIds = {} /\ checkpointed = FALSE
    /\ aiBatches = {}
    /\ receipt = [b \in Batches |-> "none"]
    /\ applied = [b \in Batches |-> 0]
    /\ provider = [b \in Batches |-> "unknown"]
    /\ request = [b \in Batches |-> NoSpec]
    /\ resuming = FALSE
    /\ pc = [r \in Runs |-> "free"]
    /\ unsent = [r \in Runs |-> {}] /\ accepted = [r \in Runs |-> {}]
    /\ entering = [r \in Runs |-> NoBatch]
    /\ unread = [r \in Runs |-> {}] /\ unfinished = [r \in Runs |-> {}]
    /\ results = [r \in Runs |-> {}]

(* The run is over: its locals are gone. *)
Leave(r) ==
    /\ pc' = [pc EXCEPT ![r] = "free"]
    /\ unsent' = [unsent EXCEPT ![r] = {}]
    /\ accepted' = [accepted EXCEPT ![r] = {}]
    /\ entering' = [entering EXCEPT ![r] = NoBatch]
    /\ unread' = [unread EXCEPT ![r] = {}]
    /\ unfinished' = [unfinished EXCEPT ![r] = {}]
    /\ results' = [results EXCEPT ![r] = {}]

(* A lifecycle write of run r: it changes the row only if r still owns it. *)
Settle(r, newStatus, newSpent) ==
    IF Owns(r)
    THEN status' = newStatus /\ owner' = NoRun /\ spent' = newSpent
    ELSE UNCHANGED <<status, owner, spent>>

-----------------------------------------------------------------------------
(* The claim, and how it is lost.                                           *)

Claim(r) ==
    /\ status = "pending" /\ pc[r] = "free"
    /\ status' = "running" /\ owner' = r /\ spent' = spent + 1
    /\ pc' = [pc EXCEPT ![r] = "start"]
    /\ UNCHANGED <<marked, exits, payloadVars, tableVars, providerVars, resuming, localVars>>

(* reap_stale_tasks: the run may be gone or only out of touch. *)
Reap ==
    /\ status = "running"
    /\ status' = IF spent < TaskMaxAttempts THEN "pending" ELSE "failed"
    /\ owner' = NoRun
    /\ UNCHANGED <<spent, marked, exits, payloadVars, tableVars, providerVars, resuming, pc, localVars>>

Cancel ==
    /\ status \in {"pending", "running", "awaiting_batch"}
    /\ status' = "cancelled" /\ owner' = NoRun
    /\ UNCHANGED <<spent, marked, exits, payloadVars, tableVars, providerVars, resuming, pc, localVars>>

(* The worker dies, at any point of the run. *)
Crash(r) ==
    /\ pc[r] # "free"
    /\ Leave(r)
    /\ UNCHANGED <<taskVars, payloadVars, tableVars, providerVars, resuming>>

(* SIGTERM: the worker hands the claim back with its attempt and exits. *)
Release(r) ==
    /\ pc[r] # "free" /\ exits < MaxExits
    /\ exits' = exits + 1
    /\ Settle(r, "pending", spent - 1)
    /\ Leave(r)
    /\ UNCHANGED <<marked, payloadVars, tableVars, providerVars, resuming>>

(* Mutant: a transient error is retried whatever the budget says. *)
RaisePastBudget(r) ==
    /\ pc[r] \notin {"free", "returned"}
    /\ \E s \in {"pending", "failed"} : Settle(r, s, spent)
    /\ Leave(r)
    /\ UNCHANGED <<marked, exits, payloadVars, tableVars, providerVars, resuming>>

(* The handler raises: a transient error goes back to pending while the      *)
(* budget lasts, any other fails the task.  Batch ids stay.                  *)
Raise(r) ==
    /\ pc[r] \notin {"free", "returned"}
    /\ \E s \in {"pending", "failed"} :
          /\ s = "pending" => spent < TaskMaxAttempts
          /\ Settle(r, s, spent)
    /\ Leave(r)
    /\ UNCHANGED <<marked, exits, payloadVars, tableVars, providerVars, resuming>>

(* Object storage is away: the request snapshots cannot be frozen (start),   *)
(* vectors cannot be stored before their receipts (reading done), or a       *)
(* receipt cannot be read back (replaying).  The attempt is handed back.     *)
PayloadUnavailable(r) ==
    /\ \/ pc[r] \in {"start", "replaying"}
       \/ pc[r] = "reading" /\ unread[r] = {}
    /\ Settle(r, "failed", spent - 1)
    /\ marked' = (marked \/ Owns(r))
    /\ Leave(r)
    /\ UNCHANGED <<exits, payloadVars, tableVars, providerVars, resuming>>

(* The operator's retry refuses when accepted work is not replayable. *)
Replayable == batchIds # {} \/ checkpointed \/ \E b \in Batches : receipt[b] # "none"

RetryPayload ==
    /\ status = "failed" /\ marked
    /\ aiBatches # {} => Replayable
    /\ status' = "pending" /\ marked' = FALSE
    /\ UNCHANGED <<owner, spent, exits, payloadVars, tableVars, providerVars, resuming, pc, localVars>>

-----------------------------------------------------------------------------
(* Submission.                                                              *)

(* Mutant: only the ids still in the payload count as work. *)
HasIds == batchIds # {}

(* has_batch_work *)
HasBatchWork == Replayable

(* The handler asks whether it has work in flight; without any it selects   *)
(* its requests, of which there may be none.                                *)
Begin(r) ==
    /\ pc[r] = "start"
    /\ \/ /\ HasBatchWork
          /\ pc' = [pc EXCEPT ![r] = "collecting"]
          /\ UNCHANGED unsent
       \/ /\ ~HasBatchWork
          /\ pc' = [pc EXCEPT ![r] = "submitting"]
          /\ unsent' = [unsent EXCEPT ![r] = Specs]
       \/ /\ ~HasBatchWork   \* nothing to select; or AIPaused, which skips the repark
          /\ \E next \in {"consuming", "returned"} : pc' = [pc EXCEPT ![r] = next]
          /\ UNCHANGED unsent
    /\ UNCHANGED <<taskVars, payloadVars, tableVars, providerVars, resuming,
                   accepted, entering, collectVars>>

(* One wave: batches.create returns, the hook has not run. *)
SubmitChunk(r, s, b) ==
    /\ pc[r] = "submitting" /\ s \in unsent[r]
    /\ provider[b] = "unknown"
    /\ provider' = [provider EXCEPT ![b] = "queued"]
    /\ request' = [request EXCEPT ![b] = s]
    /\ unsent' = [unsent EXCEPT ![r] = @ \ {s}]
    /\ entering' = [entering EXCEPT ![r] = b]
    /\ pc' = [pc EXCEPT ![r] = "accepted"]
    /\ UNCHANGED <<taskVars, payloadVars, tableVars, resuming, accepted, collectVars>>

(* A refused wave is passed over; its request falls to the next sweep. *)
ChunkRefused(r, s) ==
    /\ pc[r] = "submitting" /\ s \in unsent[r]
    /\ unsent' = [unsent EXCEPT ![r] = @ \ {s}]
    /\ UNCHANGED <<taskVars, payloadVars, tableVars, providerVars, resuming, pc,
                   accepted, entering, collectVars>>

(* batch_event_hook, in one transaction; _notify swallows its failure. *)
OnEvent(b) ==
    \/ aiBatches' = aiBatches \cup {b} /\ batchIds' = batchIds \cup {b}
    \/ UNCHANGED <<aiBatches, batchIds>>

RecordSubmitted(r) ==
    /\ pc[r] = "accepted"
    /\ OnEvent(entering[r])
    /\ accepted' = [accepted EXCEPT ![r] = @ \cup {entering[r]}]
    /\ entering' = [entering EXCEPT ![r] = NoBatch]
    /\ pc' = [pc EXCEPT ![r] = "submitting"]
    /\ UNCHANGED <<taskVars, checkpointed, receipt, applied, providerVars, resuming,
                   unsent, collectVars>>

(* park_awaiting_batch: the ids whatever became of the claim, the status     *)
(* only with it.  A refused park raises, and the task is not ours to fail.   *)
Park(r, ids) ==
    /\ batchIds' = batchIds \cup ids
    /\ Settle(r, "awaiting_batch", spent)
    /\ Leave(r)
    /\ UNCHANGED <<marked, exits, checkpointed, tableVars, providerVars, resuming>>

ParkSubmitted(r) ==
    /\ pc[r] = "submitting" /\ unsent[r] = {} /\ accepted[r] # {}
    /\ Park(r, accepted[r])

(* poll_batches: a parked task with something to collect; one whose batches  *)
(* are all still open waits.                                                 *)
PollBatches ==
    /\ status = "awaiting_batch" /\ ~resuming
    /\ batchIds = {} \/ \E b \in batchIds : Terminal(b)
    /\ resuming' = TRUE
    /\ UNCHANGED <<taskVars, payloadVars, tableVars, providerVars, pc, localVars>>

ResumeParked ==
    /\ resuming
    /\ resuming' = FALSE
    /\ IF status = "awaiting_batch"
       THEN status' = "pending" /\ spent' = spent - 1
       ELSE UNCHANGED <<status, spent>>
    /\ UNCHANGED <<owner, marked, exits, payloadVars, tableVars, providerVars, pc, localVars>>

-----------------------------------------------------------------------------
(* Collection.                                                              *)

(* existing = pending_batch_ids; without any, straight to the receipts. *)
CollectPending(r) ==
    /\ pc[r] = "collecting"
    /\ pc' = [pc EXCEPT ![r] = IF batchIds = {} THEN "replaying" ELSE "reading"]
    /\ unread' = [unread EXCEPT ![r] = batchIds]
    /\ UNCHANGED <<taskVars, payloadVars, tableVars, providerVars, resuming,
                   submitVars, unfinished, results>>

(* Mutant: an unreadable batch is passed over. *)
ReadFailsPassedOver(r, b) ==
    /\ pc[r] = "reading" /\ b \in unread[r]
    /\ unread' = [unread EXCEPT ![r] = @ \ {b}]
    /\ UNCHANGED <<taskVars, payloadVars, tableVars, providerVars, resuming, pc,
                   submitVars, unfinished, results>>

(* An unreadable batch is an unfinished one. *)
ReadFails(r, b) ==
    /\ pc[r] = "reading" /\ b \in unread[r]
    /\ unread' = [unread EXCEPT ![r] = @ \ {b}]
    /\ unfinished' = [unfinished EXCEPT ![r] = @ \cup {b}]
    /\ UNCHANGED <<taskVars, payloadVars, tableVars, providerVars, resuming, pc,
                   submitVars, results>>

(* Its status is emitted to the hook, and a terminal one is downloaded; one  *)
(* the provider rejected whole has no results.                               *)
ReadBatch(r, b) ==
    /\ pc[r] = "reading" /\ b \in unread[r]
    /\ unread' = [unread EXCEPT ![r] = @ \ {b}]
    /\ OnEvent(b)
    /\ unfinished' = [unfinished EXCEPT ![r] = IF Terminal(b) THEN @ ELSE @ \cup {b}]
    /\ results' = [results EXCEPT ![r] = IF provider[b] = "ended" THEN @ \cup {b} ELSE @]
    /\ UNCHANGED <<taskVars, checkpointed, receipt, applied, providerVars, resuming, pc,
                   submitVars>>

(* Mutant: the checkpoint forgets the batches that have not finished. *)
CheckpointDropsAll(r) ==
    /\ pc[r] = "reading" /\ unread[r] = {}
    /\ receipt' = [b \in Batches |->
                      IF b \in results[r] /\ receipt[b] = "none" THEN "pending" ELSE receipt[b]]
    /\ batchIds' = {}
    /\ checkpointed' = TRUE
    /\ pc' = [pc EXCEPT ![r] = "replaying"]
    /\ UNCHANGED <<taskVars, aiBatches, applied, providerVars, resuming, localVars>>

(* checkpoint: receipts and the remaining ids in one transaction. *)
Checkpoint(r) ==
    /\ pc[r] = "reading" /\ unread[r] = {}
    /\ receipt' = [b \in Batches |->
                      IF b \in results[r] /\ receipt[b] = "none" THEN "pending" ELSE receipt[b]]
    /\ batchIds' = unfinished[r]
    /\ checkpointed' = TRUE
    /\ pc' = [pc EXCEPT ![r] = "replaying"]
    /\ UNCHANGED <<taskVars, aiBatches, applied, providerVars, resuming, localVars>>

(* unconsumed: whatever no run has consumed, this run's or an earlier one's. *)
Unconsumed(r) ==
    /\ pc[r] = "replaying"
    /\ results' = [results EXCEPT ![r] = {b \in Batches : receipt[b] = "pending"}]
    /\ pc' = [pc EXCEPT ![r] = "consuming"]
    /\ UNCHANGED <<taskVars, payloadVars, tableVars, providerVars, resuming,
                   submitVars, unread, unfinished>>

(* Mutant: the receipt is not looked at again under its lock. *)
ConsumeUnlocked(r, b) ==
    /\ pc[r] = "consuming" /\ b \in results[r]
    /\ results' = [results EXCEPT ![r] = @ \ {b}]
    /\ applied' = [applied EXCEPT ![b] = @ + 1]
    /\ receipt' = [receipt EXCEPT ![b] = "consumed"]
    /\ UNCHANGED <<taskVars, payloadVars, aiBatches, providerVars, resuming, pc,
                   submitVars, unread, unfinished>>

(* consume_result: verdicts, usage and the receipt in one transaction.  The *)
(* row lock makes two runs of one receipt wait for each other.              *)
ConsumeResult(r, b) ==
    /\ pc[r] = "consuming" /\ b \in results[r]
    /\ results' = [results EXCEPT ![r] = @ \ {b}]
    /\ IF receipt[b] = "pending"
       THEN /\ applied' = [applied EXCEPT ![b] = @ + 1]
            /\ receipt' = [receipt EXCEPT ![b] = "consumed"]
       ELSE UNCHANGED <<applied, receipt>>
    /\ UNCHANGED <<taskVars, payloadVars, aiBatches, providerVars, resuming, pc,
                   submitVars, unread, unfinished>>

(* The handler returns.  repark_if_unfinished reads the ids the payload      *)
(* names now ...                                                             *)
Return(r) ==
    /\ pc[r] = "consuming" /\ results[r] = {}
    /\ pc' = [pc EXCEPT ![r] = "returned"]
    /\ unfinished' = [unfinished EXCEPT ![r] = batchIds]
    /\ UNCHANGED <<taskVars, payloadVars, tableVars, providerVars, resuming,
                   submitVars, unread, results>>

(* ... and the run parks on them again, or finishes: finish drops the ids.   *)
Repark(r) ==
    /\ pc[r] = "returned" /\ unfinished[r] # {}
    /\ Park(r, unfinished[r])

FinishDone(r) ==
    /\ pc[r] = "returned" /\ unfinished[r] = {}
    /\ Settle(r, "done", spent)
    /\ batchIds' = IF Owns(r) THEN {} ELSE batchIds
    /\ Leave(r)
    /\ UNCHANGED <<marked, exits, checkpointed, tableVars, providerVars, resuming>>

(* The provider: external. *)
ProviderEnds(b) ==
    /\ provider[b] = "queued"
    /\ \E s \in {"ended", "rejected"} : provider' = [provider EXCEPT ![b] = s]
    /\ UNCHANGED <<taskVars, payloadVars, tableVars, request, resuming, pc, localVars>>

-----------------------------------------------------------------------------
RunStep(r) ==
    \/ Begin(r) \/ RecordSubmitted(r) \/ ParkSubmitted(r)
    \/ CollectPending(r) \/ Checkpoint(r) \/ Unconsumed(r)
    \/ Return(r) \/ Repark(r) \/ FinishDone(r)
    \/ \E b \in Batches : ReadBatch(r, b) \/ ConsumeResult(r, b)
    \/ \E s \in Specs : ChunkRefused(r, s) \/ \E b \in Batches : SubmitChunk(r, s, b)

Fault(r) ==
    \/ Crash(r) \/ Release(r) \/ Raise(r) \/ PayloadUnavailable(r)
    \/ \E b \in Batches : ReadFails(r, b)

Next ==
    \/ \E r \in Runs : Claim(r) \/ RunStep(r) \/ Fault(r)
    \/ Reap \/ Cancel \/ RetryPayload \/ PollBatches \/ ResumeParked
    \/ \E b \in Batches : ProviderEnds(b)

Spec == Init /\ [][Next]_vars

(* Fairness.  A run that is neither killed nor raises goes on; a pending     *)
(* task is claimed (workers drain the queue); poll_batches is scheduled      *)
(* again and again and ends; a row whose run is gone is reaped (module       *)
(* TaskQueue).  The provider ends every batch within its completion window,  *)
(* and of the reads of an ended batch not all fail.  Nothing is assumed of   *)
(* crashes, errors, cancellations and operators.                             *)
ReapLost == Reap /\ pc[owner] = "free"

Fairness ==
    /\ WF_vars(\E r \in Runs : Claim(r))
    /\ WF_vars(ReapLost) /\ WF_vars(PollBatches) /\ WF_vars(ResumeParked)
    /\ \A r \in Runs : WF_vars(RunStep(r))
    /\ \A b \in Batches :
          /\ WF_vars(ProviderEnds(b))
          /\ \A r \in Runs : SF_vars(Terminal(b) /\ ReadBatch(r, b))

FairSpec == Spec /\ Fairness

-----------------------------------------------------------------------------
(* Type invariant.  The retries spent stay within task_max_attempts and      *)
(* below none, whatever mix of resumes, reaps, releases, transient errors    *)
(* and recoveries the task went through.                                     *)
TypeOK ==
    /\ status \in Status /\ owner \in Runs \cup {NoRun}
    /\ spent \in 0 .. TaskMaxAttempts /\ exits \in 0 .. MaxExits
    /\ marked \in BOOLEAN /\ checkpointed \in BOOLEAN /\ resuming \in BOOLEAN
    /\ batchIds \subseteq Batches /\ aiBatches \subseteq Batches
    /\ receipt \in [Batches -> {"none", "pending", "consumed"}]
    /\ applied \in [Batches -> Nat]
    /\ provider \in [Batches -> {"unknown", "queued", "ended", "rejected"}]
    /\ request \in [Batches -> Specs \cup {NoSpec}]
    /\ pc \in [Runs -> Phase]
    /\ unsent \in [Runs -> SUBSET Specs] /\ accepted \in [Runs -> SUBSET Batches]
    /\ entering \in [Runs -> Batches \cup {NoBatch}]
    /\ unread \in [Runs -> SUBSET Batches] /\ unfinished \in [Runs -> SUBSET Batches]
    /\ results \in [Runs -> SUBSET Batches]

(* A paid result is applied at most once, and exactly when its receipt says  *)
(* so: replays after a crash, and a run that lost the task and consumes      *)
(* beside its successor, never write the same verdict and usage twice.       *)
ConsumedOnce ==
    \A b \in Batches : applied[b] = IF receipt[b] = "consumed" THEN 1 ELSE 0

(* Every batch the ledger knows of is still pointed at: by an id in the      *)
(* payload, which a later run collects, or by a receipt, which one replays.  *)
(* "an id that reaches no row is paid work nothing points at"                *)
(* (park_awaiting_batch).  Checked where a lost run is a dead run; what a    *)
(* lost run that goes on does to it is ReceiptBeforeForget.                  *)
PaidWorkReachable ==
    \A b \in aiBatches :
        b \in batchIds \/ receipt[b] # "none" \/ provider[b] = "rejected"

(* No request is bought a second time while its first purchase is on the     *)
(* ledger: a retry reattaches (has_batch_work) instead of resubmitting.      *)
BoughtOnce ==
    \A a, b \in aiBatches : request[a] = request[b] => a = b

(* checkpoint: "Record collected results before their provider batches stop  *)
(* being pending".  It holds for one run at a time, through partial and      *)
(* failed reads.  With two it does not: the payload's ids are replaced by    *)
(* those left over of the ids this run read before it asked the provider, so *)
(* that an id which a run that lost the task recorded meanwhile is gone      *)
(* without a receipt, and no run that would record it again is left.         *)
ReceiptBeforeForget ==
    [][status' # "done" =>
          \A b \in batchIds \ batchIds' :
              \/ receipt'[b] # "none" \/ provider[b] = "rejected"
              \/ \E r \in Runs : b \in accepted[r]]_batchIds

(* A task parked on its batches does not stay so for good: it is resumed and *)
(* ends, through partial collections and unreadable batches.                 *)
ParkedEnds ==
    status = "awaiting_batch" ~> status \in {"done", "failed", "cancelled"}

=============================================================================
