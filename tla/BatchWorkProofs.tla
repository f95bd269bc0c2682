-------------------------- MODULE BatchWorkProofs --------------------------
(***************************************************************************)
(* For any number of runs that hold or have lost the task, and any requests *)
(* and batches: paid results are applied exactly once, and the retry budget *)
(* is kept.  For one run alive at a time: no paid work is lost and none is  *)
(* bought twice.                                                            *)
(***************************************************************************)
EXTENDS BatchWork, TLAPS

(* The part of TypeOK that the receipts need. *)
ReceiptTypes ==
    /\ receipt \in [Batches -> {"none", "pending", "consumed"}]
    /\ applied \in [Batches -> Nat]

ReceiptInv == ReceiptTypes /\ ConsumedOnce

(* A step that leaves the receipts and the verdicts alone keeps the invariant. *)
LEMMA ReceiptsUntouched ==
    ASSUME ReceiptInv, UNCHANGED <<receipt, applied>>
    PROVE  ReceiptInv'
BY DEF ReceiptInv, ReceiptTypes, ConsumedOnce

(* The checkpoint only adds receipts, unconsumed ones, where there were none:  *)
(* ON CONFLICT DO NOTHING.                                                     *)
LEMMA CheckpointKeeps ==
    ASSUME ReceiptInv, NEW r \in Runs, Checkpoint(r)
    PROVE  ReceiptInv'
<1>1. /\ receipt' = [b \in Batches |->
             IF b \in results[r] /\ receipt[b] = "none" THEN "pending" ELSE receipt[b]]
      /\ applied' = applied
  BY DEF Checkpoint
<1>2. ReceiptTypes'
  BY <1>1 DEF ReceiptInv, ReceiptTypes
<1>3. ConsumedOnce'
  BY <1>1 DEF ReceiptInv, ReceiptTypes, ConsumedOnce
<1> QED BY <1>2, <1>3 DEF ReceiptInv

(* consume_result writes verdicts and receipt together, and only under a       *)
(* receipt that was still pending when it held the lock.                       *)
LEMMA ConsumeKeeps ==
    ASSUME ReceiptInv, NEW r \in Runs, NEW b \in Batches, ConsumeResult(r, b)
    PROVE  ReceiptInv'
<1>1. CASE receipt[b] = "pending"
  <2>1. /\ applied' = [applied EXCEPT ![b] = @ + 1]
        /\ receipt' = [receipt EXCEPT ![b] = "consumed"]
    BY <1>1 DEF ConsumeResult
  <2>2. applied[b] = 0
    BY <1>1 DEF ReceiptInv, ConsumedOnce
  <2>3. ReceiptTypes'
    BY <2>1 DEF ReceiptInv, ReceiptTypes
  <2>4. ConsumedOnce'
    BY <2>1, <2>2 DEF ReceiptInv, ReceiptTypes, ConsumedOnce
  <2> QED BY <2>3, <2>4 DEF ReceiptInv
<1>2. CASE receipt[b] # "pending"
  BY <1>2, ReceiptsUntouched DEF ConsumeResult
<1> QED BY <1>1, <1>2

(* Whatever a run does, the invariant survives it. *)
LEMMA RunStepKeeps ==
    ASSUME ReceiptInv, NEW r \in Runs, RunStep(r) \/ Fault(r) \/ Claim(r)
    PROVE  ReceiptInv'
<1>1. CASE Checkpoint(r)
  BY <1>1, CheckpointKeeps
<1>2. CASE \E b \in Batches : ConsumeResult(r, b)
  BY <1>2, ConsumeKeeps
<1>3. CASE \E s \in Specs, b \in Batches : SubmitChunk(r, s, b)
  BY <1>3, ReceiptsUntouched DEF SubmitChunk, tableVars
<1>4. CASE \E s \in Specs : ChunkRefused(r, s)
  BY <1>4, ReceiptsUntouched DEF ChunkRefused, tableVars
<1>5. CASE \E b \in Batches : ReadBatch(r, b) \/ ReadFails(r, b)
  BY <1>5, ReceiptsUntouched DEF ReadBatch, ReadFails, tableVars
<1>6. CASE Begin(r) \/ RecordSubmitted(r) \/ CollectPending(r) \/ Unconsumed(r)
           \/ Return(r) \/ Claim(r)
  BY <1>6, ReceiptsUntouched
  DEF Begin, RecordSubmitted, CollectPending, Unconsumed, Return, Claim, tableVars
<1>7. CASE ParkSubmitted(r) \/ Repark(r) \/ FinishDone(r)
  BY <1>7, ReceiptsUntouched DEF ParkSubmitted, Repark, FinishDone, Park, tableVars
<1>8. CASE Crash(r) \/ Release(r) \/ Raise(r) \/ PayloadUnavailable(r)
  BY <1>8, ReceiptsUntouched DEF Crash, Release, Raise, PayloadUnavailable, tableVars
<1> QED BY <1>1, <1>2, <1>3, <1>4, <1>5, <1>6, <1>7, <1>8 DEF RunStep, Fault

(* consume_result: no paid result is applied twice, and none is marked         *)
(* consumed without having been applied, however many runs replay it.          *)
THEOREM AppliedExactlyOnce == Spec => []ConsumedOnce
<1>1. Init => ReceiptInv
  BY DEF Init, ReceiptInv, ReceiptTypes, ConsumedOnce
<1>2. ReceiptInv /\ [Next]_vars => ReceiptInv'
  <2> SUFFICES ASSUME ReceiptInv, [Next]_vars PROVE ReceiptInv'
    OBVIOUS
  <2>1. CASE \E r \in Runs : Claim(r) \/ RunStep(r) \/ Fault(r)
    BY <2>1, RunStepKeeps
  <2>2. CASE Reap \/ Cancel \/ RetryPayload \/ PollBatches \/ ResumeParked
    BY <2>2, ReceiptsUntouched
    DEF Reap, Cancel, RetryPayload, PollBatches, ResumeParked, tableVars
  <2>3. CASE \E b \in Batches : ProviderEnds(b)
    BY <2>3, ReceiptsUntouched DEF ProviderEnds, tableVars
  <2>4. CASE UNCHANGED vars
    BY <2>4, ReceiptsUntouched DEF vars, tableVars
  <2> QED BY <2>1, <2>2, <2>3, <2>4 DEF Next
<1>3. ReceiptInv => ConsumedOnce
  BY DEF ReceiptInv
<1> QED BY <1>1, <1>2, <1>3, PTL DEF Spec

-----------------------------------------------------------------------------
(* Type correctness, with the retry budget, for overlapping runs too.  What  *)
(* the row needs to be inductive: a pending task has a retry left, one that  *)
(* was claimed or parked has spent one, and a marked one may be retried.     *)

Budget ==
    /\ status = "pending" => spent < TaskMaxAttempts
    /\ status \in {"running", "awaiting_batch"} => spent > 0
    /\ marked => status = "failed" /\ spent < TaskMaxAttempts

RowInv ==
    /\ status \in Status /\ owner \in Runs \cup {NoRun}
    /\ spent \in 0 .. TaskMaxAttempts /\ exits \in 0 .. MaxExits
    /\ marked \in BOOLEAN /\ resuming \in BOOLEAN
    /\ Budget

TableTypes ==
    /\ batchIds \subseteq Batches /\ aiBatches \subseteq Batches
    /\ checkpointed \in BOOLEAN
    /\ receipt \in [Batches -> {"none", "pending", "consumed"}]
    /\ applied \in [Batches -> Nat]
    /\ provider \in [Batches -> {"unknown", "queued", "ended", "rejected"}]
    /\ request \in [Batches -> Specs \cup {NoSpec}]

EnteringIsBatch == \A r \in Runs : pc[r] = "accepted" => entering[r] \in Batches

LocalTypes ==
    /\ pc \in [Runs -> Phase]
    /\ unsent \in [Runs -> SUBSET Specs] /\ accepted \in [Runs -> SUBSET Batches]
    /\ entering \in [Runs -> Batches \cup {NoBatch}]
    /\ unread \in [Runs -> SUBSET Batches] /\ unfinished \in [Runs -> SUBSET Batches]
    /\ results \in [Runs -> SUBSET Batches]
    /\ EnteringIsBatch

TypeInv == RowInv /\ TableTypes /\ LocalTypes

(* A lifecycle write: the row changes only for its owner, within the budget. *)
LEMMA SettleKeeps ==
    ASSUME RowInv, NEW r \in Runs, NEW s, NEW n, Settle(r, s, n),
           Owns(r) => /\ s \in Status /\ n \in 0 .. TaskMaxAttempts
                      /\ s = "pending" => n < TaskMaxAttempts
                      /\ s \in {"running", "awaiting_batch"} => n > 0,
           marked' \in BOOLEAN,
           marked' => marked \/ (Owns(r) /\ s = "failed" /\ n < TaskMaxAttempts),
           exits' \in 0 .. MaxExits, resuming' = resuming
    PROVE  RowInv'
<1>1. CASE Owns(r)
  <2>1. status = "running" /\ status' = s /\ owner' = NoRun /\ spent' = n
    BY <1>1 DEF Settle, Owns
  <2>2. marked = FALSE
    BY <2>1 DEF RowInv, Budget
  <2> QED BY <1>1, <2>1, <2>2 DEF RowInv, Budget
<1>2. CASE ~Owns(r)
  <2>1. UNCHANGED <<status, owner, spent>>
    BY <1>2 DEF Settle
  <2> QED BY <1>2, <2>1 DEF RowInv, Budget
<1> QED BY <1>1, <1>2

LEMMA RowUntouched ==
    ASSUME RowInv, UNCHANGED taskVars, resuming' \in BOOLEAN
    PROVE  RowInv'
BY DEF RowInv, Budget, taskVars

(* The row, under a step of a run. *)
LEMMA RunKeepsRow ==
    ASSUME RowInv, NEW r \in Runs, Claim(r) \/ RunStep(r) \/ Fault(r)
    PROVE  RowInv'
<1>0. TaskMaxAttempts \in Nat \ {0} /\ MaxExits \in Nat
  BY BatchConstants
<1>1. CASE Claim(r)
  BY <1>0, <1>1 DEF Claim, RowInv, Budget, Status
<1>2. CASE ParkSubmitted(r) \/ Repark(r)
  <2>1. Settle(r, "awaiting_batch", spent) /\ UNCHANGED <<marked, exits, resuming>>
    BY <1>2 DEF ParkSubmitted, Repark, Park
  <2>2. Owns(r) => spent > 0
    BY DEF Owns, RowInv, Budget
  <2> QED BY <2>1, <2>2, SettleKeeps DEF RowInv, Status
<1>3. CASE FinishDone(r)
  <2>1. Settle(r, "done", spent) /\ UNCHANGED <<marked, exits, resuming>>
    BY <1>3 DEF FinishDone
  <2> QED BY <2>1, SettleKeeps DEF RowInv, Status
<1>4. CASE Release(r)
  <2>1. /\ Settle(r, "pending", spent - 1) /\ UNCHANGED <<marked, resuming>>
        /\ exits < MaxExits /\ exits' = exits + 1
    BY <1>4 DEF Release
  <2>2. Owns(r) => spent > 0
    BY DEF Owns, RowInv, Budget
  <2>3. spent \in 0 .. TaskMaxAttempts /\ exits \in 0 .. MaxExits
    BY DEF RowInv
  <2>4. Owns(r) => spent - 1 \in 0 .. TaskMaxAttempts /\ spent - 1 < TaskMaxAttempts
    BY <1>0, <2>2, <2>3
  <2>5. exits' \in 0 .. MaxExits
    BY <1>0, <2>1, <2>3
  <2> QED BY <2>1, <2>4, <2>5, SettleKeeps DEF RowInv, Status
<1>5. CASE Raise(r)
  <2>1. PICK s \in {"pending", "failed"} :
           (s = "pending" => spent < TaskMaxAttempts) /\ Settle(r, s, spent)
    BY <1>5 DEF Raise
  <2>2. UNCHANGED <<marked, exits, resuming>>
    BY <1>5 DEF Raise
  <2> QED BY <2>1, <2>2, SettleKeeps DEF RowInv, Status
<1>6. CASE PayloadUnavailable(r)
  <2>1. /\ Settle(r, "failed", spent - 1) /\ UNCHANGED <<exits, resuming>>
        /\ marked' = (marked \/ Owns(r))
    BY <1>6 DEF PayloadUnavailable
  <2>2. Owns(r) => spent > 0
    BY DEF Owns, RowInv, Budget
  <2>3. spent \in 0 .. TaskMaxAttempts /\ marked \in BOOLEAN
    BY DEF RowInv
  <2>4. Owns(r) => spent - 1 \in 0 .. TaskMaxAttempts /\ spent - 1 < TaskMaxAttempts
    BY <1>0, <2>2, <2>3
  <2>5. marked' \in BOOLEAN
    BY <2>1
  <2> QED BY <2>1, <2>4, <2>5, SettleKeeps DEF RowInv, Status
<1>7. CASE Begin(r) \/ RecordSubmitted(r) \/ CollectPending(r) \/ Checkpoint(r)
           \/ Unconsumed(r) \/ Return(r) \/ Crash(r)
  <2>1. UNCHANGED taskVars /\ resuming' = resuming
    BY <1>7 DEF Begin, RecordSubmitted, CollectPending, Checkpoint, Unconsumed, Return, Crash
  <2> QED BY <2>1, RowUntouched DEF RowInv
<1>8. CASE \/ \E b \in Batches : ReadBatch(r, b) \/ ConsumeResult(r, b) \/ ReadFails(r, b)
           \/ \E s \in Specs : ChunkRefused(r, s) \/ \E b \in Batches : SubmitChunk(r, s, b)
  <2>1. UNCHANGED taskVars /\ resuming' = resuming
    BY <1>8 DEF ReadBatch, ConsumeResult, ReadFails, ChunkRefused, SubmitChunk
  <2> QED BY <2>1, RowUntouched DEF RowInv
<1> QED BY <1>1, <1>2, <1>3, <1>4, <1>5, <1>6, <1>7, <1>8 DEF RunStep, Fault

(* The row, under everyone else. *)
LEMMA OthersKeepRow ==
    ASSUME RowInv,
           \/ Reap \/ Cancel \/ RetryPayload \/ PollBatches \/ ResumeParked
           \/ \E b \in Batches : ProviderEnds(b)
    PROVE  RowInv'
<1>0. TaskMaxAttempts \in Nat \ {0}
  BY BatchConstants
<1>1. CASE Reap
  BY <1>0, <1>1 DEF Reap, RowInv, Budget, Status
<1>2. CASE Cancel
  BY <1>2 DEF Cancel, RowInv, Budget, Status
<1>3. CASE RetryPayload
  BY <1>3 DEF RetryPayload, RowInv, Budget, Status
<1>4. CASE PollBatches
  BY <1>4, RowUntouched DEF PollBatches
<1>5. CASE ResumeParked
  <2>1. UNCHANGED <<owner, marked, exits>> /\ resuming' = FALSE
    BY <1>5 DEF ResumeParked
  <2>2. CASE status = "awaiting_batch"
    <3>1. status' = "pending" /\ spent' = spent - 1
      BY <1>5, <2>2 DEF ResumeParked
    <3>2. spent > 0 /\ spent \in 0 .. TaskMaxAttempts /\ marked = FALSE
      BY <2>2 DEF RowInv, Budget
    <3>3. spent - 1 \in 0 .. TaskMaxAttempts /\ spent - 1 < TaskMaxAttempts
      BY <1>0, <3>2
    <3> QED BY <2>1, <3>1, <3>2, <3>3 DEF RowInv, Budget, Status
  <2>3. CASE status # "awaiting_batch"
    <3>1. UNCHANGED taskVars
      BY <1>5, <2>1, <2>3 DEF ResumeParked, taskVars
    <3> QED BY <2>1, <3>1, RowUntouched
  <2> QED BY <2>2, <2>3
<1>6. CASE \E b \in Batches : ProviderEnds(b)
  BY <1>6, RowUntouched DEF ProviderEnds, RowInv
<1> QED BY <1>1, <1>2, <1>3, <1>4, <1>5, <1>6

LEMMA LeaveTypes ==
    ASSUME LocalTypes, NEW r \in Runs, Leave(r)
    PROVE  LocalTypes'
<1>1. /\ pc' \in [Runs -> Phase]
      /\ unsent' \in [Runs -> SUBSET Specs]
      /\ accepted' \in [Runs -> SUBSET Batches]
      /\ entering' \in [Runs -> Batches \cup {NoBatch}]
  BY DEF LocalTypes, Leave, Phase
<1>2. /\ unread' \in [Runs -> SUBSET Batches]
      /\ unfinished' \in [Runs -> SUBSET Batches]
      /\ results' \in [Runs -> SUBSET Batches]
  BY DEF LocalTypes, Leave
<1>3. EnteringIsBatch'
  BY DEF LocalTypes, Leave, EnteringIsBatch
<1> QED BY <1>1, <1>2, <1>3 DEF LocalTypes

LEMMA LocalsUntouched ==
    ASSUME LocalTypes, UNCHANGED <<pc, localVars>>
    PROVE  LocalTypes'
BY DEF LocalTypes, EnteringIsBatch, localVars, submitVars, collectVars

(* The runs' local state, under every step of a run. *)
LEMMA RunKeepsLocals ==
    ASSUME TypeInv, NEW r \in Runs, Claim(r) \/ RunStep(r) \/ Fault(r)
    PROVE  LocalTypes'
<1> USE DEF submitVars, collectVars, localVars
<1>0. LocalTypes /\ batchIds \subseteq Batches
  BY DEF TypeInv, TableTypes
<1>1. CASE \/ ParkSubmitted(r) \/ Repark(r) \/ FinishDone(r)
           \/ Crash(r) \/ Release(r) \/ Raise(r) \/ PayloadUnavailable(r)
  <2>1. Leave(r)
    BY <1>1 DEF ParkSubmitted, Repark, Park, FinishDone, Crash, Release, Raise,
                PayloadUnavailable
  <2> QED BY <1>0, <2>1, LeaveTypes
<1>2. CASE Claim(r)
  BY <1>0, <1>2 DEF Claim, LocalTypes, EnteringIsBatch, Phase
<1>3. CASE Begin(r)
  <2>1. /\ pc' \in [Runs -> Phase] /\ unsent' \in [Runs -> SUBSET Specs]
        /\ UNCHANGED <<accepted, entering, collectVars>>
    BY <1>0, <1>3 DEF Begin, LocalTypes, Phase
  <2>2. \A q \in Runs : pc'[q] = "accepted" => pc[q] = "accepted"
    BY <1>0, <1>3 DEF Begin, LocalTypes
  <2> QED BY <1>0, <2>1, <2>2 DEF LocalTypes, EnteringIsBatch
<1>4. CASE \E s \in Specs, b \in Batches : SubmitChunk(r, s, b)
  BY <1>0, <1>4 DEF SubmitChunk, LocalTypes, EnteringIsBatch, Phase
<1>5. CASE \E s \in Specs : ChunkRefused(r, s)
  BY <1>0, <1>5 DEF ChunkRefused, LocalTypes, EnteringIsBatch
<1>6. CASE RecordSubmitted(r)
  <2>1. entering[r] \in Batches
    BY <1>0, <1>6 DEF RecordSubmitted, LocalTypes, EnteringIsBatch
  <2> QED BY <1>0, <1>6, <2>1 DEF RecordSubmitted, LocalTypes, EnteringIsBatch, Phase
<1>7. CASE CollectPending(r)
  BY <1>0, <1>7 DEF CollectPending, LocalTypes, EnteringIsBatch, Phase
<1>8. CASE \E b \in Batches : ReadFails(r, b)
  BY <1>0, <1>8 DEF ReadFails, LocalTypes, EnteringIsBatch
<1>9. CASE \E b \in Batches : ReadBatch(r, b)
  <2>1. PICK b \in Batches : ReadBatch(r, b)
    BY <1>9
  <2>2. /\ unread' \in [Runs -> SUBSET Batches]
        /\ unfinished' \in [Runs -> SUBSET Batches]
        /\ results' \in [Runs -> SUBSET Batches]
    BY <1>0, <2>1 DEF ReadBatch, LocalTypes
  <2>3. UNCHANGED <<pc, unsent, accepted, entering>>
    BY <2>1 DEF ReadBatch
  <2> QED BY <1>0, <2>2, <2>3 DEF LocalTypes, EnteringIsBatch
<1>10. CASE Checkpoint(r)
  BY <1>0, <1>10 DEF Checkpoint, LocalTypes, EnteringIsBatch, Phase
<1>11. CASE Unconsumed(r)
  BY <1>0, <1>11 DEF Unconsumed, LocalTypes, EnteringIsBatch, Phase
<1>12. CASE \E b \in Batches : ConsumeResult(r, b)
  BY <1>0, <1>12 DEF ConsumeResult, LocalTypes, EnteringIsBatch
<1>13. CASE Return(r)
  BY <1>0, <1>13 DEF Return, LocalTypes, EnteringIsBatch, Phase
<1> QED BY <1>1, <1>2, <1>3, <1>4, <1>5, <1>6, <1>7, <1>8, <1>9, <1>10, <1>11,
           <1>12, <1>13 DEF RunStep, Fault

LEMMA TablesUntouched ==
    ASSUME TableTypes, UNCHANGED <<payloadVars, tableVars, providerVars>>
    PROVE  TableTypes'
BY DEF TableTypes, payloadVars, tableVars, providerVars

(* The shared tables and the provider, under every step of a run. *)
LEMMA RunKeepsTables ==
    ASSUME TypeInv, NEW r \in Runs, Claim(r) \/ RunStep(r) \/ Fault(r)
    PROVE  TableTypes'
<1>0. TableTypes /\ LocalTypes
  BY DEF TypeInv
<1>1. CASE ParkSubmitted(r) \/ Repark(r)
  <2>1. PICK ids \in SUBSET Batches : Park(r, ids)
    BY <1>0, <1>1 DEF ParkSubmitted, Repark, LocalTypes
  <2> QED BY <1>0, <2>1 DEF Park, TableTypes, tableVars, providerVars
<1>2. CASE FinishDone(r)
  BY <1>0, <1>2 DEF FinishDone, TableTypes, tableVars, providerVars
<1>3. CASE RecordSubmitted(r)
  <2>1. entering[r] \in Batches
    BY <1>0, <1>3 DEF RecordSubmitted, LocalTypes, EnteringIsBatch
  <2> QED BY <1>0, <1>3, <2>1 DEF RecordSubmitted, OnEvent, TableTypes, providerVars
<1>4. CASE \E b \in Batches : ReadBatch(r, b)
  BY <1>0, <1>4 DEF ReadBatch, OnEvent, TableTypes, providerVars
<1>5. CASE \E s \in Specs, b \in Batches : SubmitChunk(r, s, b)
  BY <1>0, <1>5 DEF SubmitChunk, TableTypes, payloadVars, tableVars
<1>6. CASE Checkpoint(r)
  <2>1. receipt' \in [Batches -> {"none", "pending", "consumed"}]
    BY <1>0, <1>6 DEF Checkpoint, TableTypes
  <2> QED BY <1>0, <1>6, <2>1 DEF Checkpoint, TableTypes, LocalTypes, providerVars
<1>7. CASE \E b \in Batches : ConsumeResult(r, b)
  <2>1. PICK b \in Batches : ConsumeResult(r, b)
    BY <1>7
  <2>2. /\ receipt' \in [Batches -> {"none", "pending", "consumed"}]
        /\ applied' \in [Batches -> Nat]
    BY <1>0, <2>1 DEF ConsumeResult, TableTypes
  <2> QED BY <1>0, <2>1, <2>2 DEF ConsumeResult, TableTypes, payloadVars, providerVars
<1>8. CASE \/ Claim(r) \/ Begin(r) \/ CollectPending(r) \/ Unconsumed(r) \/ Return(r)
           \/ Crash(r) \/ Release(r) \/ Raise(r) \/ PayloadUnavailable(r)
  BY <1>0, <1>8, TablesUntouched
  DEF Claim, Begin, CollectPending, Unconsumed, Return, Crash, Release, Raise,
      PayloadUnavailable
<1>9. CASE \/ \E b \in Batches : ReadFails(r, b)
           \/ \E s \in Specs : ChunkRefused(r, s)
  BY <1>0, <1>9, TablesUntouched DEF ReadFails, ChunkRefused
<1> QED BY <1>1, <1>2, <1>3, <1>4, <1>5, <1>6, <1>7, <1>8, <1>9 DEF RunStep, Fault

LEMMA TypeInvInit == Init => TypeInv
<1> SUFFICES ASSUME Init PROVE TypeInv
  OBVIOUS
<1>1. RowInv
  <2>1. 0 < TaskMaxAttempts /\ 0 \in 0 .. TaskMaxAttempts /\ 0 \in 0 .. MaxExits
    BY BatchConstants
  <2>2. marked = FALSE /\ resuming = FALSE /\ status = "pending" /\ spent = 0
    BY DEF Init
  <2>3. Budget
    BY <2>1, <2>2 DEF Budget
  <2> QED BY <2>1, <2>2, <2>3 DEF Init, RowInv, Status
<1>2. TableTypes
  BY DEF Init, TableTypes
<1>3. LocalTypes
  BY DEF Init, LocalTypes, EnteringIsBatch, Phase
<1> QED BY <1>1, <1>2, <1>3 DEF TypeInv

LEMMA TypeInvStep == TypeInv /\ [Next]_vars => TypeInv'
<1> SUFFICES ASSUME TypeInv, [Next]_vars PROVE TypeInv'
  OBVIOUS
<1>1. RowInv /\ TableTypes /\ LocalTypes
  BY DEF TypeInv
<1>2. CASE \E r \in Runs : Claim(r) \/ RunStep(r) \/ Fault(r)
  BY <1>1, <1>2, RunKeepsRow, RunKeepsTables, RunKeepsLocals DEF TypeInv
<1>3. CASE Reap \/ Cancel \/ RetryPayload \/ PollBatches \/ ResumeParked
  <2>1. UNCHANGED <<payloadVars, tableVars, providerVars>> /\ UNCHANGED <<pc, localVars>>
    BY <1>3 DEF Reap, Cancel, RetryPayload, PollBatches, ResumeParked
  <2> QED BY <1>1, <1>3, <2>1, OthersKeepRow, TablesUntouched, LocalsUntouched DEF TypeInv
<1>4. CASE \E b \in Batches : ProviderEnds(b)
  <2>1. TableTypes'
    BY <1>1, <1>4 DEF ProviderEnds, TableTypes, payloadVars, tableVars
  <2>2. LocalTypes'
    BY <1>1, <1>4, LocalsUntouched DEF ProviderEnds
  <2> QED BY <1>1, <1>4, <2>1, <2>2, OthersKeepRow DEF TypeInv
<1>5. CASE UNCHANGED vars
  <2>1. UNCHANGED taskVars /\ UNCHANGED <<payloadVars, tableVars, providerVars>>
        /\ UNCHANGED <<pc, localVars>> /\ resuming' = resuming
    BY <1>5 DEF vars
  <2> QED BY <1>1, <2>1, RowUntouched, TablesUntouched, LocalsUntouched DEF TypeInv, RowInv
<1> QED BY <1>2, <1>3, <1>4, <1>5 DEF Next

(* Every reachable state is well typed, and the retries spent stay between   *)
(* none and task_max_attempts whatever resumes, reaps, releases, transient   *)
(* errors and payload recoveries the task goes through, with any number of   *)
(* runs of it alive.                                                         *)
THEOREM BatchTypeOK == Spec => []TypeOK
<1>1. TypeInv => TypeOK
  BY DEF TypeInv, RowInv, TableTypes, LocalTypes, TypeOK
<1> QED BY <1>1, TypeInvInit, TypeInvStep, PTL DEF Spec

-----------------------------------------------------------------------------
(* Paid work is found again and never bought twice, when a run that lost the *)
(* task is a dead run: Runs = {p}.  (With two runs alive ReceiptBeforeForget *)
(* and with it PaidWorkReachable fail: run batch_lost_ids.)                  *)

(* A batch something points at: the ledger, the payload, or the run that is  *)
(* submitting.                                                               *)
Pointed(p, b) ==
    \/ b \in aiBatches \/ b \in batchIds \/ b \in accepted[p]
    \/ pc[p] = "accepted" /\ b = entering[p]

(* Such a batch exists, no two carry the same request, and the run that is   *)
(* submitting will not send one of their requests again.                     *)
Ledger(p) ==
    /\ \A b \in Batches : Pointed(p, b) => provider[b] # "unknown"
    /\ \A a, b \in Batches :
          Pointed(p, a) /\ Pointed(p, b) /\ request[a] = request[b] => a = b
    /\ pc[p] \in {"submitting", "accepted"} =>
          \A b \in Batches : Pointed(p, b) => request[b] \notin unsent[p]

(* What a run that has not come to it yet has in its locals: nothing. *)
FreshLocals(p) ==
    /\ pc[p] \notin {"submitting", "accepted"} => accepted[p] = {}
    /\ pc[p] \in {"free", "start", "collecting"} => unfinished[p] = {}

(* While it reads, the run has each id of the payload before it or sorted.   *)
Reading(p) ==
    pc[p] = "reading" =>
        /\ unread[p] \subseteq batchIds /\ unfinished[p] \subseteq batchIds
        /\ \A b \in batchIds : \/ b \in unread[p] \/ b \in unfinished[p]
                                \/ b \in results[p] \/ provider[b] = "rejected"

(* What repark_if_unfinished read is still what the payload holds. *)
Returned(p) == pc[p] = "returned" => unfinished[p] = batchIds

(* A task that is not over and has paid for work will see that it has. *)
Knows(p) ==
    /\ status = "done" => pc[p] = "free"
    /\ aiBatches # {} /\ status # "done" => Replayable

Collected(p) == FreshLocals(p) /\ Reading(p) /\ Returned(p) /\ Knows(p) /\ PaidWorkReachable

(* Nothing new is pointed at, and nothing known becomes unknown. *)
LEMMA LedgerKept ==
    ASSUME NEW p, Ledger(p),
           \A b \in Batches : Pointed(p, b)' => Pointed(p, b),
           request' = request,
           \A b \in Batches : provider[b] # "unknown" => provider'[b] # "unknown",
           pc'[p] \in {"submitting", "accepted"} =>
               pc[p] \in {"submitting", "accepted"} /\ unsent'[p] \subseteq unsent[p]
    PROVE  Ledger(p)'
<1>1. (\A b \in Batches : Pointed(p, b) => provider[b] # "unknown")'
  BY DEF Ledger
<1>2. (\A a, b \in Batches :
          Pointed(p, a) /\ Pointed(p, b) /\ request[a] = request[b] => a = b)'
  BY DEF Ledger
<1>3. (pc[p] \in {"submitting", "accepted"} =>
          \A b \in Batches : Pointed(p, b) => request[b] \notin unsent[p])'
  BY DEF Ledger
<1> QED BY <1>1, <1>2, <1>3 DEF Ledger

(* The locals of a run that is over. *)
LEMMA AfterLeave ==
    ASSUME LocalTypes, NEW p \in Runs, Leave(p)
    PROVE  /\ pc'[p] = "free" /\ unsent'[p] = {} /\ accepted'[p] = {}
           /\ unread'[p] = {} /\ unfinished'[p] = {} /\ results'[p] = {}
BY DEF LocalTypes, Leave

(* A run that leaves, and with it at most its own accepted ids in the payload. *)
LEMMA LeavingKeepsLedger ==
    ASSUME TypeInv, NEW p \in Runs, Ledger(p), Leave(p),
           UNCHANGED <<aiBatches, request, provider>>,
           \A b \in batchIds' : Pointed(p, b)
    PROVE  Ledger(p)'
<1>1. pc'[p] = "free" /\ accepted'[p] = {}
  BY AfterLeave DEF TypeInv
<1>2. \A b \in Batches : Pointed(p, b)' => Pointed(p, b)
  BY <1>1 DEF Pointed
<1> QED BY <1>1, <1>2, LedgerKept

(* batches.create accepts a wave: of a request that nothing pointed at asks  *)
(* for, by the run's own account of what is unsent.                          *)
LEMMA SubmitKeepsLedger ==
    ASSUME TypeInv, NEW p \in Runs, Ledger(p), NEW s \in Specs, NEW c \in Batches,
           SubmitChunk(p, s, c)
    PROVE  Ledger(p)'
<1>1. /\ pc[p] = "submitting" /\ s \in unsent[p] /\ provider[c] = "unknown"
      /\ UNCHANGED <<aiBatches, batchIds, accepted>>
  BY DEF SubmitChunk, tableVars, payloadVars
<1>2. /\ pc'[p] = "accepted" /\ entering'[p] = c /\ unsent'[p] = unsent[p] \ {s}
      /\ provider'[c] = "queued" /\ request'[c] = s
      /\ \A b \in Batches \ {c} : provider'[b] = provider[b] /\ request'[b] = request[b]
  BY DEF SubmitChunk, TypeInv, LocalTypes, TableTypes
<1>3. \A b \in Batches : Pointed(p, b)' <=> Pointed(p, b) \/ b = c
  BY <1>1, <1>2 DEF Pointed
<1>4. ~Pointed(p, c)
  BY <1>1 DEF Ledger
<1>5. \A b \in Batches : Pointed(p, b) => request[b] \notin unsent[p] /\ b # c
  BY <1>1, <1>4 DEF Ledger
<1>6. (\A b \in Batches : Pointed(p, b) => provider[b] # "unknown")'
  BY <1>2, <1>3 DEF Ledger
<1>7. (\A a, b \in Batches :
          Pointed(p, a) /\ Pointed(p, b) /\ request[a] = request[b] => a = b)'
  <2> SUFFICES ASSUME NEW a \in Batches, NEW b \in Batches, Pointed(p, a)',
                      Pointed(p, b)', request'[a] = request'[b], a # b
               PROVE  FALSE
    OBVIOUS
  <2>1. CASE a = c
    <3>1. Pointed(p, b) /\ request'[b] = request[b] /\ request[b] \notin unsent[p]
      BY <1>2, <1>3, <1>5, <2>1
    <3> QED BY <1>1, <1>2, <2>1, <3>1
  <2>2. CASE b = c
    <3>1. Pointed(p, a) /\ request'[a] = request[a] /\ request[a] \notin unsent[p]
      BY <1>2, <1>3, <1>5, <2>2
    <3> QED BY <1>1, <1>2, <2>2, <3>1
  <2>3. CASE a # c /\ b # c
    BY <1>2, <1>3, <2>3 DEF Ledger
  <2> QED BY <2>1, <2>2, <2>3
<1>8. (\A b \in Batches : Pointed(p, b) => request[b] \notin unsent[p])'
  <2> SUFFICES ASSUME NEW b \in Batches, Pointed(p, b)'
               PROVE  request'[b] \notin unsent'[p]
    OBVIOUS
  <2>1. CASE b = c
    BY <1>2, <2>1
  <2>2. CASE b # c
    BY <1>2, <1>3, <1>5, <2>2
  <2> QED BY <2>1, <2>2
<1> QED BY <1>6, <1>7, <1>8 DEF Ledger

(* has_batch_work: a run that goes on to submit has nothing to reattach to.  *)
LEMMA BeginKeepsLedger ==
    ASSUME TypeInv, NEW p \in Runs, Ledger(p), Collected(p), Begin(p)
    PROVE  Ledger(p)'
<1>1. /\ pc[p] = "start" /\ accepted[p] = {}
      /\ UNCHANGED <<aiBatches, batchIds, accepted, entering, provider, request>>
  BY DEF Begin, Collected, FreshLocals, payloadVars, tableVars, providerVars
<1>2. CASE pc'[p] = "submitting"
  <2>1. ~Replayable
    BY <1>2 DEF Begin, HasBatchWork, TypeInv, LocalTypes
  <2>2. batchIds = {} /\ aiBatches = {}
    BY <1>1, <2>1 DEF Replayable, Collected, Knows
  <2>3. \A b \in Batches : ~Pointed(p, b)'
    BY <1>1, <1>2, <2>2 DEF Pointed
  <2> QED BY <2>3 DEF Ledger
<1>3. CASE pc'[p] # "submitting"
  <2>1. pc'[p] \notin {"submitting", "accepted"}
    BY <1>3 DEF Begin, TypeInv, LocalTypes
  <2>2. \A b \in Batches : Pointed(p, b)' => Pointed(p, b)
    BY <1>1, <2>1 DEF Pointed
  <2> QED BY <1>1, <2>1, <2>2, LedgerKept
<1> QED BY <1>2, <1>3

(* The ledger, under every step of the run. *)
LEMMA RunKeepsLedger ==
    ASSUME TypeInv, NEW p \in Runs, Ledger(p), Collected(p),
           Claim(p) \/ RunStep(p) \/ Fault(p)
    PROVE  Ledger(p)'
<1> USE DEF payloadVars, tableVars, providerVars, localVars, submitVars, collectVars
<1>0. LocalTypes
  BY DEF TypeInv
<1>1. CASE \E s \in Specs, b \in Batches : SubmitChunk(p, s, b)
  BY <1>1, SubmitKeepsLedger
<1>2. CASE Begin(p)
  BY <1>2, BeginKeepsLedger
<1>3. CASE RecordSubmitted(p)
  <2>1. /\ pc[p] = "accepted" /\ pc'[p] = "submitting"
        /\ accepted'[p] = accepted[p] \cup {entering[p]}
        /\ UNCHANGED <<provider, request, unsent>>
    BY <1>0, <1>3 DEF RecordSubmitted, LocalTypes
  <2>2. /\ aiBatches' \subseteq aiBatches \cup {entering[p]}
        /\ batchIds' \subseteq batchIds \cup {entering[p]}
    BY <1>3 DEF RecordSubmitted, OnEvent
  <2>3. \A b \in Batches : Pointed(p, b)' => Pointed(p, b)
    BY <2>1, <2>2 DEF Pointed
  <2> QED BY <2>1, <2>3, LedgerKept
<1>4. CASE \E s \in Specs : ChunkRefused(p, s)
  <2>1. /\ UNCHANGED <<aiBatches, batchIds, accepted, entering, pc, provider, request>>
        /\ unsent'[p] \subseteq unsent[p] /\ pc[p] = "submitting"
    BY <1>0, <1>4 DEF ChunkRefused, LocalTypes
  <2>2. \A b \in Batches : Pointed(p, b)' => Pointed(p, b)
    BY <2>1 DEF Pointed
  <2> QED BY <2>1, <2>2, LedgerKept
<1>5. CASE ParkSubmitted(p) \/ Repark(p)
  <2>1. Leave(p) /\ UNCHANGED <<aiBatches, request, provider>>
    BY <1>5 DEF ParkSubmitted, Repark, Park
  <2>2. batchIds' \subseteq batchIds \cup accepted[p]
    BY <1>5 DEF ParkSubmitted, Repark, Park, Collected, Returned
  <2>3. \A b \in batchIds' : Pointed(p, b)
    BY <2>2 DEF Pointed
  <2> QED BY <2>1, <2>3, LeavingKeepsLedger
<1>6. CASE FinishDone(p) \/ Crash(p) \/ Release(p) \/ Raise(p) \/ PayloadUnavailable(p)
  <2>1. /\ Leave(p) /\ UNCHANGED <<aiBatches, request, provider>>
        /\ batchIds' \subseteq batchIds
    BY <1>6 DEF FinishDone, Crash, Release, Raise, PayloadUnavailable
  <2>2. \A b \in batchIds' : Pointed(p, b)
    BY <2>1 DEF Pointed
  <2> QED BY <2>1, <2>2, LeavingKeepsLedger
<1>7. CASE \/ Claim(p) \/ CollectPending(p) \/ Unconsumed(p) \/ Return(p)
           \/ \E b \in Batches : ConsumeResult(p, b) \/ ReadFails(p, b)
  <2>1. /\ UNCHANGED <<aiBatches, batchIds, accepted, entering, provider, request>>
        /\ pc'[p] \notin {"submitting", "accepted"}
    BY <1>0, <1>7
    DEF Claim, CollectPending, Unconsumed, Return, ConsumeResult, ReadFails, LocalTypes
  <2>2. \A b \in Batches : Pointed(p, b)' => Pointed(p, b)
    BY <2>1 DEF Pointed
  <2> QED BY <2>1, <2>2, LedgerKept
<1>8. CASE \E b \in Batches : ReadBatch(p, b)
  <2>1. PICK c \in Batches : ReadBatch(p, c)
    BY <1>8
  <2>2. /\ UNCHANGED <<accepted, entering, pc, provider, request>>
        /\ pc[p] = "reading" /\ c \in unread[p]
    BY <2>1 DEF ReadBatch
  <2>3. c \in batchIds
    BY <2>2 DEF Collected, Reading
  <2>4. aiBatches' \subseteq aiBatches \cup {c} /\ batchIds' \subseteq batchIds \cup {c}
    BY <2>1 DEF ReadBatch, OnEvent
  <2>5. \A b \in Batches : Pointed(p, b)' => Pointed(p, b)
    BY <2>2, <2>3, <2>4 DEF Pointed
  <2> QED BY <2>2, <2>5, LedgerKept
<1>9. CASE Checkpoint(p)
  <2>1. /\ UNCHANGED <<aiBatches, accepted, entering, provider, request>>
        /\ pc[p] = "reading" /\ pc'[p] = "replaying" /\ batchIds' = unfinished[p]
    BY <1>0, <1>9 DEF Checkpoint, LocalTypes
  <2>2. unfinished[p] \subseteq batchIds
    BY <2>1 DEF Collected, Reading
  <2>3. \A b \in Batches : Pointed(p, b)' => Pointed(p, b)
    BY <2>1, <2>2 DEF Pointed
  <2> QED BY <2>1, <2>3, LedgerKept
<1> QED BY <1>1, <1>2, <1>3, <1>4, <1>5, <1>6, <1>7, <1>8, <1>9 DEF RunStep, Fault

(* Ids and receipts are only added, and a batch reaches the ledger together  *)
(* with the payload.                                                         *)
LEMMA ReachableKept ==
    ASSUME PaidWorkReachable, aiBatches \subseteq Batches, aiBatches' \subseteq Batches,
           batchIds \subseteq batchIds', aiBatches' \subseteq aiBatches \cup batchIds',
           \A b \in Batches : /\ receipt[b] # "none" => receipt'[b] # "none"
                              /\ provider[b] = "rejected" => provider'[b] = "rejected"
    PROVE  PaidWorkReachable'
BY DEF PaidWorkReachable

LEMMA KnowsKept ==
    ASSUME NEW p, Knows(p),
           status = "done" => status' = "done", status' = "done" => pc'[p] = "free",
           batchIds \subseteq batchIds', aiBatches' \subseteq aiBatches \cup batchIds',
           checkpointed => checkpointed',
           \A b \in Batches : receipt[b] # "none" => receipt'[b] # "none"
    PROVE  Knows(p)'
<1>1. Replayable => Replayable'
  BY DEF Replayable
<1>2. batchIds' # {} => Replayable'
  BY DEF Replayable
<1> QED BY <1>1, <1>2 DEF Knows

(* A settled task stays settled as it was. *)
LEMMA SettleKeepsDone ==
    ASSUME NEW r, NEW s, NEW n, Settle(r, s, n), s # "done"
    PROVE  status' = "done" <=> status = "done"
BY DEF Settle, Owns

(* A run that parks, or stops before it has finished. *)
LEMMA LeavingKeepsCollected ==
    ASSUME TypeInv, NEW p \in Runs, Collected(p),
           \/ ParkSubmitted(p) \/ Repark(p)
           \/ Crash(p) \/ Release(p) \/ Raise(p) \/ PayloadUnavailable(p)
    PROVE  Collected(p)'
<1> USE DEF payloadVars, tableVars, providerVars
<1>1. /\ Leave(p) /\ UNCHANGED <<aiBatches, receipt, provider, checkpointed>>
      /\ batchIds \subseteq batchIds'
  BY DEF ParkSubmitted, Repark, Park, Crash, Release, Raise, PayloadUnavailable
<1>2. /\ pc'[p] = "free" /\ accepted'[p] = {} /\ unfinished'[p] = {}
  BY <1>1, AfterLeave DEF TypeInv
<1>3. status' = "done" <=> status = "done"
  <2>1. CASE ParkSubmitted(p) \/ Repark(p)
    BY <2>1, SettleKeepsDone DEF ParkSubmitted, Repark, Park
  <2>2. CASE Crash(p)
    BY <2>2 DEF Crash, taskVars
  <2>3. CASE Release(p) \/ PayloadUnavailable(p)
    BY <2>3, SettleKeepsDone DEF Release, PayloadUnavailable
  <2>4. CASE Raise(p)
    <3>1. PICK s \in {"pending", "failed"} : Settle(p, s, spent)
      BY <2>4 DEF Raise
    <3> QED BY <3>1, SettleKeepsDone
  <2> QED BY <2>1, <2>2, <2>3, <2>4
<1>4. FreshLocals(p)' /\ Reading(p)' /\ Returned(p)'
  BY <1>2 DEF FreshLocals, Reading, Returned
<1>5. Knows(p)'
  BY <1>1, <1>2, <1>3, KnowsKept DEF Collected
<1>6. PaidWorkReachable'
  BY <1>1, ReachableKept DEF Collected, TypeInv, TableTypes
<1> QED BY <1>4, <1>5, <1>6 DEF Collected

(* finish drops the payload's ids, of which the run that returns has none.   *)
LEMMA FinishKeepsCollected ==
    ASSUME TypeInv, NEW p \in Runs, Collected(p), FinishDone(p)
    PROVE  Collected(p)'
<1>1. /\ Leave(p) /\ pc[p] = "returned" /\ unfinished[p] = {}
      /\ UNCHANGED <<aiBatches, receipt, provider, checkpointed>>
      /\ Settle(p, "done", spent)
      /\ batchIds' = IF Owns(p) THEN {} ELSE batchIds
  BY DEF FinishDone, tableVars, providerVars
<1>2. batchIds' = {} /\ batchIds = {}
  BY <1>1 DEF Collected, Returned
<1>3. /\ pc'[p] = "free" /\ accepted'[p] = {} /\ unfinished'[p] = {}
  BY <1>1, AfterLeave DEF TypeInv
<1>4. status = "done" => status' = "done"
  BY <1>1 DEF Settle, Owns
<1>5. FreshLocals(p)' /\ Reading(p)' /\ Returned(p)'
  BY <1>3 DEF FreshLocals, Reading, Returned
<1>6. Knows(p)'
  BY <1>1, <1>2, <1>3, <1>4, KnowsKept DEF Collected
<1>7. PaidWorkReachable'
  BY <1>1, <1>2, ReachableKept DEF Collected, TypeInv, TableTypes
<1> QED BY <1>5, <1>6, <1>7 DEF Collected

(* checkpoint: an id leaves the payload with its receipt, or has no result.  *)
LEMMA CheckpointKeepsCollected ==
    ASSUME TypeInv, NEW p \in Runs, Collected(p), Checkpoint(p)
    PROVE  /\ Collected(p)'
           /\ \A b \in batchIds \ batchIds' : receipt'[b] # "none" \/ provider[b] = "rejected"
<1>1. /\ pc[p] = "reading" /\ unread[p] = {} /\ pc'[p] = "replaying"
      /\ receipt' = [b \in Batches |->
            IF b \in results[p] /\ receipt[b] = "none" THEN "pending" ELSE receipt[b]]
      /\ batchIds' = unfinished[p] /\ checkpointed' = TRUE
      /\ UNCHANGED <<status, aiBatches, provider, accepted, unfinished>>
  BY DEF Checkpoint, TypeInv, LocalTypes, taskVars, providerVars, localVars, submitVars, collectVars
<1>2. /\ batchIds \subseteq Batches /\ aiBatches \subseteq Batches
      /\ \A b \in Batches : receipt[b] # "none" => receipt'[b] # "none"
      /\ \A b \in Batches : b \in results[p] => receipt'[b] # "none"
  BY <1>1 DEF TypeInv, TableTypes
<1>3. \A b \in batchIds \ batchIds' : receipt'[b] # "none" \/ provider[b] = "rejected"
  BY <1>1, <1>2 DEF Collected, Reading
<1>4. FreshLocals(p)' /\ Reading(p)' /\ Returned(p)'
  BY <1>1 DEF Collected, FreshLocals, Reading, Returned
<1>5. Knows(p)'
  <2>1. status # "done"
    BY <1>1 DEF Collected, Knows
  <2>2. Replayable'
    BY <1>1 DEF Replayable
  <2> QED BY <1>1, <2>1, <2>2 DEF Knows
<1>6. PaidWorkReachable'
  BY <1>1, <1>2, <1>3 DEF Collected, PaidWorkReachable
<1> QED BY <1>3, <1>4, <1>5, <1>6 DEF Collected

(* A step that adds nothing to the tables but receipts, of a task that is    *)
(* not over: only the run's own place matters.                               *)
LEMMA TablesKeepCollected ==
    ASSUME TypeInv, NEW p \in Runs, Collected(p), status # "done", status' # "done",
           UNCHANGED <<aiBatches, batchIds, checkpointed>>,
           \A b \in Batches : /\ receipt[b] # "none" => receipt'[b] # "none"
                              /\ provider[b] = "rejected" => provider'[b] = "rejected"
    PROVE  Knows(p)' /\ PaidWorkReachable'
<1>1. Knows(p)'
  BY KnowsKept DEF Collected
<1>2. PaidWorkReachable'
  BY ReachableKept DEF Collected, TypeInv, TableTypes
<1> QED BY <1>1, <1>2

(* Collection, under every step of the run. *)
LEMMA RunKeepsCollected ==
    ASSUME TypeInv, NEW p \in Runs, Collected(p), Claim(p) \/ RunStep(p) \/ Fault(p)
    PROVE  Collected(p)'
<1> USE DEF taskVars, payloadVars, tableVars, providerVars, localVars, submitVars, collectVars
<1>0. LocalTypes /\ TableTypes
  BY DEF TypeInv
<1>1. CASE \/ ParkSubmitted(p) \/ Repark(p)
           \/ Crash(p) \/ Release(p) \/ Raise(p) \/ PayloadUnavailable(p)
  BY <1>1, LeavingKeepsCollected
<1>2. CASE FinishDone(p)
  BY <1>2, FinishKeepsCollected
<1>3. CASE Checkpoint(p)
  BY <1>3, CheckpointKeepsCollected
<1>4. CASE Claim(p)
  <2>1. /\ pc[p] = "free" /\ pc'[p] = "start" /\ status = "pending" /\ status' = "running"
        /\ UNCHANGED <<aiBatches, batchIds, checkpointed, receipt, provider,
                       accepted, unfinished>>
    BY <1>0, <1>4 DEF Claim, LocalTypes
  <2>2. FreshLocals(p)' /\ Reading(p)' /\ Returned(p)'
    BY <2>1 DEF Collected, FreshLocals, Reading, Returned
  <2> QED BY <2>1, <2>2, TablesKeepCollected DEF Collected
<1>5. CASE Begin(p)
  <2>1. /\ pc[p] = "start" /\ unfinished[p] = {} /\ accepted[p] = {}
        /\ status # "done" /\ status' = status
        /\ UNCHANGED <<aiBatches, batchIds, checkpointed, receipt, provider,
                       accepted, unfinished>>
    BY <1>5 DEF Begin, Collected, FreshLocals, Knows
  <2>2. /\ pc'[p] \in {"collecting", "submitting", "consuming", "returned"}
        /\ pc'[p] = "returned" => ~Replayable
    BY <1>0, <1>5 DEF Begin, HasBatchWork, LocalTypes
  <2>3. FreshLocals(p)' /\ Reading(p)' /\ Returned(p)'
    BY <2>1, <2>2 DEF FreshLocals, Reading, Returned, Replayable
  <2> QED BY <2>1, <2>3, TablesKeepCollected DEF Collected
<1>6. CASE \E s \in Specs : ChunkRefused(p, s) \/ \E b \in Batches : SubmitChunk(p, s, b)
  <2>1. /\ pc[p] = "submitting" /\ pc'[p] \in {"submitting", "accepted"}
        /\ status # "done" /\ status' = status
        /\ UNCHANGED <<aiBatches, batchIds, checkpointed, receipt>>
    BY <1>0, <1>6 DEF ChunkRefused, SubmitChunk, LocalTypes, Collected, Knows
  <2>2. \A b \in Batches : provider[b] = "rejected" => provider'[b] = "rejected"
    BY <1>0, <1>6 DEF ChunkRefused, SubmitChunk, TableTypes
  <2>3. FreshLocals(p)' /\ Reading(p)' /\ Returned(p)'
    BY <2>1 DEF FreshLocals, Reading, Returned
  <2> QED BY <2>1, <2>2, <2>3, TablesKeepCollected DEF Collected
<1>7. CASE RecordSubmitted(p)
  <2>1. /\ pc[p] = "accepted" /\ pc'[p] = "submitting"
        /\ status # "done" /\ status' = status
        /\ UNCHANGED <<checkpointed, receipt, provider>>
    BY <1>0, <1>7 DEF RecordSubmitted, LocalTypes, Collected, Knows
  <2>2. /\ batchIds \subseteq batchIds' /\ aiBatches' \subseteq aiBatches \cup batchIds'
    BY <1>7 DEF RecordSubmitted, OnEvent
  <2>3. aiBatches' \subseteq Batches
    BY <1>7, RunKeepsTables DEF RunStep, TableTypes
  <2>4. FreshLocals(p)' /\ Reading(p)' /\ Returned(p)'
    BY <2>1 DEF FreshLocals, Reading, Returned
  <2>5. Knows(p)'
    BY <2>1, <2>2, KnowsKept DEF Collected
  <2>6. PaidWorkReachable'
    BY <1>0, <2>1, <2>2, <2>3, ReachableKept DEF Collected, TableTypes
  <2> QED BY <2>4, <2>5, <2>6 DEF Collected
<1>8. CASE CollectPending(p)
  <2>1. /\ pc[p] = "collecting" /\ pc'[p] \in {"replaying", "reading"}
        /\ unread'[p] = batchIds /\ unfinished[p] = {} /\ accepted[p] = {}
        /\ status # "done" /\ status' = status
        /\ UNCHANGED <<aiBatches, batchIds, checkpointed, receipt, provider,
                       accepted, unfinished>>
    BY <1>0, <1>8 DEF CollectPending, LocalTypes, Collected, FreshLocals, Knows
  <2>2. FreshLocals(p)' /\ Reading(p)' /\ Returned(p)'
    BY <2>1 DEF FreshLocals, Reading, Returned
  <2> QED BY <2>1, <2>2, TablesKeepCollected DEF Collected
<1>9. CASE \E b \in Batches : ReadFails(p, b)
  <2>1. PICK c \in Batches : ReadFails(p, c)
    BY <1>9
  <2>2. /\ pc[p] = "reading" /\ c \in unread[p] /\ unread'[p] = unread[p] \ {c}
        /\ unfinished'[p] = unfinished[p] \cup {c}
        /\ status # "done" /\ status' = status
        /\ UNCHANGED <<aiBatches, batchIds, checkpointed, receipt, provider,
                       accepted, pc, results>>
    BY <1>0, <2>1 DEF ReadFails, LocalTypes, Collected, Knows
  <2>3. FreshLocals(p)' /\ Reading(p)' /\ Returned(p)'
    BY <2>2 DEF Collected, FreshLocals, Reading, Returned
  <2> QED BY <2>2, <2>3, TablesKeepCollected DEF Collected
<1>10. CASE \E b \in Batches : ReadBatch(p, b)
  <2>1. PICK c \in Batches : ReadBatch(p, c)
    BY <1>10
  <2>2. /\ pc[p] = "reading" /\ c \in unread[p] /\ unread'[p] = unread[p] \ {c}
        /\ unfinished'[p] = IF Terminal(c) THEN unfinished[p] ELSE unfinished[p] \cup {c}
        /\ results'[p] = IF provider[c] = "ended" THEN results[p] \cup {c} ELSE results[p]
        /\ status # "done" /\ status' = status
        /\ UNCHANGED <<checkpointed, receipt, provider, accepted, pc>>
    BY <1>0, <2>1 DEF ReadBatch, LocalTypes, Collected, Knows
  <2>3. c \in batchIds
    BY <2>2 DEF Collected, Reading
  <2>4. batchIds' = batchIds /\ aiBatches' \subseteq aiBatches \cup {c}
    BY <2>1, <2>3 DEF ReadBatch, OnEvent
  <2>5. FreshLocals(p)' /\ Returned(p)'
    BY <2>2 DEF Collected, FreshLocals, Returned
  <2>6. Reading(p)'
    BY <2>2, <2>3, <2>4 DEF Collected, Reading, Terminal
  <2>7. Knows(p)'
    BY <2>2, <2>3, <2>4, KnowsKept DEF Collected
  <2>8. PaidWorkReachable'
    BY <1>0, <2>2, <2>3, <2>4, ReachableKept DEF Collected, TableTypes
  <2> QED BY <2>5, <2>6, <2>7, <2>8 DEF Collected
<1>11. CASE Unconsumed(p) \/ Return(p) \/ \E b \in Batches : ConsumeResult(p, b)
  <2>1. /\ pc[p] \in {"replaying", "consuming"} /\ pc'[p] \in {"consuming", "returned"}
        /\ pc'[p] = "returned" => unfinished'[p] = batchIds
        /\ status # "done" /\ status' = status
        /\ UNCHANGED <<aiBatches, batchIds, checkpointed, provider, accepted>>
    BY <1>0, <1>11 DEF Unconsumed, Return, ConsumeResult, LocalTypes, Collected, Knows
  <2>2. \A b \in Batches : receipt[b] # "none" => receipt'[b] # "none"
    BY <1>0, <1>11 DEF Unconsumed, Return, ConsumeResult, TableTypes
  <2>3. FreshLocals(p)' /\ Reading(p)' /\ Returned(p)'
    BY <2>1 DEF Collected, FreshLocals, Reading, Returned
  <2> QED BY <2>1, <2>2, <2>3, TablesKeepCollected DEF Collected
<1> QED BY <1>1, <1>2, <1>3, <1>4, <1>5, <1>6, <1>7, <1>8, <1>9, <1>10, <1>11
        DEF RunStep, Fault

(* Reaping, cancelling, resuming and retrying change the row, and the        *)
(* provider ends a batch it has: none of it touches what points at the work. *)
LEMMA OthersKeepPaid ==
    ASSUME TypeInv, NEW p \in Runs, Ledger(p), Collected(p),
           \/ Reap \/ Cancel \/ RetryPayload \/ PollBatches \/ ResumeParked
           \/ \E b \in Batches : ProviderEnds(b)
           \/ UNCHANGED vars
    PROVE  Ledger(p)' /\ Collected(p)'
<1> USE DEF taskVars, payloadVars, tableVars, providerVars, localVars, submitVars, collectVars
<1>1. /\ UNCHANGED <<aiBatches, batchIds, checkpointed, receipt, request>>
      /\ UNCHANGED <<pc, unsent, accepted, entering, unread, unfinished, results>>
  BY DEF Reap, Cancel, RetryPayload, PollBatches, ResumeParked, ProviderEnds, vars
<1>2. \A b \in Batches : /\ provider[b] # "unknown" => provider'[b] # "unknown"
                         /\ provider[b] = "rejected" => provider'[b] = "rejected"
  <2>1. CASE \E b \in Batches : ProviderEnds(b)
    BY <2>1 DEF ProviderEnds, TypeInv, TableTypes
  <2>2. CASE \/ Reap \/ Cancel \/ RetryPayload \/ PollBatches \/ ResumeParked
             \/ UNCHANGED vars
    BY <2>2 DEF Reap, Cancel, RetryPayload, PollBatches, ResumeParked, vars
  <2> QED BY <2>1, <2>2
<1>3. status' = "done" <=> status = "done"
  BY DEF Reap, Cancel, RetryPayload, PollBatches, ResumeParked, ProviderEnds, vars
<1>4. \A b \in Batches : Pointed(p, b)' => Pointed(p, b)
  BY <1>1 DEF Pointed
<1>5. Ledger(p)'
  BY <1>1, <1>2, <1>4, LedgerKept
<1>6. FreshLocals(p)' /\ Returned(p)'
  BY <1>1 DEF Collected, FreshLocals, Returned
<1>7. Reading(p)'
  BY <1>1, <1>2 DEF Collected, Reading, TypeInv, TableTypes
<1>8. Knows(p)'
  BY <1>1, <1>3, KnowsKept DEF Collected, Knows
<1>9. PaidWorkReachable'
  BY <1>1, <1>2, ReachableKept DEF Collected, TypeInv, TableTypes
<1> QED BY <1>5, <1>6, <1>7, <1>8, <1>9 DEF Collected

PaidInv(p) == TypeInv /\ Ledger(p) /\ Collected(p)

LEMMA PaidInvStep ==
    ASSUME NEW p, Runs = {p}, PaidInv(p), [Next]_vars
    PROVE  PaidInv(p)'
<1>1. p \in Runs /\ TypeInv /\ Ledger(p) /\ Collected(p)
  BY DEF PaidInv
<1>2. TypeInv'
  BY <1>1, TypeInvStep
<1>3. CASE \E r \in Runs : Claim(r) \/ RunStep(r) \/ Fault(r)
  <2>1. Claim(p) \/ RunStep(p) \/ Fault(p)
    BY <1>3
  <2> QED BY <1>1, <1>2, <2>1, RunKeepsLedger, RunKeepsCollected DEF PaidInv
<1>4. CASE \/ Reap \/ Cancel \/ RetryPayload \/ PollBatches \/ ResumeParked
           \/ \E b \in Batches : ProviderEnds(b)
           \/ UNCHANGED vars
  BY <1>1, <1>2, <1>4, OthersKeepPaid DEF PaidInv
<1> QED BY <1>3, <1>4 DEF Next

LEMMA PaidInvInit ==
    ASSUME NEW p, Runs = {p}, Init
    PROVE  PaidInv(p)
<1>1. /\ p \in Runs /\ pc[p] = "free" /\ accepted[p] = {} /\ unfinished[p] = {}
      /\ aiBatches = {} /\ batchIds = {} /\ status = "pending"
  BY DEF Init
<1>2. \A b \in Batches : ~Pointed(p, b)
  BY <1>1 DEF Pointed
<1>3. Ledger(p)
  BY <1>1, <1>2 DEF Ledger
<1>4. Collected(p)
  BY <1>1 DEF Collected, FreshLocals, Reading, Returned, Knows, PaidWorkReachable
<1> QED BY <1>3, <1>4, TypeInvInit DEF PaidInv

(* With one run alive at a time, every batch on the ledger is still named by *)
(* the payload or has its receipt, unless the provider rejected it whole:    *)
(* through crashes at any point, lost hooks, reaps, releases, partial        *)
(* collections, reparks and recoveries (park_awaiting_batch, checkpoint,     *)
(* finish).                                                                  *)
THEOREM PaidWorkStaysReachable ==
    ASSUME NEW p, Runs = {p}
    PROVE  Spec => []PaidWorkReachable
<1>1. PaidInv(p) => PaidWorkReachable
  BY DEF PaidInv, Collected
<1>2. Init => PaidInv(p)
  BY PaidInvInit
<1>3. PaidInv(p) /\ [Next]_vars => PaidInv(p)'
  BY PaidInvStep
<1> QED BY <1>1, <1>2, <1>3, PTL DEF Spec

(* And no request is bought a second time while its first batch is on the    *)
(* ledger: a retry finds its own work (has_batch_work) before it submits.    *)
THEOREM RequestsBoughtOnce ==
    ASSUME NEW p, Runs = {p}
    PROVE  Spec => []BoughtOnce
<1>1. PaidInv(p) => BoughtOnce
  BY DEF PaidInv, TypeInv, TableTypes, Ledger, Pointed, BoughtOnce
<1>2. Init => PaidInv(p)
  BY PaidInvInit
<1>3. PaidInv(p) /\ [Next]_vars => PaidInv(p)'
  BY PaidInvStep
<1> QED BY <1>1, <1>2, <1>3, PTL DEF Spec

(* checkpoint, with one run alive at a time: a provider batch stops being    *)
(* pending only with its receipt, or when it had no results.  The comment on *)
(* checkpoint is right as far as this: run batch_lost_ids breaks it with a   *)
(* run that lost the task and goes on.                                       *)
THEOREM ReceiptsComeFirst ==
    ASSUME NEW p, Runs = {p}
    PROVE  Spec => ReceiptBeforeForget
<1>1. ASSUME PaidInv(p), [Next]_vars
      PROVE  [status' # "done" =>
                 \A b \in batchIds \ batchIds' :
                     \/ receipt'[b] # "none" \/ provider[b] = "rejected"
                     \/ \E r \in Runs : b \in accepted[r]]_batchIds
  <2>0. p \in Runs /\ TypeInv /\ Collected(p)
    BY <1>1 DEF PaidInv
  <2>1. CASE Checkpoint(p)
    BY <2>0, <2>1, CheckpointKeepsCollected
  <2>2. CASE FinishDone(p)
    BY <2>2 DEF FinishDone, Settle
  <2>3. CASE batchIds \subseteq batchIds'
    BY <2>3
  <2>4. CASE RunStep(p) /\ ~Checkpoint(p) /\ ~FinishDone(p)
    <3>1. batchIds \subseteq batchIds'
      BY <2>4
      DEF RunStep, Begin, RecordSubmitted, OnEvent, ParkSubmitted, Repark, Park,
          CollectPending, Unconsumed, Return, ReadBatch, ConsumeResult, ChunkRefused,
          SubmitChunk, payloadVars
    <3> QED BY <2>3, <3>1
  <2>5. CASE Claim(p) \/ Fault(p)
    <3>1. batchIds' = batchIds
      BY <2>5
      DEF Claim, Fault, Crash, Release, Raise, PayloadUnavailable, ReadFails, payloadVars
    <3> QED BY <2>3, <3>1
  <2>6. CASE \/ Reap \/ Cancel \/ RetryPayload \/ PollBatches \/ ResumeParked
             \/ \E b \in Batches : ProviderEnds(b)
             \/ UNCHANGED vars
    <3>1. batchIds' = batchIds
      BY <2>6
      DEF Reap, Cancel, RetryPayload, PollBatches, ResumeParked, ProviderEnds, vars,
          payloadVars
    <3> QED BY <2>3, <3>1
  <2>7. CASE \E r \in Runs : Claim(r) \/ RunStep(r) \/ Fault(r)
    <3>1. Claim(p) \/ RunStep(p) \/ Fault(p)
      BY <2>7, Runs = {p}
    <3> QED BY <2>1, <2>2, <2>4, <2>5, <3>1
  <2> QED BY <1>1, <2>6, <2>7 DEF Next
<1>2. Init => PaidInv(p)
  BY PaidInvInit
<1>3. PaidInv(p) /\ [Next]_vars => PaidInv(p)'
  BY PaidInvStep
<1> QED BY <1>1, <1>2, <1>3, PTL DEF Spec, ReceiptBeforeForget

=============================================================================
