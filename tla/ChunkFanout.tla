----------------------------- MODULE ChunkFanout -----------------------------
(***************************************************************************)
(* One parent task and the chunks it splits its work into (run_filters,    *)
(* reverify_open): the parent enqueues a row per unit, parks as 'waiting', *)
(* and is ended by whoever ends its last chunk, or by the minute's sweep.  *)
(*                                                                         *)
(* The parent's claim and a chunk's claim are module TaskQueue's: here a   *)
(* run of the parent owns it until the row is taken away, and a chunk's    *)
(* run is its status.  maybe_finalize_parent and a payload retry hold the  *)
(* parent's row lock, so each is one action; what the retry read before    *)
(* its transaction is compared under the lock and changes nothing else.    *)
(***************************************************************************)
EXTENDS Integers

CONSTANTS
    Chunks,           \* rows that chunks may take
    Units,            \* how many units the handler splits its work into
    ParentRuns,       \* identities for runs of the parent alive together
    NoRun,
    TaskMaxAttempts   \* the config key task_max_attempts

ASSUME FanoutConstants ==
    /\ NoRun \notin ParentRuns
    /\ Units \in Nat \ {0}
    /\ TaskMaxAttempts \in Nat \ {0}

VARIABLES
    \* the parent's row
    parent, owner, parentSpent,
    endedBy,          \* history: "chunks" when maybe_finalize_parent ended it
    \* the chunks' rows
    chunk, spent,
    marked,           \* chunks with the payload_recovery marker
    \* processes
    left,             \* per run of the parent: units to enqueue, 0 when all are, -1 no run
    finalizing,       \* chunks whose ended run has yet to call maybe_finalize_parent
    swept             \* reconcile_chunks has selected the parent

parentVars == <<parent, owner, parentSpent, endedBy>>
chunkVars == <<chunk, spent, marked>>
vars == <<parentVars, chunkVars, left, finalizing, swept>>

-----------------------------------------------------------------------------
ParentStatus == {"pending", "running", "waiting", "done", "failed", "cancelled"}

ChunkStatus == {"absent", "pending", "running", "awaiting_batch",
                "done", "failed", "cancelled"}

Idle == -1

Owns(p) == parent = "running" /\ owner = p

Live(c) == chunk[c] \in {"pending", "running", "awaiting_batch"}

NoneLive == \A c \in Chunks : ~Live(c)

Init ==
    /\ parent = "pending" /\ owner = NoRun /\ parentSpent = 0 /\ endedBy = "none"
    /\ chunk = [c \in Chunks |-> "absent"]
    /\ spent = [c \in Chunks |-> 0] /\ marked = {}
    /\ left = [p \in ParentRuns |-> Idle]
    /\ finalizing = {} /\ swept = FALSE

-----------------------------------------------------------------------------
(* The parent.                                                              *)

ClaimParent(p) ==
    /\ parent = "pending" /\ left[p] = Idle
    /\ parent' = "running" /\ owner' = p /\ parentSpent' = parentSpent + 1
    /\ left' = [left EXCEPT ![p] = Units]
    /\ UNCHANGED <<endedBy, chunkVars, finalizing, swept>>

(* enqueue is not guarded by the claim. *)
EnqueueChunk(p, c) ==
    /\ left[p] > 0 /\ chunk[c] = "absent"
    /\ left' = [left EXCEPT ![p] = @ - 1]
    /\ chunk' = [chunk EXCEPT ![c] = "pending"]
    /\ UNCHANGED <<parentVars, spent, marked, finalizing, swept>>

(* The run is over; it settles the row if it still owns it. *)
RunEnds(p, newParent, by) ==
    /\ left' = [left EXCEPT ![p] = Idle]
    /\ IF Owns(p)
       THEN parent' = newParent /\ owner' = NoRun /\ endedBy' = by
       ELSE UNCHANGED <<parent, owner, endedBy>>
    /\ UNCHANGED <<parentSpent, chunkVars, finalizing, swept>>

(* park_waiting, with the finish after it that finds no running row. *)
ParkWaiting(p) ==
    /\ left[p] = 0
    /\ RunEnds(p, "waiting", "none")

(* Nothing to split: everything is decided, in flight, or small enough to   *)
(* be done inline.                                                          *)
EndUnsplit(p) ==
    /\ left[p] = Units
    /\ RunEnds(p, "done", "self")

(* An error, before or between two enqueues. *)
ParentRaises(p) ==
    /\ left[p] > 0
    /\ \/ parentSpent < TaskMaxAttempts /\ RunEnds(p, "pending", "none")
       \/ RunEnds(p, "failed", "self")

ParentCrash(p) ==
    /\ left[p] # Idle
    /\ left' = [left EXCEPT ![p] = Idle]
    /\ UNCHANGED <<parentVars, chunkVars, finalizing, swept>>

(* reap_stale_tasks: the run may be gone or only out of touch. *)
ReapParent ==
    /\ parent = "running"
    /\ \/ parentSpent < TaskMaxAttempts /\ parent' = "pending" /\ UNCHANGED endedBy
       \/ parentSpent >= TaskMaxAttempts /\ parent' = "failed" /\ endedBy' = "self"
    /\ owner' = NoRun
    /\ UNCHANGED <<parentSpent, chunkVars, left, finalizing, swept>>

CancelParent ==
    /\ parent \in {"pending", "running", "waiting"}
    /\ parent' = "cancelled" /\ owner' = NoRun
    /\ UNCHANGED <<parentSpent, endedBy, chunkVars, left, finalizing, swept>>

-----------------------------------------------------------------------------
(* The chunks.                                                              *)

ClaimChunk(c) ==
    /\ chunk[c] = "pending"
    /\ chunk' = [chunk EXCEPT ![c] = "running"]
    /\ spent' = [spent EXCEPT ![c] = @ + 1]
    /\ UNCHANGED <<parentVars, marked, left, finalizing, swept>>

(* Mutant: the transient branch forgets the retry budget. *)
EndChunkRunUnbudgeted(c) ==
    /\ chunk[c] = "running"
    /\ \E s \in {"done", "failed", "awaiting_batch", "pending"} :
          chunk' = [chunk EXCEPT ![c] = s]
    /\ finalizing' = finalizing \cup {c}
    /\ UNCHANGED <<parentVars, spent, marked, left, swept>>

(* Every way run_held ends a chunk's run; maybe_finalize_parent follows. *)
EndChunkRun(c) ==
    /\ chunk[c] = "running"
    /\ \E s \in {"done", "failed", "awaiting_batch", "pending"} :
          /\ s = "pending" => spent[c] < TaskMaxAttempts
          /\ chunk' = [chunk EXCEPT ![c] = s]
    /\ finalizing' = finalizing \cup {c}
    /\ UNCHANGED <<parentVars, spent, marked, left, swept>>

FailPayload(c) ==
    /\ chunk[c] = "running"
    /\ chunk' = [chunk EXCEPT ![c] = "failed"]
    /\ spent' = [spent EXCEPT ![c] = @ - 1]
    /\ marked' = marked \cup {c}
    /\ finalizing' = finalizing \cup {c}
    /\ UNCHANGED <<parentVars, left, swept>>

ResumeChunk(c) ==
    /\ chunk[c] = "awaiting_batch"
    /\ chunk' = [chunk EXCEPT ![c] = "pending"]
    /\ spent' = [spent EXCEPT ![c] = @ - 1]
    /\ UNCHANGED <<parentVars, marked, left, finalizing, swept>>

(* The reaper tells no parent; a reaped run that was only out of touch still *)
(* calls maybe_finalize_parent when it ends.                                 *)
ReapChunk(c) ==
    /\ chunk[c] = "running"
    /\ chunk' = [chunk EXCEPT ![c] =
                    IF spent[c] < TaskMaxAttempts THEN "pending" ELSE "failed"]
    /\ finalizing' \in {finalizing, finalizing \cup {c}}
    /\ UNCHANGED <<parentVars, spent, marked, left, swept>>

(* SIGTERM hands the chunk back with its attempt. *)
ReleaseChunk(c) ==
    /\ chunk[c] = "running"
    /\ chunk' = [chunk EXCEPT ![c] = "pending"]
    /\ spent' = [spent EXCEPT ![c] = @ - 1]
    /\ UNCHANGED <<parentVars, marked, left, finalizing, swept>>

CancelChunk(c) ==
    /\ Live(c)
    /\ chunk' = [chunk EXCEPT ![c] = "cancelled"]
    /\ UNCHANGED <<parentVars, spent, marked, left, finalizing, swept>>

(* Mutant: the chunk is requeued and its failed parent left as it is. *)
RetryPayloadAlone(c) ==
    /\ chunk[c] = "failed" /\ c \in marked
    /\ parent = "waiting" \/ (parent = "failed" /\ endedBy = "chunks")
    /\ chunk' = [chunk EXCEPT ![c] = "pending"]
    /\ marked' = marked \ {c}
    /\ UNCHANGED <<parentVars, spent, left, finalizing, swept>>

(* payload_recovery.retry: a failed parent waits again. *)
RetryPayload(c) ==
    /\ chunk[c] = "failed" /\ c \in marked
    /\ parent = "waiting" \/ (parent = "failed" /\ endedBy = "chunks")
    /\ chunk' = [chunk EXCEPT ![c] = "pending"]
    /\ marked' = marked \ {c}
    /\ parent' = "waiting" /\ endedBy' = "none"
    /\ UNCHANGED <<owner, parentSpent, spent, left, finalizing, swept>>

-----------------------------------------------------------------------------
(* Ending the parent.                                                       *)

(* The transaction of maybe_finalize_parent. *)
Finalize ==
    IF parent = "waiting" /\ NoneLive
    THEN /\ parent' = IF \E c \in Chunks : chunk[c] = "failed" THEN "failed" ELSE "done"
         /\ endedBy' = "chunks"
    ELSE UNCHANGED <<parent, endedBy>>

FinalizeAfter(c) ==
    /\ c \in finalizing
    /\ finalizing' = finalizing \ {c}
    /\ Finalize
    /\ UNCHANGED <<owner, parentSpent, chunkVars, left, swept>>

(* The worker dies, or the call raises and is only logged. *)
FinalizeLost(c) ==
    /\ c \in finalizing
    /\ finalizing' = finalizing \ {c}
    /\ UNCHANGED <<parentVars, chunkVars, left, swept>>

(* reconcile_chunks, from any worker's housekeeping. *)
SweepCancel ==
    /\ parent = "cancelled"
    /\ \E c \in Chunks : chunk[c] = "pending"
    /\ chunk' = [c \in Chunks |-> IF chunk[c] = "pending" THEN "cancelled" ELSE chunk[c]]
    /\ UNCHANGED <<parentVars, spent, marked, left, finalizing, swept>>

(* Mutant: the sweep only looks after the chunks the reaper failed. *)
SweepSelectReaped ==
    /\ parent = "waiting" /\ NoneLive /\ ~swept
    /\ \E c \in Chunks : chunk[c] = "failed"
    /\ swept' = TRUE
    /\ UNCHANGED <<parentVars, chunkVars, left, finalizing>>

SweepSelect ==
    /\ parent = "waiting" /\ NoneLive /\ ~swept
    /\ swept' = TRUE
    /\ UNCHANGED <<parentVars, chunkVars, left, finalizing>>

SweepFinalize ==
    /\ swept
    /\ swept' = FALSE
    /\ Finalize
    /\ UNCHANGED <<owner, parentSpent, chunkVars, left, finalizing>>

-----------------------------------------------------------------------------
ParentStep(p) ==
    \/ ClaimParent(p) \/ ParkWaiting(p) \/ EndUnsplit(p)
    \/ ParentRaises(p) \/ ParentCrash(p)
    \/ \E c \in Chunks : EnqueueChunk(p, c)

ChunkStep(c) ==
    \/ ClaimChunk(c) \/ EndChunkRun(c) \/ FailPayload(c) \/ ResumeChunk(c)
    \/ ReapChunk(c) \/ ReleaseChunk(c) \/ CancelChunk(c) \/ RetryPayload(c)
    \/ FinalizeAfter(c) \/ FinalizeLost(c)

Next ==
    \/ \E p \in ParentRuns : ParentStep(p)
    \/ \E c \in Chunks : ChunkStep(c)
    \/ ReapParent \/ CancelParent
    \/ SweepCancel \/ SweepSelect \/ SweepFinalize

Spec == Init /\ [][Next]_vars

(* Fairness.  Workers claim what is pending and sweep every minute; a chunk  *)
(* that is run again and again ends in the end (a parked one through module  *)
(* BatchWork's ParkedEnds, a lost one through TaskQueue's reaper).  That a   *)
(* chunk's own call of maybe_finalize_parent happens is not assumed.         *)
EndChunk(c) == EndChunkRun(c) /\ chunk'[c] \in {"done", "failed"}

Fairness ==
    /\ \A c \in Chunks :
          WF_vars(ClaimChunk(c)) /\ WF_vars(ResumeChunk(c)) /\ SF_vars(EndChunk(c))
    /\ WF_vars(SweepCancel) /\ WF_vars(SweepSelect) /\ WF_vars(SweepFinalize)

FairSpec == Spec /\ Fairness

-----------------------------------------------------------------------------
(* What EndedIsComplete needs to be inductive: a parent that waits or was     *)
(* ended by its chunks has no run left that could enqueue another, and what  *)
(* its chunks ended stays ended.                                             *)
NoRunAfterPark ==
    parent = "waiting" \/ endedBy = "chunks" => \A p \in ParentRuns : left[p] = Idle

EndedStays == endedBy = "chunks" => parent \in {"done", "failed"}

(* Type invariant; no chunk is run past its retry budget.                    *)
TypeOK ==
    /\ parent \in ParentStatus /\ owner \in ParentRuns \cup {NoRun}
    /\ parentSpent \in 0 .. TaskMaxAttempts
    /\ endedBy \in {"none", "self", "chunks"}
    /\ chunk \in [Chunks -> ChunkStatus]
    /\ spent \in [Chunks -> 0 .. TaskMaxAttempts]
    /\ marked \subseteq Chunks /\ finalizing \subseteq Chunks
    /\ left \in [ParentRuns -> Idle .. Units]
    /\ swept \in BOOLEAN

(* A parent that its chunks ended has none left to run, and its verdict is   *)
(* theirs: "demote closed rows when the last chunk lands"                    *)
(* (handle_reverify_open).  The sweep, a late finalizer, a cancelled chunk   *)
(* and a payload retry meet here.  Checked where a lost run of the parent is *)
(* a dead one; a lost run that goes on enqueues chunks after the end.        *)
EndedIsComplete ==
    endedBy = "chunks" =>
        /\ NoneLive
        /\ parent = "failed" <=> \E c \in Chunks : chunk[c] = "failed"

(* A waiting parent ends, although the last chunk may end before the parent  *)
(* has parked, its worker may die before maybe_finalize_parent, and the      *)
(* reaper fails chunks without telling the parent.                           *)
WaitingEnds == parent = "waiting" ~> parent \in {"done", "failed", "cancelled"}

=============================================================================
