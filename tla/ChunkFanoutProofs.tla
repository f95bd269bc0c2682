------------------------- MODULE ChunkFanoutProofs -------------------------
(***************************************************************************)
(* For any number of chunks and units and any retry budget: the budgets of *)
(* the parent and of every chunk are kept, however many runs of the parent *)
(* are alive; and a parent ended by its chunks has no chunk left to run,   *)
(* as long as at most one run of it is alive at a time.                    *)
(***************************************************************************)
EXTENDS ChunkFanout, TLAPS

FanoutTypes ==
    /\ left \in [ParentRuns -> Int]
    /\ chunk \in [Chunks -> ChunkStatus]

FanoutInv == FanoutTypes /\ NoRunAfterPark /\ EndedStays /\ EndedIsComplete

(* A step that touches neither the parent, nor its runs, nor its chunks. *)
LEMMA FanoutUntouched ==
    ASSUME FanoutInv, UNCHANGED <<parent, endedBy, left, chunk>>
    PROVE  FanoutInv'
BY DEF FanoutInv, FanoutTypes, NoRunAfterPark, EndedStays, EndedIsComplete, NoneLive, Live

(* A chunk moves, which it can only do while its parent is not ended by its  *)
(* chunks.                                                                   *)
LEMMA ChunkMoves ==
    ASSUME FanoutInv, endedBy # "chunks", UNCHANGED <<parent, endedBy, left>>,
           chunk' \in [Chunks -> ChunkStatus]
    PROVE  FanoutInv'
BY DEF FanoutInv, FanoutTypes, NoRunAfterPark, EndedStays, EndedIsComplete

(* A live chunk shows that the parent was not ended by its chunks. *)
LEMMA LiveMeansOpen ==
    ASSUME FanoutInv, NEW c \in Chunks, Live(c)
    PROVE  endedBy # "chunks"
BY DEF FanoutInv, EndedIsComplete, NoneLive

(* The steps of a chunk's own life. *)
LEMMA ChunkStepKeeps ==
    ASSUME FanoutInv, NEW c \in Chunks,
           ClaimChunk(c) \/ EndChunkRun(c) \/ FailPayload(c) \/ ResumeChunk(c)
           \/ ReapChunk(c) \/ ReleaseChunk(c) \/ CancelChunk(c)
    PROVE  FanoutInv'
<1>1. Live(c)
  BY DEF Live, ClaimChunk, EndChunkRun, FailPayload, ResumeChunk, ReapChunk,
         ReleaseChunk, CancelChunk
<1>2. UNCHANGED <<parent, endedBy, left>>
  BY DEF ClaimChunk, EndChunkRun, FailPayload, ResumeChunk, ReapChunk,
         ReleaseChunk, CancelChunk, parentVars
<1>3. \E s \in ChunkStatus : chunk' = [chunk EXCEPT ![c] = s]
  BY DEF ClaimChunk, EndChunkRun, FailPayload, ResumeChunk, ReapChunk,
         ReleaseChunk, CancelChunk, ChunkStatus
<1>4. chunk' \in [Chunks -> ChunkStatus]
  BY <1>3 DEF FanoutInv, FanoutTypes
<1> QED BY <1>1, <1>2, <1>4, LiveMeansOpen, ChunkMoves

(* The operator's retry reopens a parent its chunks ended. *)
LEMMA RetryKeeps ==
    ASSUME FanoutInv, NEW c \in Chunks, RetryPayload(c)
    PROVE  FanoutInv'
<1>1. /\ parent = "waiting" \/ endedBy = "chunks"
      /\ parent' = "waiting" /\ endedBy' = "none" /\ left' = left
      /\ chunk' = [chunk EXCEPT ![c] = "pending"]
  BY DEF RetryPayload
<1>2. FanoutTypes'
  BY <1>1 DEF FanoutInv, FanoutTypes, ChunkStatus
<1>3. NoRunAfterPark' /\ EndedStays' /\ EndedIsComplete'
  BY <1>1 DEF FanoutInv, NoRunAfterPark, EndedStays, EndedIsComplete
<1> QED BY <1>2, <1>3 DEF FanoutInv

(* maybe_finalize_parent, whoever calls it. *)
LEMMA FinalizeKeeps ==
    ASSUME FanoutInv, Finalize, UNCHANGED <<left, chunk>>
    PROVE  FanoutInv'
<1>1. CASE parent = "waiting" /\ NoneLive
  <2>1. /\ parent' = IF \E c \in Chunks : chunk[c] = "failed" THEN "failed" ELSE "done"
        /\ endedBy' = "chunks"
    BY <1>1 DEF Finalize
  <2>2. FanoutTypes' /\ NoRunAfterPark' /\ EndedStays'
    BY <1>1, <2>1 DEF FanoutInv, FanoutTypes, NoRunAfterPark, EndedStays
  <2>3. NoneLive'
    BY <1>1 DEF NoneLive, Live
  <2>4. (parent = "failed" <=> \E c \in Chunks : chunk[c] = "failed")'
    BY <2>1
  <2>5. EndedIsComplete'
    BY <2>3, <2>4 DEF EndedIsComplete
  <2> QED BY <2>2, <2>5 DEF FanoutInv
<1>2. CASE ~(parent = "waiting" /\ NoneLive)
  BY <1>2, FanoutUntouched DEF Finalize
<1> QED BY <1>1, <1>2

(* A run of the parent ends; it can only make the parent wait when it is the *)
(* run that is left.                                                         *)
LEMMA RunEndsKeeps ==
    ASSUME FanoutInv, NEW p \in ParentRuns, ParentRuns = {p},
           NEW s \in {"waiting", "done", "failed", "pending"},
           NEW by \in {"none", "self"}, RunEnds(p, s, by)
    PROVE  FanoutInv'
<1>1. left' = [left EXCEPT ![p] = Idle] /\ chunk' = chunk
  BY DEF RunEnds, chunkVars
<1>2. FanoutTypes'
  BY <1>1 DEF FanoutInv, FanoutTypes, Idle
<1>3. \A q \in ParentRuns : left'[q] = Idle
  BY <1>1 DEF FanoutInv, FanoutTypes
<1>4. CASE Owns(p)
  <2>1. endedBy' = by
    BY <1>4 DEF RunEnds
  <2> QED BY <1>2, <1>3, <2>1 DEF FanoutInv, NoRunAfterPark, EndedStays, EndedIsComplete
<1>5. CASE ~Owns(p)
  <2>1. UNCHANGED <<parent, endedBy>>
    BY <1>5 DEF RunEnds
  <2>2. NoRunAfterPark' /\ EndedStays'
    BY <1>3, <2>1 DEF FanoutInv, NoRunAfterPark, EndedStays
  <2>3. EndedIsComplete'
    BY <1>1, <2>1 DEF FanoutInv, EndedIsComplete, NoneLive, Live
  <2> QED BY <1>2, <2>2, <2>3 DEF FanoutInv
<1> QED BY <1>4, <1>5

(* The steps of the parent's only run. *)
LEMMA ParentStepKeeps ==
    ASSUME FanoutInv, FanoutConstants, NEW p \in ParentRuns, ParentRuns = {p}, ParentStep(p)
    PROVE  FanoutInv'
<1>1. CASE ClaimParent(p)
  <2>1. /\ parent = "pending" /\ parent' = "running" /\ UNCHANGED <<endedBy, chunk>>
        /\ left' = [left EXCEPT ![p] = Units]
    BY <1>1 DEF ClaimParent, chunkVars
  <2>2. endedBy' # "chunks"
    BY <2>1 DEF FanoutInv, EndedStays
  <2>3. FanoutTypes'
    BY <2>1, FanoutConstants DEF FanoutInv, FanoutTypes, FanoutConstants
  <2> QED BY <2>1, <2>2, <2>3 DEF FanoutInv, NoRunAfterPark, EndedStays, EndedIsComplete
<1>2. CASE ParkWaiting(p)
  BY <1>2, RunEndsKeeps DEF ParkWaiting
<1>3. CASE EndUnsplit(p)
  BY <1>3, RunEndsKeeps DEF EndUnsplit
<1>4. CASE ParentRaises(p)
  BY <1>4, RunEndsKeeps DEF ParentRaises
<1>5. CASE ParentCrash(p)
  <2>1. left' = [left EXCEPT ![p] = Idle] /\ UNCHANGED <<parent, endedBy, chunk>>
    BY <1>5 DEF ParentCrash, parentVars, chunkVars
  <2>2. FanoutTypes' /\ NoRunAfterPark'
    BY <2>1 DEF FanoutInv, FanoutTypes, NoRunAfterPark, Idle
  <2>3. EndedStays' /\ EndedIsComplete'
    BY <2>1 DEF FanoutInv, EndedStays, EndedIsComplete, NoneLive, Live
  <2> QED BY <2>2, <2>3 DEF FanoutInv
<1>6. CASE \E c \in Chunks : EnqueueChunk(p, c)
  <2>1. PICK c \in Chunks : EnqueueChunk(p, c)
    BY <1>6
  <2>2. /\ left[p] > 0 /\ left' = [left EXCEPT ![p] = @ - 1]
        /\ chunk' = [chunk EXCEPT ![c] = "pending"] /\ UNCHANGED <<parent, endedBy>>
    BY <2>1 DEF EnqueueChunk, parentVars
  <2>3. parent # "waiting" /\ endedBy # "chunks"
    BY <2>2 DEF FanoutInv, NoRunAfterPark, Idle
  <2>4. FanoutTypes'
    BY <2>2 DEF FanoutInv, FanoutTypes, ChunkStatus
  <2> QED BY <2>2, <2>3, <2>4 DEF FanoutInv, NoRunAfterPark, EndedStays, EndedIsComplete
<1> QED BY <1>1, <1>2, <1>3, <1>4, <1>5, <1>6 DEF ParentStep

(* The reaper, an administrator and the first statement of the sweep. *)
LEMMA OthersKeep ==
    ASSUME FanoutInv, ReapParent \/ CancelParent \/ SweepCancel \/ SweepSelect
    PROVE  FanoutInv'
<1>1. CASE ReapParent
  <2>1. parent = "running" /\ UNCHANGED <<left, chunk>> /\ parent' \in {"pending", "failed"}
        /\ endedBy' \in {endedBy, "self"}
    BY <1>1 DEF ReapParent, chunkVars
  <2>2. endedBy' # "chunks"
    BY <2>1 DEF FanoutInv, EndedStays
  <2> QED BY <2>1, <2>2
          DEF FanoutInv, FanoutTypes, NoRunAfterPark, EndedStays, EndedIsComplete
<1>2. CASE CancelParent
  <2>1. /\ parent \in {"pending", "running", "waiting"} /\ parent' = "cancelled"
        /\ UNCHANGED <<left, chunk, endedBy>>
    BY <1>2 DEF CancelParent, chunkVars
  <2>2. endedBy' # "chunks"
    BY <2>1 DEF FanoutInv, EndedStays
  <2> QED BY <2>1, <2>2
          DEF FanoutInv, FanoutTypes, NoRunAfterPark, EndedStays, EndedIsComplete
<1>3. CASE SweepCancel
  <2>1. parent = "cancelled" /\ UNCHANGED <<parent, endedBy, left>>
    BY <1>3 DEF SweepCancel, parentVars
  <2>2. chunk' \in [Chunks -> ChunkStatus]
    BY <1>3 DEF SweepCancel, FanoutInv, FanoutTypes, ChunkStatus
  <2>3. endedBy # "chunks"
    BY <2>1 DEF FanoutInv, EndedStays
  <2> QED BY <2>1, <2>2, <2>3, ChunkMoves
<1>4. CASE SweepSelect
  BY <1>4, FanoutUntouched DEF SweepSelect, parentVars, chunkVars
<1> QED BY <1>1, <1>2, <1>3, <1>4

(* maybe_finalize_parent and payload_recovery.retry: while a parent has at   *)
(* most one run alive, it is ended only when its last chunk has ended, with  *)
(* their verdict, and no later step brings a chunk back under an ended one.  *)
THEOREM EndedStaysComplete ==
    ASSUME NEW p, ParentRuns = {p}
    PROVE  Spec => []EndedIsComplete
<1>1. Init => FanoutInv
  BY DEF Init, FanoutInv, FanoutTypes, NoRunAfterPark, EndedStays, EndedIsComplete,
         ChunkStatus, Idle
<1>2. FanoutInv /\ [Next]_vars => FanoutInv'
  <2> SUFFICES ASSUME FanoutInv, [Next]_vars PROVE FanoutInv'
    OBVIOUS
  <2>1. CASE \E q \in ParentRuns : ParentStep(q)
    BY <2>1, ParentStepKeeps, FanoutConstants
  <2>2. CASE \E c \in Chunks : ChunkStep(c)
    <3>1. PICK c \in Chunks : ChunkStep(c)
      BY <2>2
    <3>2. CASE RetryPayload(c)
      BY <3>2, RetryKeeps
    <3>3. CASE FinalizeAfter(c)
      BY <3>3, FinalizeKeeps DEF FinalizeAfter, chunkVars
    <3>4. CASE FinalizeLost(c)
      BY <3>4, FanoutUntouched DEF FinalizeLost, parentVars, chunkVars
    <3> QED BY <3>1, <3>2, <3>3, <3>4, ChunkStepKeeps DEF ChunkStep
  <2>3. CASE SweepFinalize
    BY <2>3, FinalizeKeeps DEF SweepFinalize, chunkVars
  <2>4. CASE ReapParent \/ CancelParent \/ SweepCancel \/ SweepSelect
    BY <2>4, OthersKeep
  <2>5. CASE UNCHANGED vars
    BY <2>5, FanoutUntouched DEF vars, parentVars, chunkVars
  <2> QED BY <2>1, <2>2, <2>3, <2>4, <2>5 DEF Next
<1>3. FanoutInv => EndedIsComplete
  BY DEF FanoutInv
<1> QED BY <1>1, <1>2, <1>3, PTL DEF Spec

-----------------------------------------------------------------------------
(* Type correctness, with both retry budgets, for overlapping runs of the    *)
(* parent too.  What they need to be inductive: a row that may be claimed    *)
(* has a retry left, a chunk that runs or is parked has spent one, and a     *)
(* marked chunk has failed with its retry handed back.                       *)

ParentTypes ==
    /\ parent \in ParentStatus /\ owner \in ParentRuns \cup {NoRun}
    /\ parentSpent \in 0 .. TaskMaxAttempts
    /\ endedBy \in {"none", "self", "chunks"}
    /\ left \in [ParentRuns -> Idle .. Units]
    /\ parent = "pending" => parentSpent < TaskMaxAttempts

ChunkBudget(c) ==
    /\ chunk[c] = "absent" => spent[c] = 0
    /\ chunk[c] = "pending" => spent[c] < TaskMaxAttempts
    /\ chunk[c] \in {"running", "awaiting_batch"} => spent[c] > 0
    /\ c \in marked => chunk[c] = "failed" /\ spent[c] < TaskMaxAttempts

ChunkTypes ==
    /\ chunk \in [Chunks -> ChunkStatus]
    /\ spent \in [Chunks -> 0 .. TaskMaxAttempts]
    /\ marked \subseteq Chunks /\ finalizing \subseteq Chunks
    /\ swept \in BOOLEAN
    /\ \A c \in Chunks : ChunkBudget(c)

LEMMA ParentUntouched ==
    ASSUME ParentTypes, UNCHANGED <<parentVars, left>>
    PROVE  ParentTypes'
BY DEF ParentTypes, parentVars

LEMMA ChunksUntouched ==
    ASSUME ChunkTypes, UNCHANGED chunkVars, finalizing' \subseteq Chunks, swept' \in BOOLEAN
    PROVE  ChunkTypes'
BY DEF ChunkTypes, ChunkBudget, chunkVars

LEMMA RunEndsTypes ==
    ASSUME ParentTypes, NEW p \in ParentRuns,
           NEW s \in {"waiting", "done", "failed", "pending"},
           NEW by \in {"none", "self"}, RunEnds(p, s, by),
           s = "pending" => parentSpent < TaskMaxAttempts
    PROVE  ParentTypes'
<1>1. left' \in [ParentRuns -> Idle .. Units]
  BY FanoutConstants DEF RunEnds, ParentTypes, Idle
<1>2. parentSpent' = parentSpent
  BY DEF RunEnds
<1>3. CASE Owns(p)
  BY <1>1, <1>2, <1>3 DEF RunEnds, ParentTypes, ParentStatus
<1>4. CASE ~Owns(p)
  BY <1>1, <1>2, <1>4 DEF RunEnds, ParentTypes
<1> QED BY <1>3, <1>4

(* One chunk's row is written, within its budget. *)
LEMMA OneChunkTypes ==
    ASSUME ChunkTypes, NEW c \in Chunks, NEW s \in ChunkStatus, NEW n \in 0 .. TaskMaxAttempts,
           chunk' = [chunk EXCEPT ![c] = s], spent' = [spent EXCEPT ![c] = n],
           marked' \subseteq Chunks,
           \A d \in Chunks : d # c /\ d \in marked' => d \in marked,
           s = "absent" => n = 0,
           s = "pending" => n < TaskMaxAttempts,
           s \in {"running", "awaiting_batch"} => n > 0,
           c \in marked' => s = "failed" /\ n < TaskMaxAttempts,
           finalizing' \subseteq Chunks, swept' = swept
    PROVE  ChunkTypes'
<1>1. /\ chunk' \in [Chunks -> ChunkStatus]
      /\ spent' \in [Chunks -> 0 .. TaskMaxAttempts]
  BY DEF ChunkTypes
<1>2. ASSUME NEW d \in Chunks PROVE ChunkBudget(d)'
  <2>1. CASE d = c
    BY <2>1 DEF ChunkTypes, ChunkBudget
  <2>2. CASE d # c
    BY <2>2 DEF ChunkTypes, ChunkBudget
  <2> QED BY <2>1, <2>2
<1> QED BY <1>1, <1>2 DEF ChunkTypes

(* The steps of the parent's runs. *)
LEMMA ParentStepTypes ==
    ASSUME ParentTypes, ChunkTypes, NEW p \in ParentRuns, ParentStep(p)
    PROVE  ParentTypes' /\ ChunkTypes'
<1> USE FanoutConstants
<1>1. CASE ClaimParent(p)
  <2>1. left' \in [ParentRuns -> Idle .. Units]
    BY <1>1 DEF ClaimParent, ParentTypes, Idle
  <2>2. ParentTypes'
    BY <1>1, <2>1 DEF ClaimParent, ParentTypes, ParentStatus
  <2> QED BY <1>1, <2>2, ChunksUntouched DEF ClaimParent, ChunkTypes
<1>2. CASE ParkWaiting(p) \/ EndUnsplit(p) \/ ParentRaises(p)
  <2>1. ParentTypes'
    BY <1>2, RunEndsTypes DEF ParkWaiting, EndUnsplit, ParentRaises
  <2>2. UNCHANGED <<chunkVars, finalizing, swept>>
    BY <1>2 DEF ParkWaiting, EndUnsplit, ParentRaises, RunEnds
  <2> QED BY <2>1, <2>2, ChunksUntouched DEF ChunkTypes
<1>3. CASE ParentCrash(p)
  <2>1. left' \in [ParentRuns -> Idle .. Units]
    BY <1>3 DEF ParentCrash, ParentTypes, Idle
  <2>2. ParentTypes'
    BY <1>3, <2>1 DEF ParentCrash, ParentTypes, parentVars
  <2> QED BY <1>3, <2>2, ChunksUntouched DEF ParentCrash, ChunkTypes
<1>4. CASE \E c \in Chunks : EnqueueChunk(p, c)
  <2>1. PICK c \in Chunks : EnqueueChunk(p, c)
    BY <1>4
  <2>2. left' \in [ParentRuns -> Idle .. Units]
    BY <2>1 DEF EnqueueChunk, ParentTypes, Idle
  <2>3. ParentTypes'
    BY <2>1, <2>2 DEF EnqueueChunk, ParentTypes, parentVars
  <2>4. /\ chunk' = [chunk EXCEPT ![c] = "pending"] /\ spent' = [spent EXCEPT ![c] = 0]
        /\ c \notin marked /\ UNCHANGED <<marked, finalizing, swept>>
    BY <2>1 DEF EnqueueChunk, ChunkTypes, ChunkBudget
  <2>5. 0 \in 0 .. TaskMaxAttempts /\ 0 < TaskMaxAttempts
    OBVIOUS
  <2>6. ChunkTypes'
    BY <2>4, <2>5, OneChunkTypes DEF ChunkTypes, ChunkStatus
  <2> QED BY <2>3, <2>6
<1> QED BY <1>1, <1>2, <1>3, <1>4 DEF ParentStep

(* The steps of a chunk. *)
LEMMA ChunkStepTypes ==
    ASSUME ParentTypes, ChunkTypes, NEW c \in Chunks, ChunkStep(c)
    PROVE  ParentTypes' /\ ChunkTypes'
<1>0. /\ TaskMaxAttempts \in Nat \ {0} /\ spent[c] \in 0 .. TaskMaxAttempts
      /\ ChunkBudget(c) /\ marked \subseteq Chunks /\ finalizing \subseteq Chunks
  BY FanoutConstants DEF ChunkTypes
<1>1. CASE ClaimChunk(c)
  <2>1. /\ chunk[c] = "pending" /\ chunk' = [chunk EXCEPT ![c] = "running"]
        /\ spent' = [spent EXCEPT ![c] = spent[c] + 1]
        /\ UNCHANGED <<parentVars, marked, left, finalizing, swept>>
    BY <1>1 DEF ClaimChunk
  <2>2. c \notin marked /\ spent[c] + 1 \in 0 .. TaskMaxAttempts /\ spent[c] + 1 > 0
    BY <1>0, <2>1 DEF ChunkBudget
  <2>3. ChunkTypes'
    BY <1>0, <2>1, <2>2, OneChunkTypes DEF ChunkStatus
  <2> QED BY <2>1, <2>3, ParentUntouched
<1>2. CASE EndChunkRun(c)
  <2>1. PICK s \in {"done", "failed", "awaiting_batch", "pending"} :
           (s = "pending" => spent[c] < TaskMaxAttempts) /\ chunk' = [chunk EXCEPT ![c] = s]
    BY <1>2 DEF EndChunkRun
  <2>2. /\ chunk[c] = "running" /\ finalizing' = finalizing \cup {c}
        /\ spent' = [spent EXCEPT ![c] = spent[c]]
        /\ UNCHANGED <<parentVars, marked, left, swept>>
    BY <1>2 DEF EndChunkRun, ChunkTypes
  <2>3. c \notin marked /\ spent[c] > 0
    BY <1>0, <2>2 DEF ChunkBudget
  <2>4. ChunkTypes'
    BY <1>0, <2>1, <2>2, <2>3, OneChunkTypes DEF ChunkStatus
  <2> QED BY <2>2, <2>4, ParentUntouched
<1>3. CASE FailPayload(c)
  <2>1. /\ chunk[c] = "running" /\ chunk' = [chunk EXCEPT ![c] = "failed"]
        /\ spent' = [spent EXCEPT ![c] = spent[c] - 1]
        /\ marked' = marked \cup {c} /\ finalizing' = finalizing \cup {c}
        /\ UNCHANGED <<parentVars, left, swept>>
    BY <1>3 DEF FailPayload
  <2>2. spent[c] - 1 \in 0 .. TaskMaxAttempts /\ spent[c] - 1 < TaskMaxAttempts
    BY <1>0, <2>1 DEF ChunkBudget
  <2>3. ChunkTypes'
    BY <1>0, <2>1, <2>2, OneChunkTypes DEF ChunkStatus
  <2> QED BY <2>1, <2>3, ParentUntouched
<1>4. CASE ResumeChunk(c) \/ ReleaseChunk(c)
  <2>1. /\ chunk[c] \in {"running", "awaiting_batch"} /\ chunk' = [chunk EXCEPT ![c] = "pending"]
        /\ spent' = [spent EXCEPT ![c] = spent[c] - 1]
        /\ UNCHANGED <<parentVars, marked, left, finalizing, swept>>
    BY <1>4 DEF ResumeChunk, ReleaseChunk
  <2>2. /\ c \notin marked
        /\ spent[c] - 1 \in 0 .. TaskMaxAttempts /\ spent[c] - 1 < TaskMaxAttempts
    BY <1>0, <2>1 DEF ChunkBudget
  <2>3. ChunkTypes'
    BY <1>0, <2>1, <2>2, OneChunkTypes DEF ChunkStatus
  <2> QED BY <2>1, <2>3, ParentUntouched
<1>5. CASE ReapChunk(c)
  <2>1. PICK s \in {"pending", "failed"} :
           (s = "pending" => spent[c] < TaskMaxAttempts) /\ chunk' = [chunk EXCEPT ![c] = s]
    BY <1>5 DEF ReapChunk
  <2>2. /\ chunk[c] = "running" /\ finalizing' \subseteq Chunks
        /\ spent' = [spent EXCEPT ![c] = spent[c]]
        /\ UNCHANGED <<parentVars, marked, left, swept>>
    BY <1>0, <1>5 DEF ReapChunk, ChunkTypes
  <2>3. c \notin marked
    BY <1>0, <2>2 DEF ChunkBudget
  <2>4. ChunkTypes'
    BY <1>0, <2>1, <2>2, <2>3, OneChunkTypes DEF ChunkStatus
  <2> QED BY <2>2, <2>4, ParentUntouched
<1>6. CASE CancelChunk(c)
  <2>1. /\ Live(c) /\ chunk' = [chunk EXCEPT ![c] = "cancelled"]
        /\ spent' = [spent EXCEPT ![c] = spent[c]]
        /\ UNCHANGED <<parentVars, marked, left, finalizing, swept>>
    BY <1>6 DEF CancelChunk, ChunkTypes
  <2>2. c \notin marked
    BY <1>0, <2>1 DEF ChunkBudget, Live
  <2>3. ChunkTypes'
    BY <1>0, <2>1, <2>2, OneChunkTypes DEF ChunkStatus
  <2> QED BY <2>1, <2>3, ParentUntouched
<1>7. CASE RetryPayload(c)
  <2>1. /\ c \in marked /\ marked' = marked \ {c} /\ chunk' = [chunk EXCEPT ![c] = "pending"]
        /\ spent' = [spent EXCEPT ![c] = spent[c]]
        /\ UNCHANGED <<finalizing, swept>>
    BY <1>7 DEF RetryPayload, ChunkTypes
  <2>2. spent[c] < TaskMaxAttempts
    BY <1>0, <2>1 DEF ChunkBudget
  <2>3. ChunkTypes'
    BY <1>0, <2>1, <2>2, OneChunkTypes DEF ChunkStatus
  <2>4. ParentTypes'
    BY <1>7 DEF RetryPayload, ParentTypes, ParentStatus
  <2> QED BY <2>3, <2>4
<1>8. CASE FinalizeAfter(c)
  <2>1. ParentTypes'
    BY <1>8 DEF FinalizeAfter, Finalize, ParentTypes, ParentStatus
  <2> QED BY <1>0, <1>8, <2>1, ChunksUntouched DEF FinalizeAfter, ChunkTypes
<1>9. CASE FinalizeLost(c)
  BY <1>0, <1>9, ParentUntouched, ChunksUntouched DEF FinalizeLost, ChunkTypes
<1> QED BY <1>1, <1>2, <1>3, <1>4, <1>5, <1>6, <1>7, <1>8, <1>9 DEF ChunkStep

(* Every reachable state is well typed; neither the parent nor a chunk is    *)
(* run past task_max_attempts, and no hand-back of a retry (a parked chunk   *)
(* resumed, a SIGTERM, a payload failure) takes its count below none.        *)
THEOREM FanoutTypeOK == Spec => []TypeOK
<1>1. Init => ParentTypes /\ ChunkTypes
  <2> SUFFICES ASSUME Init PROVE ParentTypes /\ ChunkTypes
    OBVIOUS
  <2>1. /\ TaskMaxAttempts \in Nat \ {0} /\ Units \in Nat \ {0}
        /\ 0 < TaskMaxAttempts /\ 0 \in 0 .. TaskMaxAttempts /\ Idle \in Idle .. Units
    BY FanoutConstants DEF Idle
  <2>2. ParentTypes
    BY <2>1 DEF Init, ParentTypes, ParentStatus
  <2>3. ChunkTypes
    BY <2>1 DEF Init, ChunkTypes, ChunkBudget, ChunkStatus
  <2> QED BY <2>2, <2>3
<1>2. ParentTypes /\ ChunkTypes /\ [Next]_vars => ParentTypes' /\ ChunkTypes'
  <2> SUFFICES ASSUME ParentTypes, ChunkTypes, [Next]_vars PROVE ParentTypes' /\ ChunkTypes'
    OBVIOUS
  <2>1. CASE \E p \in ParentRuns : ParentStep(p)
    BY <2>1, ParentStepTypes
  <2>2. CASE \E c \in Chunks : ChunkStep(c)
    BY <2>2, ChunkStepTypes
  <2>3. CASE ReapParent \/ CancelParent
    <3>1. UNCHANGED <<chunkVars, finalizing, swept>>
      BY <2>3 DEF ReapParent, CancelParent
    <3>2. ParentTypes'
      BY <2>3 DEF ReapParent, CancelParent, ParentTypes, ParentStatus
    <3> QED BY <3>1, <3>2, ChunksUntouched DEF ChunkTypes
  <2>4. CASE SweepCancel
    <3>1. chunk' \in [Chunks -> ChunkStatus] /\ UNCHANGED <<spent, marked, finalizing, swept>>
      BY <2>4 DEF SweepCancel, ChunkTypes, ChunkStatus
    <3>2. ASSUME NEW c \in Chunks PROVE ChunkBudget(c)'
      BY <2>4 DEF SweepCancel, ChunkTypes, ChunkBudget
    <3>3. ChunkTypes'
      BY <3>1, <3>2 DEF ChunkTypes
    <3> QED BY <2>4, <3>3, ParentUntouched DEF SweepCancel
  <2>5. CASE SweepSelect
    BY <2>5, ParentUntouched, ChunksUntouched DEF SweepSelect, ChunkTypes
  <2>6. CASE SweepFinalize
    <3>1. ParentTypes'
      BY <2>6 DEF SweepFinalize, Finalize, ParentTypes, ParentStatus
    <3> QED BY <2>6, <3>1, ChunksUntouched DEF SweepFinalize, ChunkTypes
  <2>7. CASE UNCHANGED vars
    BY <2>7, ParentUntouched, ChunksUntouched DEF vars, ChunkTypes
  <2> QED BY <2>1, <2>2, <2>3, <2>4, <2>5, <2>6, <2>7 DEF Next
<1>3. ParentTypes /\ ChunkTypes => TypeOK
  BY DEF ParentTypes, ChunkTypes, TypeOK
<1> QED BY <1>1, <1>2, <1>3, PTL DEF Spec

=============================================================================
