# TLA+ models of the job-scripts task runtime

This directory is the verification project kept beside `job-scripts`: TLA+
modules translated from the Python source and its SQL, the TLC configurations
that check them on small instances, and TLAPS proofs of the most important
properties for every instance. Paths below are relative to the repository root;
the application's packages are `src/api`, `src/tasks` and `src/core`
(`PROJECT.json` writes them from the checkout's parent, `src/src/...`).

The centre is what everything else in the program runs in: the Postgres task
queue with its fleet of workers, the provider batches a task pays for and waits
on, and parents that split their work into chunks. Around it stand the
scheduler's sweeps and pulls, the pacing of hosts and slots, the purchase along
a chain of models under the weekly ceiling, and the migration of stored request
references while the fleet is rolled.

## 1. The system

Everything the program does apart from answering HTTP requests is a row of the
`tasks` table, run by one of several worker processes on different machines.
There is no coordinator: workers share Postgres and nothing else. What is hard
is therefore what several processes do to the same rows between two statements,
and what is left behind when one of them dies.

| Part | State | Operations | Meets | Hard because |
|---|---|---|---|---|
| Task queue and claims (`api/queue.py`, `api/worker_lifecycle/claims.py`, `tasks/runtime/lifecycle.py`, `api/worker_lifecycle/execution.py`) | status, worker, attempts, batch_resumes, last_heartbeat, not_before, payload of each row | enqueue, claim, heartbeat, settle (done, failed, deferred, requeued, parked), reap, cancel, resume, recover | every worker, the API | a reaped run goes on; stamps recur when attempts are handed back; five paths move the retry budget |
| Worker process (`api/worker.py`) | `_in_flight`, held slots, threads | main loop, threaded kinds, SIGTERM release, housekeeping | queue | crash and SIGTERM at any point; main-thread tasks hold up housekeeping |
| Provider batches (`core/batch`, `tasks/runtime/batching.py`, `tasks/batches.py`) | payload.batch_ids, `ai_batches` | submit in waves, record, park, poll, resume, collect | provider (external), queue | paid work recorded after the fact; partial collections; two runs of one task |
| Batch receipts (`api/ai/batch_results.py`) | `batch_result_receipts` | checkpoint, replay, consume | batches, handlers | replay after a crash; two consumers |
| Chunked parents (`tasks/runtime/lifecycle.py`, `tasks/verification/reverification.py`, `tasks/filtering/personal_runs.py`) | parent row `waiting`, chunk rows with parent_id | split, park, finalize, sweep | queue, recovery | last chunk ends before the parent parks; finalizer lost; retry against finalizer |
| Payload recovery (`tasks/runtime/payload_recovery.py`) | payload_recovery marker | fail_unavailable_payload, retry | queue, batches, parents | retry of work already bought; failed parent reopened |
| Scheduler (`api/worker_lifecycle/scheduling.py`) | dedupe keys | schedule_ingest_cycle, on every worker, at every poll | queue | check-then-enqueue across a bucket boundary; parked sweeps beside the next one |
| Verification sweeps (`tasks/verification`) | batch_requests, verdicts | select, reuse near copies, freeze, buy, record | scheduler, batches | what another sweep has chosen is not yet visible |
| Pulls of a source (`tasks/ingest.py`, `api/queue.py`) | the rows of kind ingest_source, sources.active | schedule, back off, give up | scheduler, queue | the run of failures is read off rows of overlapping pulls |
| Task admission (`api/task_admission.py`, `api/filter_runs.py`) | rows, subject locks | enqueue under a row lock | API, queue | two admissions at once |
| Host budget (`api/hosts.py`, `tasks/ingest.py`) | pace and next slot per host and address | take, refused, succeeded, defer | pulls | pulls claimed while the slot was open arrive after it closed |
| Worker slots (`tasks/runtime/limits.py`, `_Slots`) | AIMD limit, weights held | step | worker | nothing fits, or too much does |
| Fleet budget and model fallback (`api/budget/fleet.py`, `api/model_fallback.py`) | ledger, exhaustion marks | check, mark, clear, route | submissions | check before a purchase that is billed later |
| Batch object consolidation (`tasks/batch_objects.py`, `api/data_level.py`) | phase, cursor | backfill, gate, clear | older images in the fleet | roll-back between gate and clear |
| Page text tiering (`tasks/page_text_tiering.py`) | where a page's text is held | move, pull_back | object storage | rule changes between runs |
| Mail, managed boards, catalog, filters and verdicts, pricing, fetching, HTTP API | see `PROJECT.json` | | | mostly set-based SQL, arithmetic or network input and output |

What makes each modelled part correct:

* queue: a run that lost its task changes nothing; the retry budget is exact; a
  row whose run is gone is taken over; ended tasks stay ended;
* batches and receipts: accepted work stays pointed at, is bought once, is
  applied exactly once, and a parked task ends;
* parents: an ended parent has no chunk left to run and carries their verdict; a
  waiting parent ends;
* sweeps: two do not select at once, no text is paid for twice while in flight
  (each but for sweeps a person stepped into), and no posting waits behind a batch
  that does not land;
* pulls: the backlog stays bounded, only a run of pulls without an answer makes
  the fleet switch a source off, a dark board is dropped and an active one is
  asked again;
* pacing: no address asks a host too early; no task is left over for want of an
  address or of slots;
* submission: no request is sent on two models, what a task buys stays within
  the ceiling it asked about, every chain ends;
* consolidation: no reader, of either image, ever reads another reference than
  the one written, and a task that reports done is done.

`PROJECT.json` lists every component and, under `hazards`, every place where one
of these is at risk, with the property that covers it or the reason none does yet.

## 2. The modules

| Module | Models |
|---|---|
| `TaskQueue` | the rows, the runs of claimed tasks, and the worker processes |
| `TaskLease` | the abstract promise: one holder per running task, only the holder moves it on |
| `BatchWork` | one batched task: submission, parking, polling, collection, receipts |
| `ChunkFanout` | one parent and its chunks |
| `VerifySweeps` | the leaderless scheduler and the verification sweeps it enqueues |
| `SourcePulls` | the scheduled pulls of one source, its back-off and its switch-off |
| `PullPacing` | the budget of a host per address, and the slots of the workers |
| `BatchObjects` | the consolidation of request references while the fleet is rolled |
| `Submission` | routing, the weekly ceiling, waves and the fallback chain |
| `TaskQueueProofs`, `BatchWorkProofs`, `ChunkFanoutProofs`, `VerifySweepsProofs`, `SourcePullsProofs`, `PullPacingProofs`, `BatchObjectsProofs`, `SubmissionProofs` | theorems |
| `MCTaskQueue`, `MCBatchWork`, `MCChunkFanout` | symmetry sets for TLC |
| `MCVerifySweeps`, `MCPullPacing`, `MCBatchObjects`, `MCSubmission` | values of operator constants for TLC |

How they compose: `TaskLease` is refined by `TaskQueue`. The others take the
queue's promise (one owner of a claim, a lost row is taken over) as given and
look at one protocol above it, several of them with the runs that lost their
claim. `Submission` ends where `BatchWork` begins, at an accepted wave;
`SourcePulls` and `PullPacing` meet in the deferral of a pull; `VerifySweeps`
has the claim, the purchase and the park of its sweep as one step each.

### TaskQueue

One variable per column of `tasks`: `status`, `attempts`, `resumes`
(batch_resumes), `worker`, and two abstractions of time, `fresh`
(`last_heartbeat` is inside task_heartbeat_timeout_minutes) and `due`
(`not_before` has passed). `failure` keeps the two marks that later code looks
for: the payload_recovery marker and the error text of a failed parent.

A run `r` is one execution of `run_task`; `claim[r]` is what the claim returned
(`TaskClaim`: task, worker, attempts, and the retries spent that the transient
branch compares with the budget). `Owns(r)` is the SQL of `claim_guard`. `pc[r]`
follows the run: claimed, running (registered in `_in_flight`, heartbeat thread
started), parked (a parent whose handler parked and whose `finish` is still to
come), settled (its last lifecycle write is behind it, its heartbeat thread and
its `_in_flight` entry are not gone yet).

Every action is one SQL statement or one step of a process between two. The
statements that settle a task (`finish`, `park_waiting`, `park_awaiting_batch`,
the deferral, transient and unavailable-payload branches of `run_held`) share
`Settle`, which changes the row only for its owner and lets the run move on
either way, as the code does. SIGTERM copies `_in_flight` and requeues entry by
entry; each statement may fail; threaded runs go on meanwhile. A crash removes
the runs of a process and tells no row.

Abstractions: which eligible row a claim takes is left open (SKIP LOCKED makes
any order possible). `End` stops the heartbeat at once; the code waits for the
thread for five seconds, so a beat delayed beyond that is not modelled.
`RetryPayload` and `ReopenParent` are separate rows here (a chunk and its
parent); `ChunkFanout` has them as the one transaction they are. The reads
that `payload_recovery.retry` makes before its transaction only refuse.
`THREADED_KINDS` holds only `ingest_source`; the constant `Threaded` says which
tasks are of such a kind.

### BatchWork

The paid work of one task. A run owns the task from its claim until it settles
it or the claim is taken away, and may go on after that: `payload.batch_ids`,
`ai_batches` and the receipts are written without the claim guard, as in the
code. A wave carries one request, so a batch stands for its receipt.

Submission is `SubmitChunk` (the provider has accepted, nothing here knows it),
`RecordSubmitted` (the event hook's transaction, which may fail and is then
swallowed by `_notify`) and `ParkSubmitted` (ids recorded whatever became of the
claim, status only with it). `PollBatches` and `ResumeParked` are the two halves
of the poll: between the provider's status calls and the update anything may
happen. Collection reads the ids, asks about each batch, `Checkpoint`s receipts
and the remaining ids in one transaction, reads back what no run has consumed
and consumes receipt by receipt. `Return` is what `repark_if_unfinished` reads
and `Repark`/`FinishDone` what is written later.

Left out: prices, model choice, the ceiling and the fallback to another model
(module `Submission`), and `_expire_orphans` (it touches only `ai_batches` rows
of tasks that have ended).

### ChunkFanout

One parent and the chunks of its runs. `left[p]` is how many units run `p` of
the parent has yet to enqueue; `enqueue` is not guarded by the claim.
`maybe_finalize_parent` and `payload_recovery.retry` lock the parent's row, so
each is one action; the call that follows a chunk's run is a separate step that
may be lost (`finalizing`), and the sweep of `reconcile_chunks` selects in one
step and finalizes in the next. `endedBy` is history: it tells a parent that
its chunks ended from one that ended itself.
The parent's own unavailable payload is left to `TaskQueue`.

### VerifySweeps

A pass of `schedule_ingest_cycle` is three steps with nothing held between them:
`BeginPass` reads the clock, `LookFindsOne`/`LookFindsNone` asks for an unparked
sweep, `Enqueue` inserts under the key of the cycle read first. The handler is
one action per statement that others can see: `Select` (candidates without a
verdict and not in flight, freshest first, up to the cap), `Reuse`
(`_reuse_near_copies`), `Snapshot` (the requests are frozen, and only now visible
to other sweeps), `Submit`, and after the resume `Consume` per answer. `Straddle`
says whether a pass may outlive its cycle. Faults (a pause, a refusal, an answer
that does not parse, an interruption, a cancellation, a payload that cannot be
read) are counted.

Two steps of a person make sweeps stand beside each other that the scheduler
would have kept apart. `Cancel` sets the status and nothing else: no statement of
`handle_verify_new` asks for it, so the handler selects, freezes and buys on, and
only its park and its finish are refused (`Leave`). `Unreadable` fails a sweep
with the mark that `RetryPayload` looks for; the retry puts it back to pending and
asks about no other sweep (`putBack` remembers it). The properties say what is
left: of two sweeps that select at once one is cancelled or was put back
(`SelectAlone`), and only one that was put back can pay for what another sweep in
flight asks (`PaidOnce`). A cancelled sweep's purchase is out of flight for both
`_in_flight` and the property: the next sweep buys those texts again.

Abstractions: a posting has one verdict for its two checks; a text is the key of
`near_copy`; the row of an ended sweep stands for a later cycle again, which only
the uniqueness of the key would tell apart. Sweeps asked for by url are left out.

### SourcePulls

The rows of one source's pulls, oldest first, with their age in hours.
`FailureRun` is `_FAILURE_RUN`: failed rows above the last that succeeded, by id
and not by the time they ended, which matters because pulls overlap.
`BackingOff`, `Recent` and `Due` are the conditions of the scheduler's query, with
the daily hour. `NoAnswer` counts the run and `SwitchOff` acts on the count in a
statement of its own, as `_switch_off_if_given_up` does; `RanShort` puts a pull
back that was counted already. `PatchSource` is the administrator, who switches
the source off or on at any time (`patch_source`, and the bulk switch). In a row,
`lost` (the board gave this pull no answer) and `stale` (another pull was answered
since this one counted) are history. The oldest rows that no condition can read
any more are dropped when the next is scheduled (`Outlived`, `Kept`, put in a row
again by `Renumbered`). Pulls that a person asks for and cancellations are left
out.

`Schedule` is one step, where the code looks, asks for sources that back off and
inserts in three statements. Two passes on either side of an hour, each of which
looked before the other inserted, could leave one pull more than `BacklogBounded`
allows; that straddle is what `VerifySweeps` takes apart.

### PullPacing

Two things decide what a worker claims: the host's slot at its address and its
own room. `Claimable` and `Fits` are the two parts of `claim_task`'s condition;
`Claim` takes the oldest row that passes. A pull then runs in a thread: `Take` is
the one UPDATE of `hosts.take`, `TooLate` its refusal, and `Refused`/`Answered`
move the gap. `Drain` is one entry of the queue of ended threads; it names a task
and not a run, so it may drop the slot of a later run. Deadlines are the time
left to them, in polls. Which way a window of completions moves the limit is
left open (`Recorded`). The floor of a host is a setting without an upper bound,
and `refused` cuts every gap to `CAP_SECONDS`: after a refusal (`turned`, history)
an address owes only the smaller of the two, until it takes its next slot.

### BatchObjects

Rows of `batch_requests` (own fields, link), rows of `batch_objects`, the fleet's
`worker_status` and the task's payload (phase, cursor, counts). `Chunk` is the
transaction of one range (`_OBJECTS`, `_FILL`, `_CLEAR`, `_COUNT`, with locked
rows skipped); `Save` is the checkpoint after it, and `Kill` may come between.
Both writers are there: `WriteOld`, and `WriteLooks`/`WriteCommits` of
`snapshot_specs`, between whose halves the fleet may change. `Start` writes
`last_seen` without the level, so a row of `worker_status` speaks of the image
before until the first `Beat`. `image` is what a host is on and `up` whether its
worker runs. `FallsSilent` is a host not seen for `LIVE`, stopped or running and
cut off, since `behind` reads `last_seen` alone. `there` and `missed` are history:
the rows the last pass began with, and the hosts on the older image that the gate
could not count all the while, because they fell silent or were rolled back.
Moves of the fleet other than to the newer image (a newer worker stops, an older
one restarts, a running one falls silent) are counted (`slips`).

### Submission

`Route` is `run_batched` of a task without work in flight: `route` with the
blocked providers, then `check_fleet_budget`. `WaveAccepted`, `WaveFails` and
`Exhausted` are the answers to a wave in `submit_batches`; `Submitted` is its end
(with the RuntimeError when nothing was accepted), `Move` and `GiveUp` are the
loop of `_submit` after `ProviderExhausted`. `Collect` puts what was carried out
into the ledger and marks providers that refused after all. `bought` and `looked`
are history. One request per wave; prices per request; the chain is the one
`usable` leaves. A task is paid by the fleet, a managed board or a user, and the
ceiling may be 0, which disables it (`Settings`): only the fleet's own tasks ask
(`Affordable`), and all but a user's add to the week's spend. `blocked` is the
result of `blocked_providers`. A mark leaves it when a wave is accepted
(`Submitted`), or by `Age`: a cycle without a refusal, or a task outside the model
that cleared the alert.

## 3. The runs

| Run | Shows | Bounds |
|---|---|---|
| `queue_fleet` | `TypeOK`, `AtMostOneOwner`, `RetryBudget`, `ImplementsLease`, `LostClaimsAreReaped` | 1 threaded task, 2 workers, 2 runs, budget 2, 2 claims |
| `batch_task` | `TypeOK`, `PaidWorkReachable`, `BoughtOnce`, `ReceiptBeforeForget`, `ParkedEnds` when a lost run is a dead one | 2 requests, 2 batches, 1 run at a time, budget 2, 1 SIGTERM |
| `batch_overlap` | `ConsumedOnce` with two runs at once | 2 requests, 2 batches, 2 runs |
| `batch_lost_ids` | violation: a checkpoint drops an id recorded meanwhile | as `batch_overlap` |
| `fanout_parent` | `TypeOK`, `EndedIsComplete`, `WaitingEnds` | 2 units, 3 chunks, 1 parent run at a time, budget 2 |
| `sweeps` | `TypeOK`, `SelectAlone`, `PaidOnce`, `NoneStarves` | 2 workers, 3 cycles, 3 postings (two share a text), cap 1, 1 fault, short passes |
| `sweeps_straddle` | violation: two sweeps select at once | as `sweeps`, a pass may outlive its cycle |
| `sources` | `TypeOK`, `BacklogBounded`, `OffAfterARun`, `DarkIsDropped`, `NeverForgotten` | interval of one (2 h) day, waits of up to 3 h, give-up at 3, 2 pulls at once, 4 rows kept, 1 upset |
| `pacing` | `TypeOK`, `AsksAreSpaced`, `AllEnd` | 2 workers at 2 addresses, one always refused; 2 pulls, 1 chore as heavy as all slots; floor 3, cap 2; 1 mishap |
| `objects` | `TypeOK`, `ReferencePreserved`, `OldImagesCanRead`, `DoneIsComplete`, `GetsDone` | 2 rows of one bundle, equal or not, ranges of 1, 2 workers, 1 mishap, 1 slip |
| `submission` | `TypeOK`, `SentOnce`, `WithinItsCheck`, `ChainsEnd` | 2 tasks of 3 requests, 3 models of 2 providers, 1 crash; ceiling 5 with two tasks of the fleet or one beside a board's, and no ceiling with one beside a user's |
| `submission_stranded` | violation: accepted waves of a failed task | as `submission` |

Why these bounds are enough. Two runs of one task are the least at which one has
lost what the other holds. A budget of 2 has both a requeue and an exhaustion.
Two requests make a collection partial. Three chunks of two units are a split, a
crash between two enqueues, and a second split. Three cycles hold a parked sweep,
a running one and a third that a scheduler is about to insert; a cap of 1 leaves
a near copy of what is in flight to the next sweep. Four rows of one source hold
a success and a whole run of three failures, or such a run and the pull after it,
two of them running beside each other; a wait of 3 hours is what doubling the
interval of 2 is cut to. A floor above the cap is the case in which a refusal
shortens a gap. One slip is what takes one of two hosts out of the gate's sight
while the other depends on it. A chore of the weight of the ceiling is the one that may never
fit; the blocked address and the open one are the two a pull has to change
between. Ranges of one row put every statement and every crash between two rows
of one bundle. Three requests let the first be accepted, the second be refused
and the third fail on the next model; the chain returns to the first provider.

`MaxClaims`, `MaxExits`, `Batches`, `Chunks`, `MaxFaults`, `MaxUpsets`, `MaxPulls`,
`MaxMishaps`, `MaxSlips` and `MaxCrashes` are the only caps; each is in a
guard, so a capped history is a prefix of a longer one. In the liveness
properties a bound on faults says that what goes wrong does so finitely often.
The theorems below have no such bounds. Symmetry is used only in runs without
liveness.

Deadlock checking is off everywhere: a system whose tasks have all ended, or
whose capped counters are used up, is meant to be quiet.

### Fairness

* A stopped worker is started again. The supervisor is outside the repository
  (containers with a restart policy): that `Start` happens is an assumption about it.
* A started worker does housekeeping before its first claim and every 60 s after
  (`api/worker.py`, the main loop), so a row that stays stale is reaped by
  whichever loop comes round, between crashes too: strong fairness of `Reap`
  over all workers. A main-thread handler returns; nothing is assumed of a
  handler in a thread, which may hang for ever.
* The provider ends a batch within its completion window (external), and of the
  reads of an ended batch not all fail: strong fairness of `ReadBatch`.
* `poll_batches` is enqueued by every scheduler pass while none is pending.
* A chunk that is run again and again ends in the end. That its own call of
  `maybe_finalize_parent` happens is not assumed: the sweep alone is enough.
* `VerifySweeps`: the clock runs, every worker polls, a claimable sweep is run,
  and there are moments at which no worker is inside a pass (a pass takes
  milliseconds of the poll interval). No batch has to land.
* `SourcePulls`: the clock runs, the scheduler passes, a claimed pull goes on. A
  board that refuses every pull for ever is excluded by strong fairness of
  `Asked`: such a board is neither answered nor failed, and rightly kept.
* `PullPacing`: time passes, a main thread makes its passes, a task that runs
  ends. Nothing is assumed about which address gets a pull.
* `BatchObjects`: a run is offered by each cycle and goes on. That hosts reach
  the newer image is the hypothesis of `GetsDone`, not an assumption.
* `Submission`: a claimed task runs on, and batches are collected.

Nothing is assumed of crashes, errors, cancellation, SIGTERM or operators.

### What the violations show

Each one holds the code against a sentence of its own documentation.

1. `batch_lost_ids` - `checkpoint` writes back what is left of the ids it read
   before it asked the provider. An id parked in between by a run that had lost
   the task is dropped without a receipt ("Record collected results before their
   provider batches stop being pending.", `api/ai/batch_results.py:110`). It
   needs a worker that is alive but was out of touch with the database for a
   whole heartbeat window: the run the claim guard exists for.
2. `sweeps_straddle` - "so two never select at once" (`scheduling.py:288`): the
   look and the INSERT are two statements and the key is the cycle read before
   both. Two passes on either side of the hour find no sweep and insert under
   different keys. Both sweeps then select what neither has frozen yet, although
   nobody cancelled or retried one. With passes that end in their cycle the
   sentence is a theorem about the sweeps no person stepped into
   (`SweepsSelectAlone`), because the key makes the second insert collide.
3. `submission_stranded` - "Accepted waves are kept whatever happens after them"
   (`tasks/runtime/batching.py:334`): `_submit` catches `ProviderExhausted` and
   nothing else. When the first model accepted some waves and every wave of the
   fallback fails with a plain error, the RuntimeError of `submit_batches` fails
   the task, and nothing resumes a failed one.

Of the smaller deviations that the models contain but no run singles out - a
deferred run and its worker's next claim share a stamp, `_in_flight` is popped by
task id alone, `finish` drops ids it did not look at, a splitter that lost its
claim goes on enqueueing, a cancelled sweep buys on, a refusal cuts a host's
configured floor to `CAP_SECONDS` although its help text calls it "the floor it
never goes under" - each is named where it bites among the `hazards`, with
what still holds.

## 4. The proofs

| Theorem | Module | States |
|---|---|---|
| `TypeCorrect` | `TaskQueueProofs` | `Spec => []TypeOK` |
| `Fencing` | `TaskQueueProofs` | `Spec => []AtMostOneOwner` |
| `BudgetKept` | `TaskQueueProofs` | `Spec => []RetryBudget` |
| `LeaseImplemented` | `TaskQueueProofs` | `Spec => ImplementsLease` |
| `AppliedExactlyOnce`, `BatchTypeOK` | `BatchWorkProofs` | `Spec => []ConsumedOnce`, `[]TypeOK` |
| `PaidWorkStaysReachable`, `RequestsBoughtOnce`, `ReceiptsComeFirst` | `BatchWorkProofs` | `Spec => []PaidWorkReachable`, `[]BoughtOnce`, `ReceiptBeforeForget` when there is one run at a time |
| `EndedStaysComplete` | `ChunkFanoutProofs` | `Spec => []EndedIsComplete` when there is one run of the parent at a time |
| `FanoutTypeOK` | `ChunkFanoutProofs` | `Spec => []TypeOK` |
| `SweepsTypeOK`, `SweepsSelectAlone`, `SweepsPayOnce` | `VerifySweepsProofs` | `Spec => []TypeOK`, `[]SelectAlone`, `[]PaidOnce` when no pass outlives its cycle |
| `PullsTypeOK`, `BacklogStaysBounded`, `SwitchedOffAfterARun` | `SourcePullsProofs` | `Spec => []TypeOK`, `[]BacklogBounded`, `Spec => OffAfterARun` |
| `PacingTypeOK`, `AsksSpaced` | `PullPacingProofs` | `Spec => []TypeOK`, `Spec => AsksAreSpaced` |
| `ObjectsTypeOK`, `ObjectsReferencePreserved`, `ObjectsOldImagesCanRead`, `ObjectsDoneIsComplete` | `BatchObjectsProofs` | `Spec => []` of each invariant of the run `objects` |
| `SubmissionTypeOK`, `RequestsSentOnce`, `PurchasesWithinCheck` | `SubmissionProofs` | `Spec => []TypeOK`, `[]SentOnce`, `[]WithinItsCheck` |

They hold for any sets of tasks, workers, runs, batches, chunks, cycles, postings,
addresses and rows, any budget, chain of models, prices and intervals; the
assumptions are `QueueConstants`, `BatchConstants`, `FanoutConstants`,
`SweepConstants`, `PullConstants`, `PacingConstants`, `ObjectsConstants` and
`SubmissionConstants` (null values are not members, bounds are numbers), which TLC
evaluates on every run. `PacingConstants` also asks that `REFUSED_MIN_SECONDS` is
at most `CAP_SECONDS`, both constants of `api/hosts.py`; of a host's floor nothing
is asked, as the config key has no upper bound.

**The queue.** Fencing is not inductive: attempts are handed back, so a stamp can
recur, and a claim must be shown to produce one that no live run of its worker
carries. `IInv` adds, in the order they are needed: a process that is gone has no
runs (`GoneHasNoRuns`); a live run of a process that may still claim carries a
stamp no greater than its row's (`StampsBelowRow`); of those, only the owner
carries the row's own (`TopStampOwns`), so whoever hands an attempt back is the
owner and leaves nobody above; hence stamps of live runs of one worker are
distinct (`StampsDistinct`). A process that received SIGTERM may have handed
back stamps its threads still carry, but it claims no more, which is why the two
middle invariants speak of processes that are up. For the budget: the owner knows
its row's spent retries (`OwnerKnowsBudget`), and marks are only on failed rows
(`MarkedIsFailed`). The refinement uses `IInv` at every step: the lease's holder
is the set of working runs that pass the guard, which `AtMostOneOwner` makes a
singleton or empty.

**Receipts.** `ReceiptInv` is `ConsumedOnce` with the types of the two tables it
relates; only a consumption touches them both, and it looks at the receipt under
its lock.

**Paid work.** The type invariant needs `Budget`: a pending task has a retry left, a
running or parked one has spent one, a marked one has failed and got its retry
back. That holds for overlapping runs. The other three theorems assume
`Runs = {p}`, a run that lost the task is a dead run, and cannot do without:
`batch_lost_ids` is the counterexample with two. `Pointed` is what anything points
at: the ledger, the payload, the ids the run will return, the batch whose hook has
not run. `Ledger`: those batches exist, no two carry one request, and the run that
submits will not send one of theirs again. It survives `Begin` only because the
run that goes on to submit has nothing to reattach to (`Knows`: a task not yet
done that has paid for work finds `has_batch_work` true), and `Knows` rests on
`checkpointed` never being reset. `Reading` accounts for each id of the payload
while a run reads it: unread, to park on again, in hand, or rejected; so the
checkpoint, which writes back the unfinished ones, forgets only what has a receipt
or no results. `Returned` says that what `repark_if_unfinished` read is still what
the payload holds, so `finish` drops nothing.

**Parents.** `FanoutInv` adds that a parent that waits, or that its chunks ended,
has no run left (`NoRunAfterPark`), and that such an end is final until a retry
reopens it (`EndedStays`). The assumption of one run at a time is needed: the
enqueue loop of a splitter that lost its claim is not fenced. The types, with the
two budgets, need no such assumption: `ChunkBudget` says of every chunk what
`Budget` says of a batched task.

**Sweeps.** `SelectAlone` is not inductive, because two passes may both have found
no sweep. `PassInCycle` and `InsertCollides` say that both then carry the key of
the current cycle, under which every sweep inserted since the look stands as
well: the second INSERT does nothing. With it, what a handler is about to buy is
new (`RowsAreNew`): whoever else is in flight and was not put back has frozen its
requests, so `_in_flight` saw them; a cancelled handler may buy what the next sweep
buys, but leaves flight by its cancellation and no statement of its own brings it
back. `RowsToBuy`, `ParkedHasWork` and `AbsentIsNew` are what those two need of the
rows.

**Pulls.** Both properties count rows, and the rows are renumbered when old ones
are let go of. `BacklogBounded` needs `SlotsHeld`, the bound on running pulls: a
pull is scheduled only while none is pending, so the new one is the only one that
waits. `OffAfterARun` needs `FailingLost`, that a failed or failing row had no
answer, and `CountsHonest`: while no answer has come since a pull counted, the run
it counted is still there, with it. A run loses a row only to an answer, which
marks the count stale, or to `Schedule`, which keeps as many of it as matter
(`Outlived`); an administrator changes no row.

**Pacing.** `Apart` ties the history to the column: the time since an address last
asked, and since it was refused, plus the time until its slot opens is never less
than what it owes: the floor, or after a refusal the smaller of floor and cap
(`Gap`), and `REFUSED_MIN`. `Paced` says a pull that is asking has a gap of at
least that smaller one to double. Since `take` reserves only an open slot, both
times have passed then.

**Consolidation.** `Proved`: a link leads to an object equal to the row. `Gated`:
while any host that was seen all the while is still on the older image, it is
counted as behind, so the task is not past its gate and no row is or is being
written bare; one such host keeps the rows readable for all. `Passed`: what a pass
knows of the rows behind its cursor, saved or about to be.

**Submission.** `SentOnce` rests on `Ahead`: every accepted wave is behind the next
request to send, on whatever model. `WithinItsCheck` is about tasks the ceiling
holds (`Held`: the fleet pays and there is one). It rests on `Covered`, that what
is left to send at this model's price fits beside what was bought, and on
`Accounted`, that `committed` and the waves of this model cover all that was
bought, so that the fallback's check is made with everything accepted before it.

Each inductive invariant was checked by TLC on the bounds of its run before it was
proved. Every invariant and action property of a passing run is a theorem; only
the liveness properties (`LostClaimsAreReaped`, `ParkedEnds`, `WaitingEnds`,
`NoneStarves`, `DarkIsDropped`, `NeverForgotten`, `AllEnd`, `GetsDone`,
`ChainsEnd`) are model-checked alone, because fairness is out of the prover's
reach. `PullWaitHours` enters the theorems about pulls only as a guard: nothing is
proved of what it computes.

## 5. Not modelled, and the plan

In order:

1. Proofs: an abstract specification of paid work (bought, kept, applied once)
   that `BatchWork` implements for runs one at a time.
2. Task admission: the row lock that serialises admission per subject.
3. Page text tiering: `move` and `pull_back` while the rule changes.
4. Mail cursors and the pointers that follow the event and match logs; the
   admission of managed boards; the catalog's availability rule as an operator
   against a reference definition.

Not modelled within modelled parts: the beat of a heartbeat thread that outlives
the five seconds it is joined for; cancellation by kind; the switch between one
slot and several; `_expire_orphans`; pulls and sweeps asked for by a person; the
budgets of single users.

Not planned: HTTP routing, authentication and server-sent events (single
statements around the queue), fetching and parsing of boards (network input),
price tables and the append-only ledger, prompts and verdict texts, the browser
extension, measurement scripts, and object storage itself (external; it appears
as `PayloadUnavailable`). They are most of the repository's lines: routers,
scrapers, page templates and scripts hold little state of their own between two
statements, and their queries over whole tables have no small faithful model.
