---------------------------- MODULE VerifySweeps ----------------------------
(***************************************************************************)
(* The verification sweeps (kind verify_new): the leaderless scheduler     *)
(* that every worker runs on every poll, the sweep's selection of postings *)
(* without a verdict, the reuse of near copies, the purchase, and the      *)
(* recording of answers.                                                   *)
(*                                                                         *)
(* A sweep is named by its dedupe key, the hourly cycle its scheduler read *)
(* at the start of the pass.  A pass is several statements with nothing    *)
(* held between them: the clock, the query for a sweep in flight, the      *)
(* INSERT.  One action is one statement, or one provider call.             *)
(*                                                                         *)
(* The claim protocol is module TaskQueue's and the batches are module     *)
(* BatchWork's: here a run that lost its claim is dead, submission and     *)
(* park are one step, and a posting has one verdict for its two checks.    *)
(* A cancelled sweep's handler goes on, as nothing in it asks.  A sweep    *)
(* asked for by url past the schedule is left out.                         *)
(***************************************************************************)
EXTENDS Integers, FiniteSets

CONSTANTS
    Workers,     \* each runs schedule_ingest_cycle on every poll
    NoCycle,
    Cycles,      \* dedupe keys; one is used again once its sweep is forgotten
    Postings,    \* how many postings; 1 is the freshest
    Texts,
    TextOf(_),   \* near_copy.key: source, title and text without places
    Cap,         \* the config key verify_new_per_cycle
    Straddle,    \* may a pass go on into the next cycle?
    MaxFaults    \* bound: pauses, refusals, bad answers, interruptions, cancels,
                 \* unreadable payloads

Urls == 1 .. Postings

ASSUME SweepConstants ==
    /\ NoCycle \notin Cycles
    /\ Postings \in Nat /\ Cap \in Nat \ {0} /\ Straddle \in BOOLEAN
    /\ MaxFaults \in Nat
    /\ \A u \in Urls : TextOf(u) \in Texts

VARIABLES
    cycle,       \* the bucket `now` falls into
    \* a worker's pass of the scheduler
    phase, bucket,
    \* the sweeps' rows in tasks
    status,
    step,        \* where the sweep's handler is, cancelled or not
    chosen,      \* the handler's rows
    requests,    \* batch_requests of the task
    bought,      \* what the provider accepted of them
    read,        \* receipts consumed
    \* the catalog
    verified,    \* postings with closed and clearance verdicts
    faults,      \* how often something went wrong, up to MaxFaults
    putBack      \* history: the sweeps an operator put back to pending

passVars == <<phase, bucket>>
taskVars == <<status, step, chosen>>
paidVars == <<requests, bought, read>>
vars == <<cycle, passVars, taskVars, paidVars, verified, faults, putBack>>

Active == {"pending", "running", "awaiting_batch"}

(* "unreadable" is a failed sweep with the mark payload_unavailable. *)
Ended == {"done", "failed", "unreadable", "cancelled"}
Steps == {"none", "select", "reuse", "snapshot", "submit", "collect"}

Init ==
    /\ cycle \in Cycles
    /\ phase = [w \in Workers |-> "idle"]
    /\ bucket = [w \in Workers |-> NoCycle]
    /\ status = [t \in Cycles |-> "absent"]
    /\ step = [t \in Cycles |-> "none"]
    /\ chosen = [t \in Cycles |-> {}]
    /\ requests = [t \in Cycles |-> {}]
    /\ bought = [t \in Cycles |-> {}]
    /\ read = [t \in Cycles |-> {}]
    /\ verified = {}
    /\ faults = 0
    /\ putBack = {}

Fault == faults < MaxFaults /\ faults' = faults + 1

-----------------------------------------------------------------------------
(* The scheduler.                                                           *)

(* The clock enters the next cycle.  Its key is new: the row of an ended     *)
(* sweep stands for it again, which nothing but the key's uniqueness reads.  *)
Tick(k) ==
    /\ k # cycle /\ status[k] \in Ended \cup {"absent"} /\ step[k] = "none"
    /\ \A w \in Workers : phase[w] # "idle" => Straddle /\ bucket[w] # k
    /\ cycle' = k
    /\ status' = [status EXCEPT ![k] = "absent"]
    /\ requests' = [requests EXCEPT ![k] = {}]
    /\ bought' = [bought EXCEPT ![k] = {}]
    /\ read' = [read EXCEPT ![k] = {}]
    /\ putBack' = putBack \ {k}
    /\ UNCHANGED <<passVars, step, chosen, verified, faults>>

BeginPass(w) ==
    /\ phase[w] = "idle"
    /\ phase' = [phase EXCEPT ![w] = "look"]
    /\ bucket' = [bucket EXCEPT ![w] = cycle]
    /\ UNCHANGED <<cycle, taskVars, paidVars, verified, faults, putBack>>

EndPass(w) ==
    /\ phase' = [phase EXCEPT ![w] = "idle"]
    /\ bucket' = [bucket EXCEPT ![w] = NoCycle]

(* Mutant: a parked sweep blocks the next one, as it did until 2026-10-08. *)
UnparkedOrParked(t) == status[t] \in {"pending", "running", "awaiting_batch"}

(* An unparked sweep: the statuses the scheduler's query asks for. *)
Unparked(t) == status[t] \in {"pending", "running"}

LookFindsOne(w) ==
    /\ phase[w] = "look"
    /\ \E t \in Cycles : Unparked(t)
    /\ EndPass(w)
    /\ UNCHANGED <<cycle, taskVars, paidVars, verified, faults, putBack>>

(* While AI is paused the pass enqueues nothing. *)
LookPaused(w) ==
    /\ phase[w] = "look" /\ Fault
    /\ EndPass(w)
    /\ UNCHANGED <<cycle, taskVars, paidVars, verified, putBack>>

(* Mutant: the key of the cycle is all that keeps a second sweep out. *)
LookAtNothing(w) ==
    /\ phase[w] = "look"
    /\ phase' = [phase EXCEPT ![w] = "insert"]
    /\ UNCHANGED <<cycle, bucket, taskVars, paidVars, verified, faults, putBack>>

LookFindsNone(w) ==
    /\ phase[w] = "look"
    /\ \A t \in Cycles : ~Unparked(t)
    /\ phase' = [phase EXCEPT ![w] = "insert"]
    /\ UNCHANGED <<cycle, bucket, taskVars, paidVars, verified, faults, putBack>>

(* enqueue: INSERT ... ON CONFLICT (dedupe_key) DO NOTHING. *)
Enqueue(w) ==
    /\ phase[w] = "insert"
    /\ EndPass(w)
    /\ status' = IF status[bucket[w]] = "absent"
                 THEN [status EXCEPT ![bucket[w]] = "pending"] ELSE status
    /\ UNCHANGED <<cycle, step, chosen, paidVars, verified, faults, putBack>>

-----------------------------------------------------------------------------
(* The sweep's handler, handle_verify_new.                                  *)

At(t, s) == step[t] = s

HasBatchWork(t) == bought[t] # {}

Claim(t) ==
    /\ status[t] = "pending"
    /\ status' = [status EXCEPT ![t] = "running"]
    /\ step' = [step EXCEPT ![t] = IF HasBatchWork(t) THEN "collect" ELSE "select"]
    /\ UNCHANGED <<cycle, passVars, chosen, paidVars, verified, faults, putBack>>

(* Mutant: a worker's last word overrides the administrator's. *)
LeaveOverriding(t, s) ==
    /\ status' = [status EXCEPT ![t] = s]
    /\ step' = [step EXCEPT ![t] = "none"]
    /\ chosen' = [chosen EXCEPT ![t] = {}]
    /\ UNCHANGED <<cycle, passVars, putBack>>

(* The handler is over and its locals are gone; the row takes the new status *)
(* unless it was cancelled meanwhile.                                        *)
Leave(t, s) ==
    /\ status' = [status EXCEPT ![t] = IF @ = "running" THEN s ELSE @]
    /\ step' = [step EXCEPT ![t] = "none"]
    /\ chosen' = [chosen EXCEPT ![t] = {}]
    /\ UNCHANGED <<cycle, passVars, putBack>>

GoOn(t, s, rows) ==
    /\ step' = [step EXCEPT ![t] = s]
    /\ chosen' = [chosen EXCEPT ![t] = rows]
    /\ UNCHANGED <<cycle, passVars, status, putBack>>

(* _in_flight: what other sweeps froze for submission and have not settled. *)
InFlight(t) ==
    UNION {requests[s] : s \in {v \in Cycles \ {t} : status[v] \in Active}}

Candidates(t) == {u \in Urls : u \notin verified /\ u \notin InFlight(t)}

(* ORDER BY date_posted DESC LIMIT cap. *)
Freshest(S) == {u \in S : Cardinality({v \in S : v < u}) < Cap}

SelectNothing(t) ==
    /\ At(t, "select") /\ Candidates(t) = {}
    /\ Leave(t, "done")
    /\ UNCHANGED <<paidVars, verified, faults>>

Select(t) ==
    /\ At(t, "select") /\ Candidates(t) # {}
    /\ GoOn(t, "reuse", Freshest(Candidates(t)))
    /\ UNCHANGED <<paidVars, verified, faults>>

(* A candidate whose verified twin is not itself a candidate. *)
Reusable(t) ==
    {u \in chosen[t] : \E v \in verified \ chosen[t] : TextOf(v) = TextOf(u)}

(* The ones still to ask: a text is asked about once, by its freshest        *)
(* posting, and not at all while another sweep is asking.                    *)
ToAsk(t) ==
    {u \in chosen[t] \ Reusable(t) :
        /\ \A v \in InFlight(t) : TextOf(v) # TextOf(u)
        /\ \A v \in chosen[t] : v < u => TextOf(v) # TextOf(u)}

(* _reuse_near_copies: the verdicts of twins are copied at once. *)
ReuseNothingLeft(t) ==
    /\ At(t, "reuse") /\ ToAsk(t) = {}
    /\ verified' = verified \cup Reusable(t)
    /\ Leave(t, "done")
    /\ UNCHANGED <<paidVars, faults>>

Reuse(t) ==
    /\ At(t, "reuse") /\ ToAsk(t) # {}
    /\ verified' = verified \cup Reusable(t)
    /\ GoOn(t, "snapshot", ToAsk(t))
    /\ UNCHANGED <<paidVars, faults>>

(* Mutant: the requests are sent without being frozen first. *)
SnapshotNothing(t) ==
    /\ At(t, "snapshot")
    /\ GoOn(t, "submit", chosen[t])
    /\ UNCHANGED <<requests, bought, read, verified, faults>>

(* snapshot_specs: rows of an earlier try of this task stay. *)
Snapshot(t) ==
    /\ At(t, "snapshot")
    /\ requests' = [requests EXCEPT ![t] = @ \cup chosen[t]]
    /\ GoOn(t, "submit", chosen[t])
    /\ UNCHANGED <<bought, read, verified, faults>>

(* submit_or_collect: accepted, and parked on it; the park of a cancelled    *)
(* sweep is refused.                                                         *)
Submit(t) ==
    /\ At(t, "submit")
    /\ bought' = [bought EXCEPT ![t] = chosen[t]]
    /\ Leave(t, "awaiting_batch")
    /\ UNCHANGED <<requests, read, verified, faults>>

(* The AI switch ends the task; the ceiling, a provider without credit or    *)
(* any other error before acceptance fails it.                               *)
NotBought(t) ==
    /\ At(t, "submit") /\ Fault
    /\ \E s \in {"done", "failed"} : Leave(t, s)
    /\ UNCHANGED <<paidVars, verified>>

(* poll_batches resumes the sweep once its batches landed. *)
Land(t) ==
    /\ status[t] = "awaiting_batch"
    /\ status' = [status EXCEPT ![t] = "pending"]
    /\ UNCHANGED <<cycle, passVars, step, chosen, paidVars, verified, faults, putBack>>

Receive(t, u) ==
    /\ At(t, "collect") /\ u \in bought[t] \ read[t]
    /\ read' = [read EXCEPT ![t] = @ \cup {u}]
    /\ UNCHANGED <<cycle, passVars, taskVars, requests, bought, putBack>>

(* _record_result: a verdict settled meanwhile takes precedence. *)
Consume(t, u) ==
    /\ Receive(t, u)
    /\ verified' = verified \cup {u}
    /\ UNCHANGED faults

(* A failed or unparsable line leaves no verdict. *)
ConsumeBad(t, u) ==
    /\ Receive(t, u) /\ Fault
    /\ UNCHANGED verified

Finish(t) ==
    /\ At(t, "collect") /\ bought[t] = read[t]
    /\ Leave(t, "done")
    /\ UNCHANGED <<paidVars, verified, faults>>

(* The worker died, or the host ran short: back to pending, or failed past   *)
(* the retry budget (module TaskQueue).                                      *)
Interrupted(t) ==
    /\ step[t] # "none" /\ Fault
    /\ \E s \in {"pending", "failed"} : Leave(t, s)
    /\ UNCHANGED <<paidVars, verified>>

(* PayloadUnavailable: a page text, a frozen request or a response cannot be *)
(* read from object storage, or a snapshot not written to it.                *)
Unreadable(t) ==
    /\ step[t] \in {"select", "snapshot", "submit", "collect"} /\ Fault
    /\ Leave(t, "unreadable")
    /\ UNCHANGED <<paidVars, verified>>

(* payload_recovery.retry, once the payloads can be read: it asks about no   *)
(* other sweep.                                                              *)
RetryPayload(t) ==
    /\ status[t] = "unreadable"
    /\ status' = [status EXCEPT ![t] = "pending"]
    /\ putBack' = putBack \cup {t}
    /\ UNCHANGED <<cycle, passVars, step, chosen, paidVars, verified, faults>>

(* queue.cancel sets the status; a handler that is running goes on. *)
Cancel(t) ==
    /\ status[t] \in Active /\ Fault
    /\ status' = [status EXCEPT ![t] = "cancelled"]
    /\ UNCHANGED <<cycle, passVars, step, chosen, paidVars, verified, putBack>>

-----------------------------------------------------------------------------
Pass(w) == BeginPass(w) \/ LookFindsOne(w) \/ LookFindsNone(w) \/ Enqueue(w)

Sweep(t) ==
    \/ Claim(t) \/ SelectNothing(t) \/ Select(t)
    \/ ReuseNothingLeft(t) \/ Reuse(t) \/ Snapshot(t) \/ Submit(t)
    \/ (\E u \in Urls : Consume(t, u)) \/ Finish(t)

Mishap(t) ==
    \/ NotBought(t) \/ (\E u \in Urls : ConsumeBad(t, u)) \/ Interrupted(t)
    \/ Unreadable(t) \/ RetryPayload(t) \/ Cancel(t)

Next ==
    \/ \E k \in Cycles : Tick(k)
    \/ \E w \in Workers : Pass(w) \/ LookPaused(w)
    \/ \E t \in Cycles : Sweep(t) \/ Land(t) \/ Mishap(t)

Spec == Init /\ [][Next]_vars

(* The clock runs, every worker polls, and a claimable sweep is run; between *)
(* polls there are moments without a pass.  What goes wrong does so at most  *)
(* MaxFaults times.  No batch has to land.                                   *)
Fairness ==
    /\ []<>(\A w \in Workers : phase[w] = "idle")
    /\ SF_vars(\E k \in Cycles : Tick(k))
    /\ \A w \in Workers : WF_vars(Pass(w))
    /\ \A t \in Cycles : WF_vars(Sweep(t))

FairSpec == Spec /\ Fairness

-----------------------------------------------------------------------------
(* Type correctness. *)
TypeOK ==
    /\ cycle \in Cycles
    /\ phase \in [Workers -> {"idle", "look", "insert"}]
    /\ bucket \in [Workers -> Cycles \cup {NoCycle}]
    /\ \A w \in Workers : bucket[w] = NoCycle <=> phase[w] = "idle"
    /\ status \in [Cycles -> Active \cup Ended \cup {"absent"}]
    /\ step \in [Cycles -> Steps]
    /\ \A t \in Cycles : status[t] = "running" => step[t] # "none"
    /\ \A t \in Cycles : step[t] # "none" => status[t] \in {"running", "cancelled"}
    /\ chosen \in [Cycles -> SUBSET Urls]
    /\ requests \in [Cycles -> SUBSET Urls]
    /\ bought \in [Cycles -> SUBSET Urls]
    /\ read \in [Cycles -> SUBSET Urls]
    /\ \A t \in Cycles : read[t] \subseteq bought[t] /\ bought[t] \subseteq requests[t]
    /\ verified \subseteq Urls
    /\ faults \in 0 .. MaxFaults
    /\ putBack \subseteq Cycles

(* A sweep that selects postings or will: unparked, with nothing bought, or  *)
(* cancelled with its handler still short of the purchase.                   *)
WillSelect(t) ==
    /\ ~HasBatchWork(t)
    /\ Unparked(t) \/ step[t] \notin {"none", "collect"}

(* A person stepped in: cancelled the sweep, or put it back after a failure. *)
Overruled(t) == status[t] = "cancelled" \/ t \in putBack

(* scheduling.py: "Only an unparked sweep (pending, running, waiting) does,  *)
(* so two never select at once."  It needs every pass to end in the cycle    *)
(* it began in, and fails of a sweep a person cancelled or put back: of two  *)
(* that select at once, one is such a sweep.                                 *)
SelectAlone ==
    \A s, t \in Cycles :
        WillSelect(s) /\ WillSelect(t) => s = t \/ Overruled(s) \/ Overruled(t)

(* No text is paid for twice while a sweep that paid for it is in flight:    *)
(* neither the posting itself nor a near copy of it is asked about again,    *)
(* although the next sweep runs beside one that is parked, lands late, is    *)
(* interrupted and tried again, or was cancelled and buys all the same       *)
(* (_in_flight, _reuse_near_copies).  Only a sweep put back by an operator   *)
(* can pay again for what another asks.                                      *)
PaidOnce ==
    \A s, t \in Cycles :
        /\ status[s] \in Active /\ s \notin putBack
        /\ status[t] \in Active /\ t \notin putBack
        => \A u \in bought[s], v \in bought[t] :
               TextOf(u) = TextOf(v) => s = t /\ u = v

AskedAbout(u) ==
    \E t \in Cycles : status[t] \in Active /\ \E v \in requests[t] : TextOf(u) = TextOf(v)

(* A parked sweep does not block the next one: "a straggling batch held the  *)
(* only sweep for 15 hours on 2026-10-08, and no new posting reached a board *)
(* in that time".  A posting never stays without a verdict and without a     *)
(* sweep asking about its text, though no batch ever lands.                  *)
NoneStarves == \A u \in Urls : []<>(u \in verified \/ AskedAbout(u))
=============================================================================
