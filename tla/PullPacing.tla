----------------------------- MODULE PullPacing -----------------------------
(***************************************************************************)
(* What a worker may claim, and when: the budget of a host for each egress *)
(* address, shared by the workers behind it (api.hosts), and the slots of  *)
(* a worker that runs several tasks at once under an adaptive limit        *)
(* (worker._Slots).                                                        *)
(*                                                                         *)
(* A pull runs in a thread of its own beside others; a chore is a task of  *)
(* any other kind, runs on the worker's main thread and may cost several   *)
(* slots.  All pulls are of one host.  Time is discrete: every deadline is *)
(* the time left until it.  Claims are not lost here (module TaskQueue),   *)
(* and what a pull that failed means for its source is module SourcePulls'.*)
(***************************************************************************)
EXTENDS Integers, FiniteSets

CONSTANTS
    Workers, NoWorker,
    Addresses,
    AddressOf(_),    \* a worker's egress group
    Pulls, Chores,   \* tasks, numbered in the order of CLAIM_ORDER
    Weight(_),       \* worker_task_weights; a pull's is 1
    Ceiling,         \* _task_ceiling
    Floor,           \* the host's entry of ingest_host_pace_seconds, or 0
    RefusedMin,      \* REFUSED_MIN_SECONDS
    Cap,             \* CAP_SECONDS
    Requeue,         \* REQUEUE_SECONDS
    Blocked,         \* addresses the host always refuses
    MaxMishaps       \* bound: refusals of the others, and a host run short

Tasks == Pulls \cup Chores

(* CAP_SECONDS and REFUSED_MIN_SECONDS are the code's; the floor is            *)
(* configured, and may be above either.                                       *)
ASSUME PacingConstants ==
    /\ Pulls \cup Chores \subseteq Nat /\ Pulls \cap Chores = {}
    /\ NoWorker \notin Workers
    /\ \A w \in Workers : AddressOf(w) \in Addresses
    /\ \A t \in Tasks : Weight(t) \in Nat \ {0}
    /\ Blocked \subseteq Addresses
    /\ Ceiling \in Nat \ {0}
    /\ {Floor, RefusedMin, Cap, Requeue, MaxMishaps} \subseteq Nat
    /\ RefusedMin <= Cap

VARIABLES
    \* rows of tasks
    status, runBy,
    notBefore,
    stage,           \* how far the run of a task is
    \* rows of host_budget
    pace,
    opens,           \* next_allowed_at
    \* history: time since the address last took a slot, and was refused;
    \* whether it was refused since it took one
    rested, quiet, turned,
    \* a worker's slots
    limit, held,
    ended,           \* threads done with their row, not yet seen by step
    mishaps

taskVars == <<status, runBy, notBefore, stage>>
hostVars == <<pace, opens, rested, quiet, turned>>
slotVars == <<limit, held, ended>>
vars == <<taskVars, hostVars, slotVars, mishaps>>

Larger(a, b) == IF a > b THEN a ELSE b
Smaller(a, b) == IF a < b THEN a ELSE b
Widest == Larger(Cap, Floor)
Longest == Larger(Widest, Requeue)

Init ==
    /\ status = [t \in Tasks |-> "pending"]
    /\ runBy = [t \in Tasks |-> NoWorker]
    /\ notBefore = [t \in Tasks |-> 0]
    /\ stage = [t \in Tasks |-> "none"]
    /\ pace = [a \in Addresses |-> 0]
    /\ opens = [a \in Addresses |-> 0]
    /\ rested = [a \in Addresses |-> Floor]
    /\ quiet = [a \in Addresses |-> RefusedMin]
    /\ turned = [a \in Addresses |-> FALSE]
    /\ limit = [w \in Workers |-> Ceiling]
    /\ held = [w \in Workers |-> {}]
    /\ ended = [w \in Workers |-> {}]
    /\ mishaps = 0

Mishap == mishaps < MaxMishaps /\ mishaps' = mishaps + 1

Down(f, S) == [x \in S |-> Larger(f[x] - 1, 0)]
Up(f, S, top) == [x \in S |-> Smaller(f[x] + 1, top)]

(* claim_task's WHERE, for the worker's address. *)
Claimable(w, t) ==
    /\ status[t] = "pending" /\ notBefore[t] = 0
    /\ t \in Pulls => opens[AddressOf(w)] = 0

(* Every held task is a pull, of weight 1. *)
Room(w) == limit[w] - Cardinality(held[w])

(* Mutant: the kinds that do not fit the limit are left out whatever is held. *)
FitsTheLimit(w, t) == Weight(t) <= Room(w)

Fits(w, t) == held[w] = {} \/ Weight(t) <= Room(w)

MainIsFree(w) == \A t \in Chores : runBy[t] # w

MayClaim(w, t) == MainIsFree(w) /\ Claimable(w, t) /\ Fits(w, t)

(* The unit is POLL_SECONDS: a worker that could claim has polled before it  *)
(* is over.                                                                  *)
Tick ==
    /\ \A w \in Workers, t \in Tasks : ~MayClaim(w, t)
    /\ notBefore' = Down(notBefore, Tasks)
    /\ opens' = Down(opens, Addresses)
    /\ rested' = Up(rested, Addresses, Floor)
    /\ quiet' = Up(quiet, Addresses, RefusedMin)
    /\ UNCHANGED <<status, runBy, stage, pace, turned, slotVars, mishaps>>

-----------------------------------------------------------------------------
(* The slots: _Slots.step on the worker's main thread.                      *)

(* AdaptiveLimiter.record.  Whether a window of completions came faster or   *)
(* slower than the last is left open.                                        *)
Recorded(n) == {n, Smaller(Ceiling, n + 1), Larger(1, n - 1)}

(* Mutant: the halving has no floor. *)
HalvedToNone(n) == n \div 2

Halved(n) == Larger(1, n \div 2)

(* One entry of the queue: a thread's finally has put its end there.  When   *)
(* that is, is open, so a claim may come first; the entry names the task     *)
(* and not the run, so it drops the slot of a later run of that task too.    *)
(* Two ends of one task that are both unseen count as one.                   *)
Drain(w, t, exhausted) ==
    /\ MainIsFree(w) /\ <<t, exhausted>> \in ended[w]
    /\ ended' = [ended EXCEPT ![w] = @ \ {<<t, exhausted>>}]
    /\ held' = [held EXCEPT ![w] = @ \ {t}]
    /\ \E n \in IF exhausted THEN {Halved(limit[w])} ELSE Recorded(limit[w]) :
          limit' = [limit EXCEPT ![w] = n]
    /\ UNCHANGED <<taskVars, hostVars, mishaps>>

(* Less than the reserve is free: the pass ends without a claim. *)
MemoryShort(w) ==
    /\ MainIsFree(w) /\ held[w] # {} /\ Mishap
    /\ limit' = [limit EXCEPT ![w] = Halved(@)]
    /\ UNCHANGED <<taskVars, hostVars, held, ended>>

Oldest(w, t) == \A s \in Tasks : Claimable(w, s) /\ Fits(w, s) => t <= s

Claim(w, t) ==
    /\ MayClaim(w, t) /\ Oldest(w, t)
    /\ status' = [status EXCEPT ![t] = "running"]
    /\ runBy' = [runBy EXCEPT ![t] = w]
    /\ stage' = [stage EXCEPT ![t] = "claimed"]
    /\ held' = IF t \in Pulls THEN [held EXCEPT ![w] = @ \cup {t}] ELSE held
    /\ UNCHANGED <<notBefore, hostVars, limit, ended, mishaps>>

(* run_task of a chore returns, on the main thread. *)
ChoreEnds(t) ==
    /\ t \in Chores /\ status[t] = "running"
    /\ status' = [status EXCEPT ![t] = "done"]
    /\ runBy' = [runBy EXCEPT ![t] = NoWorker]
    /\ stage' = [stage EXCEPT ![t] = "none"]
    /\ \E n \in Recorded(limit[runBy[t]]) : limit' = [limit EXCEPT ![runBy[t]] = n]
    /\ UNCHANGED <<notBefore, hostVars, held, ended, mishaps>>

-----------------------------------------------------------------------------
(* A pull in its thread, and the budget of its host.                        *)

AddressFor(t) == AddressOf(runBy[t])
At(t, s) == t \in Pulls /\ stage[t] = s

(* run_task settles the row; its thread has an end to report. *)
Leave(t, s, wait, exhausted) ==
    /\ status' = [status EXCEPT ![t] = s]
    /\ runBy' = [runBy EXCEPT ![t] = NoWorker]
    /\ notBefore' = [notBefore EXCEPT ![t] = wait]
    /\ stage' = [stage EXCEPT ![t] = "none"]
    /\ ended' = [ended EXCEPT ![runBy[t]] = @ \cup {<<t, exhausted>>}]
    /\ UNCHANGED <<limit, held>>

(* The UPDATE of take that reserves the slot. *)
Reserve(t, a, gap) ==
    /\ At(t, "claimed")
    /\ pace' = [pace EXCEPT ![a] = gap]
    /\ opens' = [opens EXCEPT ![a] = gap]
    /\ rested' = [rested EXCEPT ![a] = 0] /\ turned' = [turned EXCEPT ![a] = FALSE]
    /\ stage' = [stage EXCEPT ![t] = "asking"]
    /\ UNCHANGED <<status, runBy, notBefore, quiet, slotVars, mishaps>>

(* Mutant: the claim's look at the slot is all there is. *)
TakeUnchecked(t) ==
    Reserve(t, AddressFor(t), Larger(pace[AddressFor(t)], Floor))

(* hosts.take: the slot is reserved ... *)
Take(t) ==
    /\ opens[AddressFor(t)] = 0
    /\ Reserve(t, AddressFor(t), Larger(pace[AddressFor(t)], Floor))

(* ... or was taken since the claim looked: Deferred until it opens. *)
TooLate(t) ==
    LET a == AddressFor(t)
    IN  /\ At(t, "claimed") /\ opens[a] > 0
        /\ pace' = [pace EXCEPT ![a] = Larger(@, Floor)]
        /\ Leave(t, "pending", opens[a], FALSE)
        /\ UNCHANGED <<opens, rested, quiet, turned, mishaps>>

(* hosts.refused, and Deferred(soon): the gap doubles for this address, the  *)
(* pull is free for another.                                                 *)
Refused(t) ==
    LET a == AddressFor(t)
        gap == Smaller(Cap, Larger(pace[a] * 2, RefusedMin))
    IN  /\ At(t, "asking")
        /\ IF a \in Blocked THEN UNCHANGED mishaps ELSE Mishap
        /\ pace' = [pace EXCEPT ![a] = gap]
        /\ opens' = [opens EXCEPT ![a] = gap]
        /\ quiet' = [quiet EXCEPT ![a] = 0] /\ turned' = [turned EXCEPT ![a] = TRUE]
        /\ Leave(t, "pending", Requeue, FALSE)
        /\ UNCHANGED rested

(* hosts.succeeded: a tenth of the gap is given back, down to the floor. *)
Answered(t) ==
    LET a == AddressFor(t)
    IN  /\ At(t, "asking") /\ a \notin Blocked
        /\ pace' = [pace EXCEPT ![a] = Larger(Floor, (@ * 9) \div 10)]
        /\ Leave(t, "done", 0, FALSE)
        /\ UNCHANGED <<opens, rested, quiet, turned, mishaps>>

(* The worker ran out of memory or threads: back to pending at once. *)
RanShort(t) ==
    /\ At(t, "asking") /\ Mishap
    /\ Leave(t, "pending", 0, TRUE)
    /\ UNCHANGED hostVars

-----------------------------------------------------------------------------
Step(w) == \E t \in Tasks : Claim(w, t) \/ \E x \in BOOLEAN : Drain(w, t, x)
Thread(t) == Take(t) \/ TooLate(t) \/ Refused(t) \/ Answered(t) \/ RanShort(t)

Next ==
    \/ Tick
    \/ \E w \in Workers : Step(w) \/ MemoryShort(w)
    \/ \E t \in Tasks : ChoreEnds(t) \/ Thread(t)

(* Time passes, a main thread makes its passes, and a task that runs ends:   *)
(* asked by a blocked address, in a refusal.                                 *)
Fairness ==
    /\ WF_vars(Tick)
    /\ \A w \in Workers : WF_vars(Step(w))
    /\ \A t \in Tasks : WF_vars(ChoreEnds(t) \/ Thread(t))

Spec == Init /\ [][Next]_vars
FairSpec == Spec /\ Fairness

-----------------------------------------------------------------------------
(* Every column holds a value its writers may leave there; a task runs under *)
(* exactly one worker, and a worker's limit never leaves 1 .. _task_ceiling. *)
TypeOK ==
    /\ status \in [Tasks -> {"pending", "running", "done"}]
    /\ runBy \in [Tasks -> Workers \cup {NoWorker}]
    /\ \A t \in Tasks : status[t] = "running" <=> runBy[t] # NoWorker
    /\ notBefore \in [Tasks -> 0 .. Longest]
    /\ stage \in [Tasks -> {"none", "claimed", "asking"}]
    /\ \A t \in Tasks : stage[t] = "none" <=> runBy[t] = NoWorker
    /\ pace \in [Addresses -> 0 .. Widest]
    /\ opens \in [Addresses -> 0 .. Widest]
    /\ rested \in [Addresses -> 0 .. Floor]
    /\ quiet \in [Addresses -> 0 .. RefusedMin] /\ turned \in [Addresses -> BOOLEAN]
    /\ limit \in [Workers -> 1 .. Ceiling]
    /\ held \in [Workers -> SUBSET Pulls]
    /\ ended \in [Workers -> SUBSET (Pulls \X BOOLEAN)]
    /\ mishaps \in 0 .. MaxMishaps

(* However many pulls were claimed while the slot was open, an address asks  *)
(* the host only when its floor has passed since it last asked and           *)
(* REFUSED_MIN since it was last refused: hosts.take decides in one UPDATE,  *)
(* whatever the claim saw, and hosts.refused moves the slot for those still  *)
(* on their way to it.  Only a refusal may bring the next question nearer    *)
(* than a floor above CAP, and never nearer than CAP.                        *)
AsksAreSpaced ==
    [][\A t \in Pulls : At(t, "claimed") /\ stage'[t] = "asking" =>
          LET a == AddressFor(t)
          IN  /\ rested[a] >= IF turned[a] THEN Smaller(Floor, Cap) ELSE Floor
              /\ quiet[a] >= RefusedMin]_vars

(* Every task ends: a pull that one address is always refused is carried out *)
(* by another, because a refusal closes the address for longer than the pull *)
(* waits (soon), and a kind heavier than the limit is claimed by a worker    *)
(* that holds nothing (_Slots.step).                                         *)
AllEnd == <>(\A t \in Tasks : status[t] = "done")
=============================================================================
