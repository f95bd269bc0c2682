----------------------------- MODULE Submission -----------------------------
(***************************************************************************)
(* How a batched task buys its requests: the model routing chooses, the    *)
(* fleet's weekly ceiling, the waves a provider accepts or refuses, and    *)
(* the fallback chain that takes what a provider without credit leaves     *)
(* over (run_batched, _submit, submit_batches, model_fallback, budget).    *)
(*                                                                         *)
(* A wave carries one request; a task's requests are 1 .. Requests, sent   *)
(* in that order.  The provider's answer is open.  Prices are per request  *)
(* and exact.  A task is paid by the fleet, a managed board or a user; the *)
(* ceiling stays as configured.  Collection is one step, and what can go   *)
(* wrong between a wave and its receipt is module BatchWork's.             *)
(***************************************************************************)
EXTENDS Integers, Sequences, FiniteSets

CONSTANTS
    Jobs,            \* tasks that submit
    Requests,
    Models,
    Primary,         \* what resolve chooses
    Chain,           \* the purpose's usable fallback chain
    Providers, ProviderOf(_),
    Price(_),
    Settings,        \* the ceilings and payers there may be, as <<ceiling, payer>>
    MaxCrashes       \* bound: workers that die while they submit

ASSUME SubmissionConstants ==
    /\ Requests \in Nat \ {0}
    /\ Primary \in Models
    /\ Chain \in Seq(Models)
    /\ \A m \in Models : ProviderOf(m) \in Providers /\ Price(m) \in Nat
    /\ Settings \subseteq Nat \X [Jobs -> {"fleet", "board", "user"}]
    /\ MaxCrashes \in Nat

VARIABLES
    ceiling, payer,  \* fleet_weekly_cycles in dollars, 0 for none; who pays a task
    pc,
    model,           \* what the waves are sent to
    next,            \* the request of the next wave
    since,           \* the first request of this submission
    got,             \* how many of its waves were accepted
    tried,
    committed,
    waves,           \* accepted: the ids in the payload, as request and model
    \* the ledger, and the providers with an open provider_exhausted alert
    \* that was seen within the last scheduler cycle
    spent, blocked, crashes,
    \* history: the price of the waves in flight, and the ledger at the last check
    bought, looked

sendVars == <<model, next, since, got, tried, committed>>
payVars == <<waves, bought>>
settingVars == <<ceiling, payer>>
vars == <<settingVars, pc, sendVars, payVars, blocked, crashes, spent, looked>>

Init ==
    /\ \E s \in Settings : ceiling = s[1] /\ payer = s[2]
    /\ pc = [j \in Jobs |-> "idle"]
    /\ model = [j \in Jobs |-> Primary]
    /\ next = [j \in Jobs |-> 1] /\ since = [j \in Jobs |-> 1]
    /\ got = [j \in Jobs |-> 0]
    /\ tried = [j \in Jobs |-> {}]
    /\ committed = [j \in Jobs |-> 0]
    /\ waves = [j \in Jobs |-> {}] /\ bought = [j \in Jobs |-> 0]
    /\ spent = 0 /\ looked = [j \in Jobs |-> 0]
    /\ blocked = {} /\ crashes = 0

(* The run is over: its locals are gone. *)
Leave(j, s) ==
    /\ pc' = [pc EXCEPT ![j] = s]
    /\ model' = [model EXCEPT ![j] = Primary]
    /\ next' = [next EXCEPT ![j] = 1] /\ since' = [since EXCEPT ![j] = 1]
    /\ got' = [got EXCEPT ![j] = 0]
    /\ tried' = [tried EXCEPT ![j] = {}]
    /\ committed' = [committed EXCEPT ![j] = 0]

Left(j) == Requests + 1 - next[j]

-----------------------------------------------------------------------------
(* Routing and the ceiling.                                                 *)

(* Mutant: next_choice looks at the providers only. *)
EligibleAgain(m, used, out) == ProviderOf(m) \notin out

Eligible(m, used, out) == m \notin used /\ ProviderOf(m) \notin out

(* next_for: the first chain entry that can run, if there is one. *)
NextFor(used, out) ==
    {Chain[i] : i \in {k \in 1 .. Len(Chain) :
        /\ Eligible(Chain[k], used, out)
        /\ \A l \in 1 .. k - 1 : ~Eligible(Chain[l], used, out)}}

(* route: the chain when the chosen provider is out of credit, and the       *)
(* chosen model when nothing in it can run.                                  *)
Routed ==
    IF ProviderOf(Primary) \in blocked /\ NextFor({Primary}, blocked) # {}
    THEN NextFor({Primary}, blocked) ELSE {Primary}

(* check_fleet_budget, asked for the fleet's own tasks; no ceiling, no check. *)
Affordable(j, projected) ==
    \/ payer[j] # "fleet" \/ ceiling = 0
    \/ spent + projected <= ceiling /\ spent < ceiling

(* run_batched of a task without work in flight. *)
Route(j, m) ==
    /\ pc[j] = "idle" /\ waves[j] = {}
    /\ m \in Routed
    /\ looked' = [looked EXCEPT ![j] = spent]
    /\ IF Affordable(j, Price(m) * Requests)
       THEN /\ pc' = [pc EXCEPT ![j] = "sending"]
            /\ model' = [model EXCEPT ![j] = m]
            /\ tried' = [tried EXCEPT ![j] = {m}]
            /\ UNCHANGED <<next, since, got, committed>>
       ELSE Leave(j, "failed")
    /\ UNCHANGED <<payVars, blocked, crashes, spent>>

-----------------------------------------------------------------------------
(* submit_batches, a wave at a time.                                        *)

(* The hook records the id in the payload. *)
WaveAccepted(j) ==
    /\ pc[j] = "sending" /\ Left(j) > 0
    /\ waves' = [waves EXCEPT ![j] = @ \cup {<<next[j], model[j]>>}]
    /\ bought' = [bought EXCEPT ![j] = @ + Price(model[j])]
    /\ next' = [next EXCEPT ![j] = @ + 1]
    /\ got' = [got EXCEPT ![j] = @ + 1]
    /\ UNCHANGED <<pc, model, since, tried, committed, blocked, crashes, spent, looked>>

(* An error that is not exhaustion: the request falls to the next sweep. *)
WaveFails(j) ==
    /\ pc[j] = "sending" /\ Left(j) > 0
    /\ next' = [next EXCEPT ![j] = @ + 1]
    /\ UNCHANGED <<pc, model, since, got, tried, committed, payVars, blocked, crashes, spent, looked>>

(* Mutant: the slice of what was never sent begins one wave early. *)
UnsubmittedOneEarly(j) == IF next[j] > since[j] THEN next[j] - 1 ELSE next[j]

(* The first request of ProviderExhausted.unsubmitted. *)
Unsubmitted(j) == next[j]

(* Mutant: what was accepted before the refusal is forgotten. *)
CommittedToNothing(j) == 0

Committed(j) ==
    IF got[j] > 0 THEN committed[j] + Price(model[j]) * (next[j] - since[j]) ELSE committed[j]

(* ProviderExhausted: the provider is marked, the accepted waves are kept. *)
Exhausted(j) ==
    /\ pc[j] = "sending" /\ Left(j) > 0
    /\ blocked' = blocked \cup {ProviderOf(model[j])}
    /\ committed' = [committed EXCEPT ![j] = Committed(j)]
    /\ next' = [next EXCEPT ![j] = Unsubmitted(j)]
    /\ pc' = [pc EXCEPT ![j] = "moving"]
    /\ UNCHANGED <<model, since, got, tried, payVars, crashes, spent, looked>>

(* Every wave was tried.  One accepted clears the provider's mark and parks  *)
(* the task; none raises the last refusal.                                   *)
Submitted(j) ==
    /\ pc[j] = "sending" /\ Left(j) = 0
    /\ IF got[j] > 0
       THEN /\ blocked' = blocked \ {ProviderOf(model[j])}
            /\ Leave(j, "parked")
       ELSE UNCHANGED blocked /\ Leave(j, "failed")
    /\ UNCHANGED <<payVars, crashes, spent, looked>>

-----------------------------------------------------------------------------
(* _submit after a refusal.                                                 *)

Further(j) == NextFor(tried[j], blocked \cup {ProviderOf(model[j])})

(* Nothing further can run, or not within the ceiling. *)
GiveUp(j) ==
    /\ pc[j] = "moving"
    /\ \A m \in Further(j) : ~Affordable(j, committed[j] + Price(m) * Left(j))
    /\ Leave(j, IF waves[j] # {} THEN "parked" ELSE "failed")
    /\ UNCHANGED <<payVars, blocked, crashes, spent, looked>>

(* Mutant: the waves of the model before count as this one's. *)
MoveKeepsGot(j, m) ==
    /\ pc[j] = "moving" /\ m \in Further(j)
    /\ Affordable(j, committed[j] + Price(m) * Left(j))
    /\ looked' = [looked EXCEPT ![j] = spent]
    /\ pc' = [pc EXCEPT ![j] = "sending"]
    /\ model' = [model EXCEPT ![j] = m]
    /\ tried' = [tried EXCEPT ![j] = @ \cup {m}]
    /\ since' = [since EXCEPT ![j] = next[j]]
    /\ UNCHANGED <<next, got, committed, payVars, blocked, crashes, spent>>

(* The next model takes what is left, within the ceiling. *)
Move(j, m) ==
    /\ pc[j] = "moving" /\ m \in Further(j)
    /\ Affordable(j, committed[j] + Price(m) * Left(j))
    /\ looked' = [looked EXCEPT ![j] = spent]
    /\ pc' = [pc EXCEPT ![j] = "sending"]
    /\ model' = [model EXCEPT ![j] = m]
    /\ tried' = [tried EXCEPT ![j] = @ \cup {m}]
    /\ since' = [since EXCEPT ![j] = next[j]]
    /\ got' = [got EXCEPT ![j] = 0]
    /\ UNCHANGED <<next, committed, payVars, blocked, crashes, spent>>

-----------------------------------------------------------------------------
(* The worker dies; the task is claimed again, and one with ids collects.   *)
Crash(j) ==
    /\ pc[j] \in {"sending", "moving"} /\ crashes < MaxCrashes
    /\ crashes' = crashes + 1
    /\ Leave(j, IF waves[j] # {} THEN "parked" ELSE "idle")
    /\ UNCHANGED <<settingVars, payVars, blocked, spent, looked>>

(* The batches land: what was carried out enters the ledger, the fleet's     *)
(* week unless a user pays (fleet_spend_this_week), the ids leave the        *)
(* payload, and a provider that refused some of it after all for want of     *)
(* credit is marked (_mark_exhausted_results).                               *)
Collect(j, refused, cost) ==
    /\ pc[j] = "parked"
    /\ refused \subseteq {ProviderOf(v[2]) : v \in waves[j]}
    /\ cost <= bought[j] /\ (refused = {} => cost = bought[j])
    /\ blocked' = blocked \cup refused
    /\ spent' = IF payer[j] = "user" THEN spent ELSE spent + cost
    /\ bought' = [bought EXCEPT ![j] = 0] /\ looked' = [looked EXCEPT ![j] = 0]
    /\ waves' = [waves EXCEPT ![j] = {}]
    /\ pc' = [pc EXCEPT ![j] = "done"]
    /\ UNCHANGED <<sendVars, crashes>>

(* A scheduler cycle has passed since the provider's last refusal, or some   *)
(* other task cleared its alert.                                             *)
Age(p) ==
    /\ p \in blocked
    /\ blocked' = blocked \ {p}
    /\ UNCHANGED <<settingVars, pc, sendVars, payVars, crashes, spent, looked>>

Submit(j) ==
    /\ \/ WaveAccepted(j) \/ WaveFails(j) \/ Exhausted(j) \/ Submitted(j)
       \/ GiveUp(j)
       \/ \E refused \in SUBSET Providers, cost \in 0 .. bought[j] : Collect(j, refused, cost)
       \/ \E m \in Models : Route(j, m) \/ Move(j, m)
    /\ UNCHANGED settingVars

Next ==
    \/ \E j \in Jobs : Submit(j) \/ Crash(j)
    \/ \E p \in Providers : Age(p)

Spec == Init /\ [][Next]_vars
(* A task that is claimed runs on. *)
FairSpec == Spec /\ \A j \in Jobs : WF_vars(Submit(j))

-----------------------------------------------------------------------------
(* The loop's variables stay within the submission they belong to. *)
TypeOK ==
    /\ ceiling \in Nat /\ payer \in [Jobs -> {"fleet", "board", "user"}]
    /\ pc \in [Jobs -> {"idle", "sending", "moving", "parked", "failed", "done"}]
    /\ model \in [Jobs -> Models]
    /\ next \in [Jobs -> 1 .. Requests + 1]
    /\ since \in [Jobs -> 1 .. Requests + 1]
    /\ \A j \in Jobs : pc[j] = "sending" => since[j] + got[j] <= next[j]
    /\ got \in [Jobs -> 0 .. Requests]
    /\ tried \in [Jobs -> SUBSET Models]
    /\ committed \in [Jobs -> Nat]
    /\ waves \in [Jobs -> SUBSET ((1 .. Requests) \X Models)]
    /\ bought \in [Jobs -> Nat] /\ spent \in Nat /\ looked \in [Jobs -> Nat]
    /\ blocked \subseteq Providers
    /\ crashes \in 0 .. MaxCrashes

(* No request is on two accepted waves, however far along the chain the rest *)
(* of its submission went and whatever died on the way: what is moved is     *)
(* what was never sent, and a task with waves collects (_submit).            *)
SentOnce ==
    \A j \in Jobs : \A u, v \in waves[j] : u[1] = v[1] => u = v

(* Under a ceiling, what a task of the fleet buys fits below it with the     *)
(* ledger as it stood when the task last asked, all models of the chain      *)
(* together: a fallback is priced with the waves accepted before it, so that *)
(* no dearer model carries one task past it (_submit, check_fleet_budget).   *)
WithinItsCheck ==
    \A j \in Jobs :
        payer[j] = "fleet" /\ ceiling > 0 /\ waves[j] # {} => bought[j] + looked[j] <= ceiling

(* Every task that submits ends, though providers refuse and are tried again *)
(* in any order: no chain sends a task round (tried).                        *)
ChainsEnd == <>(\A j \in Jobs : pc[j] \in {"done", "failed"})

(* "Accepted waves are kept whatever happens after them": when nothing       *)
(* further can run the task parks on what was accepted (_submit).            *)
AcceptedAreAwaited == \A j \in Jobs : waves[j] # {} => pc[j] # "failed"
=============================================================================
