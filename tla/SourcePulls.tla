----------------------------- MODULE SourcePulls -----------------------------
(***************************************************************************)
(* The scheduled pulls of one source: when the scheduler enqueues one, how *)
(* a run of failed pulls makes it wait longer and at last switches the     *)
(* source off, and what a refusal, a lost worker and an administrator do   *)
(* to that run.                                                            *)
(*                                                                         *)
(* The run is read off the pulls' rows, in the order of their ids and not  *)
(* of their ends; pulls of one source overlap, because a running one does  *)
(* not block the next (and a pull's age counts from its creation, the time *)
(* it waited for a worker included).  Time is the age of each pull in      *)
(* hours, up to Horizon.  The host's slot that may defer a pull is module  *)
(* PullPacing's.  A pass of the scheduler is one step here: what happens   *)
(* when one outlives its cycle is module VerifySweeps' subject.            *)
(***************************************************************************)
EXTENDS Integers, Sequences, FiniteSets, FiniteSetsExt

CONSTANTS
    Interval,    \* sources.ingest_interval_hours
    Day,         \* hours in a day; a whole number of days is counted from an hour
    RetryMax,    \* ingest_retry_max_hours
    GiveUp,      \* ingest_give_up_after_failures
    Workers,     \* how many pulls of the source may run at once
    MaxUpsets,   \* bound: workers lost, hosts run short
    MaxPulls     \* bound: rows kept apart

ASSUME PullConstants ==
    /\ {Interval, Day, RetryMax, GiveUp, Workers} \subseteq Nat \ {0}
    /\ {MaxUpsets, MaxPulls} \subseteq Nat

VARIABLES
    active,      \* sources.active
    pulls,       \* the source's rows of kind ingest_source, oldest first
    hour,        \* hours since the latest daily_ingest_hour_eastern
    dark,        \* the board has stopped answering for good
    upsets

vars == <<active, pulls, hour, dark, upsets>>
envVars == <<dark, upsets>>

Running == {"claimed", "asking", "counted", "failing"}
\* "off" is a row failed with INACTIVE_SOURCE_ERROR
States == {"pending", "done", "failed", "off"} \cup Running

Init ==
    /\ active = TRUE /\ pulls = <<>> /\ hour = 0 /\ dark = FALSE
    /\ upsets = 0

Upset == upsets < MaxUpsets /\ upsets' = upsets + 1

Pulls == DOMAIN pulls

(* A pull's row: what it counted before it switches the source off, and as   *)
(* history whether the board gave it no answer, and whether another pull was *)
(* answered since it counted.                                                *)
NewPull == [state |-> "pending", age |-> 0, count |-> 0, lost |-> FALSE, stale |-> FALSE]

Moved(row, s) == [row EXCEPT !.state = s, !.count = 0, !.stale = FALSE]
Set(i, s) == pulls' = [pulls EXCEPT ![i] = Moved(@, s)]
PutBack(i) == pulls' = [pulls EXCEPT ![i] = [NewPull EXCEPT !.age = pulls[i].age]]

-----------------------------------------------------------------------------
(* The run of failed pulls.                                                 *)

Larger(a, b) == IF a > b THEN a ELSE b
Smaller(a, b) == IF a < b THEN a ELSE b

(* No wait is longer than this, and no pull needs an age beyond it. *)
Horizon == Larger(Interval, RetryMax)

(* Mutant: a success does not end a run. *)
FailureRunEver == {i \in Pulls : pulls[i].state = "failed"}

(* Mutant: only failures of late make a run. *)
FailureRunOfLate == {i \in Pulls : pulls[i].age < Horizon /\ pulls[i].state = "failed"}

(* _FAILURE_RUN: the failed pulls newer than every one that is done. *)
FailureRun ==
    {i \in Pulls : /\ pulls[i].state = "failed"
                   /\ \A j \in Pulls : pulls[j].state = "done" => j < i}

PullWaitHours(n) == Larger(Interval, Smaller(Interval * 2 ^ (n - 1), RetryMax))

(* Mutant: a run past the limit waits too, and for good. *)
BackingOffForGood ==
    LET n == Cardinality(FailureRun)
    IN  n > 0 /\ (n >= GiveUp \/ \E i \in FailureRun : pulls[i].age < PullWaitHours(n))

(* backing_off: a run that reached GiveUp does not wait. *)
BackingOff ==
    LET n == Cardinality(FailureRun)
    IN  n > 0 /\ n < GiveUp /\ \E i \in FailureRun : pulls[i].age < PullWaitHours(n)

(* Created since the interval began: whole days are counted back from the    *)
(* daily hour, daily_pull_anchor.                                            *)
Recent(age) ==
    IF Interval % Day = 0 THEN age <= hour + (Interval - Day) ELSE age < Interval

(* Mutant: a pull that waits for a worker does not block the next one. *)
DueDespitePending ==
    /\ active
    /\ Interval <= 1 \/
       \A i \in Pulls : pulls[i].state \in Running \cup {"done"} => ~Recent(pulls[i].age)

Due ==
    /\ active
    /\ \A i \in Pulls : pulls[i].state # "pending"
    /\ Interval <= 1 \/
       \A i \in Pulls : pulls[i].state \in Running \cup {"done"} => ~Recent(pulls[i].age)

(* The m oldest rows tell the queries above nothing: they are ended, a later *)
(* success or the interval puts theirs behind them, and GiveUp failures of   *)
(* the run are newer if it began among them.                                 *)
Outlived(m) ==
    /\ \A i \in 1 .. m :
         /\ pulls[i].state \in {"done", "failed", "off"} /\ pulls[i].age > 0
         /\ pulls[i].state = "done" =>
              \/ ~Recent(pulls[i].age)
              \/ \E j \in Pulls : j > i /\ pulls[j].state = "done"
    /\ \/ \A i \in FailureRun : i > m
       \/ Cardinality({i \in FailureRun : i > m}) >= GiveUp

(* The rest, but for pulls of a source that was off. *)
Kept(m) == {i \in Pulls : i > m /\ (pulls[i].state # "off" \/ pulls[i].age = 0)}

(* The numbering of a set of rows from 1 on, in their order. *)
Renumbered(S) ==
    {f \in [1 .. Cardinality(S) -> S] : \A j, k \in DOMAIN f : j < k => f[j] < f[k]}

(* schedule_ingest_cycle, for this source; the key allows one row an hour. *)
Schedule ==
    /\ Due /\ ~BackingOff
    /\ \A i \in Pulls : pulls[i].age > 0
    /\ \E m \in 0 .. Len(pulls) :
         /\ Outlived(m) /\ \A k \in Pulls : k > m => ~Outlived(k)
         /\ Cardinality(Kept(m)) < MaxPulls
         /\ \E f \in Renumbered(Kept(m)) :
              pulls' = Append([k \in 1 .. Cardinality(Kept(m)) |-> pulls[f[k]]], NewPull)
    /\ UNCHANGED <<active, hour, envVars>>

Hour ==
    /\ pulls' = [i \in Pulls |-> [pulls[i] EXCEPT !.age = Smaller(@ + 1, Horizon)]]
    /\ hour' = (hour + 1) % Day
    /\ UNCHANGED <<active, envVars>>

-----------------------------------------------------------------------------
(* A pull, handle_ingest_source.                                            *)

Claim(i) ==
    /\ pulls[i].state = "pending"
    /\ Cardinality({j \in Pulls : pulls[j].state \in Running}) < Workers
    /\ Set(i, "claimed")
    /\ UNCHANGED <<active, hour, envVars>>

(* The handler looks the source up; one that is off is never asked. *)
Begin(i) ==
    /\ pulls[i].state = "claimed"
    /\ Set(i, IF active THEN "asking" ELSE "off")
    /\ UNCHANGED <<active, hour, envVars>>

Answers(i) ==
    /\ pulls[i].state = "asking" /\ ~dark
    /\ pulls' = [j \in Pulls |->
                    IF j = i THEN Moved(pulls[j], "done")
                    ELSE [pulls[j] EXCEPT !.stale = @ \/ pulls[j].state = "counted"]]
    /\ UNCHANGED <<active, hour, envVars>>

(* No slot for the host, or a 429 or a challenge: Deferred, back to pending. *)
Refused(i) ==
    /\ pulls[i].state = "asking"
    /\ PutBack(i)
    /\ UNCHANGED <<active, hour, envVars>>

(* _switch_off_if_given_up counts the run and this pull ... *)
NoAnswer(i) ==
    /\ pulls[i].state = "asking"
    /\ pulls' = [pulls EXCEPT ![i].state = "counted", ![i].lost = TRUE,
                              ![i].count = Smaller(Cardinality(FailureRun) + 1, GiveUp)]
    /\ UNCHANGED <<active, hour, envVars>>

(* ... and switches the source off in a statement of its own. *)
SwitchOff(i) ==
    /\ pulls[i].state = "counted"
    /\ active' = (active /\ pulls[i].count < GiveUp)
    /\ Set(i, "failing")
    /\ UNCHANGED <<hour, envVars>>

Fails(i) ==
    /\ pulls[i].state = "failing"
    /\ Set(i, "failed")
    /\ UNCHANGED <<active, hour, envVars>>

(* Mutant: put back under a status no query asks for. *)
RanShortAside(i) ==
    /\ pulls[i].state = "failing" /\ Upset
    /\ Set(i, "requeued")
    /\ UNCHANGED <<active, hour, dark>>

(* The error was the host's own (memory, threads, the database): the pull    *)
(* goes back to pending after it was counted.                                *)
RanShort(i) ==
    /\ pulls[i].state = "failing" /\ Upset
    /\ PutBack(i)
    /\ UNCHANGED <<active, hour, dark>>

(* The worker died; the reaper puts the row back, or fails it past the       *)
(* retry budget, which is a failed pull like another.                        *)
Requeued(i) ==
    /\ pulls[i].state \in Running /\ Upset
    /\ PutBack(i)
    /\ UNCHANGED <<active, hour, dark>>

ReapedFailed(i) ==
    /\ pulls[i].state \in Running /\ Upset
    /\ pulls' = [pulls EXCEPT ![i] = [Moved(@, "failed") EXCEPT !.lost = TRUE]]
    /\ UNCHANGED <<active, hour, dark>>

(* patch_source and switch_sources: an administrator switches the source off *)
(* or on, whatever its pulls are doing.                                      *)
PatchSource ==
    /\ active' = ~active
    /\ UNCHANGED <<pulls, hour, envVars>>

GoesDark == ~dark /\ dark' = TRUE /\ UNCHANGED <<active, pulls, hour, upsets>>

Next ==
    \/ Schedule \/ Hour \/ PatchSource \/ GoesDark
    \/ \E i \in Pulls :
         \/ Claim(i) \/ Begin(i) \/ Answers(i) \/ Refused(i) \/ NoAnswer(i)
         \/ SwitchOff(i) \/ Fails(i) \/ RanShort(i) \/ Requeued(i) \/ ReapedFailed(i)

Spec == Init /\ [][Next]_vars

Asked(i) == Answers(i) \/ NoAnswer(i)

(* The clock runs, workers poll and claim, a claimed pull goes on; no board  *)
(* refuses for ever without one pull answered or failed.                     *)
Fairness ==
    /\ WF_vars(Hour) /\ WF_vars(Schedule)
    /\ WF_vars(\E i \in Pulls : Claim(i)) /\ WF_vars(\E i \in Pulls : Begin(i))
    /\ SF_vars(\E i \in Pulls : Asked(i))
    /\ WF_vars(\E i \in Pulls : SwitchOff(i)) /\ WF_vars(\E i \in Pulls : Fails(i))

FairSpec == Spec /\ Fairness

-----------------------------------------------------------------------------
(* Type correctness. *)
TypeOK ==
    /\ active \in BOOLEAN /\ dark \in BOOLEAN
    /\ pulls \in Seq([state : States, age : 0 .. Horizon, count : 0 .. GiveUp,
                      lost : BOOLEAN, stale : BOOLEAN])
    /\ hour \in 0 .. Day - 1
    /\ upsets \in 0 .. MaxUpsets

(* A queue that falls behind does not grow by one pull an hour: a source has *)
(* no more unended pulls than workers run at once, and one that waits.       *)
BacklogBounded ==
    Cardinality({i \in Pulls : pulls[i].state \in Running \cup {"pending"}}) <= Workers + 1

(* The pulls without an answer that are newer than every answered one, and i *)
(* itself if it is one.                                                      *)
LostInARow(i) ==
    {j \in Pulls : /\ pulls[j].lost
                   /\ \/ j = i
                      \/ /\ pulls[j].state = "failed"
                         /\ \A k \in Pulls : pulls[k].state = "done" => k < j}

(* "Switched off after N failed pulls in a row": a pull that switches the    *)
(* source off has GiveUp pulls without an answer behind it, itself included  *)
(* and no answered one between them, though it counted in an earlier step;   *)
(* refusals, pulls handed back and pulls of a source that was off never add  *)
(* up to it.  Only an answer that came between its count and its switch is   *)
(* overruled.  What an administrator does is no part of it.                  *)
OffAfterARun ==
    [][\A i \in Pulls : SwitchOff(i) /\ active /\ ~active' =>
         pulls[i].stale \/ Cardinality(LostInARow(i)) >= GiveUp]_vars

(* A board that stopped answering is switched off in the end, whatever       *)
(* workers it costs, however its pulls overlap and however often a person    *)
(* switches it on again: no wait and no miscount keeps it on for good.       *)
DarkIsDropped == dark ~> ~active

(* An active board is asked again and again: the back-off of a run, the      *)
(* interval and a pull that failed with no one left to count it all end.     *)
NeverForgotten == []<>(~active \/ \E i \in Pulls : pulls[i].state = "asking")
=============================================================================
