------------------------- MODULE VerifySweepsProofs -------------------------
(***************************************************************************)
(* Where no pass of the scheduler outlives its cycle, sweeps nobody        *)
(* cancelled or put back select alone, and no text is paid for twice by    *)
(* two in flight: for every number of workers, cycles and postings, and    *)
(* whatever goes wrong however often.                                      *)
(***************************************************************************)
EXTENDS VerifySweeps, TLAPS

Buying == {"snapshot", "submit"}
Selecting == {"select", "reuse"} \cup Buying

(* A pass in progress began in the current cycle. *)
PassInCycle == \A w \in Workers : phase[w] # "idle" => bucket[w] = cycle

(* A pass that found no sweep will still collide with any enqueued since. *)
InsertCollides ==
    \A w \in Workers : phase[w] = "insert" =>
        \A t \in Cycles : WillSelect(t) => t = cycle \/ Overruled(t)

AbsentIsNew == \A t \in Cycles : status[t] = "absent" => requests[t] = {} /\ bought[t] = {}

ParkedHasWork == \A t \in Cycles : status[t] = "awaiting_batch" => HasBatchWork(t)

(* What a handler on its way to the provider holds in its rows. *)
RowsToBuy ==
    \A t \in Cycles :
        /\ step[t] \in Selecting => bought[t] = {}
        /\ step[t] \in Buying =>
             /\ chosen[t] # {}
             /\ \A u, v \in chosen[t] : TextOf(u) = TextOf(v) => u = v
        /\ step[t] = "submit" => chosen[t] \subseteq requests[t]

(* None of those rows has a text another sweep in flight has frozen, unless  *)
(* a person stepped in.                                                      *)
RowsAreNew ==
    \A s, t \in Cycles :
        /\ s # t /\ step[t] \in Buying
        /\ status[s] \in Active /\ ~Overruled(s) /\ ~Overruled(t)
        => \A u \in chosen[t], v \in requests[s] : TextOf(u) # TextOf(v)

IInv ==
    /\ TypeOK
    /\ PassInCycle /\ InsertCollides /\ AbsentIsNew /\ ParkedHasWork
    /\ SelectAlone /\ RowsToBuy /\ RowsAreNew /\ PaidOnce

USE DEF Active, Ended, Steps, Buying, Selecting

-----------------------------------------------------------------------------
LEMMA TypeInit == Init => TypeOK
  BY SweepConstants DEF Init, TypeOK, Urls

(* Every step keeps the types. *)
LEMMA TypeStep == TypeOK /\ RowsToBuy /\ [Next]_vars => TypeOK'
  <1> USE SweepConstants DEF TypeOK
  <1> SUFFICES ASSUME TypeOK, RowsToBuy, [Next]_vars PROVE TypeOK'
    OBVIOUS
  <1>1. ASSUME NEW k \in Cycles, Tick(k) PROVE TypeOK'
    BY <1>1 DEF Tick, passVars
  <1>2. ASSUME NEW w \in Workers, Pass(w) \/ LookPaused(w) PROVE TypeOK'
    <2>1. CASE BeginPass(w)
      BY <2>1 DEF BeginPass, taskVars, paidVars
    <2>2. CASE LookFindsOne(w)
      BY <2>2 DEF LookFindsOne, EndPass, taskVars, paidVars
    <2>3. CASE LookFindsNone(w)
      BY <2>3 DEF LookFindsNone, taskVars, paidVars
    <2>4. CASE Enqueue(w)
      BY <2>4 DEF Enqueue, EndPass, paidVars
    <2>5. CASE LookPaused(w)
      BY <2>5 DEF LookPaused, EndPass, Fault, taskVars, paidVars
    <2> QED BY <1>2, <2>1, <2>2, <2>3, <2>4, <2>5 DEF Pass
  <1>3. ASSUME NEW t \in Cycles, Sweep(t) PROVE TypeOK'
    <2>1. CASE Claim(t)
      BY <2>1 DEF Claim, passVars, paidVars
    <2>2. CASE SelectNothing(t)
      BY <2>2 DEF SelectNothing, Leave, At, passVars, paidVars
    <2>3. CASE Select(t)
      BY <2>3 DEF Select, GoOn, At, Freshest, Candidates, passVars, paidVars
    <2>4. CASE ReuseNothingLeft(t)
      BY <2>4 DEF ReuseNothingLeft, Leave, At, Reusable, passVars, paidVars
    <2>5. CASE Reuse(t)
      BY <2>5 DEF Reuse, GoOn, At, ToAsk, Reusable, passVars, paidVars
    <2>6. CASE Snapshot(t)
      BY <2>6 DEF Snapshot, GoOn, At, passVars
    <2>7. CASE Submit(t)
      BY <2>7 DEF Submit, Leave, At, RowsToBuy, passVars
    <2>8. CASE \E u \in Urls : Consume(t, u)
      BY <2>8 DEF Consume, Receive, At, passVars, taskVars
    <2>9. CASE Finish(t)
      BY <2>9 DEF Finish, Leave, At, passVars, paidVars
    <2> QED BY <1>3, <2>1, <2>2, <2>3, <2>4, <2>5, <2>6, <2>7, <2>8, <2>9 DEF Sweep
  <1>4. ASSUME NEW t \in Cycles, Land(t) PROVE TypeOK'
    BY <1>4 DEF Land, passVars, paidVars
  <1>5. ASSUME NEW t \in Cycles, Mishap(t) PROVE TypeOK'
    <2>1. CASE NotBought(t)
      BY <2>1 DEF NotBought, Fault, Leave, At, passVars, paidVars
    <2>2. CASE \E u \in Urls : ConsumeBad(t, u)
      BY <2>2 DEF ConsumeBad, Receive, Fault, At, passVars, taskVars
    <2>3. CASE Interrupted(t)
      BY <2>3 DEF Interrupted, Fault, Leave, passVars, paidVars
    <2>4. CASE Cancel(t)
      BY <2>4 DEF Cancel, Fault, passVars, paidVars
    <2>5. CASE Unreadable(t)
      BY <2>5 DEF Unreadable, Fault, Leave, passVars, paidVars
    <2>6. CASE RetryPayload(t)
      BY <2>6 DEF RetryPayload, passVars, paidVars
    <2> QED BY <1>5, <2>1, <2>2, <2>3, <2>4, <2>5, <2>6 DEF Mishap
  <1>6. CASE UNCHANGED vars
    BY <1>6 DEF vars, passVars, taskVars, paidVars
  <1> QED BY <1>1, <1>2, <1>3, <1>4, <1>5, <1>6 DEF Next

LEMMA IInvInit == Init => IInv
  BY TypeInit, SweepConstants
  DEF Init, IInv, PassInCycle, InsertCollides, AbsentIsNew, ParkedHasWork, SelectAlone,
      RowsToBuy, RowsAreNew, PaidOnce, WillSelect, Unparked, Overruled

Rest ==
    /\ PassInCycle /\ InsertCollides /\ AbsentIsNew /\ ParkedHasWork
    /\ SelectAlone /\ RowsToBuy /\ RowsAreNew /\ PaidOnce

(* Every step keeps the rest: at most one sweep that is not overruled        *)
(* selects, it was enqueued in this cycle or every pass sees it, and it      *)
(* alone adds requests that count.                                           *)
LEMMA RestStep ==
    ASSUME IInv, [Next]_vars, TypeOK', ~Straddle
    PROVE  Rest'
  <1> USE SweepConstants DEF IInv, TypeOK, Rest
  <1> USE DEF PassInCycle, InsertCollides, AbsentIsNew, ParkedHasWork, SelectAlone,
              RowsToBuy, RowsAreNew, PaidOnce, WillSelect, Unparked, Overruled, HasBatchWork
  <1>1. ASSUME NEW k \in Cycles, Tick(k) PROVE Rest'
    BY <1>1 DEF Tick, passVars
  <1>2. ASSUME NEW w \in Workers, Pass(w) \/ LookPaused(w) PROVE Rest'
    <2>1. CASE BeginPass(w)
      BY <2>1 DEF BeginPass, taskVars, paidVars
    <2>2. CASE LookFindsOne(w)
      BY <2>2 DEF LookFindsOne, EndPass, taskVars, paidVars
    <2>3. CASE LookFindsNone(w)
      BY <2>3 DEF LookFindsNone, taskVars, paidVars
    <2>4. CASE Enqueue(w)
      BY <2>4 DEF Enqueue, EndPass, paidVars
    <2>5. CASE LookPaused(w)
      BY <2>5 DEF LookPaused, EndPass, Fault, taskVars, paidVars
    <2> QED BY <1>2, <2>1, <2>2, <2>3, <2>4, <2>5 DEF Pass
  <1>3. ASSUME NEW t \in Cycles, Sweep(t) PROVE Rest'
    <2>1. CASE Claim(t)
      BY <2>1 DEF Claim, passVars, paidVars
    <2>2. CASE SelectNothing(t)
      BY <2>2 DEF SelectNothing, Leave, At, passVars, paidVars
    <2>3. CASE Select(t)
      BY <2>3 DEF Select, GoOn, At, passVars, paidVars
    <2>4. CASE ReuseNothingLeft(t)
      BY <2>4 DEF ReuseNothingLeft, Leave, At, passVars, paidVars
    <2>5. CASE Reuse(t)
      BY <2>5 DEF Reuse, GoOn, At, ToAsk, InFlight, Urls, passVars, paidVars
    <2>6. CASE Snapshot(t)
      BY <2>6 DEF Snapshot, GoOn, At, passVars
    <2>7. CASE Submit(t)
      BY <2>7 DEF Submit, Leave, At, passVars
    <2>8. CASE \E u \in Urls : Consume(t, u)
      BY <2>8 DEF Consume, Receive, At, passVars, taskVars
    <2>9. CASE Finish(t)
      BY <2>9 DEF Finish, Leave, At, passVars, paidVars
    <2> QED BY <1>3, <2>1, <2>2, <2>3, <2>4, <2>5, <2>6, <2>7, <2>8, <2>9 DEF Sweep
  <1>4. ASSUME NEW t \in Cycles, Land(t) PROVE Rest'
    BY <1>4 DEF Land, passVars, paidVars
  <1>5. ASSUME NEW t \in Cycles, Mishap(t) PROVE Rest'
    <2>1. CASE NotBought(t)
      BY <2>1 DEF NotBought, Fault, Leave, At, passVars, paidVars
    <2>2. CASE \E u \in Urls : ConsumeBad(t, u)
      BY <2>2 DEF ConsumeBad, Receive, Fault, At, passVars, taskVars
    <2>3. CASE Interrupted(t)
      BY <2>3 DEF Interrupted, Fault, Leave, passVars, paidVars
    <2>4. CASE Cancel(t)
      BY <2>4 DEF Cancel, Fault, passVars, paidVars
    <2>5. CASE Unreadable(t)
      BY <2>5 DEF Unreadable, Fault, Leave, passVars, paidVars
    <2>6. CASE RetryPayload(t)
      BY <2>6 DEF RetryPayload, passVars, paidVars
    <2> QED BY <1>5, <2>1, <2>2, <2>3, <2>4, <2>5, <2>6 DEF Mishap
  <1>6. CASE UNCHANGED vars
    BY <1>6 DEF vars, passVars, taskVars, paidVars
  <1> QED BY <1>1, <1>2, <1>3, <1>4, <1>5, <1>6 DEF Next

(* Type correctness, where passes are short. *)
THEOREM SweepsTypeOK == ASSUME ~Straddle PROVE Spec => []TypeOK
  <1>1. IInv /\ [Next]_vars => IInv'
    BY TypeStep, RestStep DEF IInv, Rest
  <1>2. IInv => TypeOK
    BY DEF IInv
  <1> QED BY IInvInit, <1>1, <1>2, PTL DEF Spec

(* scheduling.py: "so two never select at once", where passes are short and  *)
(* neither sweep was cancelled or put back by a person.                      *)
THEOREM SweepsSelectAlone == ASSUME ~Straddle PROVE Spec => []SelectAlone
  <1>1. IInv /\ [Next]_vars => IInv'
    BY TypeStep, RestStep DEF IInv, Rest
  <1>2. IInv => SelectAlone
    BY DEF IInv
  <1> QED BY IInvInit, <1>1, <1>2, PTL DEF Spec

(* No text is paid for twice by sweeps in flight that no operator put back,  *)
(* where passes are short (_in_flight, _reuse_near_copies); a cancelled      *)
(* sweep's handler may be buying beside them all the while.                  *)
THEOREM SweepsPayOnce == ASSUME ~Straddle PROVE Spec => []PaidOnce
  <1>1. IInv /\ [Next]_vars => IInv'
    BY TypeStep, RestStep DEF IInv, Rest
  <1>2. IInv => PaidOnce
    BY DEF IInv
  <1> QED BY IInvInit, <1>1, <1>2, PTL DEF Spec
=============================================================================
