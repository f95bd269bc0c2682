-------------------------- MODULE SubmissionProofs --------------------------
(***************************************************************************)
(* No request is on two accepted waves, and what a task buys along its     *)
(* chain stays within the ceiling it asked about, if it is held to one:    *)
(* for any number of tasks and requests, any chain, prices, payers and     *)
(* ceiling, and any crashes.                                               *)
(*                                                                         *)
(* SentOnce rests on Ahead: every accepted wave is behind the next one.    *)
(* WithinItsCheck rests on Covered: what is left to send at this model's   *)
(* price still fits beside what was bought, and on Accounted: committed    *)
(* and the waves of this submission cover all of it, so that a fallback is *)
(* priced with everything accepted before it.                              *)
(***************************************************************************)
EXTENDS Submission, TLAPS

(* A job not started has sent and counted nothing. *)
Fresh(j) ==
    pc[j] = "idle" => next[j] = 1 /\ since[j] = 1 /\ got[j] = 0 /\ committed[j] = 0

(* Accepted waves are behind the next request. *)
Ahead(j) == pc[j] \in {"sending", "moving"} => \A v \in waves[j] : v[1] < next[j]

(* Nothing is bought without a wave. *)
Unbought(j) == waves[j] = {} => bought[j] = 0

(* The check is on for this task: the fleet pays it, and there is a ceiling. *)
Held(j) == payer[j] = "fleet" /\ ceiling > 0

(* What is still to send was part of what the budget check covered. *)
Covered(j) ==
    Held(j) =>
        /\ pc[j] = "sending" =>
              bought[j] + looked[j] + Price(model[j]) * Left(j) <= ceiling
        /\ pc[j] = "moving" => bought[j] + looked[j] <= ceiling

(* committed and the waves of this model are all that was bought. *)
Accounted(j) ==
    /\ pc[j] = "sending" => bought[j] <= committed[j] + Price(model[j]) * got[j]
    /\ pc[j] = "moving" => bought[j] <= committed[j]

(* The two properties, of one job. *)
Once(j) == \A u, v \in waves[j] : u[1] = v[1] => u = v

Within(j) == Held(j) /\ waves[j] # {} => bought[j] + looked[j] <= ceiling

JobInv(j) ==
    /\ Fresh(j) /\ Ahead(j) /\ Unbought(j) /\ Covered(j) /\ Accounted(j)
    /\ Once(j) /\ Within(j)

Inv == TypeOK /\ \A j \in Jobs : JobInv(j)

-----------------------------------------------------------------------------
(* Prices.                                                                  *)

(* The price of n + 1 requests is that of n and one more. *)
LEMMA OneMore ==
    ASSUME NEW p \in Nat, NEW n \in Nat
    PROVE  /\ p * n \in Nat
           /\ p * (n + 1) = p * n + p
           /\ p * 0 = 0
  OBVIOUS

(* Fewer requests cost no more. *)
LEMMA FewerCostNoMore ==
    ASSUME NEW p \in Nat, NEW m \in Nat, NEW n \in Nat, m <= n
    PROVE  p * m <= p * n
  OBVIOUS

(* What is left to send is never negative. *)
LEMMA LeftIsNat ==
    ASSUME TypeOK, NEW j \in Jobs
    PROVE  Left(j) \in Nat /\ next[j] \in 1 .. Requests + 1 /\ Requests \in Nat
  BY SubmissionConstants DEF TypeOK, Left

(* A wave names a request. *)
LEMMA WavesName ==
    ASSUME TypeOK, NEW j \in Jobs, NEW v \in waves[j]
    PROVE  v[1] \in 1 .. Requests
  <1>1. waves[j] \subseteq (1 .. Requests) \X Models
    BY DEF TypeOK
  <1>2. PICK a \in 1 .. Requests, m \in Models : v = <<a, m>>
    BY <1>1
  <1> QED BY <1>2

-----------------------------------------------------------------------------
(* A step of one job.                                                       *)

(* What job i holds is the same before and after. *)
Same(i) ==
    /\ payer'[i] = payer[i] /\ ceiling' = ceiling
    /\ pc'[i] = pc[i] /\ model'[i] = model[i] /\ next'[i] = next[i]
    /\ since'[i] = since[i] /\ got'[i] = got[i] /\ committed'[i] = committed[i]
    /\ waves'[i] = waves[i] /\ bought'[i] = bought[i] /\ looked'[i] = looked[i]

LEMMA SameKeeps ==
    ASSUME NEW i \in Jobs, JobInv(i), Same(i)
    PROVE  JobInv(i)'
  BY DEF JobInv, Fresh, Ahead, Unbought, Covered, Accounted, Once, Within, Held, Left, Same

(* It is enough to look at the job that moves. *)
LEMMA OneJob ==
    ASSUME Inv, NEW j \in Jobs, TypeOK', JobInv(j)', \A i \in Jobs \ {j} : Same(i)
    PROVE  Inv'
  BY SameKeeps DEF Inv

(* The run is over: nothing of the submission is left to be ahead of. *)
LEMMA LeaveKeeps ==
    ASSUME Inv, NEW j \in Jobs, NEW s \in {"idle", "parked", "failed"}, Leave(j, s),
           UNCHANGED <<ceiling, payer, waves, bought>>, looked' \in [Jobs -> Nat],
           \A i \in Jobs \ {j} : looked'[i] = looked[i],
           waves[j] # {} => looked'[j] = looked[j],
           spent' \in Nat, blocked' \subseteq Providers,
           crashes' \in 0 .. MaxCrashes
    PROVE  Inv'
  <1>1. TypeOK'
    <2>1. /\ pc' \in [Jobs -> {"idle", "sending", "moving", "parked", "failed", "done"}]
          /\ pc'[j] # "sending" /\ \A i \in Jobs \ {j} : pc'[i] = pc[i]
      BY DEF Inv, TypeOK, Leave
    <2>2. /\ next' \in [Jobs -> 1 .. Requests + 1] /\ since' \in [Jobs -> 1 .. Requests + 1]
          /\ got' \in [Jobs -> 0 .. Requests] /\ committed' \in [Jobs -> Nat]
          /\ \A i \in Jobs \ {j} : next'[i] = next[i] /\ since'[i] = since[i] /\ got'[i] = got[i]
      BY SubmissionConstants DEF Inv, TypeOK, Leave
    <2>3. model' \in [Jobs -> Models] /\ tried' \in [Jobs -> SUBSET Models]
      BY SubmissionConstants DEF Inv, TypeOK, Leave
    <2> QED BY <2>1, <2>2, <2>3 DEF Inv, TypeOK
  <1>2. JobInv(j)'
    <2>1. /\ pc'[j] = s /\ waves'[j] = waves[j] /\ bought'[j] = bought[j]
          /\ next'[j] = 1 /\ since'[j] = 1 /\ got'[j] = 0 /\ committed'[j] = 0
      BY DEF Inv, TypeOK, Leave
    <2>2. Unbought(j) /\ Once(j) /\ Within(j)
      BY DEF Inv, JobInv
    <2> QED BY <2>1, <2>2
            DEF JobInv, Fresh, Ahead, Unbought, Covered, Accounted, Once, Within, Held
  <1>3. \A i \in Jobs \ {j} : Same(i)
    BY DEF Inv, TypeOK, Leave, Same
  <1> QED BY <1>1, <1>2, <1>3, OneJob

-----------------------------------------------------------------------------
(* The actions.                                                             *)

(* A submission begins, at the chosen model or further along the chain: the *)
(* ledger is read anew and what is left fits beside what was committed.     *)
LEMMA BeginKeeps ==
    ASSUME Inv, NEW j \in Jobs, NEW m \in Models,
           pc' = [pc EXCEPT ![j] = "sending"], model' = [model EXCEPT ![j] = m],
           tried' \in [Jobs -> SUBSET Models],
           looked' = [looked EXCEPT ![j] = spent],
           since' \in [Jobs -> 1 .. Requests + 1], since'[j] = next[j],
           got' \in [Jobs -> 0 .. Requests], got'[j] = 0,
           \A i \in Jobs \ {j} : since'[i] = since[i] /\ got'[i] = got[i],
           UNCHANGED <<ceiling, payer, next, committed, waves, bought, blocked, crashes, spent>>,
           \A v \in waves[j] : v[1] < next[j],
           bought[j] <= committed[j],
           Held(j) => spent + committed[j] + Price(m) * Left(j) <= ceiling
    PROVE  Inv'
  <1>1. TypeOK'
    <2>1. /\ pc' \in [Jobs -> {"idle", "sending", "moving", "parked", "failed", "done"}]
          /\ \A i \in Jobs \ {j} : pc'[i] = pc[i]
      BY DEF Inv, TypeOK
    <2>2. model' \in [Jobs -> Models] /\ looked' \in [Jobs -> Nat]
      BY DEF Inv, TypeOK
    <2>3. ASSUME NEW i \in Jobs, pc'[i] = "sending" PROVE since'[i] + got'[i] <= next'[i]
      <3>1. next[i] \in Int
        BY DEF Inv, TypeOK
      <3>2. CASE i = j
        BY <3>1, <3>2
      <3>3. CASE i # j
        BY <2>1, <2>3, <3>3 DEF Inv, TypeOK
      <3> QED BY <3>2, <3>3
    <2> QED BY <2>1, <2>2, <2>3 DEF Inv, TypeOK
  <1>2. JobInv(j)'
    <2>1. pc'[j] = "sending" /\ model'[j] = m /\ looked'[j] = spent
      BY DEF Inv, TypeOK
    <2>2. Left(j)' = Left(j) /\ Left(j) \in Nat /\ Price(m) \in Nat
      BY LeftIsNat, SubmissionConstants DEF Inv, Left
    <2>3. Price(m) * Left(j) \in Nat /\ Price(m) * 0 = 0
      BY <2>2, OneMore
    <2>4. /\ bought[j] \in Nat /\ committed[j] \in Nat /\ spent \in Nat
          /\ ceiling \in Nat
      BY SubmissionConstants DEF Inv, TypeOK
    <2>5. Fresh(j)' /\ Ahead(j)' /\ Unbought(j)' /\ Once(j)'
      BY <2>1 DEF Inv, JobInv, Fresh, Ahead, Unbought, Once
    <2>6. Covered(j)' /\ Accounted(j)'
      BY <2>2, <2>1, <2>4, <2>3 DEF Covered, Accounted, Held
    <2>7. Within(j)'
      BY <2>2, <2>1, <2>4, <2>3 DEF Within, Held
    <2> QED BY <2>5, <2>6, <2>7 DEF JobInv
  <1>3. \A i \in Jobs \ {j} : Same(i)
    BY DEF Inv, TypeOK, Same
  <1> QED BY <1>1, <1>2, <1>3, OneJob

LEMMA RouteKeeps ==
    ASSUME Inv, NEW j \in Jobs, NEW m \in Models, Route(j, m),
           UNCHANGED <<ceiling, payer>>
    PROVE  Inv'
  <1>1. CASE Affordable(j, Price(m) * Requests)
    <2>1. /\ pc[j] = "idle" /\ waves[j] = {}
          /\ pc' = [pc EXCEPT ![j] = "sending"] /\ model' = [model EXCEPT ![j] = m]
          /\ tried' = [tried EXCEPT ![j] = {m}]
          /\ looked' = [looked EXCEPT ![j] = spent]
          /\ UNCHANGED <<next, since, got, committed, waves, bought, blocked, crashes, spent>>
      BY <1>1 DEF Route, payVars
    <2>2. /\ bought[j] = 0 /\ next[j] = 1 /\ since[j] = 1 /\ got[j] = 0 /\ committed[j] = 0
      BY <2>1 DEF Inv, JobInv, Unbought, Fresh
    <2>3. Left(j) = Requests /\ spent \in Nat /\ Requests \in Nat
      BY <2>2, SubmissionConstants DEF Left, Inv, TypeOK
    <2>4. Held(j) => spent + committed[j] + Price(m) * Left(j) <= ceiling
      BY <1>1, <2>2, <2>3 DEF Affordable, Held
    <2>5. tried' \in [Jobs -> SUBSET Models]
      BY <2>1 DEF Inv, TypeOK
    <2>6. /\ since' \in [Jobs -> 1 .. Requests + 1] /\ since'[j] = next[j]
          /\ got' \in [Jobs -> 0 .. Requests] /\ got'[j] = 0
          /\ \A i \in Jobs \ {j} : since'[i] = since[i] /\ got'[i] = got[i]
          /\ bought[j] <= committed[j]
      BY <2>1, <2>2 DEF Inv, TypeOK
    <2> QED BY <2>1, <2>4, <2>5, <2>6, BeginKeeps
  <1>2. CASE ~Affordable(j, Price(m) * Requests)
    <2>1. /\ Leave(j, "failed") /\ waves[j] = {} /\ looked' = [looked EXCEPT ![j] = spent]
          /\ UNCHANGED <<waves, bought, blocked, crashes, spent>>
      BY <1>2 DEF Route, payVars
    <2> QED BY <2>1, LeaveKeeps DEF Inv, TypeOK
  <1> QED BY <1>1, <1>2

LEMMA MoveKeeps ==
    ASSUME Inv, NEW j \in Jobs, NEW m \in Models, Move(j, m),
           UNCHANGED <<ceiling, payer>>
    PROVE  Inv'
  <1>1. /\ pc[j] = "moving"
        /\ pc' = [pc EXCEPT ![j] = "sending"] /\ model' = [model EXCEPT ![j] = m]
        /\ tried' = [tried EXCEPT ![j] = @ \cup {m}]
        /\ looked' = [looked EXCEPT ![j] = spent]
        /\ since' = [since EXCEPT ![j] = next[j]] /\ got' = [got EXCEPT ![j] = 0]
        /\ UNCHANGED <<next, committed, waves, bought, blocked, crashes, spent>>
    BY DEF Move, payVars
  <1>2. Held(j) => spent + (committed[j] + Price(m) * Left(j)) <= ceiling
    BY DEF Move, Affordable, Held
  <1>3. Held(j) => spent + committed[j] + Price(m) * Left(j) <= ceiling
    <2>1. spent \in Nat /\ committed[j] \in Nat /\ Left(j) \in Nat /\ Price(m) \in Nat
      BY SubmissionConstants DEF Inv, TypeOK, Left
    <2>2. Price(m) * Left(j) \in Nat
      BY <2>1, OneMore
    <2> QED BY <1>2, <2>1, <2>2
  <1>4. bought[j] <= committed[j] /\ \A v \in waves[j] : v[1] < next[j]
    BY <1>1 DEF Inv, JobInv, Accounted, Ahead
  <1>5. /\ tried' \in [Jobs -> SUBSET Models]
        /\ since' \in [Jobs -> 1 .. Requests + 1] /\ since'[j] = next[j]
        /\ got' \in [Jobs -> 0 .. Requests] /\ got'[j] = 0
        /\ \A i \in Jobs \ {j} : since'[i] = since[i] /\ got'[i] = got[i]
    BY <1>1, SubmissionConstants DEF Inv, TypeOK
  <1> QED BY <1>1, <1>3, <1>4, <1>5, BeginKeeps

(* A wave is accepted, or passed over. *)
LEMMA WaveKeeps ==
    ASSUME Inv, NEW j \in Jobs, WaveAccepted(j) \/ WaveFails(j),
           UNCHANGED <<ceiling, payer>>
    PROVE  Inv'
  <1> DEFINE p == Price(model[j])
             n == Left(j) - 1
  <1>1. /\ pc[j] = "sending" /\ Left(j) > 0
        /\ next' = [next EXCEPT ![j] = @ + 1]
        /\ UNCHANGED <<pc, model, since, tried, committed, blocked, crashes, spent, looked>>
    BY DEF WaveAccepted, WaveFails, payVars
  <1>2. /\ next[j] \in 1 .. Requests + 1 /\ since[j] \in 1 .. Requests + 1
        /\ got[j] \in 0 .. Requests /\ since[j] + got[j] <= next[j]
        /\ bought[j] \in Nat /\ looked[j] \in Nat /\ committed[j] \in Nat
        /\ Requests \in Nat /\ ceiling \in Nat /\ model[j] \in Models /\ p \in Nat
    BY <1>1, SubmissionConstants DEF Inv, TypeOK
  <1>3. next[j] + 1 \in 1 .. Requests + 1 /\ n \in Nat /\ got[j] + 1 \in 0 .. Requests
    BY <1>1, <1>2 DEF Left
  <1>4. /\ next' \in [Jobs -> 1 .. Requests + 1] /\ next'[j] = next[j] + 1
        /\ \A i \in Jobs \ {j} : next'[i] = next[i]
    BY <1>1, <1>3 DEF Inv, TypeOK
  <1>5. Left(j)' = n /\ Left(j) = n + 1
    BY <1>2, <1>4 DEF Left
  <1> HIDE DEF p, n
  <1>6. /\ p * Left(j) = p * n + p /\ p * n \in Nat
        /\ p * (got[j] + 1) = p * got[j] + p /\ p * got[j] \in Nat
    <2>1. p \in Nat /\ n \in Nat /\ got[j] \in Nat
      BY <1>2, <1>3
    <2>2. /\ p * n \in Nat /\ p * (n + 1) = p * n + p
          /\ p * got[j] \in Nat /\ p * (got[j] + 1) = p * got[j] + p
      BY <2>1, OneMore
    <2> QED BY <1>5, <2>2
  <1>7. /\ \A v \in waves[j] : v[1] < next[j]
        /\ Held(j) => bought[j] + looked[j] + p * Left(j) <= ceiling
        /\ bought[j] <= committed[j] + p * got[j]
        /\ Unbought(j) /\ Once(j) /\ Within(j)
    BY <1>1 DEF Inv, JobInv, Ahead, Covered, Accounted, p
  <1>8. \A v \in waves[j] : v[1] \in Int
    BY WavesName DEF Inv
  <1>9. CASE WaveAccepted(j)
    <2>1. /\ waves' = [waves EXCEPT ![j] = @ \cup {<<next[j], model[j]>>}]
          /\ bought' = [bought EXCEPT ![j] = @ + p]
          /\ got' = [got EXCEPT ![j] = @ + 1]
      BY <1>9 DEF WaveAccepted, p
    <2>2. /\ waves'[j] = waves[j] \cup {<<next[j], model[j]>>}
          /\ bought'[j] = bought[j] + p /\ got'[j] = got[j] + 1
          /\ \A i \in Jobs \ {j} :
                waves'[i] = waves[i] /\ bought'[i] = bought[i] /\ got'[i] = got[i]
      BY <2>1 DEF Inv, TypeOK
    <2>3. TypeOK'
      <3>1. <<next[j], model[j]>> \in (1 .. Requests) \X Models
        BY <1>1, <1>2 DEF Left
      <3>2. waves' \in [Jobs -> SUBSET ((1 .. Requests) \X Models)]
        BY <2>1, <3>1 DEF Inv, TypeOK
      <3>3. bought' \in [Jobs -> Nat] /\ got' \in [Jobs -> 0 .. Requests]
        BY <1>2, <1>3, <2>1 DEF Inv, TypeOK
      <3>4. ASSUME NEW i \in Jobs, pc'[i] = "sending" PROVE since'[i] + got'[i] <= next'[i]
        <4>1. CASE i = j
          BY <1>1, <1>2, <1>4, <2>2, <4>1
        <4>2. CASE i # j
          BY <1>1, <1>4, <2>2, <3>4, <4>2 DEF Inv, TypeOK
        <4> QED BY <4>1, <4>2
      <3> QED BY <1>1, <1>4, <3>2, <3>3, <3>4 DEF Inv, TypeOK
    <2>4. Fresh(j)' /\ Unbought(j)'
      BY <1>1, <2>2 DEF Fresh, Unbought
    <2>5. Ahead(j)' /\ Once(j)'
      <3>1. \A v \in waves'[j] : v = <<next[j], model[j]>> \/ (v \in waves[j] /\ v[1] < next[j])
        <4>1. \A v \in waves'[j] : v = <<next[j], model[j]>> \/ v \in waves[j]
          BY <2>2, Zenon
        <4>2. \A v \in waves[j] : v[1] < next[j]
          BY <1>7
        <4> QED BY <4>1, <4>2, Zenon
      <3>2. Ahead(j)'
        <4>1. \A v \in waves'[j] : v[1] < next[j] + 1
          BY <1>2, <1>8, <3>1
        <4> QED BY <1>4, <4>1 DEF Ahead
      <3>3. Once(j)'
        BY <1>2, <1>7, <1>8, <3>1 DEF Once
      <3> QED BY <3>2, <3>3
    <2>6. Covered(j)' /\ Accounted(j)' /\ Within(j)'
      BY <1>1, <1>2, <1>5, <1>6, <1>7, <2>2 DEF Covered, Accounted, Within, Held, p
    <2>7. \A i \in Jobs \ {j} : Same(i)
      BY <1>1, <1>4, <2>2 DEF Same
    <2> QED BY <2>3, <2>4, <2>5, <2>6, <2>7, OneJob DEF JobInv
  <1>10. CASE WaveFails(j)
    <2>1. UNCHANGED <<waves, bought, got>>
      BY <1>10 DEF WaveFails, payVars
    <2>2. TypeOK'
      <3>1. ASSUME NEW i \in Jobs, pc'[i] = "sending" PROVE since'[i] + got'[i] <= next'[i]
        <4>1. CASE i = j
          BY <1>1, <1>2, <1>4, <2>1, <4>1
        <4>2. CASE i # j
          BY <1>1, <1>4, <2>1, <3>1, <4>2 DEF Inv, TypeOK
        <4> QED BY <4>1, <4>2
      <3> QED BY <1>1, <1>4, <2>1, <3>1 DEF Inv, TypeOK
    <2>3. Fresh(j)' /\ Unbought(j)' /\ Once(j)' /\ Within(j)'
      BY <1>1, <1>7, <2>1 DEF Fresh, Unbought, Once, Within, Held
    <2>4. Ahead(j)'
      BY <1>2, <1>4, <1>7, <1>8, <2>1 DEF Ahead
    <2>5. Covered(j)' /\ Accounted(j)'
      BY <1>1, <1>2, <1>5, <1>6, <1>7, <2>1 DEF Covered, Accounted, Held, p
    <2>6. \A i \in Jobs \ {j} : Same(i)
      BY <1>1, <1>4, <2>1 DEF Same
    <2> QED BY <2>2, <2>3, <2>4, <2>5, <2>6, OneJob DEF JobInv
  <1> QED BY <1>9, <1>10

(* A provider without credit: what was committed to covers all that was       *)
(* bought, whether or not this submission had a wave accepted.                *)
LEMMA ExhaustedKeeps ==
    ASSUME Inv, NEW j \in Jobs, Exhausted(j),
           UNCHANGED <<ceiling, payer>>
    PROVE  Inv'
  <1> DEFINE p == Price(model[j])
             sent == next[j] - since[j]
  <1>1. /\ pc[j] = "sending" /\ pc' = [pc EXCEPT ![j] = "moving"]
        /\ blocked' = blocked \cup {ProviderOf(model[j])}
        /\ committed' = [committed EXCEPT ![j] = Committed(j)]
        /\ next' = [next EXCEPT ![j] = next[j]]
        /\ UNCHANGED <<model, since, got, tried, waves, bought, crashes, spent, looked>>
    BY DEF Exhausted, payVars, Unsubmitted
  <1>2. /\ next[j] \in Nat /\ since[j] \in Nat
        /\ got[j] \in Nat /\ since[j] + got[j] <= next[j]
        /\ bought[j] \in Nat /\ looked[j] \in Nat /\ committed[j] \in Nat
        /\ ceiling \in Nat /\ model[j] \in Models /\ p \in Nat
    BY <1>1, SubmissionConstants DEF Inv, TypeOK
  <1>3. sent \in Nat /\ got[j] <= sent
    BY <1>2
  <1> HIDE DEF p, sent
  <1>4. p * got[j] <= p * sent /\ p * sent \in Nat /\ p * got[j] \in Nat /\ p * 0 = 0
    BY <1>2, <1>3, OneMore, FewerCostNoMore
  <1>5. Committed(j) = IF got[j] > 0 THEN committed[j] + p * sent ELSE committed[j]
    BY DEF Committed, p, sent
  <1>6. bought[j] <= committed[j] + p * got[j]
    BY <1>1 DEF Inv, JobInv, Accounted, p
  <1>7. Committed(j) \in Nat /\ bought[j] <= Committed(j)
    <2>1. CASE got[j] > 0
      BY <1>2, <1>4, <1>5, <1>6, <2>1
    <2>2. CASE got[j] = 0
      BY <1>2, <1>4, <1>5, <1>6, <2>2
    <2> QED BY <1>2, <2>1, <2>2
  <1>8. next' = next /\ committed' \in [Jobs -> Nat] /\ committed'[j] = Committed(j)
        /\ \A i \in Jobs \ {j} : committed'[i] = committed[i]
    BY <1>1, <1>7 DEF Inv, TypeOK
  <1>9. /\ pc' \in [Jobs -> {"idle", "sending", "moving", "parked", "failed", "done"}]
        /\ pc'[j] = "moving" /\ \A i \in Jobs \ {j} : pc'[i] = pc[i]
    BY <1>1 DEF Inv, TypeOK
  <1>10. TypeOK'
    <2>1. blocked' \subseteq Providers
      BY <1>1, <1>2, SubmissionConstants DEF Inv, TypeOK
    <2>2. ASSUME NEW i \in Jobs, pc'[i] = "sending" PROVE since'[i] + got'[i] <= next'[i]
      BY <1>1, <1>8, <1>9, <2>2 DEF Inv, TypeOK
    <2> QED BY <1>1, <1>8, <1>9, <2>1, <2>2 DEF Inv, TypeOK
  <1>11. JobInv(j)'
    <2>1. Held(j) => bought[j] + looked[j] <= ceiling
      <3>1. Held(j) => bought[j] + looked[j] + p * Left(j) <= ceiling
        BY <1>1 DEF Inv, JobInv, Covered, p
      <3>2. p * Left(j) \in Nat
        BY <1>2, LeftIsNat, OneMore DEF Inv
      <3> QED BY <1>2, <3>1, <3>2
    <2>2. Ahead(j) /\ Unbought(j) /\ Once(j) /\ Within(j)
      BY DEF Inv, JobInv
    <2>3. Fresh(j)' /\ Ahead(j)' /\ Unbought(j)' /\ Once(j)' /\ Within(j)'
      BY <1>1, <1>8, <1>9, <2>2 DEF Fresh, Ahead, Unbought, Once, Within, Held
    <2>4. Covered(j)' /\ Accounted(j)'
      BY <1>1, <1>7, <1>8, <1>9, <2>1 DEF Covered, Accounted, Held
    <2> QED BY <2>3, <2>4 DEF JobInv
  <1>12. \A i \in Jobs \ {j} : Same(i)
    BY <1>1, <1>8, <1>9 DEF Same
  <1> QED BY <1>10, <1>11, <1>12, OneJob

(* The ways a submission is over. *)
LEMMA EndKeeps ==
    ASSUME Inv, NEW j \in Jobs, Submitted(j) \/ GiveUp(j) \/ Crash(j),
           UNCHANGED <<ceiling, payer>>
    PROVE  Inv'
  <1>1. UNCHANGED <<waves, bought, spent, looked>>
    BY DEF Submitted, GiveUp, Crash, payVars
  <1>2. \E s \in {"idle", "parked", "failed"} : Leave(j, s)
    <2>1. CASE Submitted(j)
      BY <2>1 DEF Submitted
    <2>2. CASE GiveUp(j)
      <3>1. Leave(j, IF waves[j] # {} THEN "parked" ELSE "failed")
        BY <2>2 DEF GiveUp
      <3> QED BY <3>1, Zenon
    <2>3. CASE Crash(j)
      <3>1. Leave(j, IF waves[j] # {} THEN "parked" ELSE "idle")
        BY <2>3 DEF Crash
      <3> QED BY <3>1, Zenon
    <2> QED BY <2>1, <2>2, <2>3
  <1>3. blocked' \subseteq Providers
    BY DEF Submitted, GiveUp, Crash, Inv, TypeOK
  <1>4. crashes' \in 0 .. MaxCrashes
    <2>1. crashes \in 0 .. MaxCrashes /\ MaxCrashes \in Nat
      BY SubmissionConstants DEF Inv, TypeOK
    <2>2. crashes' = crashes \/ (crashes < MaxCrashes /\ crashes' = crashes + 1)
      BY DEF Submitted, GiveUp, Crash
    <2> QED BY <2>1, <2>2
  <1> QED BY <1>1, <1>2, <1>3, <1>4, LeaveKeeps DEF Inv, TypeOK

(* The batches land. *)
LEMMA CollectKeeps ==
    ASSUME Inv, NEW j \in Jobs, NEW refused \in SUBSET Providers,
           NEW cost \in 0 .. bought[j], Collect(j, refused, cost),
           UNCHANGED <<ceiling, payer>>
    PROVE  Inv'
  <1>1. /\ blocked' = blocked \cup refused
        /\ spent' \in {spent, spent + cost}
        /\ bought' = [bought EXCEPT ![j] = 0] /\ looked' = [looked EXCEPT ![j] = 0]
        /\ waves' = [waves EXCEPT ![j] = {}] /\ pc' = [pc EXCEPT ![j] = "done"]
        /\ UNCHANGED <<model, next, since, got, tried, committed, crashes>>
    BY DEF Collect, sendVars
  <1>2. /\ bought' \in [Jobs -> Nat] /\ looked' \in [Jobs -> Nat]
        /\ waves' \in [Jobs -> SUBSET ((1 .. Requests) \X Models)]
        /\ pc' \in [Jobs -> {"idle", "sending", "moving", "parked", "failed", "done"}]
    BY <1>1 DEF Inv, TypeOK
  <1>3. /\ pc'[j] = "done" /\ waves'[j] = {} /\ bought'[j] = 0
        /\ \A i \in Jobs \ {j} : /\ pc'[i] = pc[i] /\ waves'[i] = waves[i]
                                  /\ bought'[i] = bought[i] /\ looked'[i] = looked[i]
    BY <1>1 DEF Inv, TypeOK
  <1>4. TypeOK'
    <2>1. spent' \in Nat /\ blocked' \subseteq Providers
      BY <1>1 DEF Inv, TypeOK
    <2>2. ASSUME NEW i \in Jobs, pc'[i] = "sending" PROVE since'[i] + got'[i] <= next'[i]
      BY <1>1, <1>3, <2>2 DEF Inv, TypeOK
    <2> QED BY <1>1, <1>2, <2>1, <2>2 DEF Inv, TypeOK
  <1>5. JobInv(j)'
    BY <1>3 DEF JobInv, Fresh, Ahead, Unbought, Covered, Accounted, Once, Within, Held
  <1>6. \A i \in Jobs \ {j} : Same(i)
    BY <1>1, <1>3 DEF Same
  <1> QED BY <1>4, <1>5, <1>6, OneJob

(* A mark ages, or nothing happens. *)
LEMMA MarksKeep ==
    ASSUME Inv,
           (\E p \in Providers : Age(p)) \/ UNCHANGED vars
    PROVE  Inv'
  <1>1. /\ UNCHANGED <<pc, model, next, since, got, tried, committed, waves, bought>>
        /\ UNCHANGED <<ceiling, payer, crashes, spent, looked>>
    BY DEF Age, vars, settingVars, sendVars, payVars
  <1>2. blocked' \subseteq Providers
    BY DEF Age, vars, Inv, TypeOK
  <1>3. TypeOK'
    BY <1>1, <1>2 DEF Inv, TypeOK
  <1>4. \A i \in Jobs : Same(i)
    BY <1>1 DEF Same
  <1> QED BY <1>3, <1>4, SameKeeps DEF Inv

-----------------------------------------------------------------------------
LEMMA InitInv == Init => Inv
  <1> SUFFICES ASSUME Init PROVE Inv
    OBVIOUS
  <1>1. TypeOK
    BY SubmissionConstants DEF Init, TypeOK
  <1>2. ASSUME NEW j \in Jobs PROVE JobInv(j)
    BY DEF Init, JobInv, Fresh, Ahead, Unbought, Covered, Accounted, Once, Within, Held
  <1> QED BY <1>1, <1>2 DEF Inv

LEMMA NextInv == Inv /\ [Next]_vars => Inv'
  <1> SUFFICES ASSUME Inv, [Next]_vars PROVE Inv'
    OBVIOUS
  <1>1. ASSUME NEW j \in Jobs, Submit(j) PROVE Inv'
    <2>0. UNCHANGED <<ceiling, payer>>
      BY <1>1 DEF Submit, settingVars
    <2>1. CASE \E m \in Models : Route(j, m) \/ Move(j, m)
      BY <2>0, <2>1, RouteKeeps, MoveKeeps
    <2>2. CASE \E refused \in SUBSET Providers, cost \in 0 .. bought[j] :
                 Collect(j, refused, cost)
      BY <2>0, <2>2, CollectKeeps
    <2>3. CASE WaveAccepted(j) \/ WaveFails(j)
      BY <2>0, <2>3, WaveKeeps
    <2>4. CASE Exhausted(j)
      BY <2>0, <2>4, ExhaustedKeeps
    <2>5. CASE Submitted(j) \/ GiveUp(j)
      BY <2>0, <2>5, EndKeeps
    <2> QED BY <1>1, <2>1, <2>2, <2>3, <2>4, <2>5 DEF Submit
  <1>2. ASSUME NEW j \in Jobs, Crash(j) PROVE Inv'
    BY <1>2, EndKeeps DEF Crash, settingVars
  <1>3. CASE (\E p \in Providers : Age(p)) \/ UNCHANGED vars
    BY <1>3, MarksKeep
  <1> QED BY <1>1, <1>2, <1>3 DEF Next

(* The loop of _submit keeps its variables within the submission they belong *)
(* to: what it counts as accepted was sent since the model began.            *)
THEOREM SubmissionTypeOK == Spec => []TypeOK
  <1>1. Inv => TypeOK
    BY DEF Inv
  <1> QED BY InitInv, NextInv, <1>1, PTL DEF Spec

(* _submit: no request is on two accepted waves, however long the chain and  *)
(* wherever a provider refuses or a worker dies.                             *)
THEOREM RequestsSentOnce == Spec => []SentOnce
  <1>1. Inv => SentOnce
    BY DEF Inv, JobInv, Once, SentOnce
  <1> QED BY InitInv, NextInv, <1>1, PTL DEF Spec

(* check_fleet_budget, as _submit calls it: under a ceiling, what a task of  *)
(* the fleet bought on all models of its chain fits below it with the ledger *)
(* the task last looked at, whatever unchecked tasks add beside it.          *)
THEOREM PurchasesWithinCheck == Spec => []WithinItsCheck
  <1>1. Inv => WithinItsCheck
    BY DEF Inv, JobInv, Within, Held, WithinItsCheck
  <1> QED BY InitInv, NextInv, <1>1, PTL DEF Spec
=============================================================================
