------------------------- MODULE SourcePullsProofs -------------------------
(***************************************************************************)
(* The backlog of one source's pulls is bounded, and a pull switches the   *)
(* source off only after a run of failures, for every interval, retry      *)
(* ceiling, give-up count and number of workers.                           *)
(*                                                                         *)
(* Both are counts of rows by state.  BacklogBounded needs the count of    *)
(* running pulls (a pull is scheduled only while none is pending).         *)
(* OffAfterARun needs that the run never shrinks below what a pull counted *)
(* before it acts, unless another pull is answered: rows are written one   *)
(* by one, and those let go of leave GiveUp failures or the whole run.     *)
(***************************************************************************)
EXTENDS SourcePulls, FiniteSetTheorems, SequenceTheorems, TLAPS

(* A row of TypeOK. *)
Row == [state : States, age : 0 .. Horizon, count : 0 .. GiveUp,
        lost : BOOLEAN, stale : BOOLEAN]

(* The pulls in one of the states S. *)
Rows(S) == {i \in Pulls : pulls[i].state \in S}

Unended == Running \cup {"pending"}
Failing == {"counted", "failing", "failed"}

(* No more pulls run than there are workers for them. *)
SlotsHeld == Cardinality(Rows(Running)) <= Workers

(* Every failed or failing pull had no answer. *)
FailingLost == \A i \in Pulls : pulls[i].state \in Failing => pulls[i].lost

(* What a pull has counted is there, unless an answer came since. *)
CountsHonest ==
    \A i \in Pulls : pulls[i].state = "counted" =>
        pulls[i].stale \/ pulls[i].count <= Cardinality(FailureRun) + 1

PullInv == TypeOK /\ SlotsHeld /\ BacklogBounded /\ FailingLost /\ CountsHonest

LEMMA ConstantTypes ==
    /\ Interval \in Nat \ {0} /\ Day \in Nat \ {0} /\ RetryMax \in Nat \ {0}
    /\ GiveUp \in Nat \ {0} /\ Workers \in Nat \ {0}
    /\ MaxUpsets \in Nat /\ MaxPulls \in Nat
BY PullConstants

LEMMA HorizonType == Horizon \in Nat \ {0}
BY ConstantTypes DEF Horizon, Larger

(* There are as many rows of any kind as a natural number can tell. *)
LEMMA RowsCounted ==
    ASSUME pulls \in Seq(Row), NEW S
    PROVE  /\ Pulls = 1 .. Len(pulls) /\ Len(pulls) \in Nat
           /\ IsFiniteSet(Rows(S)) /\ Cardinality(Rows(S)) \in Nat
<1>1. Pulls = 1 .. Len(pulls) /\ Len(pulls) \in Nat
  BY LenProperties DEF Pulls
<1>2. IsFiniteSet(1 .. Len(pulls))
  BY <1>1, FS_Interval
<1>3. IsFiniteSet(Rows(S))
  BY <1>1, <1>2, FS_Subset DEF Rows
<1> QED BY <1>1, <1>3, FS_CardinalityType

(* One row is written. *)
LEMMA RowWritten ==
    ASSUME pulls \in Seq(Row), NEW i \in Pulls, NEW x \in Row, pulls' = [pulls EXCEPT ![i] = x]
    PROVE  /\ pulls' \in Seq(Row) /\ Pulls' = Pulls
           /\ \A j \in Pulls : pulls'[j] = IF j = i THEN x ELSE pulls[j]
<1>1. Pulls = 1 .. Len(pulls)
  BY RowsCounted
<1>2. /\ pulls' \in Seq(Row) /\ Len(pulls') = Len(pulls)
      /\ \A j \in 1 .. Len(pulls) : pulls'[j] = IF j = i THEN x ELSE pulls[j]
  BY <1>1, ExceptSeq
<1>3. Pulls' = 1 .. Len(pulls')
  BY <1>2, LenProperties DEF Pulls
<1> QED BY <1>1, <1>2, <1>3

(* What that does to a count: nothing more is in S unless the row enters it. *)
LEMMA CountWritten ==
    ASSUME pulls \in Seq(Row), NEW i \in Pulls, NEW S, pulls' \in Seq(Row), Pulls' = Pulls,
           \A j \in Pulls : j # i => pulls'[j].state = pulls[j].state
    PROVE  /\ Cardinality(Rows(S)') <= Cardinality(Rows(S)) + 1
           /\ (pulls'[i].state \in S => pulls[i].state \in S)
                 => Cardinality(Rows(S)') <= Cardinality(Rows(S))
           /\ Cardinality(Rows(S)') \in Nat
<1>1. IsFiniteSet(Rows(S)) /\ Cardinality(Rows(S)) \in Nat
  BY RowsCounted
<1>2. Rows(S)' \in SUBSET (Rows(S) \cup {i})
  BY DEF Rows
<1>3. /\ IsFiniteSet(Rows(S) \cup {i})
      /\ Cardinality(Rows(S) \cup {i}) =
            IF i \in Rows(S) THEN Cardinality(Rows(S)) ELSE Cardinality(Rows(S)) + 1
  BY <1>1, FS_AddElement
<1>4. /\ IsFiniteSet(Rows(S)')
      /\ Cardinality(Rows(S)') <= Cardinality(Rows(S) \cup {i})
  BY <1>2, <1>3, FS_Subset
<1>5. Cardinality(Rows(S)') \in Nat
  BY <1>4, FS_CardinalityType
<1>6. Cardinality(Rows(S)') <= Cardinality(Rows(S)) + 1
  BY <1>1, <1>3, <1>4, <1>5
<1>7. ASSUME pulls'[i].state \in S => pulls[i].state \in S
      PROVE  Cardinality(Rows(S)') <= Cardinality(Rows(S))
  <2>1. Rows(S)' \in SUBSET Rows(S)
    BY <1>7 DEF Rows
  <2> QED BY <1>1, <2>1, FS_Subset
<1> QED BY <1>5, <1>6, <1>7

LEMMA BacklogIsUnended == BacklogBounded <=> Cardinality(Rows(Unended)) <= Workers + 1
BY DEF BacklogBounded, Rows, Unended

LEMMA RunCounted ==
    ASSUME pulls \in Seq(Row)
    PROVE  IsFiniteSet(FailureRun) /\ Cardinality(FailureRun) \in Nat
<1>1. IsFiniteSet(Rows({"failed"})) /\ FailureRun \in SUBSET Rows({"failed"})
  BY RowsCounted DEF FailureRun, Rows
<1> QED BY <1>1, FS_Subset, FS_CardinalityType

(* A run only grows while no row is answered and none that failed is         *)
(* written again.                                                            *)
LEMMA RunGrows ==
    ASSUME pulls \in Seq(Row), NEW i \in Pulls, pulls' \in Seq(Row), Pulls' = Pulls,
           \A j \in Pulls : j # i => pulls'[j].state = pulls[j].state,
           pulls[i].state # "failed", pulls'[i].state # "done"
    PROVE  /\ Cardinality(FailureRun) \in Nat /\ Cardinality(FailureRun') \in Nat
           /\ Cardinality(FailureRun) <= Cardinality(FailureRun')
<1>1. IsFiniteSet(FailureRun) /\ Cardinality(FailureRun) \in Nat
  BY RunCounted
<1>2. IsFiniteSet(FailureRun') /\ Cardinality(FailureRun') \in Nat
  <2>1. IsFiniteSet(Pulls)
    <3>1. Pulls = 1 .. Len(pulls) /\ Len(pulls) \in Nat
      BY RowsCounted
    <3> QED BY <3>1, FS_Interval
  <2>2. FailureRun' \in SUBSET Pulls
    BY DEF FailureRun
  <2> QED BY <2>1, <2>2, FS_Subset, FS_CardinalityType
<1>3. FailureRun \in SUBSET FailureRun'
  BY DEF FailureRun
<1> QED BY <1>1, <1>2, <1>3, FS_Subset

(* The counts, under a step that writes one row. *)
Counts == SlotsHeld /\ BacklogBounded /\ FailingLost /\ CountsHonest

(* The two that only ask how many rows are in a state. *)
LEMMA StatesKeep ==
    ASSUME PullInv, NEW i \in Pulls, pulls' \in Seq(Row), Pulls' = Pulls,
           \A j \in Pulls : j # i => pulls'[j].state = pulls[j].state,
           pulls'[i].state \in Running =>
               pulls[i].state \in Running \/ Cardinality(Rows(Running)) < Workers,
           pulls'[i].state \in Unended => pulls[i].state \in Unended
    PROVE  SlotsHeld' /\ BacklogBounded'
<1>0. /\ pulls \in Seq(Row) /\ Workers \in Nat
      /\ SlotsHeld /\ Cardinality(Rows(Unended)) <= Workers + 1
  <2>1. pulls \in Seq(Row)
    BY DEF PullInv, TypeOK, Row
  <2>2. Cardinality(Rows(Unended)) <= Workers + 1
    BY BacklogIsUnended DEF PullInv
  <2> QED BY <2>1, <2>2, ConstantTypes DEF PullInv
<1>2. ASSUME NEW S
      PROVE  /\ Cardinality(Rows(S)) \in Nat /\ Cardinality(Rows(S)') \in Nat
             /\ Cardinality(Rows(S)') <= Cardinality(Rows(S)) + 1
             /\ (pulls'[i].state \in S => pulls[i].state \in S)
                   => Cardinality(Rows(S)') <= Cardinality(Rows(S))
  BY <1>0, CountWritten, RowsCounted
<1>3. SlotsHeld'
  <2>1. CASE pulls'[i].state \in Running => pulls[i].state \in Running
    <3>1. Cardinality(Rows(Running)') <= Cardinality(Rows(Running))
      BY <1>2, <2>1
    <3>2. Cardinality(Rows(Running)) \in Nat /\ Cardinality(Rows(Running)') \in Nat
      BY <1>2
    <3> QED BY <1>0, <3>1, <3>2 DEF SlotsHeld
  <2>2. CASE Cardinality(Rows(Running)) < Workers
    <3>1. Cardinality(Rows(Running)') <= Cardinality(Rows(Running)) + 1
      BY <1>2
    <3>2. Cardinality(Rows(Running)) \in Nat /\ Cardinality(Rows(Running)') \in Nat
      BY <1>2
    <3> QED BY <1>0, <2>2, <3>1, <3>2 DEF SlotsHeld
  <2> QED BY <2>1, <2>2
<1>4. BacklogBounded'
  <2>1. Cardinality(Rows(Unended)') <= Cardinality(Rows(Unended))
    BY <1>2
  <2>2. Cardinality(Rows(Unended)) \in Nat /\ Cardinality(Rows(Unended)') \in Nat
    BY <1>2
  <2>3. Cardinality(Rows(Unended)') <= Workers + 1
    BY <1>0, <2>1, <2>2
  <2> QED BY <2>3 DEF BacklogBounded, Rows, Unended
<1> QED BY <1>3, <1>4

LEMMA OneRowKeeps ==
    ASSUME PullInv, NEW i \in Pulls, NEW x \in Row, pulls' = [pulls EXCEPT ![i] = x],
           x.state \in Running =>
               pulls[i].state \in Running \/ Cardinality(Rows(Running)) < Workers,
           x.state \in Unended => pulls[i].state \in Unended,
           x.state \in Failing => x.lost,
           pulls[i].state # "failed", x.state # "done",
           x.state = "counted" => x.count <= Cardinality(FailureRun) + 1
    PROVE  pulls' \in Seq(Row) /\ Counts'
<1>0. pulls \in Seq(Row) /\ FailingLost /\ CountsHonest /\ GiveUp \in Nat
  BY ConstantTypes DEF PullInv, TypeOK, Row
<1>1. /\ pulls' \in Seq(Row) /\ Pulls' = Pulls /\ pulls'[i] = x
      /\ \A j \in Pulls : j # i => pulls'[j] = pulls[j]
  <2>1. pulls \in Seq(Row)
    BY <1>0
  <2>2. /\ pulls' \in Seq(Row) /\ Pulls' = Pulls
        /\ \A j \in Pulls : pulls'[j] = IF j = i THEN x ELSE pulls[j]
    BY <2>1, RowWritten
  <2> QED BY <2>2
<1>2. \A j \in Pulls : j # i => pulls'[j].state = pulls[j].state
  BY <1>1
<1>3. SlotsHeld' /\ BacklogBounded'
  BY <1>1, <1>2, StatesKeep
<1>4. FailingLost'
  BY <1>0, <1>1 DEF FailingLost
<1>5. /\ Cardinality(FailureRun) \in Nat /\ Cardinality(FailureRun') \in Nat
      /\ Cardinality(FailureRun) <= Cardinality(FailureRun')
  <2>1. pulls'[i].state # "done"
    BY <1>1
  <2> QED BY <1>0, <1>1, <1>2, <2>1, RunGrows
<1>6. CountsHonest'
  <2> SUFFICES ASSUME NEW j \in Pulls, pulls'[j].state = "counted"
               PROVE  pulls'[j].stale \/ pulls'[j].count <= Cardinality(FailureRun') + 1
    BY <1>1 DEF CountsHonest
  <2>0. pulls'[j].count \in 0 .. GiveUp
    <3>1. Pulls' = 1 .. Len(pulls')
      BY <1>1, LenProperties DEF Pulls
    <3>2. pulls'[j] \in Row
      BY <1>1, <3>1, ElementOfSeq
    <3> QED BY <3>2 DEF Row
  <2>1. CASE j = i
    <3>1. pulls'[j].count <= Cardinality(FailureRun) + 1
      BY <1>1, <2>1
    <3> QED BY <1>0, <1>5, <2>0, <3>1
  <2>2. CASE j # i
    <3>1. pulls'[j] = pulls[j]
          /\ (pulls[j].stale \/ pulls[j].count <= Cardinality(FailureRun) + 1)
      BY <1>0, <1>1, <2>2 DEF CountsHonest
    <3> QED BY <1>0, <1>5, <2>0, <3>1
  <2> QED BY <2>1, <2>2
<1> QED BY <1>1, <1>3, <1>4, <1>6 DEF Counts

(* A pull is answered: what others have counted is stale from here on. *)
LEMMA AnswersKeeps ==
    ASSUME PullInv, NEW i \in Pulls, Answers(i)
    PROVE  pulls' \in Seq(Row) /\ Counts'
<1>0. /\ pulls \in Seq(Row) /\ FailingLost /\ GiveUp \in Nat
      /\ pulls[i].state = "asking"
      /\ pulls' = [j \in Pulls |->
                     IF j = i THEN Moved(pulls[j], "done")
                     ELSE [pulls[j] EXCEPT !.stale = @ \/ pulls[j].state = "counted"]]
  BY ConstantTypes DEF PullInv, TypeOK, Row, Answers
<1>1. Pulls = 1 .. Len(pulls) /\ Len(pulls) \in Nat
  BY <1>0, RowsCounted
<1>2. \A j \in Pulls : pulls[j] \in Row
  BY <1>0, <1>1, ElementOfSeq
<1>3. pulls'[i] \in Row /\ pulls'[i].state = "done"
  <2>1. pulls'[i] = [pulls[i] EXCEPT !.state = "done", !.count = 0, !.stale = FALSE]
    BY <1>0 DEF Moved
  <2>2. "done" \in States /\ 0 \in 0 .. GiveUp
    BY <1>0 DEF States
  <2> QED BY <1>2, <2>1, <2>2 DEF Row
<1>4. ASSUME NEW j \in Pulls, j # i
      PROVE  /\ pulls'[j] \in Row /\ pulls'[j].state = pulls[j].state
             /\ pulls'[j].lost = pulls[j].lost
             /\ pulls[j].state = "counted" => pulls'[j].stale
  <2> DEFINE b == pulls[j].stale \/ pulls[j].state = "counted"
  <2>1. pulls'[j] = [pulls[j] EXCEPT !.stale = b]
    BY <1>0, <1>4
  <2>2. b \in BOOLEAN /\ (pulls[j].state = "counted" => b)
    OBVIOUS
  <2> HIDE DEF b
  <2> QED BY <1>2, <2>1, <2>2 DEF Row
<1>5. pulls' \in [1 .. Len(pulls) -> Row]
  BY <1>0, <1>1, <1>3, <1>4
<1>6. pulls' \in Seq(Row)
  BY <1>1, <1>5, SeqDef
<1>7. Pulls' = Pulls
  BY <1>0 DEF Pulls
<1>8. SlotsHeld' /\ BacklogBounded'
  <2>1. pulls'[i].state \notin Running /\ pulls'[i].state \notin Unended
    BY <1>3 DEF Running, Unended
  <2>2. \A j \in Pulls : j # i => pulls'[j].state = pulls[j].state
    BY <1>4
  <2> QED BY <1>6, <1>7, <2>1, <2>2, StatesKeep
<1>9. FailingLost'
  BY <1>0, <1>3, <1>4, <1>7 DEF FailingLost, Failing
<1>10. CountsHonest'
  BY <1>3, <1>4, <1>7 DEF CountsHonest
<1> QED BY <1>6, <1>8, <1>9, <1>10 DEF Counts

(* The rows that schedule_ingest_cycle reads, renumbered: none is counted    *)
(* that was not there.                                                       *)
LEMMA RenumberedCounts ==
    ASSUME pulls \in Seq(Row), NEW S, NEW K \in SUBSET Pulls, NEW f \in Renumbered(K), NEW T,
           T = {k \in 1 .. Cardinality(K) : pulls[f[k]].state \in S}
    PROVE  IsFiniteSet(T) /\ Cardinality(T) <= Cardinality(Rows(S))
<1>1. /\ Pulls = 1 .. Len(pulls) /\ Len(pulls) \in Nat
      /\ IsFiniteSet(Rows(S))
  BY RowsCounted
<1>2. Cardinality(K) \in Nat
  <2>1. IsFiniteSet(Pulls)
    BY <1>1, FS_Interval
  <2>2. IsFiniteSet(K)
    BY <1>1, <2>1, FS_Subset
  <2> QED BY <2>2, FS_CardinalityType
<1>3. /\ f \in [1 .. Cardinality(K) -> K]
      /\ \A j, k \in 1 .. Cardinality(K) : j < k => f[j] < f[k]
  BY DEF Renumbered
<1> DEFINE g == [k \in T |-> f[k]]
<1>4. g \in [T -> Rows(S)]
  BY <1>1, <1>3 DEF Rows
<1>5. ASSUME NEW j \in T, NEW k \in T, g[j] = g[k] PROVE j = k
  <2>0. g[j] = f[j] /\ g[k] = f[k]
    OBVIOUS
  <2>1. j \in 1 .. Cardinality(K) /\ k \in 1 .. Cardinality(K) /\ f[j] = f[k]
    BY <1>5, <2>0
  <2>2. f[j] \in Int /\ f[k] \in Int
    <3>1. f[j] \in K /\ f[k] \in K
      BY <1>3, <2>1
    <3>2. f[j] \in 1 .. Len(pulls) /\ f[k] \in 1 .. Len(pulls)
      BY <1>1, <3>1
    <3> QED BY <3>2
  <2>3. ~(j < k) /\ ~(k < j)
    BY <1>3, <2>1, <2>2
  <2> QED BY <1>2, <2>1, <2>3
<1>6. g \in Injection(T, Rows(S))
  BY <1>4, <1>5 DEF Injection, IsInjective
<1> HIDE DEF g
<1> QED BY <1>1, <1>6, FS_Injection

(* A pull is scheduled: what is kept, in its order, and one pending row. *)
LEMMA ScheduledRows ==
    ASSUME pulls \in Seq(Row), NEW K \in SUBSET Pulls, NEW f \in Renumbered(K),
           pulls' = Append([k \in 1 .. Cardinality(K) |-> pulls[f[k]]], NewPull)
    PROVE  /\ Cardinality(K) \in Nat
           /\ pulls' \in Seq(Row) /\ Pulls' = 1 .. Cardinality(K) + 1
           /\ \A k \in 1 .. Cardinality(K) : f[k] \in Pulls /\ pulls'[k] = pulls[f[k]]
           /\ pulls'[Cardinality(K) + 1] = NewPull
<1> DEFINE n == Cardinality(K)
           s == [k \in 1 .. n |-> pulls[f[k]]]
<1>1. Pulls = 1 .. Len(pulls) /\ Len(pulls) \in Nat
  BY RowsCounted
<1>2. n \in Nat
  <2>1. IsFiniteSet(Pulls)
    BY <1>1, FS_Interval
  <2>2. IsFiniteSet(K)
    BY <1>1, <2>1, FS_Subset
  <2> QED BY <2>2, FS_CardinalityType
<1>3. \A k \in 1 .. n : f[k] \in Pulls
  BY <1>1 DEF Renumbered
<1>4. \A k \in 1 .. n : pulls[f[k]] \in Row
  BY <1>1, <1>3, ElementOfSeq
<1> HIDE DEF n
<1>5. s \in [1 .. n -> Row]
  BY <1>4
<1>6. s \in Seq(Row)
  BY <1>2, <1>5, SeqDef
<1>7. Len(s) = n
  <2>1. DOMAIN s = 1 .. n
    BY <1>5
  <2>2. DOMAIN s = 1 .. Len(s) /\ Len(s) \in Nat
    BY <1>6, LenProperties
  <2> QED BY <1>2, <2>1, <2>2
<1>8. NewPull \in Row
  BY HorizonType, ConstantTypes DEF NewPull, Row, States
<1>9. pulls' = Append(s, NewPull)
  BY DEF n
<1>10. \A k \in 1 .. n : s[k] = pulls[f[k]]
  OBVIOUS
<1> HIDE DEF s
<1>11. /\ pulls' \in Seq(Row) /\ Len(pulls') = n + 1
       /\ \A k \in 1 .. n : pulls'[k] = s[k]
       /\ pulls'[n + 1] = NewPull
  <2>1. /\ Append(s, NewPull) \in Seq(Row) /\ Len(Append(s, NewPull)) = Len(s) + 1
        /\ \A k \in 1 .. Len(s) : Append(s, NewPull)[k] = s[k]
        /\ Append(s, NewPull)[Len(s) + 1] = NewPull
    BY <1>6, <1>8, AppendProperties
  <2> QED BY <1>7, <1>9, <2>1
<1>12. Pulls' = 1 .. n + 1
  BY <1>11, LenProperties DEF Pulls
<1> QED BY <1>2, <1>3, <1>10, <1>11, <1>12 DEF n

(* Renumbering keeps every row of a set, in its order. *)
LEMMA RenumberedAll ==
    ASSUME pulls \in Seq(Row), NEW K \in SUBSET Pulls, NEW f \in Renumbered(K)
    PROVE  /\ f \in Surjection(1 .. Cardinality(K), K)
           /\ \A j, k \in 1 .. Cardinality(K) : j < k <=> f[j] < f[k]
<1>1. Pulls = 1 .. Len(pulls) /\ Len(pulls) \in Nat
  BY RowsCounted
<1>2. IsFiniteSet(K) /\ Cardinality(K) \in Nat
  <2>1. IsFiniteSet(Pulls)
    BY <1>1, FS_Interval
  <2> QED BY <2>1, FS_Subset, FS_CardinalityType
<1> DEFINE n == Cardinality(K)
<1>3. /\ f \in [1 .. n -> K]
      /\ \A j, k \in 1 .. n : j < k => f[j] < f[k]
  BY DEF Renumbered
<1>4. \A j \in 1 .. n : f[j] \in Int
  <2>1. \A j \in 1 .. n : f[j] \in 1 .. Len(pulls)
    BY <1>1, <1>3
  <2> QED BY <1>1, <2>1
<1>5. n \in Nat
  BY <1>2
<1> HIDE DEF n
<1>6. \A j, k \in 1 .. n : j < k <=> f[j] < f[k]
  <2> SUFFICES ASSUME NEW j \in 1 .. n, NEW k \in 1 .. n, f[j] < f[k] PROVE j < k
    BY <1>3
  <2>1. CASE j = k
    BY <1>4, <2>1
  <2>2. CASE k < j
    BY <1>3, <1>4, <2>2
  <2> QED BY <1>5, <2>1, <2>2
<1>7. \A j, k \in 1 .. n : f[j] = f[k] => j = k
  <2> SUFFICES ASSUME NEW j \in 1 .. n, NEW k \in 1 .. n, f[j] = f[k], j # k PROVE FALSE
    OBVIOUS
  <2>1. j < k \/ k < j
    BY <1>5
  <2> QED BY <1>3, <1>4, <2>1
<1>8. f \in Injection(1 .. n, K)
  BY <1>3, <1>7 DEF Injection, IsInjective
<1>9. Cardinality(1 .. n) = Cardinality(K)
  <2>1. Cardinality(1 .. n) = IF 1 > n THEN 0 ELSE n - 1 + 1
    BY <1>5, FS_Interval
  <2>2. Cardinality(1 .. n) = n
    BY <1>5, <2>1
  <2> QED BY <2>2 DEF n
<1>10. f \in Surjection(1 .. n, K)
  BY <1>2, <1>8, <1>9, FS_Injection
<1> QED BY <1>6, <1>10 DEF n

(* What is let go of leaves the run as long, or GiveUp long. *)
LEMMA ScheduledRun ==
    ASSUME pulls \in Seq(Row), NEW m \in Nat, Outlived(m), NEW f \in Renumbered(Kept(m)),
           pulls' = Append([k \in 1 .. Cardinality(Kept(m)) |-> pulls[f[k]]], NewPull)
    PROVE  /\ Cardinality(FailureRun) \in Nat /\ Cardinality(FailureRun') \in Nat
           /\ Cardinality(FailureRun') >= Cardinality(FailureRun)
                \/ Cardinality(FailureRun') >= GiveUp
<1> DEFINE K == Kept(m)
           n == Cardinality(K)
           U == {j \in FailureRun : j > m}
           T == {k \in 1 .. n : f[k] \in U}
<1>1. K \in SUBSET Pulls
  BY DEF Kept
<1>2. /\ n \in Nat
      /\ pulls' \in Seq(Row) /\ Pulls' = 1 .. n + 1
      /\ \A k \in 1 .. n : f[k] \in Pulls /\ pulls'[k] = pulls[f[k]]
      /\ pulls'[n + 1] = NewPull
  BY <1>1, ScheduledRows
<1>3. /\ f \in Surjection(1 .. n, K)
      /\ \A j, k \in 1 .. n : j < k <=> f[j] < f[k]
  BY <1>1, RenumberedAll
<1>4. IsFiniteSet(FailureRun) /\ Cardinality(FailureRun) \in Nat
  BY RunCounted
<1>5. U \in SUBSET K
  BY DEF Kept, FailureRun
<1>6. IsFiniteSet(FailureRun') /\ Cardinality(FailureRun') \in Nat
  <2>1. IsFiniteSet(1 .. n + 1)
    BY <1>2, FS_Interval
  <2>2. FailureRun' \in SUBSET (1 .. n + 1)
    BY <1>2 DEF FailureRun
  <2> QED BY <2>1, <2>2, FS_Subset, FS_CardinalityType
<1>7. T \in SUBSET FailureRun'
  <2> SUFFICES ASSUME NEW k \in T PROVE k \in FailureRun'
    OBVIOUS
  <2>1. k \in 1 .. n /\ f[k] \in FailureRun /\ pulls'[k] = pulls[f[k]]
    BY <1>2
  <2>2. k \in 1 .. n + 1 /\ pulls'[k].state = "failed"
    BY <1>2, <2>1 DEF FailureRun
  <2>3. ASSUME NEW j \in 1 .. n + 1, pulls'[j].state = "done" PROVE j < k
    <3>1. j # n + 1
      BY <1>2, <2>3 DEF NewPull
    <3>2. j \in 1 .. n
      BY <1>2, <3>1
    <3>3. f[j] \in Pulls /\ pulls[f[j]].state = "done"
      BY <1>2, <2>3, <3>2
    <3>4. f[j] < f[k]
      BY <2>1, <3>3 DEF FailureRun
    <3> QED BY <1>3, <2>1, <3>2, <3>4
  <2> QED BY <1>2, <2>2, <2>3 DEF FailureRun
<1>8. IsFiniteSet(T) /\ Cardinality(T) \in Nat /\ Cardinality(T) <= Cardinality(FailureRun')
  BY <1>6, <1>7, FS_Subset, FS_CardinalityType
<1> DEFINE g == [k \in T |-> f[k]]
<1>9. g \in Surjection(T, U)
  <2>1. g \in [T -> U]
    OBVIOUS
  <2>2. \A u \in U : \E k \in T : g[k] = u
    <3> SUFFICES ASSUME NEW u \in U PROVE \E k \in T : g[k] = u
      OBVIOUS
    <3>1. PICK k \in 1 .. n : f[k] = u
      BY <1>3, <1>5 DEF Surjection
    <3>2. k \in T /\ g[k] = u
      BY <3>1
    <3> QED BY <3>2
  <2> QED BY <2>1, <2>2 DEF Surjection
<1> HIDE DEF g, T
<1>10. Cardinality(U) <= Cardinality(T)
  BY <1>8, <1>9, FS_Surjection
<1>11. IsFiniteSet(U) /\ Cardinality(U) \in Nat
  <2>1. U \in SUBSET FailureRun
    OBVIOUS
  <2> QED BY <1>4, <2>1, FS_Subset, FS_CardinalityType
<1>12. Cardinality(U) <= Cardinality(FailureRun')
  BY <1>6, <1>8, <1>10, <1>11
<1>13. U = FailureRun \/ Cardinality(U) >= GiveUp
  BY DEF Outlived
<1> HIDE DEF U
<1>14. CASE U = FailureRun
  BY <1>4, <1>6, <1>12, <1>14
<1>15. CASE Cardinality(U) >= GiveUp
  <2>1. Cardinality(FailureRun') >= GiveUp
    BY <1>6, <1>11, <1>12, <1>15, ConstantTypes
  <2> QED BY <1>4, <1>6, <2>1
<1> QED BY <1>13, <1>14, <1>15

LEMMA ScheduleKeeps ==
    ASSUME PullInv, Schedule
    PROVE  pulls' \in Seq(Row) /\ Counts'
<1>0. /\ pulls \in Seq(Row) /\ Workers \in Nat /\ GiveUp \in Nat
      /\ SlotsHeld /\ FailingLost /\ CountsHonest
  BY ConstantTypes DEF PullInv, TypeOK, Row
<1>1. PICK m \in 0 .. Len(pulls) :
         /\ Outlived(m)
         /\ \E f \in Renumbered(Kept(m)) :
              pulls' = Append([k \in 1 .. Cardinality(Kept(m)) |-> pulls[f[k]]], NewPull)
  BY DEF Schedule
<1>m. m \in Nat
  BY <1>0, <1>1, LenProperties
<1> DEFINE K == Kept(m)
           n == Cardinality(K)
<1>k. K \in SUBSET Pulls
  BY DEF Kept
<1>f. PICK f \in Renumbered(K) :
         pulls' = Append([k \in 1 .. Cardinality(K) |-> pulls[f[k]]], NewPull)
  BY <1>1
<1>2. /\ n \in Nat
      /\ pulls' \in Seq(Row) /\ Pulls' = 1 .. n + 1
      /\ \A k \in 1 .. n : f[k] \in Pulls /\ pulls'[k] = pulls[f[k]]
      /\ pulls'[n + 1] = NewPull
  BY <1>0, <1>k, <1>f, ScheduledRows
<1>3. NewPull.state = "pending"
  BY DEF NewPull
<1>r. /\ Cardinality(FailureRun) \in Nat /\ Cardinality(FailureRun') \in Nat
      /\ Cardinality(FailureRun') >= Cardinality(FailureRun)
           \/ Cardinality(FailureRun') >= GiveUp
  BY <1>0, <1>1, <1>m, <1>f, ScheduledRun
<1>4. ASSUME NEW S
      PROVE  LET T == {k \in 1 .. n : pulls[f[k]].state \in S}
             IN  /\ IsFiniteSet(T) /\ Cardinality(T) \in Nat
                 /\ Cardinality(T) <= Cardinality(Rows(S)) /\ Cardinality(Rows(S)) \in Nat
                 /\ "pending" \notin S => Rows(S)' = T
                 /\ "pending" \in S => Rows(S)' = T \cup {n + 1}
  <2> DEFINE T == {k \in 1 .. n : pulls[f[k]].state \in S}
  <2>1. IsFiniteSet(T) /\ Cardinality(T) <= Cardinality(Rows(S))
    BY <1>0, <1>k, <1>f, RenumberedCounts
  <2>2. Cardinality(T) \in Nat /\ Cardinality(Rows(S)) \in Nat
    BY <1>0, <2>1, RowsCounted, FS_CardinalityType
  <2>3. \A k \in Nat : k \in 1 .. n + 1 <=> k \in 1 .. n \/ k = n + 1
    BY <1>2
  <2>4. "pending" \notin S => Rows(S)' = T
    BY <1>2, <1>3, <2>3 DEF Rows
  <2>5. "pending" \in S => Rows(S)' = T \cup {n + 1}
    BY <1>2, <1>3, <2>3 DEF Rows
  <2> QED BY <2>1, <2>2, <2>4, <2>5
<1>5. Cardinality(Rows(Running)') <= Cardinality(Rows(Running))
      /\ Cardinality(Rows(Running)') \in Nat /\ Cardinality(Rows(Running)) \in Nat
  BY <1>4 DEF Running
<1>7. SlotsHeld'
  BY <1>0, <1>5 DEF SlotsHeld
<1>8. FailingLost'
  <2> SUFFICES ASSUME NEW k \in 1 .. n + 1, pulls'[k].state \in Failing PROVE pulls'[k].lost
    BY <1>2 DEF FailingLost
  <2>1. k # n + 1
    BY <1>2, <1>3 DEF Failing
  <2>2. k \in 1 .. n
    BY <1>2, <2>1
  <2> QED BY <1>0, <1>2, <2>2 DEF FailingLost
<1>9. BacklogBounded'
  <2> DEFINE T == {k \in 1 .. n : pulls[f[k]].state \in Unended}
  <2>1. Rows(Unended) = Rows(Running)
    BY DEF Schedule, Due, Rows, Unended
  <2>2. /\ IsFiniteSet(T) /\ Cardinality(T) \in Nat
        /\ Cardinality(T) <= Cardinality(Rows(Unended)) /\ Rows(Unended)' = T \cup {n + 1}
    BY <1>4 DEF Unended
  <2> HIDE DEF T
  <2>3. Cardinality(Rows(Unended)') <= Cardinality(T) + 1
        /\ Cardinality(Rows(Unended)') \in Nat
    <3>1. Cardinality(T \cup {n + 1}) =
            IF n + 1 \in T THEN Cardinality(T) ELSE Cardinality(T) + 1
      BY <2>2, FS_AddElement
    <3>2. Cardinality(T \cup {n + 1}) <= Cardinality(T) + 1
          /\ Cardinality(T \cup {n + 1}) \in Nat
      BY <2>2, <3>1
    <3> QED BY <2>2, <3>2
  <2>4. Cardinality(T) <= Workers
    BY <1>0, <1>5, <2>1, <2>2 DEF SlotsHeld
  <2>5. Cardinality(Rows(Unended)') <= Workers + 1
    BY <1>0, <2>2, <2>3, <2>4
  <2> QED BY <2>5 DEF BacklogBounded, Rows, Unended
<1>10. CountsHonest'
  <2> SUFFICES ASSUME NEW k \in 1 .. n + 1, pulls'[k].state = "counted"
               PROVE  pulls'[k].stale \/ pulls'[k].count <= Cardinality(FailureRun') + 1
    BY <1>2 DEF CountsHonest
  <2>1. k # n + 1
    BY <1>2, <1>3
  <2>2. k \in 1 .. n
    BY <1>2, <2>1
  <2>3. /\ f[k] \in Pulls /\ pulls'[k] = pulls[f[k]]
        /\ pulls[f[k]].stale \/ pulls[f[k]].count <= Cardinality(FailureRun) + 1
    BY <1>0, <1>2, <2>2 DEF CountsHonest
  <2>4. pulls[f[k]].count \in 0 .. GiveUp
    <3>1. Pulls = 1 .. Len(pulls)
      BY <1>0, RowsCounted
    <3>2. pulls[f[k]] \in Row
      BY <1>0, <2>3, <3>1, ElementOfSeq
    <3> QED BY <3>2 DEF Row
  <2> QED BY <1>0, <1>r, <2>3, <2>4
<1> QED BY <1>2, <1>7, <1>8, <1>9, <1>10 DEF Counts

(* An hour passes: only ages change. *)
LEMMA HourKeeps ==
    ASSUME PullInv, Hour
    PROVE  pulls' \in Seq(Row) /\ Counts'
<1>0. /\ pulls \in Seq(Row) /\ SlotsHeld /\ BacklogBounded /\ FailingLost /\ CountsHonest
      /\ pulls' = [i \in Pulls |-> [pulls[i] EXCEPT !.age = Smaller(@ + 1, Horizon)]]
  BY DEF PullInv, TypeOK, Row, Hour
<1>1. Pulls = 1 .. Len(pulls) /\ Len(pulls) \in Nat /\ \A i \in Pulls : pulls[i] \in Row
  <2>1. Pulls = 1 .. Len(pulls) /\ Len(pulls) \in Nat
    BY <1>0, RowsCounted
  <2> QED BY <1>0, <2>1, ElementOfSeq
<1>2. ASSUME NEW i \in Pulls
      PROVE  /\ pulls'[i] \in Row
             /\ pulls'[i].state = pulls[i].state /\ pulls'[i].count = pulls[i].count
             /\ pulls'[i].lost = pulls[i].lost /\ pulls'[i].stale = pulls[i].stale
  <2>1. pulls'[i] = [pulls[i] EXCEPT !.age = Smaller(pulls[i].age + 1, Horizon)]
    BY <1>0
  <2>2. pulls[i].age \in 0 .. Horizon
    BY <1>1 DEF Row
  <2>3. Smaller(pulls[i].age + 1, Horizon) \in 0 .. Horizon
    BY <2>2, HorizonType DEF Smaller
  <2> HIDE DEF Smaller
  <2> QED BY <1>1, <2>1, <2>3 DEF Row
<1>3. pulls' \in [1 .. Len(pulls) -> Row]
  BY <1>0, <1>1, <1>2
<1>4. pulls' \in Seq(Row)
  BY <1>1, <1>3, SeqDef
<1>5. Pulls' = Pulls
  BY <1>0 DEF Pulls
<1>6. \A S : Rows(S)' = Rows(S)
  BY <1>2, <1>5 DEF Rows
<1>7. SlotsHeld' /\ FailingLost'
  BY <1>0, <1>2, <1>5, <1>6 DEF SlotsHeld, FailingLost
<1>8. BacklogBounded'
  <2>1. Cardinality(Rows(Unended)) <= Workers + 1
    BY <1>0, BacklogIsUnended
  <2>2. Cardinality(Rows(Unended)') <= Workers + 1
    BY <1>6, <2>1
  <2> QED BY <2>2 DEF BacklogBounded, Rows, Unended
<1>9. CountsHonest'
  <2>1. FailureRun' = FailureRun
    BY <1>2, <1>5 DEF FailureRun
  <2> QED BY <1>0, <1>2, <1>5, <2>1 DEF CountsHonest
<1> QED BY <1>4, <1>7, <1>8, <1>9 DEF Counts

(* A row that moves keeps its age and whether it had an answer. *)
LEMMA MovedRow ==
    ASSUME NEW r \in Row, NEW s \in States
    PROVE  Moved(r, s) = [state |-> s, age |-> r.age, count |-> 0,
                          lost |-> r.lost, stale |-> FALSE]
<1> DEFINE a == [r EXCEPT !.state = s]
           c == [a EXCEPT !.count = 0]
<1>1. a \in Row /\ a.state = s /\ a.age = r.age /\ a.lost = r.lost
  BY DEF Row
<1> HIDE DEF a
<1>2. c \in Row /\ c.state = s /\ c.age = r.age /\ c.lost = r.lost /\ c.count = 0
  BY <1>1, ConstantTypes DEF Row
<1>3. Moved(r, s) = [c EXCEPT !.stale = FALSE]
  BY DEF Moved, a
<1> HIDE DEF c
<1> QED BY <1>2, <1>3 DEF Row

(* Two rows with the same fields are the same. *)
LEMMA SameRow ==
    ASSUME NEW a \in Row, NEW b \in Row, a.state = b.state, a.age = b.age,
           a.count = b.count, a.lost = b.lost, a.stale = b.stale
    PROVE  a = b
BY DEF Row

LEMMA MovedRowIsRow ==
    ASSUME NEW r \in Row, NEW s \in States, NEW b \in BOOLEAN
    PROVE  /\ [Moved(r, s) EXCEPT !.lost = b]
                = [state |-> s, age |-> r.age, count |-> 0, lost |-> b, stale |-> FALSE]
           /\ [Moved(r, s) EXCEPT !.lost = b] \in Row
<1> DEFINE m == [state |-> s, age |-> r.age, count |-> 0, lost |-> r.lost, stale |-> FALSE]
           z == [state |-> s, age |-> r.age, count |-> 0, lost |-> b, stale |-> FALSE]
<1>1. Moved(r, s) = m
  BY MovedRow
<1>3. r.age \in 0 .. Horizon /\ 0 \in 0 .. GiveUp
  BY ConstantTypes DEF Row
<1>4. z \in Row
  BY <1>3 DEF Row
<1>5. /\ m \in Row /\ m.state = s /\ m.age = r.age /\ m.count = 0 /\ m.stale = FALSE
  BY <1>3 DEF Row
<1> HIDE DEF m
<1> DEFINE e == [m EXCEPT !.lost = b]
<1>6. e = z
  <2>1. /\ e \in Row /\ e.state = s /\ e.age = r.age /\ e.count = 0 /\ e.stale = FALSE
        /\ e.lost = b
    BY <1>5 DEF Row
  <2>2. /\ z.state = s /\ z.age = r.age /\ z.count = 0 /\ z.stale = FALSE /\ z.lost = b
    OBVIOUS
  <2> HIDE DEF e, z
  <2> QED BY <1>4, <2>1, <2>2, SameRow
<1> HIDE DEF z
<1> QED BY <1>1, <1>4, <1>6 DEF z

(* A row moves to a state in which it counts nothing. *)
LEMMA SetKeeps ==
    ASSUME PullInv, NEW i \in Pulls, NEW s \in States \ {"counted", "done"}, NEW b \in BOOLEAN,
           pulls' = [pulls EXCEPT ![i] = [Moved(pulls[i], s) EXCEPT !.lost = b]],
           s \in Running =>
               pulls[i].state \in Running \/ Cardinality(Rows(Running)) < Workers,
           s \in Unended => pulls[i].state \in Unended,
           pulls[i].state # "failed", s \in Failing => b
    PROVE  pulls' \in Seq(Row) /\ Counts'
<1> DEFINE x == [Moved(pulls[i], s) EXCEPT !.lost = b]
<1>1. pulls[i] \in Row
  <2>1. pulls \in Seq(Row)
    BY DEF PullInv, TypeOK, Row
  <2> QED BY <2>1, RowsCounted, ElementOfSeq
<1>2. x \in Row /\ x.state = s /\ x.lost = b
  <2>1. /\ x = [state |-> s, age |-> pulls[i].age, count |-> 0, lost |-> b, stale |-> FALSE]
        /\ x \in Row
    BY <1>1, MovedRowIsRow
  <2> HIDE DEF x
  <2> QED BY <2>1
<1>3. pulls' = [pulls EXCEPT ![i] = x]
  OBVIOUS
<1> HIDE DEF x
<1> QED BY <1>2, <1>3, OneRowKeeps

(* What Set and PutBack write is such a row. *)
LEMMA SetIsMove ==
    ASSUME PullInv, NEW i \in Pulls
    PROVE  /\ \A s \in States :
                Set(i, s) => pulls' = [pulls EXCEPT ![i] =
                                         [Moved(pulls[i], s) EXCEPT !.lost = pulls[i].lost]]
           /\ PutBack(i) => pulls' = [pulls EXCEPT ![i] =
                                        [Moved(pulls[i], "pending") EXCEPT !.lost = FALSE]]
           /\ pulls[i].lost \in BOOLEAN
<1>1. pulls[i] \in Row
  <2>1. pulls \in Seq(Row)
    BY DEF PullInv, TypeOK, Row
  <2> QED BY <2>1, RowsCounted, ElementOfSeq
<1>2. ASSUME NEW s \in States
      PROVE  Moved(pulls[i], s) = [Moved(pulls[i], s) EXCEPT !.lost = pulls[i].lost]
  BY <1>1 DEF Moved, Row
<1>3. [NewPull EXCEPT !.age = pulls[i].age]
        = [Moved(pulls[i], "pending") EXCEPT !.lost = FALSE]
  <2> DEFINE z == [state |-> "pending", age |-> pulls[i].age, count |-> 0,
                   lost |-> FALSE, stale |-> FALSE]
  <2>1. [Moved(pulls[i], "pending") EXCEPT !.lost = FALSE] = z
    BY <1>1, MovedRowIsRow DEF States
  <2>2. [NewPull EXCEPT !.age = pulls[i].age] = z
    <3>1. /\ NewPull \in Row /\ NewPull.state = "pending" /\ NewPull.count = 0
          /\ NewPull.lost = FALSE /\ NewPull.stale = FALSE
      BY ConstantTypes, HorizonType DEF NewPull, Row, States
    <3> DEFINE e == [NewPull EXCEPT !.age = pulls[i].age]
    <3>2. /\ e \in Row /\ e.state = "pending" /\ e.count = 0 /\ e.age = pulls[i].age
          /\ e.lost = FALSE /\ e.stale = FALSE
      BY <1>1, <3>1 DEF Row
    <3>3. /\ z \in Row /\ z.state = "pending" /\ z.count = 0 /\ z.age = pulls[i].age
          /\ z.lost = FALSE /\ z.stale = FALSE
      BY <1>1, ConstantTypes DEF Row, States
    <3> HIDE DEF e, z
    <3>4. e = z
      BY <3>2, <3>3, SameRow
    <3> QED BY <3>4 DEF e
  <2> HIDE DEF z
  <2> QED BY <2>1, <2>2
<1> QED BY <1>1, <1>2, <1>3 DEF Set, PutBack, Row

(* The count a failing pull takes is of the run that is there. *)
LEMMA NoAnswerKeeps ==
    ASSUME PullInv, NEW i \in Pulls, NoAnswer(i)
    PROVE  pulls' \in Seq(Row) /\ Counts'
<1> DEFINE m == Smaller(Cardinality(FailureRun) + 1, GiveUp)
           x == [pulls[i] EXCEPT !.state = "counted", !.lost = TRUE, !.count = m]
<1>0. pulls \in Seq(Row) /\ GiveUp \in Nat /\ pulls[i].state = "asking"
  BY ConstantTypes DEF PullInv, TypeOK, Row, NoAnswer
<1>1. pulls[i] \in Row
  BY <1>0, RowsCounted, ElementOfSeq
<1>2. Cardinality(FailureRun) \in Nat
  BY <1>0, RunCounted
<1>3. m \in 0 .. GiveUp /\ m <= Cardinality(FailureRun) + 1
  BY <1>0, <1>2 DEF Smaller
<1>4. pulls' = [pulls EXCEPT ![i] = x]
  BY DEF NoAnswer
<1> HIDE DEF m
<1>5. x \in Row /\ x.state = "counted" /\ x.count = m /\ x.lost
  BY <1>1, <1>3 DEF Row, States, Running
<1>6. pulls[i].state \in Running /\ pulls[i].state \in Unended /\ pulls[i].state # "failed"
  BY <1>0 DEF Running, Unended
<1> HIDE DEF x
<1> QED BY <1>3, <1>4, <1>5, <1>6, OneRowKeeps

(* The other steps of a pull. *)
LEMMA PullKeeps ==
    ASSUME PullInv, NEW i \in Pulls,
           \/ Claim(i) \/ Begin(i) \/ Refused(i) \/ SwitchOff(i) \/ Fails(i)
           \/ RanShort(i) \/ Requeued(i) \/ ReapedFailed(i)
    PROVE  pulls' \in Seq(Row) /\ Counts'
<1> USE DEF States, Unended, Failing
<1>0. FailingLost
  BY DEF PullInv
<1>1. CASE Claim(i)
  <2>1. /\ Set(i, "claimed") /\ pulls[i].state = "pending"
        /\ Cardinality(Rows(Running)) < Workers
    BY <1>1 DEF Claim, Rows
  <2>2. /\ pulls[i].lost \in BOOLEAN
        /\ pulls' = [pulls EXCEPT ![i] =
                       [Moved(pulls[i], "claimed") EXCEPT !.lost = pulls[i].lost]]
    BY <2>1, SetIsMove DEF Running
  <2> QED BY <2>1, <2>2, SetKeeps DEF Running
<1>2. CASE Begin(i)
  <2>1. PICK s \in {"asking", "off"} : Set(i, s)
    BY <1>2 DEF Begin
  <2>2. pulls[i].state = "claimed"
    BY <1>2 DEF Begin
  <2> QED BY <2>1, <2>2, SetIsMove, SetKeeps DEF Running
<1>3. CASE Refused(i) \/ RanShort(i) \/ Requeued(i)
  <2>1. PutBack(i) /\ pulls[i].state \in Running
    BY <1>3 DEF Refused, RanShort, Requeued, Running
  <2>2. pulls' = [pulls EXCEPT ![i] = [Moved(pulls[i], "pending") EXCEPT !.lost = FALSE]]
    BY <2>1, SetIsMove
  <2> QED BY <2>1, <2>2, SetKeeps DEF Running
<1>4. CASE SwitchOff(i)
  <2>1. Set(i, "failing") /\ pulls[i].state = "counted"
    BY <1>4 DEF SwitchOff
  <2>2. pulls[i].lost
    BY <1>0, <2>1 DEF FailingLost
  <2> QED BY <2>1, <2>2, SetIsMove, SetKeeps DEF Running
<1>5. CASE Fails(i)
  <2>1. Set(i, "failed") /\ pulls[i].state = "failing"
    BY <1>5 DEF Fails
  <2>2. pulls[i].lost
    BY <1>0, <2>1 DEF FailingLost
  <2> QED BY <2>1, <2>2, SetIsMove, SetKeeps DEF Running
<1>6. CASE ReapedFailed(i)
  <2>1. /\ pulls' = [pulls EXCEPT ![i] = [Moved(pulls[i], "failed") EXCEPT !.lost = TRUE]]
        /\ pulls[i].state \in Running
    BY <1>6 DEF ReapedFailed
  <2> QED BY <2>1, SetKeeps DEF Running
<1> QED BY <1>1, <1>2, <1>3, <1>4, <1>5, <1>6

LEMMA HourType ==
    ASSUME hour \in 0 .. Day - 1
    PROVE  (hour + 1) % Day \in 0 .. Day - 1
BY ConstantTypes

(* The switches, clocks and counters, under every step. *)
LEMMA ScalarsKeep ==
    ASSUME PullInv, Next
    PROVE  /\ active' \in BOOLEAN /\ dark' \in BOOLEAN
           /\ hour' \in 0 .. Day - 1 /\ upsets' \in 0 .. MaxUpsets
<1>0. /\ active \in BOOLEAN /\ dark \in BOOLEAN
      /\ hour \in 0 .. Day - 1 /\ upsets \in 0 .. MaxUpsets /\ MaxUpsets \in Nat
  BY ConstantTypes DEF PullInv, TypeOK
<1>1. upsets < MaxUpsets => upsets + 1 \in 0 .. MaxUpsets
  BY <1>0
<1>2. (hour + 1) % Day \in 0 .. Day - 1
  BY <1>0, HourType
<1>3. CASE Schedule \/ Hour \/ PatchSource \/ GoesDark
  BY <1>0, <1>2, <1>3 DEF Schedule, Hour, PatchSource, GoesDark, envVars
<1>4. ASSUME NEW i \in Pulls,
             \/ Claim(i) \/ Begin(i) \/ Answers(i) \/ Refused(i) \/ NoAnswer(i)
             \/ SwitchOff(i) \/ Fails(i)
      PROVE  /\ active' \in BOOLEAN /\ dark' \in BOOLEAN
             /\ hour' \in 0 .. Day - 1 /\ upsets' \in 0 .. MaxUpsets
  <2>1. hour' = hour /\ dark' = dark /\ upsets' = upsets
    BY <1>4 DEF Claim, Begin, Answers, Refused, NoAnswer, SwitchOff, Fails, envVars
  <2>2. active' = active \/ active' = (active /\ pulls[i].count < GiveUp)
    BY <1>4 DEF Claim, Begin, Answers, Refused, NoAnswer, SwitchOff, Fails
  <2>3. active' \in BOOLEAN
    BY <1>0, <2>2
  <2> QED BY <1>0, <2>1, <2>3
<1>5. ASSUME NEW i \in Pulls, RanShort(i) \/ Requeued(i) \/ ReapedFailed(i)
      PROVE  /\ active' \in BOOLEAN /\ dark' \in BOOLEAN
             /\ hour' \in 0 .. Day - 1 /\ upsets' \in 0 .. MaxUpsets
  <2>1. UNCHANGED <<active, hour, dark>> /\ upsets < MaxUpsets /\ upsets' = upsets + 1
    BY <1>5 DEF RanShort, Requeued, ReapedFailed, Upset
  <2> QED BY <1>0, <1>1, <2>1
<1> QED BY <1>3, <1>4, <1>5 DEF Next

LEMMA PullInvInit == Init => PullInv
<1> SUFFICES ASSUME Init PROVE PullInv
  OBVIOUS
<1>1. /\ active = TRUE /\ dark = FALSE /\ pulls = <<>> /\ hour = 0 /\ upsets = 0
  BY DEF Init
<1>2. pulls \in Seq(Row) /\ Pulls = {}
  BY <1>1, EmptySeq DEF Pulls
<1>3. 0 \in 0 .. Day - 1 /\ 0 \in 0 .. MaxUpsets
  BY ConstantTypes
<1>4. TypeOK
  BY <1>1, <1>2, <1>3 DEF TypeOK, Row
<1>5. \A S : Rows(S) = {}
  BY <1>2 DEF Rows
<1>6. Cardinality(Rows(Running)) = 0 /\ Cardinality(Rows(Unended)) = 0
  BY <1>5, FS_EmptySet
<1>7. SlotsHeld
  BY <1>6, ConstantTypes DEF SlotsHeld
<1>8. BacklogBounded
  BY <1>6, BacklogIsUnended, ConstantTypes
<1>9. CountsHonest /\ FailingLost
  BY <1>2 DEF CountsHonest, FailingLost
<1> QED BY <1>4, <1>7, <1>8, <1>9 DEF PullInv

LEMMA PullInvStep == PullInv /\ [Next]_vars => PullInv'
<1> SUFFICES ASSUME PullInv, [Next]_vars PROVE PullInv'
  OBVIOUS
<1>1. CASE Next
  <2>1. /\ active' \in BOOLEAN /\ dark' \in BOOLEAN
        /\ hour' \in 0 .. Day - 1 /\ upsets' \in 0 .. MaxUpsets
    BY <1>1, ScalarsKeep
  <2>2. pulls' \in Seq(Row) /\ Counts'
    <3>1. CASE Schedule
      BY <3>1, ScheduleKeeps
    <3>2. CASE Hour
      BY <3>2, HourKeeps
    <3>3. CASE PatchSource \/ GoesDark
      <4>1. pulls' = pulls
        BY <3>3 DEF PatchSource, GoesDark
      <4> QED BY <4>1 DEF PullInv, TypeOK, Row, Counts, SlotsHeld, BacklogBounded,
                          FailingLost, CountsHonest, FailureRun, Rows, Pulls
    <3>4. CASE \E i \in Pulls : NoAnswer(i)
      BY <3>4, NoAnswerKeeps
    <3>5. CASE \E i \in Pulls : Answers(i)
      BY <3>5, AnswersKeeps
    <3> QED BY <1>1, <3>1, <3>2, <3>3, <3>4, <3>5, PullKeeps DEF Next
  <2>3. TypeOK'
    BY <2>1, <2>2 DEF TypeOK, Row
  <2> QED BY <2>2, <2>3 DEF PullInv, Counts
<1>2. CASE UNCHANGED vars
  <2>1. UNCHANGED <<active, pulls, hour, dark, upsets>>
    BY <1>2 DEF vars
  <2> QED BY <2>1 DEF PullInv, TypeOK, SlotsHeld, BacklogBounded, FailingLost, CountsHonest,
                      FailureRun, Rows, Pulls
<1> QED BY <1>1, <1>2

(* Every reachable state of a source's pulls is well typed. *)
THEOREM PullsTypeOK == Spec => []TypeOK
<1>1. PullInv => TypeOK
  BY DEF PullInv
<1> QED BY <1>1, PullInvInit, PullInvStep, PTL DEF Spec

(* schedule_ingest_cycle: a queue that falls behind does not grow.  A source *)
(* has at most one pull that waits beside those its workers run, whatever    *)
(* the interval and however the pulls overlap, are refused, lost or retried. *)
THEOREM BacklogStaysBounded == Spec => []BacklogBounded
<1>1. PullInv => BacklogBounded
  BY DEF PullInv
<1> QED BY <1>1, PullInvInit, PullInvStep, PTL DEF Spec

(* _switch_off_if_given_up: when a pull switches the source off,             *)
(* ingest_give_up_after_failures pulls in a row had no answer, although the  *)
(* run is counted in one statement and acted upon in a later one, unless a   *)
(* pull was answered between the two.                                        *)
THEOREM SwitchedOffAfterARun == Spec => OffAfterARun
<1> DEFINE A == \A i \in Pulls : SwitchOff(i) /\ active /\ ~active' =>
                    pulls[i].stale \/ Cardinality(LostInARow(i)) >= GiveUp
<1>1. PullInv => A
  <2> SUFFICES ASSUME PullInv, NEW i \in Pulls, SwitchOff(i), active, ~active', ~pulls[i].stale
               PROVE  Cardinality(LostInARow(i)) >= GiveUp
    OBVIOUS
  <2>1. /\ pulls \in Seq(Row) /\ GiveUp \in Nat /\ FailingLost /\ CountsHonest
        /\ pulls[i].state = "counted" /\ ~(pulls[i].count < GiveUp)
    BY ConstantTypes DEF PullInv, TypeOK, Row, SwitchOff
  <2>2. IsFiniteSet(FailureRun) /\ Cardinality(FailureRun) \in Nat
    BY <2>1, RunCounted
  <2>3. LostInARow(i) = FailureRun \cup {i} /\ i \notin FailureRun
    BY <2>1 DEF LostInARow, FailureRun, FailingLost, Failing
  <2>4. Cardinality(LostInARow(i)) = Cardinality(FailureRun) + 1
    BY <2>2, <2>3, FS_AddElement
  <2>5. pulls[i].count \in 0 .. GiveUp
    <3>1. pulls[i] \in Row
      BY <2>1, RowsCounted, ElementOfSeq
    <3> QED BY <3>1 DEF Row
  <2>6. pulls[i].count <= Cardinality(FailureRun) + 1
    BY <2>1 DEF CountsHonest
  <2> QED BY <2>1, <2>2, <2>4, <2>5, <2>6
<1>2. PullInv => [A]_vars
  BY <1>1
<1> QED BY <1>2, PullInvInit, PullInvStep, PTL DEF Spec, OffAfterARun

=============================================================================
