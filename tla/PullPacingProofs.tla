-------------------------- MODULE PullPacingProofs --------------------------
(***************************************************************************)
(* For every fleet, address plan, limit, pace and floor: the columns keep  *)
(* their types, and an address never asks a host sooner than the floor     *)
(* after its last question or REFUSED_MIN after its last refusal, but that *)
(* a refusal may bring a floor above CAP down to CAP.                      *)
(*                                                                         *)
(* What is asked when is not inductive by itself.  Apart says how far each *)
(* slot still is from opening in terms of how long the address has rested, *)
(* and Paced that whoever is asking has brought its gap up to the floor,   *)
(* or the cap: without it a refusal could reopen the slot at once.         *)
(***************************************************************************)
EXTENDS PullPacing, TLAPS

(* The gap no refusal goes under. *)
Least == Smaller(Floor, Cap)

Gap(a) == IF turned[a] THEN Least ELSE Floor

Apart ==
    \A a \in Addresses :
        opens[a] + rested[a] >= Gap(a) /\ opens[a] + quiet[a] >= RefusedMin

Paced == \A t \in Pulls : stage[t] = "asking" => pace[AddressFor(t)] >= Least

Inv == TypeOK /\ Apart /\ Paced

(* The configured times and what bounds them. *)
LEMMA Widths ==
    /\ {Floor, RefusedMin, Cap, Requeue, MaxMishaps} \subseteq Nat /\ RefusedMin <= Cap
    /\ Least \in Nat /\ Least <= Floor /\ Least <= Cap
    /\ Widest \in Nat /\ Cap <= Widest /\ Floor <= Widest
    /\ Longest \in Nat /\ Widest <= Longest /\ Requeue <= Longest
  <1>1. /\ Least \in Nat /\ Least <= Floor /\ Least <= Cap
        /\ Widest \in Nat /\ Cap <= Widest /\ Floor <= Widest
    BY PacingConstants DEF Least, Smaller, Widest, Larger
  <1>2. Longest \in Nat /\ Widest <= Longest /\ Requeue <= Longest
    BY <1>1, PacingConstants DEF Longest, Larger
  <1> QED BY <1>1, <1>2, PacingConstants

(* The counters stay within their range. *)
LEMMA Counters ==
    /\ \A n \in Nat : Larger(n - 1, 0) \in Nat /\ Larger(n - 1, 0) <= n
    /\ \A n \in 1 .. Ceiling : Halved(n) \in 1 .. Ceiling /\ Recorded(n) \subseteq 1 .. Ceiling
    /\ \A p \in 0 .. Widest :
          /\ Larger(p, Floor) \in 0 .. Widest /\ Larger(p, Floor) >= Floor
          /\ Smaller(Cap, Larger(p * 2, RefusedMin)) \in 0 .. Widest
          /\ Smaller(Cap, Larger(p * 2, RefusedMin)) >= RefusedMin
          /\ p >= Least => Smaller(Cap, Larger(p * 2, RefusedMin)) >= Least
          /\ Larger(Floor, (p * 9) \div 10) \in 0 .. Widest
          /\ Larger(Floor, (p * 9) \div 10) >= Floor
  <1>1. \A n \in Nat : Larger(n - 1, 0) \in Nat /\ Larger(n - 1, 0) <= n
    BY DEF Larger
  <1>2. \A n \in 1 .. Ceiling : Halved(n) \in 1 .. Ceiling /\ Recorded(n) \subseteq 1 .. Ceiling
    <2> SUFFICES ASSUME NEW n \in 1 .. Ceiling
                 PROVE  Halved(n) \in 1 .. Ceiling /\ Recorded(n) \subseteq 1 .. Ceiling
      OBVIOUS
    <2>1. n \div 2 \in Nat /\ n \div 2 <= n
      BY PacingConstants, SMT
    <2>2. Halved(n) \in 1 .. Ceiling
      BY <2>1, PacingConstants DEF Halved, Larger
    <2>3. Smaller(Ceiling, n + 1) \in 1 .. Ceiling /\ Larger(1, n - 1) \in 1 .. Ceiling
      BY PacingConstants DEF Smaller, Larger
    <2> QED BY <2>2, <2>3 DEF Recorded
  <1>3. ASSUME NEW p \in 0 .. Widest
        PROVE  /\ Larger(p, Floor) \in 0 .. Widest /\ Larger(p, Floor) >= Floor
               /\ Smaller(Cap, Larger(p * 2, RefusedMin)) \in 0 .. Widest
               /\ Smaller(Cap, Larger(p * 2, RefusedMin)) >= RefusedMin
               /\ p >= Least => Smaller(Cap, Larger(p * 2, RefusedMin)) >= Least
               /\ Larger(Floor, (p * 9) \div 10) \in 0 .. Widest
               /\ Larger(Floor, (p * 9) \div 10) >= Floor
    <2>0. p \in Nat /\ {Floor, RefusedMin, Cap} \subseteq Nat /\ RefusedMin <= Cap
      BY Widths
    <2>1. (p * 9) \div 10 \in Nat /\ (p * 9) \div 10 <= p
      BY <2>0, SMT
    <2>2. /\ Larger(Floor, (p * 9) \div 10) \in 0 .. Widest
          /\ Larger(Floor, (p * 9) \div 10) >= Floor
      BY Widths, <2>0, <2>1 DEF Larger
    <2>3. Larger(p, Floor) \in 0 .. Widest /\ Larger(p, Floor) >= Floor
      BY Widths, <2>0 DEF Larger
    <2>4. /\ Smaller(Cap, Larger(p * 2, RefusedMin)) \in 0 .. Widest
          /\ Smaller(Cap, Larger(p * 2, RefusedMin)) >= RefusedMin
          /\ p >= Least => Smaller(Cap, Larger(p * 2, RefusedMin)) >= Least
      BY Widths, <2>0 DEF Larger, Smaller
    <2> QED BY <2>2, <2>3, <2>4
  <1> QED BY <1>1, <1>2, <1>3

LEMMA InitInv == Init => Inv
  <1> SUFFICES ASSUME Init PROVE Inv
    OBVIOUS
  <1>1. TypeOK
    BY PacingConstants, Widths DEF Init, TypeOK
  <1>2. Apart /\ Paced
    BY PacingConstants, Widths DEF Init, Apart, Gap, Paced, Tasks
  <1> QED BY <1>1, <1>2 DEF Inv

(* What the settling of a row does to the columns of tasks and slots. *)
LEMMA LeaveTypes ==
    ASSUME TypeOK, NEW t \in Pulls, stage[t] # "none",
           NEW s \in {"pending", "done"}, NEW wait \in 0 .. Longest, NEW x \in BOOLEAN,
           Leave(t, s, wait, x)
    PROVE  /\ status' \in [Tasks -> {"pending", "running", "done"}]
           /\ runBy' \in [Tasks -> Workers \cup {NoWorker}]
           /\ \A r \in Tasks : status'[r] = "running" <=> runBy'[r] # NoWorker
           /\ notBefore' \in [Tasks -> 0 .. Longest]
           /\ stage' \in [Tasks -> {"none", "claimed", "asking"}]
           /\ \A r \in Tasks : stage'[r] = "none" <=> runBy'[r] = NoWorker
           /\ limit' \in [Workers -> 1 .. Ceiling]
           /\ held' \in [Workers -> SUBSET Pulls]
           /\ ended' \in [Workers -> SUBSET (Pulls \X BOOLEAN)]
           /\ \A r \in Pulls : stage'[r] = "asking" =>
                 stage[r] = "asking" /\ runBy'[r] = runBy[r]
  <1>1. t \in Tasks /\ runBy[t] \in Workers
    BY DEF TypeOK, Tasks
  <1>2. /\ status' \in [Tasks -> {"pending", "running", "done"}]
        /\ runBy' \in [Tasks -> Workers \cup {NoWorker}]
        /\ \A r \in Tasks : status'[r] = "running" <=> runBy'[r] # NoWorker
    BY <1>1 DEF TypeOK, Leave
  <1>3. /\ notBefore' \in [Tasks -> 0 .. Longest]
        /\ stage' \in [Tasks -> {"none", "claimed", "asking"}]
        /\ \A r \in Tasks : stage'[r] = "none" <=> runBy'[r] = NoWorker
    BY <1>1 DEF TypeOK, Leave
  <1>4. ended' \in [Workers -> SUBSET (Pulls \X BOOLEAN)]
    <2>1. ended[runBy[t]] \cup {<<t, x>>} \in SUBSET (Pulls \X BOOLEAN)
      BY <1>1 DEF TypeOK
    <2> QED BY <1>1, <2>1 DEF TypeOK, Leave
  <1>5. /\ limit' \in [Workers -> 1 .. Ceiling]
        /\ held' \in [Workers -> SUBSET Pulls]
    BY DEF TypeOK, Leave
  <1>6. \A r \in Pulls : stage'[r] = "asking" => stage[r] = "asking" /\ runBy'[r] = runBy[r]
    BY <1>1 DEF TypeOK, Leave, Tasks
  <1> QED BY <1>2, <1>3, <1>4, <1>5, <1>6

(* A step that leaves the columns of tasks and hosts alone. *)
LEMMA HostsUntouched ==
    ASSUME Inv, UNCHANGED <<hostVars, runBy, stage>>
    PROVE  Apart' /\ Paced'
  BY DEF Inv, Apart, Gap, Paced, hostVars, AddressFor

(* A pull at the host settles its row: what its address may do next. *)
LEMMA LeaveInv ==
    ASSUME Inv, NEW t \in Pulls, stage[t] # "none",
           NEW s \in {"pending", "done"}, NEW wait \in 0 .. Longest, NEW x \in BOOLEAN,
           Leave(t, s, wait, x),
           NEW a \in Addresses, NEW gap \in 0 .. Widest,
           pace' = [pace EXCEPT ![a] = gap], gap >= Least,
           opens' \in [Addresses -> 0 .. Widest], turned' \in [Addresses -> BOOLEAN],
           rested' \in [Addresses -> 0 .. Floor],
           quiet' \in [Addresses -> 0 .. RefusedMin],
           Apart',
           mishaps' \in 0 .. MaxMishaps
    PROVE  Inv'
  <1>1. TypeOK /\ Paced
    BY DEF Inv
  <1>2. pace' \in [Addresses -> 0 .. Widest]
    BY <1>1 DEF TypeOK
  <1>3. TypeOK'
    <2> HIDE DEF Leave
    <2> QED BY <1>1, <1>2, LeaveTypes DEF TypeOK
  <1>4. Paced'
    <2> SUFFICES ASSUME NEW r \in Pulls, stage'[r] = "asking"
                 PROVE  pace'[AddressOf(runBy'[r])] >= Least
      BY DEF Paced, AddressFor
    <2>1. stage[r] = "asking" /\ runBy'[r] = runBy[r]
      BY <1>1, LeaveTypes
    <2>2. pace[AddressOf(runBy[r])] >= Least
      BY <1>1, <2>1 DEF Paced, AddressFor
    <2>3. AddressOf(runBy[r]) \in Addresses
      BY <1>1, <2>1, PacingConstants DEF TypeOK, Tasks
    <2> QED BY <1>1, <2>1, <2>2, <2>3 DEF TypeOK
  <1> QED BY <1>3, <1>4 DEF Inv

(* The address of a pull that runs. *)
LEMMA RunsSomewhere ==
    ASSUME TypeOK, NEW t \in Pulls, stage[t] # "none"
    PROVE  t \in Tasks /\ runBy[t] \in Workers /\ AddressFor(t) \in Addresses
  BY PacingConstants DEF TypeOK, Tasks, AddressFor

LEMMA TickInv == Inv /\ Tick => Inv'
  <1> SUFFICES ASSUME Inv, Tick PROVE Inv'
    OBVIOUS
  <1>1. /\ notBefore' \in [Tasks -> 0 .. Longest]
        /\ opens' \in [Addresses -> 0 .. Widest]
    BY Widths DEF Inv, TypeOK, Tick, Down, Larger
  <1>2. /\ rested' \in [Addresses -> 0 .. Floor]
        /\ quiet' \in [Addresses -> 0 .. RefusedMin]
    BY PacingConstants DEF Inv, TypeOK, Tick, Up, Smaller
  <1>3. TypeOK'
    BY <1>1, <1>2 DEF Inv, TypeOK, Tick, slotVars
  <1>4. Apart'
    BY Widths DEF Inv, TypeOK, Apart, Gap, Tick, Up, Down, Smaller, Larger
  <1>5. Paced'
    BY DEF Inv, Paced, Tick, AddressFor
  <1> QED BY <1>3, <1>4, <1>5 DEF Inv

LEMMA StepInv == ASSUME NEW w \in Workers PROVE Inv /\ (Step(w) \/ MemoryShort(w)) => Inv'
  <1> SUFFICES ASSUME Inv, Step(w) \/ MemoryShort(w) PROVE Inv'
    OBVIOUS
  <1>0. TypeOK /\ Apart /\ Paced /\ limit[w] \in 1 .. Ceiling
    BY DEF Inv, TypeOK
  <1>1. ASSUME NEW t \in Tasks, Claim(w, t) PROVE Inv'
    <2>1. /\ status' \in [Tasks -> {"pending", "running", "done"}]
          /\ runBy' \in [Tasks -> Workers \cup {NoWorker}]
          /\ \A r \in Tasks : status'[r] = "running" <=> runBy'[r] # NoWorker
      BY <1>0, <1>1, PacingConstants DEF TypeOK, Claim
    <2>2. /\ stage' \in [Tasks -> {"none", "claimed", "asking"}]
          /\ \A r \in Tasks : stage'[r] = "none" <=> runBy'[r] = NoWorker
      BY <1>0, <1>1, PacingConstants DEF TypeOK, Claim
    <2>3. held' \in [Workers -> SUBSET Pulls]
      BY <1>0, <1>1 DEF TypeOK, Claim
    <2>4. TypeOK'
      BY <1>0, <1>1, <2>1, <2>2, <2>3 DEF TypeOK, Claim, hostVars
    <2>5. Apart'
      BY <1>0, <1>1 DEF Apart, Gap, Claim, hostVars
    <2>6. Paced'
      <3> SUFFICES ASSUME NEW r \in Pulls, stage'[r] = "asking"
                   PROVE  pace'[AddressOf(runBy'[r])] >= Least
        BY DEF Paced, AddressFor
      <3>1. stage[r] = "asking" /\ runBy'[r] = runBy[r]
        BY <1>0, <1>1 DEF Claim, TypeOK, Tasks
      <3> QED BY <1>0, <1>1, <3>1 DEF Claim, hostVars, Paced, AddressFor
    <2> QED BY <2>4, <2>5, <2>6 DEF Inv
  <1>2. ASSUME NEW t \in Tasks, NEW x \in BOOLEAN, Drain(w, t, x) PROVE Inv'
    <2>1. PICK n \in 1 .. Ceiling : limit' = [limit EXCEPT ![w] = n]
      <3>1. Halved(limit[w]) \in 1 .. Ceiling /\ Recorded(limit[w]) \subseteq 1 .. Ceiling
        BY <1>0, Counters
      <3> QED BY <1>2, <3>1 DEF Drain
    <2>2. held' \in [Workers -> SUBSET Pulls] /\ ended' \in [Workers -> SUBSET (Pulls \X BOOLEAN)]
      BY <1>0, <1>2 DEF TypeOK, Drain
    <2>3. TypeOK'
      BY <1>0, <1>2, <2>1, <2>2 DEF TypeOK, Drain, taskVars, hostVars
    <2>4. Apart' /\ Paced'
      BY <1>2, HostsUntouched DEF Drain, taskVars
    <2> QED BY <2>3, <2>4 DEF Inv
  <1>3. CASE MemoryShort(w)
    <2>1. Halved(limit[w]) \in 1 .. Ceiling
      BY <1>0, Counters
    <2>2. mishaps' \in 0 .. MaxMishaps
      BY <1>0, <1>3, PacingConstants DEF TypeOK, MemoryShort, Mishap
    <2>3. TypeOK'
      BY <1>0, <1>3, <2>1, <2>2 DEF TypeOK, MemoryShort, taskVars, hostVars
    <2>4. Apart' /\ Paced'
      BY <1>3, HostsUntouched DEF MemoryShort, taskVars
    <2> QED BY <2>3, <2>4 DEF Inv
  <1> QED BY <1>1, <1>2, <1>3 DEF Step

LEMMA ChoreInv == ASSUME NEW t \in Tasks PROVE Inv /\ ChoreEnds(t) => Inv'
  <1> SUFFICES ASSUME Inv, ChoreEnds(t) PROVE Inv'
    OBVIOUS
  <1>0. TypeOK /\ Apart /\ Paced /\ runBy[t] \in Workers /\ t \in Chores
    BY DEF Inv, TypeOK, ChoreEnds
  <1>1. /\ status' \in [Tasks -> {"pending", "running", "done"}]
        /\ runBy' \in [Tasks -> Workers \cup {NoWorker}]
        /\ \A r \in Tasks : status'[r] = "running" <=> runBy'[r] # NoWorker
        /\ stage' \in [Tasks -> {"none", "claimed", "asking"}]
        /\ \A r \in Tasks : stage'[r] = "none" <=> runBy'[r] = NoWorker
    BY <1>0 DEF TypeOK, ChoreEnds
  <1>2. limit' \in [Workers -> 1 .. Ceiling]
    <2>1. Recorded(limit[runBy[t]]) \subseteq 1 .. Ceiling
      BY <1>0, Counters DEF TypeOK
    <2> QED BY <1>0, <2>1 DEF TypeOK, ChoreEnds
  <1>3. TypeOK'
    BY <1>0, <1>1, <1>2 DEF TypeOK, ChoreEnds, hostVars
  <1>4. Apart'
    BY <1>0 DEF Apart, Gap, ChoreEnds, hostVars
  <1>5. Paced'
    <2> SUFFICES ASSUME NEW r \in Pulls, stage'[r] = "asking"
                 PROVE  pace'[AddressOf(runBy'[r])] >= Least
      BY DEF Paced, AddressFor
    <2>1. stage[r] = "asking" /\ runBy'[r] = runBy[r]
      BY <1>0, PacingConstants DEF ChoreEnds, TypeOK, Tasks
    <2> QED BY <1>0, <2>1 DEF ChoreEnds, hostVars, Paced, AddressFor
  <1> QED BY <1>3, <1>4, <1>5 DEF Inv

LEMMA ThreadInv == ASSUME NEW t \in Tasks PROVE Inv /\ Thread(t) => Inv'
  <1> SUFFICES ASSUME Inv, Thread(t) PROVE Inv'
    OBVIOUS
  <1>0. /\ TypeOK /\ Apart /\ Paced
        /\ t \in Pulls /\ stage[t] # "none"
    BY DEF Inv, Thread, Take, TooLate, Refused, Answered, RanShort, Reserve, At
  <1>1. t \in Tasks /\ runBy[t] \in Workers /\ AddressFor(t) \in Addresses
    BY <1>0, RunsSomewhere
  <1> DEFINE a == AddressFor(t)
  <1>2. pace[a] \in 0 .. Widest /\ opens[a] \in 0 .. Widest
    BY <1>0, <1>1 DEF TypeOK
  <1> HIDE DEF a
  <1>3. CASE Take(t)
    <2> DEFINE gap == Larger(pace[a], Floor)
    <2>1. gap \in 0 .. Widest /\ gap >= Floor
      BY <1>2, Counters
    <2>2. /\ opens[a] = 0
          /\ pace' = [pace EXCEPT ![a] = gap]
          /\ opens' = [opens EXCEPT ![a] = gap]
          /\ rested' = [rested EXCEPT ![a] = 0] /\ turned' = [turned EXCEPT ![a] = FALSE]
          /\ stage' = [stage EXCEPT ![t] = "asking"]
          /\ UNCHANGED <<status, runBy, notBefore, quiet, slotVars, mishaps>>
      BY <1>3 DEF Take, Reserve, a
    <2> HIDE DEF gap
    <2>3. a \in Addresses
      BY <1>1 DEF a
    <2>4. TypeOK'
      BY <1>0, <1>1, <2>1, <2>2, <2>3, PacingConstants DEF TypeOK, slotVars
    <2>5. Apart'
      BY <1>0, <2>1, <2>2, <2>3, Widths DEF TypeOK, Apart, Gap
    <2>6. Paced'
      <3> SUFFICES ASSUME NEW r \in Pulls, stage'[r] = "asking"
                   PROVE  pace'[AddressOf(runBy[r])] >= Least
        BY <2>2 DEF Paced, AddressFor
      <3>1. CASE r = t
        BY <1>0, <2>1, <2>2, <2>3, <3>1, Widths DEF a, AddressFor, TypeOK
      <3>2. CASE r # t
        <4>1. stage[r] = "asking"
          BY <1>0, <1>1, <2>2, <3>2 DEF TypeOK, Tasks
        <4>2. AddressOf(runBy[r]) \in Addresses /\ pace[AddressOf(runBy[r])] >= Least
          BY <1>0, <4>1, RunsSomewhere DEF Paced, AddressFor
        <4> QED BY <1>0, <2>1, <2>2, <4>2, Widths DEF TypeOK
      <3> QED BY <3>1, <3>2
    <2> QED BY <2>4, <2>5, <2>6 DEF Inv
  <1>4. CASE TooLate(t)
    <2>1. Larger(pace[a], Floor) \in 0 .. Widest /\ Larger(pace[a], Floor) >= Least
      BY <1>2, Counters, Widths
    <2>2. /\ pace' = [pace EXCEPT ![a] = Larger(pace[a], Floor)]
          /\ Leave(t, "pending", opens[a], FALSE)
          /\ UNCHANGED <<opens, rested, quiet, turned, mishaps>>
      BY <1>4 DEF TooLate, a
    <2>3. Apart' /\ opens[a] \in 0 .. Longest /\ a \in Addresses
      BY <1>0, <1>1, <1>2, <2>2, Widths DEF Apart, Gap, a
    <2> HIDE DEF Leave
    <2> QED BY <1>0, <2>1, <2>2, <2>3, LeaveInv DEF TypeOK
  <1>5. CASE Refused(t)
    <2> DEFINE gap == Smaller(Cap, Larger(pace[a] * 2, RefusedMin))
    <2>1. stage[t] = "asking"
      BY <1>5 DEF Refused, At
    <2>2. gap \in 0 .. Widest /\ gap >= RefusedMin /\ gap >= Least /\ a \in Addresses
      BY <1>0, <1>1, <1>2, <2>1, Counters DEF Paced, a
    <2>3. /\ pace' = [pace EXCEPT ![a] = gap]
          /\ opens' = [opens EXCEPT ![a] = gap]
          /\ quiet' = [quiet EXCEPT ![a] = 0] /\ turned' = [turned EXCEPT ![a] = TRUE]
          /\ Leave(t, "pending", Requeue, FALSE)
          /\ UNCHANGED rested
      BY <1>5 DEF Refused, a
    <2>4. mishaps' \in 0 .. MaxMishaps
      BY <1>0, <1>5, PacingConstants DEF Refused, Mishap, TypeOK
    <2> HIDE DEF gap, Leave
    <2>5. /\ opens' \in [Addresses -> 0 .. Widest]
          /\ rested' \in [Addresses -> 0 .. Floor]
          /\ quiet' \in [Addresses -> 0 .. RefusedMin]
          /\ turned' \in [Addresses -> BOOLEAN]
      BY <1>0, <2>2, <2>3, PacingConstants DEF TypeOK
    <2>6. Apart' /\ Requeue \in 0 .. Longest
      BY <1>0, <2>2, <2>3, Widths DEF Apart, Gap, TypeOK
    <2> QED BY <1>0, <2>2, <2>3, <2>4, <2>5, <2>6, LeaveInv
  <1>6. CASE Answered(t)
    <2> DEFINE gap == Larger(Floor, (pace[a] * 9) \div 10)
    <2>1. gap \in 0 .. Widest /\ gap >= Least /\ a \in Addresses
      BY <1>1, <1>2, Counters, Widths DEF a
    <2>2. /\ pace' = [pace EXCEPT ![a] = gap]
          /\ Leave(t, "done", 0, FALSE)
          /\ UNCHANGED <<opens, rested, quiet, turned, mishaps>>
      BY <1>6 DEF Answered, a
    <2>3. Apart' /\ 0 \in 0 .. Longest
      BY <1>0, <2>2, Widths DEF Apart, Gap
    <2> HIDE DEF gap, Leave
    <2> QED BY <1>0, <2>1, <2>2, <2>3, LeaveInv DEF TypeOK
  <1>7. CASE RanShort(t)
    <2>1. /\ Leave(t, "pending", 0, TRUE) /\ stage[t] = "asking"
          /\ UNCHANGED <<pace, opens, rested, quiet, turned>>
      BY <1>7 DEF RanShort, hostVars, At
    <2>2. pace' = [pace EXCEPT ![a] = pace[a]] /\ pace[a] >= Least /\ a \in Addresses
      BY <1>0, <1>1, <2>1 DEF TypeOK, Paced, a
    <2>3. mishaps' \in 0 .. MaxMishaps
      BY <1>0, <1>7, PacingConstants DEF RanShort, Mishap, TypeOK
    <2>4. Apart' /\ 0 \in 0 .. Longest
      BY <1>0, <2>1, Widths DEF Apart, Gap
    <2> HIDE DEF Leave
    <2> QED BY <1>0, <1>2, <2>1, <2>2, <2>3, <2>4, LeaveInv DEF TypeOK
  <1> QED BY <1>3, <1>4, <1>5, <1>6, <1>7 DEF Thread

LEMMA NextInv == Inv /\ [Next]_vars => Inv'
  <1> SUFFICES ASSUME Inv, [Next]_vars PROVE Inv'
    OBVIOUS
  <1>1. CASE UNCHANGED vars
    <2>1. TypeOK'
      BY <1>1 DEF Inv, TypeOK, vars, taskVars, hostVars, slotVars
    <2>2. Apart' /\ Paced'
      BY <1>1, HostsUntouched DEF vars, taskVars
    <2> QED BY <2>1, <2>2 DEF Inv
  <1> QED BY <1>1, TickInv, StepInv, ChoreInv, ThreadInv DEF Next

(* Every column of the queue, of host_budget and of the slots keeps its      *)
(* type, whatever the fleet, and no worker's limit leaves its range.         *)
THEOREM PacingTypeOK == Spec => []TypeOK
  <1>1. Inv => TypeOK
    BY DEF Inv
  <1> QED BY InitInv, NextInv, <1>1, PTL DEF Spec

(* An address never asks before its floor and the last refusal have passed,  *)
(* however many workers share it and whatever the floor: one above CAP that  *)
(* a refusal has cut down still leaves CAP.                                  *)
THEOREM AsksSpaced == Spec => AsksAreSpaced
  <1>1. ASSUME Inv, [Next]_vars
        PROVE  [\A t \in Pulls : At(t, "claimed") /\ stage'[t] = "asking" =>
                   LET a == AddressFor(t)
                   IN  /\ rested[a] >= IF turned[a] THEN Smaller(Floor, Cap) ELSE Floor
                       /\ quiet[a] >= RefusedMin]_vars
    <2> SUFFICES ASSUME Next, NEW t \in Pulls, stage[t] = "claimed", stage'[t] = "asking"
                 PROVE  rested[AddressFor(t)] >= Gap(AddressFor(t))
                        /\ quiet[AddressFor(t)] >= RefusedMin
      BY <1>1 DEF At, Gap, Least
    <2>1. TypeOK /\ t \in Tasks /\ AddressFor(t) \in Addresses
      BY <1>1, RunsSomewhere DEF Inv
    <2>2. opens[AddressFor(t)] = 0
      <3>1. CASE Tick
        BY <3>1 DEF Tick
      <3>2. ASSUME NEW w \in Workers, Step(w) \/ MemoryShort(w) PROVE FALSE
        BY <2>1, <3>2 DEF Step, Claim, Drain, MemoryShort, taskVars, TypeOK
      <3>3. ASSUME NEW r \in Tasks, ChoreEnds(r) PROVE FALSE
        BY <2>1, <3>3 DEF ChoreEnds, TypeOK
      <3>4. ASSUME NEW r \in Tasks, Thread(r) PROVE opens[AddressFor(t)] = 0
        <4>1. CASE Take(r)
          BY <2>1, <4>1 DEF Take, Reserve, TypeOK
        <4>2. CASE TooLate(r) \/ Refused(r) \/ Answered(r) \/ RanShort(r)
          BY <2>1, <4>2 DEF TooLate, Refused, Answered, RanShort, Leave, TypeOK
        <4> QED BY <3>4, <4>1, <4>2 DEF Thread
      <3> QED BY <3>1, <3>2, <3>3, <3>4 DEF Next
    <2> QED BY <1>1, <2>1, <2>2, Widths DEF Inv, Apart, Gap, TypeOK
  <1> QED BY <1>1, InitInv, NextInv, PTL DEF Spec, AsksAreSpaced
=============================================================================
