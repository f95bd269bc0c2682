------------------------------ MODULE TaskLease ------------------------------
(***************************************************************************)
(* What the queue promises its handlers, without stamps, heartbeats or     *)
(* processes: a task that runs is leased to at most one run, only the      *)
(* holder of the lease moves the task on, a lease is given only for a      *)
(* pending task, and an ended task stays ended unless an operator recovers *)
(* a failed one (or a failed chunk of it).  TaskQueue is shown to          *)
(* implement it.                                                           *)
(***************************************************************************)
CONSTANTS Tasks, Runs

VARIABLES
    status,   \* of each task
    holder,   \* of each task: {} or the set of the one run that holds it
    active    \* runs that have been given a lease and have not ended

leaseVars == <<status, holder, active>>

Init ==
    /\ status = [t \in Tasks |-> "absent"]
    /\ holder = [t \in Tasks |-> {}]
    /\ active = {}

(* Moves nobody holds a lease for. *)
Moves == {<<"absent", "pending">>, <<"awaiting_batch", "pending">>,
          <<"failed", "pending">>, <<"failed", "waiting">>,
          <<"waiting", "done">>, <<"waiting", "failed">>,
          <<"pending", "cancelled">>, <<"waiting", "cancelled">>,
          <<"awaiting_batch", "cancelled">>}

Advance(t) ==
    /\ \E s \in {"pending", "waiting", "done", "failed", "cancelled"} :
          /\ <<status[t], s>> \in Moves
          /\ status' = [status EXCEPT ![t] = s]
    /\ UNCHANGED <<holder, active>>

Grant(t, r) ==
    /\ status[t] = "pending" /\ r \notin active
    /\ status' = [status EXCEPT ![t] = "running"]
    /\ holder' = [holder EXCEPT ![t] = {r}]
    /\ active' = active \cup {r}

(* The holder, and nobody else, decides how its task goes on. *)
Conclude(t, r) ==
    /\ status[t] = "running" /\ holder[t] = {r}
    /\ \E s \in {"pending", "waiting", "awaiting_batch", "done", "failed"} :
          status' = [status EXCEPT ![t] = s]
    /\ holder' = [holder EXCEPT ![t] = {}]
    /\ active' = active \ {r}

(* The lease is taken away: reaper, administrator, or a process going down. *)
Revoke(t) ==
    /\ status[t] = "running"
    /\ \E s \in {"pending", "failed", "cancelled"} : status' = [status EXCEPT ![t] = s]
    /\ holder' = [holder EXCEPT ![t] = {}]
    /\ UNCHANGED active

(* Runs end without a word; tasks they held are running with no holder. *)
Perish(R) ==
    /\ active' = active \ R
    /\ holder' = [t \in Tasks |-> holder[t] \ R]
    /\ UNCHANGED status

Next ==
    \/ \E t \in Tasks : Advance(t) \/ Revoke(t)
    \/ \E t \in Tasks, r \in Runs : Grant(t, r) \/ Conclude(t, r)
    \/ \E R \in SUBSET active : Perish(R)

Spec == Init /\ [][Next]_leaseVars
=============================================================================
