---------------------------- MODULE BatchObjects ----------------------------
(***************************************************************************)
(* The task that moves a bundle's fields off the rows of batch_requests    *)
(* onto one row of batch_objects (tasks.batch_objects), while a fleet that *)
(* is being rolled from an image that reads them on the row to one that    *)
(* reads through the link goes on writing requests (snapshot_specs), and   *)
(* the gate between them (api.data_level).                                 *)
(*                                                                         *)
(* A row's bundle fields are a key (bucket, key) and a value (the rest).   *)
(* One run of the task at a time; the writes of a run whose claim was lost *)
(* are those of a run that is killed late.                                 *)
(***************************************************************************)
EXTENDS Integers, FiniteSets

CONSTANTS
    Rows,            \* primary keys of batch_requests, in their order
    Keys, Values, NoValue,
    KeyOf(_),
    Written,         \* the values the rows may be written with
    CHUNK,
    Workers,
    MaxMishaps,      \* bound: runs killed, ranges with a locked row
    MaxSlips         \* bound: moves of the fleet other than to the newer image

ASSUME ObjectsConstants ==
    /\ Rows \subseteq Nat \ {0}
    /\ NoValue \notin Values
    /\ \A r \in Rows : KeyOf(r) \in Keys
    /\ Written \subseteq [Rows -> Values]
    /\ CHUNK \in Nat \ {0}
    /\ {MaxMishaps, MaxSlips} \subseteq Nat

VARIABLES
    value,           \* the reference a row is written with, never changed
    \* batch_requests: what snapshot_ref holds, and whether object_id is set
    own, link,
    \* batch_objects: the value of a key's row
    object,
    \* snapshot_specs between its look at the fleet and its commit
    writing,
    \* worker_status: seen lately; data_level current and written by release
    seen, agrees,
    \* the image a host is on, and whether its worker runs
    image, up,
    \* the run, the state in its payload, and what its chunk will save
    run, phase, at, dirty, toAt, toDirty,
    \* history: the rows there when the clear pass began, and the hosts that
    \* are on the older image and were not seen all the while, or are back on
    \* it; bounds
    there, missed, mishaps, slips

rowVars == <<value, own, link, object>>
fleetVars == <<seen, agrees, image, up, missed, slips>>
runVars == <<run, phase, at, dirty, toAt, toDirty, there, mishaps>>
vars == <<rowVars, writing, fleetVars, runVars>>

Init ==
    /\ value \in Written
    /\ own \in [Rows -> {"absent", "fields"}]
    /\ link = [r \in Rows |-> FALSE]
    /\ object = [k \in Keys |-> NoValue]
    /\ writing = [r \in Rows |-> "no"]
    /\ seen = [w \in Workers |-> TRUE]
    /\ agrees = [w \in Workers |-> FALSE]
    /\ image = [w \in Workers |-> "old"] /\ up = [w \in Workers |-> TRUE]
    /\ run = "off" /\ phase = "backfill"
    /\ at = 0 /\ dirty = FALSE /\ toAt = 0 /\ toDirty = FALSE
    /\ there = {} /\ missed = {}
    /\ mishaps = 0 /\ slips = 0

Mishap == mishaps < MaxMishaps /\ mishaps' = mishaps + 1
Slip == slips < MaxSlips /\ slips' = slips + 1

-----------------------------------------------------------------------------
(* The fleet and data_level.                                                *)

(* data_level.behind *)
Behind == {w \in Workers : seen[w] /\ ~agrees[w]}

Stop(w) ==
    /\ up[w]
    /\ up' = [up EXCEPT ![w] = FALSE]
    /\ IF image[w] = "new" THEN Slip ELSE UNCHANGED slips
    /\ UNCHANGED <<rowVars, writing, seen, agrees, image, missed, runVars>>

(* Not seen for LIVE: stopped, or running and cut off or stuck for as long. *)
FallsSilent(w) ==
    /\ seen[w]
    /\ IF up[w] THEN Slip ELSE UNCHANGED slips
    /\ seen' = [seen EXCEPT ![w] = FALSE]
    /\ missed' = IF image[w] = "old" THEN missed \cup {w} ELSE missed
    /\ UNCHANGED <<rowVars, writing, agrees, image, up, runVars>>

(* worker.main: last_seen is written, the release and the level are not, so  *)
(* the row speaks of the image before until the first beat.                  *)
Start(w, i) ==
    /\ ~up[w]
    /\ IF i = "old" /\ image[w] = "old" THEN Slip ELSE UNCHANGED slips
    /\ up' = [up EXCEPT ![w] = TRUE]
    /\ missed' = IF i = "new" THEN missed \ {w}
                 ELSE IF image[w] = "new" THEN missed \cup {w} ELSE missed
    /\ image' = [image EXCEPT ![w] = i]
    /\ seen' = [seen EXCEPT ![w] = TRUE]
    /\ UNCHANGED <<rowVars, writing, agrees, runVars>>

(* _report_worker_status: the older image writes release alone. *)
Beat(w) ==
    /\ up[w]
    /\ seen' = [seen EXCEPT ![w] = TRUE]
    /\ agrees' = [agrees EXCEPT ![w] = image[w] = "new"]
    /\ UNCHANGED <<rowVars, writing, image, up, missed, slips, runVars>>

-----------------------------------------------------------------------------
(* Requests are written while the task runs.                                *)

(* The older image: the whole reference, no link. *)
WriteOld(r) ==
    /\ \E w \in Workers : up[w] /\ image[w] = "old"
    /\ own[r] = "absent"
    /\ own' = [own EXCEPT ![r] = "fields"]
    /\ UNCHANGED <<value, link, object, writing, fleetVars, runVars>>

(* Mutant: the writer does not ask who still reads the fields. *)
CompactAlways == "bare"

Compact == IF Behind = {} THEN "bare" ELSE "fields"

(* snapshot_specs, in its transaction, looks who is behind ... *)
WriteLooks(r) ==
    /\ \E w \in Workers : up[w] /\ image[w] = "new"
    /\ own[r] = "absent" /\ writing[r] = "no"
    /\ writing' = [writing EXCEPT ![r] = Compact]
    /\ UNCHANGED <<rowVars, fleetVars, runVars>>

(* object_id accepts the key's row, and no one has written the request. *)
Inserts(r) == own[r] = "absent" /\ object[KeyOf(r)] \in {NoValue, value[r]}

(* Mutant: the row is inserted without its object_id. *)
LinksNothing(r) == link

Links(r) == IF Inserts(r) THEN [link EXCEPT ![r] = TRUE] ELSE link

(* ... and commits: object_id finds or adds the key's row and refuses one    *)
(* with other fields; a row that is there already wins.                      *)
WriteCommits(r) ==
    /\ writing[r] # "no"
    /\ writing' = [writing EXCEPT ![r] = "no"]
    /\ object' = [object EXCEPT ![KeyOf(r)] = IF @ = NoValue THEN value[r] ELSE @]
    /\ own' = IF Inserts(r) THEN [own EXCEPT ![r] = writing[r]] ELSE own
    /\ link' = Links(r)
    /\ UNCHANGED <<value, fleetVars, runVars>>

-----------------------------------------------------------------------------
(* A run: handle_consolidate_batch_objects, one advance after another.      *)

Present == {r \in Rows : own[r] # "absent"}
Beyond == {r \in Present : r > at}
Upto(last) == {r \in Beyond : r <= last}

(* _LAST: the CHUNK-th row from here, or the last one. *)
IsLast(last) ==
    \/ Cardinality(Upto(last)) = CHUNK
    \/ Cardinality(Upto(last)) < CHUNK /\ Upto(last) = Beyond

(* scheduling: offered until a run reports done, one at a time; _resume goes *)
(* on from the state the last one saved.                                     *)
Offer ==
    /\ run = "off" /\ phase # "done"
    /\ run' = "go"
    /\ UNCHANGED <<rowVars, writing, fleetVars, phase, at, dirty, toAt, toDirty,
                   there, mishaps>>

(* _pass *)
Begin(p) ==
    /\ phase' = p /\ at' = 0 /\ dirty' = FALSE
    /\ there' = IF p = "clear" THEN Present ELSE {}

(* An older image is seen: back to the gate, and the run ends.  What the     *)
(* pass had counted is kept in the payload and never read again.             *)
Wait ==
    /\ run = "go" /\ phase \in {"gate", "clear"} /\ Behind # {}
    /\ Begin("gate") /\ run' = "off"
    /\ UNCHANGED <<rowVars, writing, fleetVars, toAt, toDirty, mishaps>>

Open ==
    /\ run = "go" /\ phase = "gate" /\ Behind = {}
    /\ Begin("clear")
    /\ UNCHANGED <<rowVars, writing, fleetVars, run, toAt, toDirty, mishaps>>

Look ==
    /\ run = "go"
    /\ phase = "backfill" \/ (phase = "clear" /\ Behind = {})
    /\ run' = "looked"
    /\ UNCHANGED <<rowVars, writing, fleetVars, phase, at, dirty, toAt, toDirty,
                   there, mishaps>>

(* _OBJECTS: a row for each key that has none, with the fields of some row   *)
(* of the range that has no link.                                            *)
Added(k, v, range) ==
    LET naming == {r \in range : ~link[r] /\ KeyOf(r) = k}
    IN  IF object[k] # NoValue \/ naming = {}
        THEN v = object[k]
        ELSE \E r \in naming : v = value[r]

(* Mutant: the rows of a key are linked to its object without the proof of   *)
(* equality.                                                                 *)
FillsByKey(r, objects) == ~link[r]

(* _FILL, for a row that is not locked. *)
Fills(r, objects) == ~link[r] /\ objects[KeyOf(r)] = value[r]

(* Mutant: a clear pass clears and links nothing. *)
LinkedInBackfill(r, objects, free) ==
    link[r] \/ (phase = "backfill" /\ r \in free /\ Fills(r, objects))

Linked(r, objects, free) == link[r] \/ (r \in free /\ Fills(r, objects))

(* _CLEAR *)
Clears(r, linked, objects, free) ==
    /\ phase = "clear" /\ r \in free
    /\ own[r] = "fields" /\ linked[r] /\ objects[KeyOf(r)] = value[r]

(* Mutant: what a pass skipped is not counted, only what it cleared. *)
RemainsCleared(r, linked, objects, free) == Clears(r, linked, objects, free)

(* cleared, or counted by _COUNT as unpointed or still holding fields. *)
Remains(r, linked, objects, free) ==
    Clears(r, linked, objects, free) \/ ~linked[r] \/ own[r] = "fields"

(* The transaction of a range.  Locked rows are skipped. *)
Chunk(last, locked) ==
    LET range == Upto(last)
        free == range \ locked
    IN  /\ run = "looked" /\ IsLast(last)
        /\ IF locked = {} THEN UNCHANGED mishaps ELSE Mishap
        /\ object' \in [Keys -> Values \cup {NoValue}]
        /\ \A k \in Keys : Added(k, object'[k], range)
        /\ link' = [r \in Rows |-> Linked(r, object', free)]
        /\ own' = [r \in Rows |-> IF Clears(r, link', object', free) THEN "bare" ELSE own[r]]
        /\ toAt' = last
        /\ toDirty' = (dirty \/ \E r \in range : Remains(r, link', object', free))
        /\ run' = "chunked"
        /\ UNCHANGED <<value, writing, fleetVars, phase, at, dirty, there>>

(* checkpoint *)
Save ==
    /\ run = "chunked"
    /\ at' = toAt /\ dirty' = toDirty /\ run' = "go"
    /\ toAt' = 0 /\ toDirty' = FALSE
    /\ UNCHANGED <<rowVars, writing, fleetVars, phase, there, mishaps>>

(* The end of the table. *)
BackfillEnds ==
    /\ run = "looked" /\ Beyond = {} /\ phase = "backfill"
    /\ Begin("gate") /\ run' = "go"
    /\ UNCHANGED <<rowVars, writing, fleetVars, toAt, toDirty, mishaps>>

ClearEnds ==
    /\ run = "looked" /\ Beyond = {} /\ phase = "clear"
    /\ IF dirty THEN Begin("clear")
                ELSE phase' = "done" /\ UNCHANGED <<at, dirty, there>>
    /\ run' = "off"
    /\ UNCHANGED <<rowVars, writing, fleetVars, toAt, toDirty, mishaps>>

(* The worker dies, or the claim is lost: what was not saved is done again. *)
Kill ==
    /\ run # "off" /\ Mishap
    /\ run' = "off" /\ toAt' = 0 /\ toDirty' = FALSE
    /\ UNCHANGED <<rowVars, writing, fleetVars, phase, at, dirty, there>>

-----------------------------------------------------------------------------
Advance ==
    \/ Wait \/ Open \/ Look \/ Save \/ BackfillEnds \/ ClearEnds
    \/ \E last \in Beyond : \E locked \in SUBSET Upto(last) : Chunk(last, locked)

Next ==
    \/ \E w \in Workers :
          \/ Stop(w) \/ FallsSilent(w) \/ Beat(w)
          \/ \E i \in {"old", "new"} : Start(w, i)
    \/ \E r \in Rows : WriteOld(r) \/ WriteLooks(r) \/ WriteCommits(r)
    \/ Offer \/ Advance \/ Kill

(* A cycle offers the run, and a run that is offered is claimed and goes on. *)
Fairness == WF_vars(Offer) /\ WF_vars(Advance)

Spec == Init /\ [][Next]_vars
FairSpec == Spec /\ Fairness

-----------------------------------------------------------------------------
(* The columns hold what their writers leave; a row without its fields has   *)
(* a link.                                                                   *)
TypeOK ==
    /\ value \in [Rows -> Values]
    /\ own \in [Rows -> {"absent", "fields", "bare"}]
    /\ link \in [Rows -> BOOLEAN]
    /\ \A r \in Rows : own[r] = "bare" => link[r]
    /\ object \in [Keys -> Values \cup {NoValue}]
    /\ writing \in [Rows -> {"no", "fields", "bare"}]
    /\ seen \in [Workers -> BOOLEAN] /\ agrees \in [Workers -> BOOLEAN]
    /\ image \in [Workers -> {"old", "new"}] /\ up \in [Workers -> BOOLEAN]
    /\ run \in {"off", "go", "looked", "chunked"}
    /\ phase \in {"backfill", "gate", "clear", "done"}
    /\ at \in Rows \cup {0} /\ toAt \in Rows \cup {0}
    /\ dirty \in BOOLEAN /\ toDirty \in BOOLEAN
    /\ there \subseteq Present /\ missed \subseteq Workers
    /\ mishaps \in 0 .. MaxMishaps /\ slips \in 0 .. MaxSlips

(* request_snapshots.REF: the row's own fields under those of its object. *)
Composed(r) ==
    IF link[r] THEN object[KeyOf(r)]
    ELSE IF own[r] = "fields" THEN value[r] ELSE NoValue

(* The reference every reader composes is the one the row was written with,  *)
(* before, during and after the task, whoever wrote the row, whichever rows  *)
(* were locked or unequal, and wherever a run was killed (REF).              *)
ReferencePreserved == \A r \in Present : Composed(r) = value[r]

(* A worker of the older image, which reads the fields on the row, meets no  *)
(* row without them as long as its host was seen all the while and never on  *)
(* the newer image: neither the clearing nor a compact write happens before  *)
(* the last such worker has left (advance's gate, snapshot_specs).  A host   *)
(* the gate cannot count, silent for LIVE or rolled back and yet to beat, is *)
(* let down, and no other with it.                                           *)
OldImagesCanRead ==
    \A w \in Workers \ missed, r \in Rows : up[w] /\ image[w] = "old" => own[r] # "bare"

(* A run reports done only when every row its last pass started with is      *)
(* linked and holds no field twice, skipped and late ones included (advance).*)
DoneIsComplete ==
    phase = "done" => \A r \in there : link[r] /\ own[r] = "bare"

(* A key's object holds other fields than one of the rows that name it. *)
Unequal == \E r \in Present : object[KeyOf(r)] \notin {NoValue, value[r]}

(* Once the fleet is at the level for good and no row disagrees with its     *)
(* object, the task gets done: locked and late rows, a fleet seen behind in  *)
(* the middle of a pass and killed runs only cost further passes.            *)
GetsDone == <>[](Behind = {} /\ ~Unequal) => <>(phase = "done")
=============================================================================
