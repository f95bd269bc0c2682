------------------------- MODULE BatchObjectsProofs -------------------------
(***************************************************************************)
(* For every table, fleet and chunk size: no reader ever composes another  *)
(* reference than the one a row was written with, no worker of the older   *)
(* image that was seen all the while meets a row without its fields, and   *)
(* done means what it says.                                                *)
(*                                                                         *)
(* The first rests on Proved: a link was made to an equal object, and an   *)
(* object's row is never updated.  The second on Gated: a host on the      *)
(* older image that is not in missed is behind, so nobody who looks may    *)
(* clear or write compactly.  The third on Passed, which says what a pass  *)
(* knows of the rows behind its cursor, saved or about to be.              *)
(***************************************************************************)
EXTENDS BatchObjects, TLAPS

Proved == \A r \in Rows : link[r] => object[KeyOf(r)] = value[r]

OldHost(w) == w \notin missed /\ image[w] = "old"

NothingBare ==
    /\ phase \in {"backfill", "gate"}
    /\ \A r \in Rows : own[r] # "bare" /\ writing[r] # "bare"

Gated == \A w \in Workers : OldHost(w) => seen[w] /\ ~agrees[w] /\ NothingBare

Settled(r) == link[r] /\ own[r] = "bare"

Passed ==
    /\ phase = "clear" => dirty \/ \A r \in there : r <= at => Settled(r)
    /\ (phase = "clear" /\ run = "chunked") =>
          toDirty \/ \A r \in there : r <= toAt => Settled(r)
    /\ phase = "done" => \A r \in there : Settled(r)

Inv == TypeOK /\ Proved /\ Gated /\ Passed

LEMMA InitInv == Init => Inv
  <1> SUFFICES ASSUME Init PROVE Inv
    OBVIOUS
  <1>1. TypeOK
    <2>1. value \in [Rows -> Values] /\ own \in [Rows -> {"absent", "fields", "bare"}]
      BY ObjectsConstants DEF Init
    <2>2. \A r \in Rows : own[r] = "bare" => link[r]
      BY DEF Init
    <2>3. /\ link \in [Rows -> BOOLEAN] /\ object \in [Keys -> Values \cup {NoValue}]
          /\ writing \in [Rows -> {"no", "fields", "bare"}]
          /\ seen \in [Workers -> BOOLEAN] /\ agrees \in [Workers -> BOOLEAN]
          /\ image \in [Workers -> {"old", "new"}] /\ up \in [Workers -> BOOLEAN]
      BY DEF Init
    <2>4. /\ there \subseteq Present /\ missed \subseteq Workers
          /\ mishaps \in 0 .. MaxMishaps /\ slips \in 0 .. MaxSlips
      BY ObjectsConstants DEF Init
    <2> QED BY <2>1, <2>2, <2>3, <2>4 DEF Init, TypeOK
  <1>2. Proved /\ Passed
    BY DEF Init, Proved, Passed
  <1>3. Gated
    BY DEF Init, Gated, NothingBare
  <1> QED BY <1>1, <1>2, <1>3 DEF Inv

(* A step of the fleet touches neither rows nor runs. *)
LEMMA FleetInv ==
    ASSUME NEW w \in Workers, NEW i \in {"old", "new"}
    PROVE  Inv /\ (Stop(w) \/ FallsSilent(w) \/ Beat(w) \/ Start(w, i)) => Inv'
  <1> SUFFICES ASSUME Inv, Stop(w) \/ FallsSilent(w) \/ Beat(w) \/ Start(w, i) PROVE Inv'
    OBVIOUS
  <1>0. TypeOK /\ Proved /\ Gated /\ Passed
    BY DEF Inv
  <1>1. /\ UNCHANGED <<rowVars, writing, runVars>>
    BY DEF Stop, FallsSilent, Beat, Start
  <1>2. /\ seen' \in [Workers -> BOOLEAN] /\ agrees' \in [Workers -> BOOLEAN]
        /\ image' \in [Workers -> {"old", "new"}] /\ up' \in [Workers -> BOOLEAN]
        /\ missed' \subseteq Workers /\ slips' \in 0 .. MaxSlips
    <2>0. Slip => slips' \in 0 .. MaxSlips
      BY <1>0, ObjectsConstants DEF TypeOK, Slip
    <2> HIDE DEF Slip
    <2>1. CASE Stop(w)
      BY <1>0, <2>0, <2>1 DEF TypeOK, Stop
    <2>2. CASE FallsSilent(w)
      BY <1>0, <2>0, <2>2 DEF TypeOK, FallsSilent
    <2>3. CASE Beat(w)
      BY <1>0, <2>3 DEF TypeOK, Beat
    <2>4. CASE Start(w, i)
      BY <1>0, <2>0, <2>4 DEF TypeOK, Start
    <2> QED BY <2>1, <2>2, <2>3, <2>4
  <1>3. TypeOK'
    BY <1>0, <1>1, <1>2 DEF TypeOK, Present, rowVars, runVars
  <1>4. Proved' /\ Passed'
    BY <1>0, <1>1 DEF Proved, Passed, Settled, rowVars, runVars
  <1>5. Gated'
    <2> SUFFICES ASSUME NEW u \in Workers, OldHost(u)'
                 PROVE  seen'[u] /\ ~agrees'[u] /\ NothingBare'
      BY DEF Gated
    <2>1. OldHost(u)
      <3>1. CASE Stop(w)
        BY <3>1 DEF Stop, OldHost
      <3>2. CASE FallsSilent(w) \/ Beat(w)
        BY <3>2 DEF FallsSilent, Beat, OldHost
      <3>3. CASE Start(w, i)
        BY <1>0, <3>3 DEF TypeOK, Start, OldHost
      <3> QED BY <3>1, <3>2, <3>3
    <2>2. seen[u] /\ ~agrees[u] /\ NothingBare
      BY <1>0, <2>1 DEF Gated
    <2>3. NothingBare'
      BY <1>1, <2>2 DEF NothingBare, rowVars, runVars
    <2>4. seen'[u] /\ ~agrees'[u]
      <3>1. CASE Stop(w)
        BY <2>2, <3>1 DEF Stop
      <3>2. CASE FallsSilent(w)
        <4>1. u # w
          BY <2>1, <3>2 DEF OldHost, FallsSilent
        <4> QED BY <1>0, <2>2, <3>2, <4>1 DEF TypeOK, FallsSilent
      <3>3. CASE Beat(w)
        BY <1>0, <2>1, <2>2, <3>3 DEF TypeOK, Beat, OldHost
      <3>4. CASE Start(w, i)
        BY <1>0, <2>2, <3>4 DEF TypeOK, Start
      <3> QED BY <3>1, <3>2, <3>3, <3>4
    <2> QED BY <2>3, <2>4
  <1> QED BY <1>3, <1>4, <1>5 DEF Inv

(* A worker of the older image is among those behind. *)
LEMMA OldIsBehind ==
    ASSUME Inv, NEW w \in Workers, OldHost(w)
    PROVE  Behind # {}
  BY DEF Inv, Gated, Behind

LEMMA WriteInv ==
    ASSUME NEW r \in Rows
    PROVE  Inv /\ (WriteOld(r) \/ WriteLooks(r) \/ WriteCommits(r)) => Inv'
  <1> SUFFICES ASSUME Inv, WriteOld(r) \/ WriteLooks(r) \/ WriteCommits(r) PROVE Inv'
    OBVIOUS
  <1>0. TypeOK /\ Proved /\ Gated /\ Passed /\ KeyOf(r) \in Keys /\ value[r] \in Values
    BY ObjectsConstants DEF Inv, TypeOK
  <1>1. CASE WriteOld(r)
    <2>1. TypeOK'
      BY <1>0, <1>1 DEF TypeOK, WriteOld, Present, fleetVars, runVars
    <2>2. Proved'
      BY <1>0, <1>1 DEF Proved, WriteOld
    <2>3. Gated'
      BY <1>0, <1>1 DEF TypeOK, Gated, OldHost, NothingBare, WriteOld, fleetVars, runVars
    <2>4. Passed'
      BY <1>0, <1>1 DEF TypeOK, Passed, Settled, Present, WriteOld, runVars
    <2> QED BY <2>1, <2>2, <2>3, <2>4 DEF Inv
  <1>2. CASE WriteLooks(r)
    <2>1. Compact \in {"bare", "fields"}
      BY DEF Compact
    <2>2. TypeOK'
      BY <1>0, <1>2, <2>1 DEF TypeOK, WriteLooks, Present, rowVars, fleetVars, runVars
    <2>3. Proved' /\ Passed'
      BY <1>0, <1>2 DEF Proved, Passed, Settled, WriteLooks, rowVars, runVars
    <2>4. Gated'
      <3> SUFFICES ASSUME NEW w \in Workers, OldHost(w)'
                   PROVE  seen'[w] /\ ~agrees'[w] /\ NothingBare'
        BY DEF Gated
      <3>1. OldHost(w)
        BY <1>2 DEF WriteLooks, fleetVars, OldHost
      <3>2. Compact = "fields"
        BY <3>1, OldIsBehind DEF Compact
      <3>3. seen[w] /\ ~agrees[w] /\ NothingBare
        BY <1>0, <3>1 DEF Gated
      <3> QED BY <1>0, <1>2, <3>2, <3>3
              DEF TypeOK, NothingBare, WriteLooks, rowVars, fleetVars, runVars
    <2> QED BY <2>2, <2>3, <2>4 DEF Inv
  <1>3. CASE WriteCommits(r)
    <2>1. /\ own' \in [Rows -> {"absent", "fields", "bare"}]
          /\ writing' \in [Rows -> {"no", "fields", "bare"}]
          /\ object' \in [Keys -> Values \cup {NoValue}]
          /\ link' \in [Rows -> BOOLEAN]
      BY <1>0, <1>3 DEF TypeOK, WriteCommits, Links
    <2>2. \A s \in Rows : /\ own[s] # "absent" => own'[s] = own[s]
                          /\ link[s] => link'[s]
                          /\ own'[s] = "bare" => link'[s]
      BY <1>0, <1>3 DEF TypeOK, WriteCommits, Links, Inserts
    <2>3. there \subseteq Present /\ Present \subseteq Present'
      BY <1>0, <2>2 DEF TypeOK, Present
    <2>4. TypeOK'
      BY <1>0, <1>3, <2>1, <2>2, <2>3 DEF TypeOK, WriteCommits, fleetVars, runVars
    <2>5. Proved'
      <3> SUFFICES ASSUME NEW s \in Rows, link'[s]
                   PROVE  object'[KeyOf(s)] = value[s]
        BY <1>3 DEF Proved, WriteCommits
      <3>1. KeyOf(s) \in Keys /\ value[s] \in Values
        BY <1>0, ObjectsConstants DEF TypeOK
      <3>2. CASE link[s]
        <4>1. object[KeyOf(s)] = value[s] /\ object[KeyOf(s)] # NoValue
          BY <1>0, <3>1, <3>2, ObjectsConstants DEF Proved
        <4> QED BY <1>0, <1>3, <3>1, <4>1 DEF TypeOK, WriteCommits
      <3>3. CASE ~link[s]
        <4>1. s = r /\ Inserts(r)
          BY <1>0, <1>3, <3>3 DEF TypeOK, WriteCommits, Links
        <4> QED BY <1>0, <1>3, <4>1 DEF TypeOK, WriteCommits, Inserts
      <3> QED BY <3>2, <3>3
    <2>6. Gated'
      <3>1. \A s \in Rows : own'[s] = "bare" => own[s] = "bare" \/ writing[s] = "bare"
        BY <1>0, <1>3 DEF TypeOK, WriteCommits
      <3>2. \A s \in Rows : writing'[s] = "bare" => writing[s] = "bare"
        BY <1>0, <1>3 DEF TypeOK, WriteCommits
      <3>3. NothingBare => NothingBare'
        BY <1>3, <3>1, <3>2 DEF NothingBare, WriteCommits, runVars
      <3> QED BY <1>0, <1>3, <3>3 DEF Gated, OldHost, WriteCommits, fleetVars
    <2>7. \A s \in there : Settled(s) => Settled(s)'
      BY <1>0, <2>2 DEF TypeOK, Present, Settled
    <2>8. Passed'
      BY <1>0, <1>3, <2>7 DEF Passed, WriteCommits, runVars
    <2> QED BY <2>4, <2>5, <2>6, <2>8 DEF Inv
  <1> QED BY <1>1, <1>2, <1>3

(* A step of the run that leaves the rows alone. *)
LEMMA RowsUntouched ==
    ASSUME Inv, UNCHANGED <<rowVars, writing, fleetVars>>,
           run' \in {"off", "go", "looked", "chunked"},
           phase' \in {"backfill", "gate", "clear", "done"},
           at' \in Rows \cup {0}, toAt' \in Rows \cup {0},
           dirty' \in BOOLEAN, toDirty' \in BOOLEAN,
           there' \subseteq Present, mishaps' \in 0 .. MaxMishaps,
           Passed',
           phase' \in {"backfill", "gate", phase} \/ Behind = {}
    PROVE  Inv'
  <1>0. TypeOK /\ Proved /\ Gated
    BY DEF Inv
  <1>1. TypeOK'
    BY <1>0 DEF TypeOK, Present, rowVars, fleetVars
  <1>2. Proved'
    BY <1>0 DEF Proved, rowVars
  <1>3. Gated'
    <2> SUFFICES ASSUME NEW w \in Workers, OldHost(w)'
                 PROVE  seen'[w] /\ ~agrees'[w] /\ NothingBare'
      BY DEF Gated
    <2>1. OldHost(w) /\ Behind # {}
      BY OldIsBehind DEF OldHost, fleetVars
    <2> QED BY <1>0, <2>1 DEF Gated, NothingBare, rowVars, fleetVars
  <1> QED BY <1>1, <1>2, <1>3 DEF Inv

(* A pass that starts has no row behind its cursor: primary keys are above 0. *)
LEMMA BeginPass ==
    ASSUME Inv, NEW p \in {"gate", "clear"}, Begin(p), run' \in {"off", "go"},
           UNCHANGED rowVars
    PROVE  /\ phase' = p /\ at' \in Rows \cup {0} /\ dirty' \in BOOLEAN
           /\ there' \subseteq Present
           /\ Passed'
  <1>1. /\ phase' = p /\ at' = 0 /\ dirty' = FALSE /\ there' \subseteq Present
    BY DEF Begin
  <1>2. there' \subseteq Rows
    BY <1>1 DEF Present
  <1>3. \A r \in there' : ~(r <= at')
    BY <1>1, <1>2, ObjectsConstants
  <1> QED BY <1>1, <1>3 DEF Passed

(* A range is committed: the rows before it are left alone, every row of it  *)
(* is settled or counted.                                                    *)
LEMMA ChunkInv ==
    ASSUME Inv, NEW last \in Beyond, NEW locked \in SUBSET Upto(last), Chunk(last, locked)
    PROVE  Inv'
  <1> DEFINE range == Upto(last)
             free == range \ locked
  <1>0. TypeOK /\ Proved /\ Gated /\ Passed /\ last \in Rows
    BY DEF Inv, Beyond, Present
  <1>1. /\ object' \in [Keys -> Values \cup {NoValue}]
        /\ \A k \in Keys : Added(k, object'[k], range)
        /\ link' = [r \in Rows |-> Linked(r, object', free)]
        /\ own' = [r \in Rows |-> IF Clears(r, link', object', free) THEN "bare" ELSE own[r]]
        /\ toAt' = last
        /\ toDirty' = (dirty \/ \E r \in range : Remains(r, link', object', free))
        /\ run = "looked" /\ run' = "chunked"
        /\ UNCHANGED <<value, writing, fleetVars, phase, at, dirty, there>>
    BY DEF Chunk
  <1>2. mishaps' \in 0 .. MaxMishaps
    BY <1>0, ObjectsConstants DEF Chunk, Mishap, TypeOK
  <1>3. \A k \in Keys : object[k] # NoValue => object'[k] = object[k]
    BY <1>1 DEF Added
  <1>4. \A r \in Rows : /\ link'[r] \in BOOLEAN
                        /\ link[r] => link'[r]
                        /\ link'[r] /\ ~link[r] => object'[KeyOf(r)] = value[r]
    BY <1>0, <1>1 DEF Linked, Fills, TypeOK
  <1>5. \A r \in Rows : /\ own[r] = "bare" => own'[r] = "bare"
                        /\ own'[r] # own[r] => own[r] = "fields" /\ own'[r] = "bare" /\ link'[r]
                                               /\ phase = "clear"
    BY <1>1 DEF Clears
  <1>6. TypeOK'
    <2>1. own' \in [Rows -> {"absent", "fields", "bare"}] /\ link' \in [Rows -> BOOLEAN]
      BY <1>0, <1>1, <1>4 DEF TypeOK
    <2>2. \A r \in Rows : own'[r] = "bare" => link'[r]
      BY <1>0, <1>4, <1>5 DEF TypeOK
    <2>3. there' \subseteq Present'
      BY <1>0, <1>1, <1>5 DEF TypeOK, Present
    <2>4. toDirty' \in BOOLEAN
      BY <1>1
    <2> HIDE DEF range, free
    <2> QED BY <1>0, <1>1, <1>2, <2>1, <2>2, <2>3, <2>4 DEF TypeOK, fleetVars
  <1>7. Proved'
    <2> SUFFICES ASSUME NEW r \in Rows, link'[r] PROVE object'[KeyOf(r)] = value[r]
      BY <1>1 DEF Proved
    <2>1. CASE link[r]
      <3>1. object[KeyOf(r)] = value[r] /\ object[KeyOf(r)] # NoValue /\ KeyOf(r) \in Keys
        BY <1>0, <2>1, ObjectsConstants DEF Proved, TypeOK
      <3> QED BY <1>3, <3>1
    <2> QED BY <1>4, <2>1
  <1>8. Gated'
    <2>1. NothingBare => NothingBare'
      BY <1>1, <1>5 DEF NothingBare
    <2> HIDE DEF range, free
    <2> QED BY <1>0, <1>1, <2>1 DEF Gated, OldHost, fleetVars
  <1>9. \A r \in there : Settled(r) => Settled(r)'
    BY <1>0, <1>4, <1>5 DEF Settled, TypeOK, Present
  <1>10. ASSUME phase = "clear", ~toDirty', NEW r \in there, r <= last
         PROVE  Settled(r)'
    <2>1. ~dirty /\ r \in Present /\ r \in Rows /\ at \in Nat /\ r \in Nat
      BY <1>0, <1>1, <1>10, ObjectsConstants DEF TypeOK, Present
    <2>2. CASE r <= at
      BY <1>0, <1>9, <1>10, <2>1, <2>2 DEF Passed
    <2>3. CASE ~(r <= at)
      <3>1. r \in range
        BY <1>10, <2>1, <2>3 DEF Beyond, Upto
      <3>2. ~Remains(r, link', object', free)
        BY <1>1, <1>10, <3>1
      <3>3. link'[r] /\ own[r] # "fields" /\ own[r] # "absent"
        BY <2>1, <3>2 DEF Remains, Present
      <3> QED BY <1>0, <1>5, <2>1, <3>3 DEF Settled, TypeOK
    <2> QED BY <2>2, <2>3
  <1>11. Passed'
    <2> HIDE DEF range, free
    <2> QED BY <1>0, <1>1, <1>9, <1>10 DEF Passed
  <1> QED BY <1>6, <1>7, <1>8, <1>11 DEF Inv

LEMMA RunInv == Inv /\ (Offer \/ Advance \/ Kill) => Inv'
  <1> SUFFICES ASSUME Inv, Offer \/ Advance \/ Kill PROVE Inv'
    OBVIOUS
  <1>0. TypeOK /\ Passed
    BY DEF Inv
  <1>1. CASE Offer \/ Look
    <2>1. Passed'
      BY <1>0, <1>1 DEF Passed, Settled, Offer, Look, rowVars
    <2> QED BY <1>0, <1>1, <2>1, RowsUntouched DEF TypeOK, Offer, Look
  <1>2. CASE Wait
    BY <1>0, <1>2, BeginPass, RowsUntouched DEF TypeOK, Wait
  <1>3. CASE Open
    <2>1. run' \in {"off", "go"} /\ Begin("clear") /\ UNCHANGED rowVars
      BY <1>3 DEF Open
    <2> QED BY <1>0, <1>3, <2>1, BeginPass, RowsUntouched DEF TypeOK, Open
  <1>4. CASE BackfillEnds
    BY <1>0, <1>4, BeginPass, RowsUntouched DEF TypeOK, BackfillEnds
  <1>5. CASE ClearEnds
    <2>1. CASE dirty
      BY <1>0, <1>5, <2>1, BeginPass, RowsUntouched DEF TypeOK, ClearEnds
    <2>2. CASE ~dirty
      <3>1. \A r \in there : r <= at
        BY <1>0, <1>5, ObjectsConstants DEF TypeOK, ClearEnds, Beyond, Present
      <3>2. \A r \in there : Settled(r)
        BY <1>0, <1>5, <2>2, <3>1 DEF Passed, ClearEnds
      <3>3. /\ phase' = "done" /\ run' = "off"
            /\ UNCHANGED <<rowVars, writing, fleetVars, at, dirty, toAt, toDirty, there, mishaps>>
        BY <1>5, <2>2 DEF ClearEnds
      <3>4. Passed'
        BY <3>2, <3>3 DEF Passed, Settled, rowVars
      <3>5. Proved' /\ TypeOK'
        BY <1>0, <3>3 DEF Inv, Proved, TypeOK, Present, rowVars, fleetVars
      <3>6. Gated'
        BY <1>5, <3>3 DEF Inv, Gated, OldHost, NothingBare, ClearEnds, rowVars, fleetVars
      <3> QED BY <3>4, <3>5, <3>6 DEF Inv
    <2> QED BY <1>0, <2>1, <2>2 DEF TypeOK
  <1>6. CASE Save
    <2>1. Passed'
      BY <1>0, <1>6 DEF Passed, Settled, Save, rowVars
    <2> QED BY <1>0, <1>6, <2>1, RowsUntouched, ObjectsConstants DEF TypeOK, Save
  <1>7. CASE Kill
    <2>1. Passed'
      BY <1>0, <1>7 DEF Passed, Settled, Kill, rowVars
    <2>2. mishaps' \in 0 .. MaxMishaps
      BY <1>0, <1>7, ObjectsConstants DEF TypeOK, Kill, Mishap
    <2> QED BY <1>0, <1>7, <2>1, <2>2, RowsUntouched DEF TypeOK, Kill
  <1>8. ASSUME NEW last \in Beyond, NEW locked \in SUBSET Upto(last), Chunk(last, locked)
        PROVE  Inv'
    BY <1>8, ChunkInv
  <1> QED BY <1>1, <1>2, <1>3, <1>4, <1>5, <1>6, <1>7, <1>8 DEF Advance

LEMMA NextInv == Inv /\ [Next]_vars => Inv'
  <1> SUFFICES ASSUME Inv, [Next]_vars PROVE Inv'
    OBVIOUS
  <1>1. CASE UNCHANGED vars
    <2>1. Passed'
      BY <1>1 DEF Inv, Passed, Settled, vars, rowVars, runVars
    <2> QED BY <1>1, <2>1, RowsUntouched DEF Inv, TypeOK, vars, runVars
  <1>2. CASE Next
    <2>1. ASSUME NEW w \in Workers, Stop(w) \/ FallsSilent(w) \/ Beat(w) PROVE Inv'
      BY <2>1, FleetInv
    <2> QED BY <1>2, <2>1, FleetInv, WriteInv, RunInv DEF Next
  <1> QED BY <1>1, <1>2

(* The columns of batch_requests, batch_objects and worker_status, and the   *)
(* payload of the task, keep their types; no row loses its fields unlinked.  *)
THEOREM ObjectsTypeOK == Spec => []TypeOK
  <1>1. Inv => TypeOK
    BY DEF Inv
  <1> QED BY InitInv, NextInv, <1>1, PTL DEF Spec

(* REF composes the reference a row was written with, at every moment.       *)
THEOREM ObjectsReferencePreserved == Spec => []ReferencePreserved
  <1>1. Inv => ReferencePreserved
    BY DEF Inv, TypeOK, Proved, ReferencePreserved, Composed, Present
  <1> QED BY InitInv, NextInv, <1>1, PTL DEF Spec

(* A host seen on the older image since before the newer one came finds the  *)
(* fields on every row, whatever hosts the gate could not count have met.    *)
THEOREM ObjectsOldImagesCanRead == Spec => []OldImagesCanRead
  <1>1. Inv => OldImagesCanRead
    BY DEF Inv, Gated, OldHost, NothingBare, OldImagesCanRead
  <1> QED BY InitInv, NextInv, <1>1, PTL DEF Spec

(* A run that reports done leaves no row of its last pass unlinked or with   *)
(* its fields repeated.                                                      *)
THEOREM ObjectsDoneIsComplete == Spec => []DoneIsComplete
  <1>1. Inv => DoneIsComplete
    BY DEF Inv, Passed, Settled, DoneIsComplete
  <1> QED BY InitInv, NextInv, <1>1, PTL DEF Spec
=============================================================================
