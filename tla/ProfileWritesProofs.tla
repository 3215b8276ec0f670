------------------------ MODULE ProfileWritesProofs ------------------------
(***************************************************************************)
(* The writers of a profile, for any number of requests and imports, any   *)
(* fields and ratings: a locked read stays current, a second attempt is    *)
(* enough, a profile is created once, and the statements implement the     *)
(* atomic store.                                                           *)
(***************************************************************************)
EXTENDS ProfileWrites, FiniteSetTheorems, TLAPS

(* The fields a request has at each point.                                  *)
LEMMA RequestType ==
  ASSUME TypeOK, NEW q \in Requests
  PROVE  /\ request[q].pc \in {"begun", "placed", "loaded"} =>
              /\ request[q].patch \in Patches
              /\ request[q].attempt \in 1..MaxAttempts
         /\ request[q].pc = "loaded" =>
              /\ request[q].base \in Row \cup {NoRow}
              /\ request[q] = [pc |-> "loaded", patch |-> request[q].patch,
                               attempt |-> request[q].attempt, base |-> request[q].base]
         /\ request[q].pc \in {"begun", "placed"} =>
              request[q] = [pc |-> request[q].pc, patch |-> request[q].patch,
                            attempt |-> request[q].attempt]
         /\ request[q].pc = "committed" => request[q].action \in {"create", "update"}
BY DEF TypeOK, RequestState

LEMMA ImportType ==
  ASSUME TypeOK, NEW j \in Imports, imports[j].pc = "loaded"
  PROVE  imports[j].base \in Row \cup {NoRow}
BY DEF TypeOK, ImportState

(* What is written is a row.                                                *)
LEMMA MergeType ==
  ASSUME NEW val \in Vals, NEW patch \in Patches
  PROVE  MergePatch(val, patch) \in Vals
BY DEF MergePatch, Vals, Patches

LEMMA ProfileType ==
  ASSUME NEW val \in Vals, NEW verified \in BOOLEAN, NEW by \in Requests \cup {Null}
  PROVE  Profile(val, verified, by) \in Row
BY DEF Profile, Row, AuditFlags

LEMMA ValType ==
  ASSUME NEW r \in Row \cup {NoRow}
  PROVE  ValOf(r) \in Vals
BY DEF ValOf, Empty, Vals, Row

LEMMA RowIsNotNoRow == NoRow \notin Row
BY DEF NoRow, Row

LEMMA MergedType ==
  ASSUME TypeOK, NEW q \in Requests, request[q].pc = "loaded"
  PROVE  Merged(q) \in Row
<1>1. request[q].base \in Row \cup {NoRow} /\ request[q].patch \in Patches
  BY RequestType
<1> QED
  BY <1>1, ValType, MergeType, ProfileType DEF Merged

----------------------------------------------------------------------------
(* A request moves on to a state of its own, an import likewise.            *)
LEMMA GotoType ==
  ASSUME TypeOK, NEW q \in Requests, NEW state \in RequestState, Goto(q, state)
  PROVE  /\ request' \in [Requests -> RequestState]
         /\ request'[q] = state
         /\ \A p \in Requests \ {q} : request'[p] = request[p]
BY DEF TypeOK, Goto

(* An import that found a profile still finds one: no path deletes it.      *)
ReadRowStays ==
  \A j \in Imports : imports[j].pc = "loaded" /\ imports[j].base # NoRow => row # NoRow

LEMMA TypeStep ==
  ASSUME TypeOK, ReadRowStays, [Next]_vars
  PROVE  TypeOK'
<1>1. ASSUME NEW q \in Requests, NEW patch \in Patches, PatchBegin(q, patch)
      PROVE  TypeOK'
  <2>1. [pc |-> "begun", patch |-> patch, attempt |-> 1] \in RequestState
    BY AttemptsAssumption DEF RequestState
  <2> QED
    BY <1>1, <2>1, GotoType DEF PatchBegin, TypeOK
<1>2. ASSUME NEW q \in Requests, PostPlace(q)
      PROVE  TypeOK'
  <2>1. [pc |-> "done"] \in RequestState /\ [pc |-> "committed", action |-> "create"] \in RequestState
    BY DEF RequestState
  <2>2. \A val \in Vals : Profile(val, TRUE, q) \in Row
    BY ProfileType
  <2> QED
    BY <1>2, <2>1, <2>2, GotoType DEF PostPlace, TypeOK
<1>3. ASSUME NEW q \in Requests, CheckPlace(q)
      PROVE  TypeOK'
  <2>1. [pc |-> "notfound"] \in RequestState
    BY DEF RequestState
  <2>2. [request[q] EXCEPT !.pc = "placed"] \in RequestState
    <3>1. /\ request[q].patch \in Patches /\ request[q].attempt \in 1..MaxAttempts
          /\ request[q] = [pc |-> request[q].pc, patch |-> request[q].patch,
                           attempt |-> request[q].attempt]
      BY <1>3, RequestType DEF CheckPlace
    <3>2. [request[q] EXCEPT !.pc = "placed"] =
            [pc |-> "placed", patch |-> request[q].patch, attempt |-> request[q].attempt]
      BY <3>1
    <3> QED
      BY <3>1, <3>2 DEF RequestState
  <2> QED
    BY <1>3, <2>1, <2>2, GotoType DEF CheckPlace, TypeOK
<1>4. ASSUME NEW q \in Requests, LoadForUpdate(q)
      PROVE  TypeOK'
  <2>1. [pc |-> "loaded", patch |-> request[q].patch,
         attempt |-> request[q].attempt, base |-> row] \in RequestState
    BY <1>4, RequestType DEF LoadForUpdate, RequestState, TypeOK
  <2> QED
    BY <1>4, <2>1, GotoType DEF LoadForUpdate, RowLock, TypeOK
<1>5. ASSUME NEW q \in Requests, InsertProfile(q) \/ UpdateProfile(q)
      PROVE  TypeOK'
  <2>1. \A action \in {"create", "update"} : [pc |-> "committed", action |-> action] \in RequestState
    BY DEF RequestState
  <2>2. row' \in Row
    BY <1>5, MergedType DEF InsertProfile, UpdateProfile
  <2> QED
    BY <1>5, <2>1, <2>2, GotoType DEF InsertProfile, UpdateProfile, Release, TypeOK
<1>6. ASSUME NEW q \in Requests, UniqueViolation(q)
      PROVE  TypeOK'
  <2>1. Retry(q) \in RequestState
    <3>1. request[q].patch \in Patches /\ request[q].attempt \in 1..MaxAttempts
      BY <1>6, RequestType DEF UniqueViolation
    <3>2. request[q].attempt < MaxAttempts => request[q].attempt + 1 \in 1..MaxAttempts
      BY <3>1, AttemptsAssumption
    <3> QED
      BY <3>1, <3>2 DEF Retry, RequestState
  <2> QED
    BY <1>6, <2>1, GotoType DEF UniqueViolation, TypeOK
<1>7. ASSUME NEW q \in Requests, RollBack(q)
      PROVE  TypeOK'
  <2>1. [pc |-> "failed"] \in RequestState
    BY DEF RequestState
  <2> QED
    BY <1>7, <2>1, GotoType DEF RollBack, Release, TypeOK
<1>8. ASSUME NEW q \in Requests, Audit(q)
      PROVE  TypeOK'
  <2>1. [pc |-> "done"] \in RequestState
    BY DEF RequestState
  <2>2. request[q].action \in {"create", "update"}
    BY <1>8, RequestType DEF Audit
  <2> QED
    BY <1>8, <2>1, <2>2, GotoType DEF Audit, TypeOK
<1>9. ASSUME NEW j \in Imports, ImportLoad(j)
      PROVE  TypeOK'
  BY <1>9 DEF ImportLoad, TypeOK, ImportState
<1>10. ASSUME NEW j \in Imports, NEW val \in Vals, ImportInsert(j, val) \/ ImportUpdate(j, val)
       PROVE  TypeOK'
  <2>1. row' \in Row
    <3>1. CASE ImportInsert(j, val)
      BY <3>1, ProfileType DEF ImportInsert
    <3>2. CASE ImportUpdate(j, val)
      <4>1. row \in Row
        BY <3>2 DEF ImportUpdate, TypeOK, ReadRowStays
      <4>2. row.verified \in BOOLEAN
        BY <4>1 DEF Row
      <4> QED
        BY <3>2, <4>2, ProfileType DEF ImportUpdate, Imported
    <3> QED
      BY <1>10, <3>1, <3>2
  <2>2. [pc |-> "done"] \in ImportState
    BY DEF ImportState
  <2> QED
    BY <1>10, <2>1, <2>2 DEF ImportInsert, ImportUpdate, TypeOK
<1>11. ASSUME NEW j \in Imports, ImportFails(j)
       PROVE  TypeOK'
  BY <1>11 DEF ImportFails, TypeOK, ImportState
<1>12. CASE UNCHANGED vars
  BY <1>12 DEF vars, TypeOK
<1> QED
  BY <1>1, <1>2, <1>3, <1>4, <1>5, <1>6, <1>7, <1>8, <1>9, <1>10, <1>11, <1>12
     DEF Next, PatchStep, ImportStep

----------------------------------------------------------------------------
(* The invariant.  A profile belongs to a place, nobody who has found the   *)
(* place loses it, a second attempt begins when there is a profile, and the *)
(* one who created it is known.                                             *)

PlaceIsThere ==
  /\ exists \in BOOLEAN
  /\ row # NoRow => exists
  /\ \A q \in Requests : request[q].pc \in {"placed", "loaded"} => exists
  /\ \A j \in Imports : imports[j].pc = "loaded" => exists

SecondFindsRow ==
  \A q \in Requests : Serving(q) /\ request[q].attempt > 1 =>
    row # NoRow /\ (request[q].pc = "loaded" => request[q].base # NoRow)

(* Who is answered or logged as the creator.                                *)
Named == {q \in Requests : Created(q)} \cup {l.by : l \in {e \in log : e.action = "create"}}

OneCreator ==
  /\ row = NoRow => creators = {}
  /\ \A p, q \in creators : p = q
  /\ Named \subseteq creators

(* Whoever holds the lock has read a profile and has not come to an end.    *)
LockIsHeld ==
  \A q \in Requests : lock = q => request[q].pc = "loaded" /\ request[q].base # NoRow

PInv ==
  /\ TypeOK
  /\ ReadRowStays
  /\ LockIsHeld
  /\ PlaceIsThere
  /\ LockedReadIsCurrent
  /\ SecondFindsRow
  /\ OneCreator

Kept == /\ ReadRowStays /\ LockIsHeld /\ PlaceIsThere
        /\ LockedReadIsCurrent /\ SecondFindsRow /\ OneCreator

(* A step of one request leaves the others where they are.                  *)
LEMMA OthersStay ==
  ASSUME TypeOK, NEW q \in Requests, NEW state, Goto(q, state)
  PROVE  /\ request'[q] = state
         /\ \A p \in Requests \ {q} : request'[p] = request[p]
BY DEF TypeOK, Goto

(* A request that is served, moves on and touches neither row, log nor      *)
(* imports keeps the invariant if it keeps what is said of itself.          *)
LEMMA QuietStep ==
  ASSUME PInv, NEW q \in Requests, NEW state, Goto(q, state),
         UNCHANGED <<row, imports, log, creators>>, exists' \in BOOLEAN, exists => exists',
         lock' = lock \/ (lock = q /\ lock' = Nobody) \/ (lock = Nobody /\ lock' = q),
         lock' = q => state.pc = "loaded" /\ state.base # NoRow,
         state.pc \in {"placed", "loaded"} => exists',
         state.pc = "loaded" /\ state.base # NoRow => lock' = q /\ state.base = row,
         state.pc \in {"begun", "placed", "loaded"} /\ state.attempt > 1 =>
           row # NoRow /\ (state.pc = "loaded" => state.base # NoRow),
         state.pc # "committed", request[q].pc # "committed"
  PROVE  Kept'
<1> USE DEF PInv, Kept
<1>1. request'[q] = state /\ \A p \in Requests \ {q} : request'[p] = request[p]
  BY OthersStay
<1>2. ReadRowStays'
  BY DEF ReadRowStays
<1>3. PlaceIsThere'
  BY <1>1 DEF PlaceIsThere
<1>4. LockedReadIsCurrent'
  BY <1>1, HolderAssumption DEF LockedReadIsCurrent
<1>5. SecondFindsRow'
  BY <1>1 DEF SecondFindsRow, Serving
<1>6. Named' = Named
  BY <1>1 DEF Named, Created
<1>7. OneCreator'
  BY <1>6 DEF OneCreator
<1>8. LockIsHeld'
  BY <1>1, HolderAssumption DEF LockIsHeld
<1> QED
  BY <1>2, <1>3, <1>4, <1>5, <1>7, <1>8

(* One that writes the row finds nobody else in possession of a read one.   *)
LEMMA WriteStep ==
  ASSUME PInv, NEW q \in Requests, NEW state, Goto(q, state),
         state.pc \in {"committed", "done"},
         exists', row' # NoRow, UNCHANGED <<imports, log>>,
         lock' = IF lock = q THEN Nobody ELSE lock,
         \A p \in Requests \ {q} : request[p].pc = "loaded" => request[p].base = NoRow,
         state.pc = "committed" /\ state.action = "create" =>
           row = NoRow /\ creators' = creators \cup {q},
         ~(state.pc = "committed" /\ state.action = "create") => UNCHANGED creators,
         ~Created(q)
  PROVE  Kept'
<1> USE DEF PInv, Kept
<1>1. request'[q] = state /\ \A p \in Requests \ {q} : request'[p] = request[p]
  BY OthersStay
<1>2. ReadRowStays'
  BY DEF ReadRowStays
<1>3. PlaceIsThere'
  BY <1>1 DEF PlaceIsThere
<1>4. LockedReadIsCurrent'
  BY <1>1 DEF LockedReadIsCurrent
<1>5. SecondFindsRow'
  BY <1>1 DEF SecondFindsRow, Serving
<1>6. LockIsHeld'
  BY <1>1, HolderAssumption DEF LockIsHeld
<1>7. CASE state.pc = "committed" /\ state.action = "create"
  <2>1. creators = {} /\ creators' = {q}
    BY <1>7 DEF OneCreator
  <2>2. Named' \subseteq Named \cup {q}
    BY <1>1 DEF Named, Created
  <2>3. OneCreator'
    BY <2>1, <2>2 DEF OneCreator
  <2> QED
    BY <1>2, <1>3, <1>4, <1>5, <1>6, <2>3
<1>8. CASE ~(state.pc = "committed" /\ state.action = "create")
  <2>1. Named' = Named
    BY <1>1, <1>8 DEF Named, Created
  <2> QED
    BY <1>2, <1>3, <1>4, <1>5, <1>6, <2>1 DEF OneCreator
<1> QED
  BY <1>7, <1>8

(* An import writes only when no request has read a row.                    *)
LEMMA ImportStepKeeps ==
  ASSUME PInv, NEW j \in Imports, UNCHANGED <<exists, lock, request, log>>,
         \A i \in Imports \ {j} : imports'[i] = imports[i],
         imports'[j].pc # "loaded" \/ (exists /\ imports'[j].base = row /\ row' = row),
         row' = row \/ (row' # NoRow /\ exists /\
                        \A q \in Requests : request[q].pc = "loaded" => request[q].base = NoRow),
         UNCHANGED creators \/ (row = NoRow /\ row' # NoRow /\ creators' = creators \cup {j})
  PROVE  Kept'
<1> USE DEF PInv, Kept
<1>1. ReadRowStays'
  BY DEF ReadRowStays
<1>2. PlaceIsThere'
  BY DEF PlaceIsThere
<1>3. LockedReadIsCurrent'
  BY DEF LockedReadIsCurrent
<1>4. SecondFindsRow'
  BY DEF SecondFindsRow, Serving
<1>5. Named' = Named
  BY DEF Named, Created
<1>6. OneCreator'
  <2>1. CASE UNCHANGED creators
    BY <1>5, <2>1 DEF OneCreator
  <2>2. CASE row = NoRow /\ row' # NoRow /\ creators' = creators \cup {j}
    <3>1. creators = {} /\ creators' = {j}
      BY <2>2 DEF OneCreator
    <3> QED
      BY <1>5, <2>2, <3>1 DEF OneCreator
  <2> QED
    BY <2>1, <2>2
<1>7. LockIsHeld'
  BY DEF LockIsHeld
<1> QED
  BY <1>1, <1>2, <1>3, <1>4, <1>6, <1>7

LEMMA Inductive ==
  ASSUME PInv, [Next]_vars
  PROVE  PInv'
<1> USE DEF PInv
<1>1. TypeOK'
  BY TypeStep
<1>0. /\ exists \in BOOLEAN
      /\ \A q \in Requests : lock = q => request[q].pc = "loaded" /\ request[q].base # NoRow
  BY DEF PlaceIsThere, LockIsHeld
<1>2. ASSUME NEW q \in Requests, NEW patch \in Patches, PatchBegin(q, patch)
      PROVE  Kept'
  BY <1>2, <1>0, QuietStep DEF PatchBegin
<1>3. ASSUME NEW q \in Requests, CheckPlace(q)
      PROVE  Kept'
  <2>1. CASE exists /\ Goto(q, [request[q] EXCEPT !.pc = "placed"])
    <3>1. [request[q] EXCEPT !.pc = "placed"] =
            [pc |-> "placed", patch |-> request[q].patch, attempt |-> request[q].attempt]
      <4>1. request[q] = [pc |-> request[q].pc, patch |-> request[q].patch,
                          attempt |-> request[q].attempt]
        BY <1>3, RequestType DEF CheckPlace
      <4> QED
        BY <4>1
    <3>2. request[q].attempt > 1 => row # NoRow
      BY <1>3 DEF CheckPlace, SecondFindsRow, Serving
    <3>3. lock # q /\ request[q].pc # "committed"
      BY <1>3 DEF CheckPlace, LockIsHeld
    <3> DEFINE state == [pc |-> "placed", patch |-> request[q].patch, attempt |-> request[q].attempt]
    <3>4. /\ Goto(q, state) /\ state.pc = "placed" /\ state.attempt = request[q].attempt
          /\ UNCHANGED <<exists, row, lock, imports, log, creators>> /\ exists \in BOOLEAN
      BY <1>3, <2>1, <3>1 DEF CheckPlace, PlaceIsThere
    <3> HIDE DEF state
    <3> QED
      BY <2>1, <3>2, <3>3, <3>4, QuietStep
  <2>2. CASE ~exists /\ Goto(q, [pc |-> "notfound"])
    BY <1>3, <1>0, <2>2, QuietStep DEF CheckPlace
  <2> QED
    BY <1>3, <2>1, <2>2 DEF CheckPlace, PlaceIsThere
<1>4. ASSUME NEW q \in Requests, LoadForUpdate(q)
      PROVE  Kept'
  <2> DEFINE state == [pc |-> "loaded", patch |-> request[q].patch,
                       attempt |-> request[q].attempt, base |-> row]
  <2>1. exists /\ (request[q].attempt > 1 => row # NoRow)
    BY <1>4 DEF LoadForUpdate, PlaceIsThere, SecondFindsRow, Serving
  <2>2. lock = Nobody /\ lock' = IF row = NoRow THEN Nobody ELSE q
    BY <1>4 DEF LoadForUpdate, RowLock
  <2> QED
    BY <1>4, <1>0, <2>1, <2>2, QuietStep DEF LoadForUpdate
<1>5. ASSUME NEW q \in Requests, InsertProfile(q)
      PROVE  Kept'
  <2>1. row = NoRow /\ row' # NoRow
    BY <1>5, MergedType, RowIsNotNoRow DEF InsertProfile
  <2>2. exists /\ exists' /\ ~Created(q)
    BY <1>5 DEF InsertProfile, PlaceIsThere, Created
  <2>3. \A p \in Requests : request[p].pc = "loaded" => request[p].base = NoRow
    BY <2>1 DEF LockedReadIsCurrent
  <2>4. lock # q
    BY <1>5 DEF InsertProfile, LockIsHeld
  <2> QED
    BY <1>5, <2>1, <2>2, <2>3, <2>4, WriteStep DEF InsertProfile
<1>6. ASSUME NEW q \in Requests, UniqueViolation(q)
      PROVE  Kept'
  <2>1. /\ Retry(q).pc \in {"begun", "conflict"}
        /\ Retry(q).pc = "begun" => row # NoRow
    BY <1>6 DEF Retry, UniqueViolation
  <2> QED
    BY <1>6, <1>0, <2>1, QuietStep DEF UniqueViolation
<1>7. ASSUME NEW q \in Requests, UpdateProfile(q)
      PROVE  Kept'
  <2>1. row' # NoRow
    BY <1>7, MergedType, RowIsNotNoRow DEF UpdateProfile
  <2>2. exists /\ exists' /\ ~Created(q)
    BY <1>7 DEF UpdateProfile, PlaceIsThere, Created
  <2>3. lock = q
    BY <1>7 DEF UpdateProfile, LockedReadIsCurrent
  <2>4. \A p \in Requests \ {q} : request[p].pc = "loaded" => request[p].base = NoRow
    BY <2>3 DEF LockedReadIsCurrent
  <2> QED
    BY <1>7, <2>1, <2>2, <2>4, WriteStep DEF UpdateProfile, Release
<1>8. ASSUME NEW q \in Requests, RollBack(q)
      PROVE  Kept'
  BY <1>8, <1>0, HolderAssumption, QuietStep DEF RollBack, Serving, Release
<1>9. ASSUME NEW q \in Requests, Audit(q)
      PROVE  Kept'
  <2>1. request'[q] = [pc |-> "done"] /\ \A p \in Requests \ {q} : request'[p] = request[p]
    BY <1>9, OthersStay DEF Audit
  <2>2. Named' \subseteq Named /\ UNCHANGED creators
    <3>1. \A l \in log' : l \in log \/ l = [by |-> q, action |-> request[q].action]
      BY <1>9 DEF Audit
    <3>2. \A p \in Named' : p \in Named
      BY <1>9, <2>1, <3>1 DEF Named, Created, Audit
    <3> QED
      BY <1>9, <3>2 DEF Audit
  <2>3. ReadRowStays' /\ OneCreator' /\ LockIsHeld'
    BY <1>9, <2>1, <2>2 DEF Audit, ReadRowStays, OneCreator, LockIsHeld
  <2>4. PlaceIsThere' /\ LockedReadIsCurrent' /\ SecondFindsRow'
    BY <1>9, <2>1 DEF Audit, PlaceIsThere, LockedReadIsCurrent, SecondFindsRow, Serving
  <2> QED
    BY <2>3, <2>4 DEF Kept
<1>10. ASSUME NEW q \in Requests, PostPlace(q)
       PROVE  Kept'
  <2>1. row = NoRow
    BY <1>10 DEF PostPlace, PlaceIsThere
  <2>2. lock # q /\ ~Created(q) /\ request[q].pc = "new"
    BY <1>10 DEF PostPlace, LockIsHeld, Created
  <2>3. CASE row' = row /\ creators' = creators /\ Goto(q, [pc |-> "done"])
    BY <1>10, <2>2, <2>3, QuietStep DEF PostPlace
  <2>4. ASSUME NEW val \in Vals, row' = Profile(val, TRUE, q), creators' = creators \cup {q},
               Goto(q, [pc |-> "committed", action |-> "create"])
        PROVE  Kept'
    <3>1. row' # NoRow
      BY <2>4, ProfileType, RowIsNotNoRow
    <3>2. \A p \in Requests : request[p].pc = "loaded" => request[p].base = NoRow
      BY <2>1 DEF LockedReadIsCurrent
    <3> QED
      BY <1>10, <2>1, <2>2, <2>4, <3>1, <3>2, WriteStep DEF PostPlace
  <2> QED
    BY <1>10, <2>3, <2>4 DEF PostPlace
<1>11. ASSUME NEW j \in Imports, ImportLoad(j)
       PROVE  Kept'
  <2>1. /\ \A i \in Imports \ {j} : imports'[i] = imports[i]
        /\ imports'[j].pc # "loaded" \/ imports'[j].base = row
    BY <1>11 DEF ImportLoad, TypeOK
  <2> QED
    BY <1>11, <2>1, ImportStepKeeps DEF ImportLoad
<1>12. ASSUME NEW j \in Imports, NEW val \in Vals, ImportInsert(j, val) \/ ImportUpdate(j, val)
       PROVE  Kept'
  <2>1. /\ \A i \in Imports \ {j} : imports'[i] = imports[i]
        /\ imports'[j].pc = "done"
    <3>1. imports' = [imports EXCEPT ![j] = [pc |-> "done"]] /\ imports \in [Imports -> ImportState]
      BY <1>12 DEF ImportInsert, ImportUpdate, TypeOK
    <3> QED
      BY <3>1
  <2>2. exists
    BY <1>12 DEF ImportInsert, ImportUpdate, PlaceIsThere
  <2>3. \A q \in Requests : request[q].pc = "loaded" => request[q].base = NoRow
    BY <1>12, HolderAssumption DEF ImportInsert, ImportUpdate, LockedReadIsCurrent
  <2>4. row' # NoRow
    <3>1. PICK verified : row' = Profile(val, verified, Null)
      BY <1>12 DEF ImportInsert, ImportUpdate, Imported
    <3> QED
      BY <3>1 DEF Profile, NoRow
  <2> QED
    BY <1>12, <2>1, <2>2, <2>3, <2>4, ImportStepKeeps DEF ImportInsert, ImportUpdate
<1>13. ASSUME NEW j \in Imports, ImportFails(j)
       PROVE  Kept'
  <2>1. /\ \A i \in Imports \ {j} : imports'[i] = imports[i]
        /\ imports'[j].pc = "failed"
    BY <1>13 DEF ImportFails, TypeOK
  <2> QED
    BY <1>13, <2>1, ImportStepKeeps DEF ImportFails
<1>14. ASSUME UNCHANGED vars
       PROVE  Kept'
  BY <1>14 DEF vars, Kept, LockIsHeld, ReadRowStays, PlaceIsThere, LockedReadIsCurrent, SecondFindsRow, Serving,
     OneCreator, Named, Created
<1>15. Kept'
  BY <1>2, <1>3, <1>4, <1>5, <1>6, <1>7, <1>8, <1>9, <1>10, <1>11, <1>12, <1>13, <1>14
     DEF Next, PatchStep, ImportStep
<1> QED
  BY <1>1, <1>15 DEF Kept

LEMMA Initially == Init => PInv
<1> SUFFICES ASSUME Init PROVE PInv
  OBVIOUS
<1>1. \A q \in Requests : request[q].pc = "new"
  BY DEF Init
<1>2. \A j \in Imports : imports[j].pc = "new"
  BY DEF Init
<1>3. row \in Row \cup {NoRow} /\ (row # NoRow => exists)
  <2>1. row = NoRow \/ (exists /\ \E val \in Vals : row = Profile(val, FALSE, Null))
    BY DEF Init, Earlier
  <2>2. \A val \in Vals : Profile(val, FALSE, Null) \in Row
    BY ProfileType
  <2> QED
    BY <2>1, <2>2
<1>4. TypeOK
  BY <1>3 DEF Init, TypeOK, RequestState, ImportState
<1>5. ReadRowStays /\ LockIsHeld /\ LockedReadIsCurrent /\ SecondFindsRow
  BY <1>1, <1>2, HolderAssumption
     DEF Init, ReadRowStays, LockIsHeld, LockedReadIsCurrent, SecondFindsRow, Serving
<1>6. PlaceIsThere
  BY <1>1, <1>2, <1>3 DEF Init, PlaceIsThere
<1>7. Named = {} /\ creators = IF row = NoRow THEN {} ELSE {Null}
  BY <1>1 DEF Init, Named, Created
<1> QED
  BY <1>4, <1>5, <1>6, <1>7 DEF PInv, OneCreator

(* The variables of ProfileWrites keep their types.                         *)
THEOREM TypeCorrect == Spec => []TypeOK
<1>1. PInv => TypeOK
  BY DEF PInv
<1> QED
  BY <1>1, Initially, Inductive, PTL DEF Spec

(* The row a PATCH is about to update is the row it has read, whatever      *)
(* other requests and imports do meanwhile (SELECT ... FOR UPDATE).         *)
THEOREM LockedReads == Spec => []LockedReadIsCurrent
<1>1. PInv => LockedReadIsCurrent
  BY DEF PInv
<1> QED
  BY <1>1, Initially, Inductive, PTL DEF Spec

(* Of all writers of a profile, imports of this and of earlier runs among   *)
(* them, one at most has created it, and no other is answered or logged as  *)
(* its creator.                                                             *)
THEOREM OneIsCreator == Spec => []CreatedOnce
<1>1. PInv => CreatedOnce
  <2> SUFFICES ASSUME PInv PROVE Cardinality(creators) <= 1
    BY DEF CreatedOnce, PInv, OneCreator, Named
  <2>1. CASE creators = {}
    BY <2>1, FS_EmptySet
  <2>2. ASSUME NEW q \in creators
        PROVE  Cardinality(creators) <= 1
    <3>1. creators = {q}
      <4>1. \A r \in creators : r = q
        BY <2>2 DEF PInv, OneCreator
      <4> QED
        BY <2>2, <4>1
    <3> QED
      <4>1. Cardinality({q}) = 1
        BY FS_Singleton
      <4> QED
        BY <3>1, <4>1
  <2> QED
    BY <2>1, <2>2
<1> QED
  BY <1>1, Initially, Inductive, PTL DEF Spec

(* However many requests race to create a profile, none of them is refused  *)
(* if UpsertProfile makes two attempts or more.                             *)
THEOREM TwoAttemptsSuffice ==
  ASSUME MaxAttempts >= 2
  PROVE  Spec => []SecondAttemptSuffices
<1> USE AttemptsAssumption
<1>1. Init => SecondAttemptSuffices
  BY DEF Init, SecondAttemptSuffices
<1>2. PInv /\ SecondAttemptSuffices /\ [Next]_vars => SecondAttemptSuffices'
  <2> SUFFICES ASSUME PInv, SecondAttemptSuffices, [Next]_vars,
                      NEW p \in Requests, request'[p].pc = "conflict"
               PROVE  FALSE
    BY DEF SecondAttemptSuffices
  <2>1. request[p].pc # "conflict" /\ TypeOK
    BY DEF SecondAttemptSuffices, PInv
  <2>2. ASSUME NEW q \in Requests, NEW state, Goto(q, state)
        PROVE  q = p /\ state.pc = "conflict"
    BY <2>1, <2>2, OthersStay
  <2>3. ASSUME NEW q \in Requests, UniqueViolation(q)
        PROVE  FALSE
    <3>1. request[q].attempt \in 1..MaxAttempts /\ ~(request[q].attempt > 1)
      BY <2>1, <2>3, RequestType DEF UniqueViolation, PInv, SecondFindsRow, Serving
    <3>2. Retry(q).pc = "begun"
      BY <3>1 DEF Retry
    <3> QED
      BY <2>2, <2>3, <3>2 DEF UniqueViolation
  <2>4. ASSUME NEW q \in Requests, CheckPlace(q)
        PROVE  FALSE
    <3>1. (IF exists THEN [request[q] EXCEPT !.pc = "placed"] ELSE [pc |-> "notfound"]).pc # "conflict"
      BY <2>4, RequestType, <2>1 DEF CheckPlace
    <3> QED
      BY <2>2, <2>4, <3>1 DEF CheckPlace
  <2>5. ASSUME NEW q \in Requests,
               \/ \E patch \in Patches : PatchBegin(q, patch)
               \/ PostPlace(q) \/ LoadForUpdate(q) \/ InsertProfile(q)
               \/ UpdateProfile(q) \/ Audit(q) \/ RollBack(q)
        PROVE  FALSE
    <3>1. \E state : Goto(q, state) /\ state.pc \in {"begun", "loaded", "committed", "done", "failed"}
      <4>1. CASE \E patch \in Patches : PatchBegin(q, patch)
        BY <4>1 DEF PatchBegin
      <4>2. CASE PostPlace(q)
        <5>1. Goto(q, [pc |-> "done"]) \/ Goto(q, [pc |-> "committed", action |-> "create"])
          BY <4>2 DEF PostPlace
        <5> QED
          BY <5>1
      <4>5. CASE LoadForUpdate(q)
        <5>1. Goto(q, [pc |-> "loaded", patch |-> request[q].patch,
                       attempt |-> request[q].attempt, base |-> row])
          BY <4>5 DEF LoadForUpdate
        <5> QED
          BY <5>1
      <4>3. CASE InsertProfile(q) \/ UpdateProfile(q)
        BY <4>3 DEF InsertProfile, UpdateProfile
      <4>4. CASE Audit(q) \/ RollBack(q)
        BY <4>4 DEF Audit, RollBack
      <4> QED
        BY <2>5, <4>1, <4>2, <4>3, <4>4, <4>5
    <3> QED
      BY <2>2, <3>1
  <2>6. ASSUME request' = request
        PROVE  FALSE
    BY <2>1, <2>6
  <2> QED
    BY <2>3, <2>4, <2>5, <2>6
       DEF Next, PatchStep, ImportStep, ImportLoad, ImportInsert, ImportUpdate, ImportFails, vars
<1> QED
  BY <1>1, <1>2, Initially, Inductive, PTL DEF Spec

----------------------------------------------------------------------------
(* The refinement: what pending and begun of the store stand for.           *)

Pending == [q \in Requests |-> IF Serving(q) THEN {request[q].patch} ELSE {}]
Begun == {j \in Imports : imports[j].pc = "loaded"}

(* The data of the store is that of its implementation.                     *)
LEMMA SameData ==
  /\ Store!Null = Null /\ Store!NoRow = NoRow
  /\ Store!Vals = Vals /\ Store!Patches = Patches
  /\ \A e : Store!Earlier(e) = Earlier(e)
  /\ \A r : Store!ValOf(r) = ValOf(r)
  /\ \A val, patch : Store!MergePatch(val, patch) = MergePatch(val, patch)
  /\ \A val, verified, by : Store!Profile(val, verified, by) = Profile(val, verified, by)
<1>1. /\ Store!Null = Null /\ Store!NoRow = NoRow /\ Store!Keep = Keep
  BY DEF Store!Null, Null, Store!NoRow, NoRow, Store!Keep, Keep
<1>2. Store!Vals = Vals /\ Store!Patches = Patches /\ Store!Empty = Empty
  BY <1>1 DEF Store!Vals, Vals, Store!Patches, Patches, Store!Empty, Empty
<1>3. \A val, verified, by : Store!Profile(val, verified, by) = Profile(val, verified, by)
  BY DEF Store!Profile, Profile, Store!AuditFlags, AuditFlags
<1>4. \A r : Store!ValOf(r) = ValOf(r)
  BY <1>1, <1>2 DEF Store!ValOf, ValOf
<1>5. \A val, patch : Store!MergePatch(val, patch) = MergePatch(val, patch)
  BY <1>1 DEF Store!MergePatch, MergePatch
<1>6. \A e : Store!Earlier(e) = Earlier(e)
  BY <1>1, <1>2, <1>3 DEF Store!Earlier, Earlier
<1> QED
  BY <1>1, <1>2, <1>3, <1>4, <1>5, <1>6

(* A request that moves on changes its own patch at most.                   *)
LEMMA PendingMoves ==
  ASSUME TypeOK, NEW q \in Requests, NEW state, Goto(q, state)
  PROVE  Pending' = [Pending EXCEPT ![q] =
                       IF state.pc \in {"begun", "placed", "loaded"} THEN {state.patch} ELSE {}]
<1>1. request'[q] = state /\ \A p \in Requests \ {q} : request'[p] = request[p]
  BY DEF TypeOK, Goto
<1> QED
  BY <1>1 DEF Pending, Serving

(* ... and nothing if it keeps the patch it serves.                         *)
LEMMA PendingStays ==
  ASSUME TypeOK, NEW q \in Requests, NEW state, Goto(q, state), Serving(q),
         state.pc \in {"begun", "placed", "loaded"}, state.patch = request[q].patch
  PROVE  Pending' = Pending
<1>1. Pending' = [Pending EXCEPT ![q] = {request[q].patch}]
  BY PendingMoves
<1>2. Pending[q] = {request[q].patch}
  BY DEF Pending
<1> QED
  BY <1>1, <1>2 DEF Pending

(* A request leaves with its patch applied to the row as it is, or with     *)
(* nothing written.                                                         *)
LEMMA Leaves ==
  ASSUME TypeOK, NEW q \in Requests, NEW state, Goto(q, state), Serving(q),
         state.pc \notin {"begun", "placed", "loaded"},
         UNCHANGED <<exists, imports>>,
         \/ exists /\ row' = Profile(MergePatch(ValOf(row), request[q].patch), TRUE, q)
         \/ row' = row
  PROVE  Store!Patch(q)
<1>1. Pending' = [Pending EXCEPT ![q] = {}]
  BY PendingMoves
<1>2. Pending[q] = {request[q].patch}
  BY DEF Pending
<1>3. Begun' = Begun
  BY DEF Begun
<1>4. \E patch \in Pending[q] :
        \/ exists /\ row' = Profile(MergePatch(ValOf(row), patch), TRUE, q)
        \/ row' = row
  BY <1>2
<1> QED
  BY <1>1, <1>3, <1>4, SameData DEF Store!Patch, Pending, Begun

(* Nothing of the store moves.                                              *)
LEMMA Stutters ==
  ASSUME UNCHANGED <<exists, row, imports>>, Pending' = Pending
  PROVE  UNCHANGED Store!vars
<1>1. Begun' = Begun
  BY DEF Begun
<1> QED
  BY <1>1 DEF Store!vars, Pending, Begun

LEMMA InitRefines == Init => Store!Init
<1> SUFFICES ASSUME Init PROVE Store!Init
  OBVIOUS
<1>1. Pending = [q \in Requests |-> {}]
  BY DEF Init, Pending, Serving
<1>2. Begun = {}
  BY DEF Init, Begun
<1> QED
  BY <1>1, <1>2, SameData DEF Init, Store!Init, Pending, Begun

(* The statements of a request.                                             *)
LEMMA RequestRefines ==
  ASSUME PInv, NEW q \in Requests,
         \/ \E patch \in Patches : PatchBegin(q, patch)
         \/ PostPlace(q) \/ PatchStep(q) \/ RollBack(q)
  PROVE  [Store!Next]_(Store!vars)
<1>1. TypeOK
  BY DEF PInv
<1>2. ~Serving(q) => Pending[q] = {}
  BY DEF Pending
<1>3. ASSUME NEW patch \in Patches, PatchBegin(q, patch)
      PROVE  Store!Submit(q)
  <2>1. Goto(q, [pc |-> "begun", patch |-> patch, attempt |-> 1])
    BY <1>3 DEF PatchBegin
  <2>2. Pending' = [Pending EXCEPT ![q] = {patch}]
    BY <1>1, <2>1, PendingMoves
  <2>3. Pending[q] = {}
    BY <1>2, <1>3 DEF PatchBegin, Serving
  <2>4. UNCHANGED <<exists, row, Begun>>
    BY <1>3 DEF PatchBegin, Begun
  <2> QED
    BY <2>2, <2>3, <2>4, SameData DEF Store!Submit, Pending, Begun
<1>4. ASSUME PostPlace(q)
      PROVE  Store!CreatePlace(q)
  <2>1. PICK state : Goto(q, state) /\ state.pc \in {"done", "committed"}
    <3>1. Goto(q, [pc |-> "done"]) \/ Goto(q, [pc |-> "committed", action |-> "create"])
      BY <1>4 DEF PostPlace
    <3> QED
      BY <3>1
  <2>2. Pending' = [Pending EXCEPT ![q] = {}]
    BY <1>1, <2>1, PendingMoves
  <2>3. Pending' = Pending
    BY <1>2, <1>4, <2>2 DEF PostPlace, Serving, Pending
  <2>4. Begun' = Begun
    BY <1>4 DEF PostPlace, Begun
  <2>5. row' = row \/ \E val \in Vals : row' = Profile(val, TRUE, q)
    BY <1>4 DEF PostPlace
  <2> QED
    BY <1>4, <2>3, <2>4, <2>5, SameData DEF PostPlace, Store!CreatePlace, Pending, Begun
<1>5. ASSUME CheckPlace(q)
      PROVE  Store!Patch(q) \/ UNCHANGED Store!vars
  <2>1. CASE exists
    <3>1. Goto(q, [request[q] EXCEPT !.pc = "placed"]) /\ Serving(q)
      BY <1>5, <2>1 DEF CheckPlace, Serving
    <3>2. /\ [request[q] EXCEPT !.pc = "placed"].pc = "placed"
          /\ [request[q] EXCEPT !.pc = "placed"].patch = request[q].patch
      BY <1>1, <1>5, RequestType DEF CheckPlace
    <3>3. Pending' = Pending
      BY <1>1, <3>1, <3>2, PendingStays
    <3> QED
      BY <1>5, <3>3, Stutters DEF CheckPlace
  <2>2. CASE ~exists
    <3>1. Goto(q, [pc |-> "notfound"]) /\ Serving(q)
      BY <1>5, <2>2 DEF CheckPlace, Serving
    <3> QED
      BY <1>1, <1>5, <3>1, Leaves DEF CheckPlace
  <2> QED
    BY <2>1, <2>2
<1>6. ASSUME LoadForUpdate(q)
      PROVE  UNCHANGED Store!vars
  <2>1. /\ Serving(q)
        /\ Goto(q, [pc |-> "loaded", patch |-> request[q].patch,
                    attempt |-> request[q].attempt, base |-> row])
    BY <1>6 DEF LoadForUpdate, Serving
  <2>2. Pending' = Pending
    BY <1>1, <2>1, PendingStays
  <2> QED
    BY <1>6, <2>2, Stutters DEF LoadForUpdate
<1>7. ASSUME InsertProfile(q) \/ UpdateProfile(q)
      PROVE  Store!Patch(q)
  <2>1. PICK action : Goto(q, [pc |-> "committed", action |-> action])
    BY <1>7 DEF InsertProfile, UpdateProfile
  <2>2. Serving(q) /\ exists /\ UNCHANGED <<exists, imports>>
    BY <1>7 DEF InsertProfile, UpdateProfile, Serving, PInv, PlaceIsThere
  <2>3. request[q].base = row
    BY <1>7 DEF InsertProfile, UpdateProfile, PInv, LockedReadIsCurrent
  <2>4. row' = Profile(MergePatch(ValOf(row), request[q].patch), TRUE, q)
    BY <1>7, <2>3 DEF InsertProfile, UpdateProfile, Merged
  <2> QED
    BY <1>1, <2>1, <2>2, <2>4, Leaves
<1>8. ASSUME UniqueViolation(q)
      PROVE  Store!Patch(q) \/ UNCHANGED Store!vars
  <2>1. Serving(q) /\ Goto(q, Retry(q)) /\ UNCHANGED <<exists, row, imports>>
    BY <1>8 DEF UniqueViolation, Serving
  <2>2. CASE request[q].attempt < MaxAttempts
    <3>1. Retry(q).pc = "begun" /\ Retry(q).patch = request[q].patch
      BY <2>2 DEF Retry
    <3> QED
      BY <1>1, <2>1, <3>1, PendingStays, Stutters
  <2>3. CASE ~(request[q].attempt < MaxAttempts)
    <3>1. Retry(q).pc = "conflict"
      BY <2>3 DEF Retry
    <3> QED
      BY <1>1, <2>1, <3>1, Leaves
  <2> QED
    BY <2>2, <2>3
<1>9. ASSUME Audit(q)
      PROVE  UNCHANGED Store!vars
  <2>1. Goto(q, [pc |-> "done"])
    BY <1>9 DEF Audit
  <2>2. Pending' = [Pending EXCEPT ![q] = {}]
    BY <1>1, <2>1, PendingMoves
  <2>3. Pending' = Pending
    BY <1>2, <1>9, <2>2 DEF Audit, Serving, Pending
  <2> QED
    BY <1>9, <2>3, Stutters DEF Audit
<1>10. ASSUME RollBack(q)
       PROVE  Store!Patch(q)
  <2>1. Goto(q, [pc |-> "failed"])
    BY <1>10 DEF RollBack
  <2> QED
    BY <1>1, <1>10, <2>1, Leaves DEF RollBack
<1> QED
  BY <1>3, <1>4, <1>5, <1>6, <1>7, <1>8, <1>9, <1>10 DEF PatchStep, Store!Next

(* The statements of an import.                                             *)
LEMMA ImportRefines ==
  ASSUME PInv, NEW j \in Imports, ImportLoad(j) \/ ImportStep(j)
  PROVE  [Store!Next]_(Store!vars)
<1>1. Pending' = Pending
  BY DEF ImportLoad, ImportStep, ImportInsert, ImportUpdate, ImportFails, Pending, Serving
<1>2. TypeOK
  BY DEF PInv
<1>3. ASSUME ImportLoad(j)
      PROVE  Store!ImportBegin(j) \/ UNCHANGED Store!vars
  <2>1. CASE row # NoRow /\ row.verified
    <3>1. Begun' = Begun
      BY <1>2, <1>3, <2>1 DEF ImportLoad, Begun, TypeOK
    <3> QED
      BY <1>1, <1>3, <3>1 DEF ImportLoad, Store!vars, Pending, Begun
  <2>2. CASE ~(row # NoRow /\ row.verified)
    <3>1. Begun' = Begun \cup {j}
      BY <1>2, <1>3, <2>2 DEF ImportLoad, Begun, TypeOK
    <3> QED
      BY <1>1, <1>3, <2>2, <3>1, SameData DEF ImportLoad, Store!ImportBegin, Pending, Begun
  <2> QED
    BY <2>1, <2>2
<1>4. ASSUME ImportStep(j)
      PROVE  Store!ImportEnd(j)
  <2>1. j \in Begun /\ Begun' = Begun \ {j} /\ exists' = exists
    <3>1. PICK pc \in {"done", "failed"} : imports' = [imports EXCEPT ![j] = [pc |-> pc]]
      BY <1>4 DEF ImportStep, ImportInsert, ImportUpdate, ImportFails
    <3>2. imports[j].pc = "loaded" /\ exists' = exists
      BY <1>4 DEF ImportStep, ImportInsert, ImportUpdate, ImportFails
    <3>3. imports'[j].pc # "loaded" /\ \A i \in Imports \ {j} : imports'[i] = imports[i]
      BY <1>2, <3>1 DEF TypeOK
    <3> QED
      BY <3>2, <3>3 DEF Begun
  <2>2. \/ \E val \in Vals : row' = Profile(val, row # NoRow /\ row.verified, Null)
        \/ row' = row
    <3>1. ASSUME NEW val \in Vals, ImportInsert(j, val)
          PROVE  row' = Profile(val, row # NoRow /\ row.verified, Null)
      <4>1. (row # NoRow /\ row.verified) = FALSE
        BY <3>1 DEF ImportInsert
      <4> QED
        BY <3>1, <4>1 DEF ImportInsert
    <3>2. ASSUME NEW val \in Vals, ImportUpdate(j, val)
          PROVE  row' = Profile(val, row # NoRow /\ row.verified, Null)
      <4>1. row # NoRow
        BY <3>2 DEF ImportUpdate, PInv, ReadRowStays
      <4>2. row.verified \in BOOLEAN
        BY <1>2, <4>1 DEF TypeOK, Row
      <4>3. (row # NoRow /\ row.verified) = row.verified
        BY <4>1, <4>2
      <4> QED
        BY <3>2, <4>3 DEF ImportUpdate, Imported
    <3> QED
      BY <1>4, <3>1, <3>2 DEF ImportStep, ImportFails
  <2> QED
    BY <1>1, <2>1, <2>2, SameData DEF Store!ImportEnd, Pending, Begun
<1> QED
  BY <1>3, <1>4 DEF Store!Next

(* The statements of PATCH, POST and the imports implement the atomic       *)
(* store: a patch is merged into the profile as it is when it is written.   *)
THEOREM WritesImplementStore == Spec => WritesAreAtomic
<1>1. PInv /\ [Next]_vars => [Store!Next]_(Store!vars)
  <2> SUFFICES ASSUME PInv, [Next]_vars PROVE [Store!Next]_(Store!vars)
    OBVIOUS
  <2>1. CASE UNCHANGED vars
    <3>1. Pending' = Pending
      BY <2>1 DEF vars, Pending, Serving
    <3> QED
      BY <2>1, <3>1, Stutters DEF vars
  <2> QED
    BY <2>1, RequestRefines, ImportRefines DEF Next
<1> QED
  BY <1>1, InitRefines, Initially, Inductive, PTL DEF Spec, Store!Spec, WritesAreAtomic

----------------------------------------------------------------------------
(* What a step of a request or of an import waits for: the guards of        *)
(* PatchStep and ImportStep while they are served.                          *)
Ready(q) ==
  \/ request[q].pc = "begun"
  \/ request[q].pc = "placed" /\ lock = Nobody
  \/ request[q].pc = "loaded" /\ request[q].base = NoRow
  \/ request[q].pc = "loaded" /\ request[q].base # NoRow /\ lock \in {q, Nobody}

ImportReady(j) == imports[j].base = NoRow \/ lock = Nobody

HolderIsReady == lock \in Requests /\ Serving(lock) /\ Ready(lock)

(* Whoever cannot go on waits for the holder of the row lock, who can.      *)
NobodyIsStuck ==
  /\ \A q \in Requests : Serving(q) => Ready(q) \/ (lock # q /\ HolderIsReady)
  /\ \A j \in Imports : imports[j].pc = "loaded" => ImportReady(j) \/ HolderIsReady

(* No ring of waits, for any number of writers: there is one lock, and the  *)
(* only one to hold it is a request that has its row and waits for nobody.  *)
THEOREM WaitsAreShort == Spec => []NobodyIsStuck
<1>1. ASSUME PInv
      PROVE  NobodyIsStuck
  <2>1. lock # Nobody => HolderIsReady
    BY <1>1 DEF PInv, TypeOK, LockIsHeld, HolderIsReady, Serving, Ready
  <2>2. ASSUME NEW q \in Requests, Serving(q), ~Ready(q)
        PROVE  lock # q /\ lock # Nobody
    BY <1>1, <2>2 DEF Serving, Ready, PInv, LockIsHeld
  <2> QED
    BY <2>1, <2>2 DEF NobodyIsStuck, ImportReady
<1> QED
  BY <1>1, Initially, Inductive, PTL DEF Spec

(* The statements a request may still need: three for each attempt that is  *)
(* left, those of this one, and the audit.                                  *)
StatementsLeft(s) ==
  CASE s.pc = "new"       -> 3 * MaxAttempts + 2
    [] s.pc = "begun"     -> 3 * (MaxAttempts - s.attempt) + 4
    [] s.pc = "placed"    -> 3 * (MaxAttempts - s.attempt) + 3
    [] s.pc = "loaded"    -> 3 * (MaxAttempts - s.attempt) + 2
    [] s.pc = "committed" -> 1
    [] OTHER              -> 0

ImportLeft(s) == CASE s.pc = "new" -> 2 [] s.pc = "loaded" -> 1 [] OTHER -> 0

(* Every statement brings the one who issued it closer to its end.          *)
EveryStatementCounts ==
  /\ \A q \in Requests :
       /\ StatementsLeft(request[q]) \in 0..3 * MaxAttempts + 2
       /\ request'[q] # request[q] => StatementsLeft(request'[q]) < StatementsLeft(request[q])
  /\ \A j \in Imports :
       /\ ImportLeft(imports[j]) \in 0..2
       /\ imports'[j] # imports[j] => ImportLeft(imports'[j]) < ImportLeft(imports[j])

LEMMA StatementsOf ==
  ASSUME TypeOK, NEW q \in Requests
  PROVE  StatementsLeft(request[q]) \in 0..3 * MaxAttempts + 2
<1>1. PICK s : s = request[q] /\ (s.pc \in {"begun", "placed", "loaded"} => s.attempt \in 1..MaxAttempts)
  BY RequestType
<1>2. StatementsLeft(s) \in 0..3 * MaxAttempts + 2
  BY <1>1, AttemptsAssumption DEF StatementsLeft
<1> QED
  BY <1>1, <1>2

(* Only an import's own statements move it on.                              *)
LEMMA ImportsCountDown ==
  ASSUME TypeOK, [Next]_vars, NEW j \in Imports, imports'[j] # imports[j]
  PROVE  ImportLeft(imports'[j]) < ImportLeft(imports[j])
<1>0. ASSUME NEW i \in Imports, NEW s, imports' = [imports EXCEPT ![i] = s]
      PROVE  i = j /\ imports'[j] = s
  BY <1>0 DEF TypeOK
<1>1. ASSUME NEW i \in Imports, ImportLoad(i) \/ ImportStep(i)
      PROVE  \/ imports[j].pc = "new" /\ imports'[j].pc \in {"skipped", "loaded"}
             \/ imports[j].pc = "loaded" /\ imports'[j].pc \in {"done", "failed"}
  <2>1. CASE ImportLoad(i)
    <3>1. \/ imports' = [imports EXCEPT ![i] = [pc |-> "skipped"]]
          \/ imports' = [imports EXCEPT ![i] = [pc |-> "loaded", base |-> row]]
      BY <2>1 DEF ImportLoad
    <3> QED
      BY <1>0, <2>1, <3>1 DEF ImportLoad
  <2>2. CASE ImportStep(i)
    <3>1. imports[i].pc = "loaded"
      BY <2>2 DEF ImportStep, ImportInsert, ImportUpdate, ImportFails
    <3>2. \/ imports' = [imports EXCEPT ![i] = [pc |-> "done"]]
          \/ imports' = [imports EXCEPT ![i] = [pc |-> "failed"]]
      BY <2>2 DEF ImportStep, ImportInsert, ImportUpdate, ImportFails
    <3> QED
      BY <1>0, <3>1, <3>2
  <2> QED
    BY <1>1, <2>1, <2>2
<1>2. \E i \in Imports : ImportLoad(i) \/ ImportStep(i)
  BY DEF Next, vars, PatchBegin, PostPlace, PatchStep, RollBack, CheckPlace, LoadForUpdate,
         InsertProfile, UniqueViolation, UpdateProfile, Audit
<1> QED
  BY <1>1, <1>2 DEF ImportLeft

(* The moves a request makes, from one state to the next.                   *)
Moves(r, s) ==
  \/ r.pc = "new" /\ s.pc = "begun" /\ s.attempt = 1
  \/ r.pc = "begun" /\ s.pc = "placed" /\ s.attempt = r.attempt
  \/ r.pc = "placed" /\ s.pc = "loaded" /\ s.attempt = r.attempt
  \/ r.pc = "loaded" /\ s.pc = "begun" /\ s.attempt = r.attempt + 1 /\ r.attempt < MaxAttempts
  \/ r.pc \in {"new", "loaded"} /\ s.pc = "committed"
  \/ /\ r.pc \in {"new", "begun", "placed", "loaded", "committed"}
     /\ s.pc \in {"notfound", "failed", "conflict", "done"}

LEMMA RequestMoves ==
  ASSUME TypeOK, [Next]_vars, NEW q \in Requests, request'[q] # request[q]
  PROVE  Moves(request[q], request'[q])
<1>1. ASSUME NEW p \in Requests, NEW state, Goto(p, state)
      PROVE  p = q /\ request'[q] = state
  BY <1>1 DEF TypeOK, Goto
<1>2. CASE \E p \in Requests : \E patch \in Patches : PatchBegin(p, patch)
  BY <1>1, <1>2 DEF PatchBegin, Moves
<1>3. CASE \E p \in Requests : PostPlace(p)
  <2>1. PICK p \in Requests : PostPlace(p)
    BY <1>3
  <2>2. request[p].pc = "new" /\ (\/ Goto(p, [pc |-> "done"])
                                     \/ Goto(p, [pc |-> "committed", action |-> "create"]))
    BY <2>1 DEF PostPlace
  <2> QED
    BY <1>1, <2>2 DEF Moves
<1>4. CASE \E p \in Requests : CheckPlace(p)
  <2>1. PICK p \in Requests : CheckPlace(p)
    BY <1>4
  <2>2. request[p] = [pc |-> request[p].pc, patch |-> request[p].patch, attempt |-> request[p].attempt]
    BY <2>1, RequestType DEF CheckPlace
  <2>3. PICK s : s = [request[p] EXCEPT !.pc = "placed"]
    OBVIOUS
  <2>4. s.pc = "placed" /\ s.attempt = request[p].attempt
    BY <2>2, <2>3
  <2>5. Goto(p, s) \/ Goto(p, [pc |-> "notfound"])
    BY <2>1, <2>3 DEF CheckPlace
  <2> QED
    BY <1>1, <2>1, <2>4, <2>5 DEF CheckPlace, Moves
<1>5. CASE \E p \in Requests : LoadForUpdate(p)
  BY <1>1, <1>5 DEF LoadForUpdate, Moves
<1>6. CASE \E p \in Requests : InsertProfile(p) \/ UpdateProfile(p)
  BY <1>1, <1>6 DEF InsertProfile, UpdateProfile, Moves
<1>7. CASE \E p \in Requests : UniqueViolation(p)
  BY <1>1, <1>7 DEF UniqueViolation, Retry, Moves
<1>8. CASE \E p \in Requests : RollBack(p) \/ Audit(p)
  BY <1>1, <1>8 DEF RollBack, Audit, Serving, Moves
<1>9. CASE UNCHANGED request
  BY <1>9
<1> QED
  BY <1>2, <1>3, <1>4, <1>5, <1>6, <1>7, <1>8, <1>9
     DEF Next, PatchStep, ImportLoad, ImportStep, ImportInsert, ImportUpdate, ImportFails, vars

(* A PATCH takes three statements for each of its attempts and two more at  *)
(* most, an import two: no statement is issued twice within an attempt, and *)
(* a refused insert is the only way into another one.                       *)
THEOREM WritersAreFinite == Spec => [][EveryStatementCounts]_vars
<1>1. ASSUME PInv, [Next]_vars
      PROVE  EveryStatementCounts
  <2>1. TypeOK
    BY <1>1 DEF PInv
  <2>2. ASSUME NEW q \in Requests
        PROVE  StatementsLeft(request[q]) \in 0..3 * MaxAttempts + 2
    BY <2>1, StatementsOf
  <2>3. ASSUME NEW q \in Requests, request'[q] # request[q]
        PROVE  StatementsLeft(request'[q]) < StatementsLeft(request[q])
    <3>1. PICK r : r = request[q] /\ (r.pc \in {"begun", "placed", "loaded"} => r.attempt \in 1..MaxAttempts)
      BY <2>1, RequestType
    <3>2. PICK s : s = request'[q]
      OBVIOUS
    <3>3. Moves(r, s)
      BY <1>1, <2>1, <2>3, <3>1, <3>2, RequestMoves
    <3>4. StatementsLeft(s) < StatementsLeft(r)
      BY <3>1, <3>3, AttemptsAssumption DEF Moves, StatementsLeft
    <3> QED
      BY <3>1, <3>2, <3>4
  <2>4. ASSUME NEW j \in Imports
        PROVE  ImportLeft(imports[j]) \in 0..2
    BY DEF ImportLeft
  <2> QED
    BY <1>1, <2>1, <2>2, <2>3, <2>4, ImportsCountDown DEF EveryStatementCounts
<1> QED
  BY <1>1, Initially, Inductive, PTL DEF Spec
=============================================================================
