--------------------------- MODULE ProfileWrites ---------------------------
(***************************************************************************)
(* The writers of one place's accessibility profile, statement by          *)
(* statement (internal/place/repository.go, cmd/api, cmd/ingestion):       *)
(*                                                                         *)
(*   PATCH   UpsertProfile, at most two attempts of a transaction that     *)
(*           checks the place, selects the profile FOR UPDATE, merges, and *)
(*           inserts or updates;                                           *)
(*   POST    CreatePlace, one INSERT of the place and its inline profile;  *)
(*   import  UpsertProfileIngestion, a transaction whose read takes no     *)
(*           lock.                                                         *)
(*                                                                         *)
(* Transactions run READ COMMITTED: a read sees what is committed when it  *)
(* is issued, an UPDATE waits for the row lock, place_id is UNIQUE.  The   *)
(* write of a transaction and its commit are one step.                     *)
(***************************************************************************)
EXTENDS ProfileData, Naturals, FiniteSets

CONSTANTS
  Imports,      \* profile writes of the ingestion pipeline
  MaxAttempts,  \* attempts UpsertProfile makes (2 in the code)
  Faults        \* whether statements fail and processes die

ASSUME AttemptsAssumption == MaxAttempts \in Nat \ {0}

VARIABLES
  exists,    \* whether the places row is there
  row,       \* the accessibility_profiles row of the place
  lock,      \* the request that holds the row lock
  request,   \* local state of each request
  imports,   \* local state of each import
  log,       \* write_logs
  creators   \* history: the writers whose INSERT made the row, with Null for
             \* an import of an earlier run

vars == <<exists, row, lock, request, imports, log, creators>>

Nobody == [holder |-> "none"]

ASSUME HolderAssumption == Nobody \notin Requests

(* base is the row a transaction has read.                                  *)
RequestState ==
  [pc : {"new", "notfound", "failed", "conflict", "done"}]
    \cup [pc : {"begun"}, patch : Patches, attempt : 1..MaxAttempts]
    \cup [pc : {"placed"}, patch : Patches, attempt : 1..MaxAttempts]
    \cup [pc : {"loaded"}, patch : Patches, attempt : 1..MaxAttempts, base : Row \cup {NoRow}]
    \cup [pc : {"committed"}, action : {"create", "update"}]

ImportState ==
  [pc : {"new", "skipped", "failed", "done"}] \cup [pc : {"loaded"}, base : Row \cup {NoRow}]

TypeOK ==
  /\ exists \in BOOLEAN
  /\ row \in Row \cup {NoRow}
  /\ lock \in Requests \cup {Nobody}
  /\ request \in [Requests -> RequestState]
  /\ imports \in [Imports -> ImportState]
  /\ log \subseteq [by : Requests, action : {"create", "update"}]
  /\ creators \subseteq Requests \cup Imports \cup {Null}

Init ==
  /\ exists \in BOOLEAN
  /\ row \in Earlier(exists)
  /\ lock = Nobody
  /\ request = [q \in Requests |-> [pc |-> "new"]]
  /\ imports = [j \in Imports |-> [pc |-> "new"]]
  /\ log = {}
  /\ creators = IF row = NoRow THEN {} ELSE {Null}

----------------------------------------------------------------------------
(* The row lock of the requests being served.                               *)

Serving(q) == request[q].pc \in {"begun", "placed", "loaded"}

Goto(q, state) == request' = [request EXCEPT ![q] = state]

(* Mistakes: the lock of another is released; a commit keeps its lock; the  *)
(* read takes none.                                                         *)
ReleaseAny(q) == lock' = Nobody
ReleaseNone(q) == lock' = lock
NoRowLock(q) == Nobody

RowLock(q) == IF row = NoRow THEN Nobody ELSE q
Release(q) == lock' = IF lock = q THEN Nobody ELSE lock

----------------------------------------------------------------------------
(* PATCH /v1/places/{id}/accessibility.                                     *)

PatchBegin(q, patch) ==
  /\ request[q].pc = "new"
  /\ Goto(q, [pc |-> "begun", patch |-> patch, attempt |-> 1])
  /\ UNCHANGED <<exists, row, lock, imports, log, creators>>

CheckPlace(q) ==
  /\ request[q].pc = "begun"
  /\ Goto(q, IF exists THEN [request[q] EXCEPT !.pc = "placed"] ELSE [pc |-> "notfound"])
  /\ UNCHANGED <<exists, row, lock, imports, log, creators>>

(* SELECT ... FOR UPDATE waits for the lock of a row that is there; there   *)
(* is nothing to lock when the row is not.                                  *)
LoadForUpdate(q) ==
  /\ request[q].pc = "placed"
  /\ lock = Nobody
  /\ lock' = RowLock(q)
  /\ Goto(q, [pc |-> "loaded", patch |-> request[q].patch,
              attempt |-> request[q].attempt, base |-> row])
  /\ UNCHANGED <<exists, row, imports, log, creators>>

Merged(q) == Profile(MergePatch(ValOf(request[q].base), request[q].patch), TRUE, q)

(* Mistake: an insert that overwrites the row of another.                   *)
InsertOver(q) ==
  /\ request[q].pc = "loaded"
  /\ request[q].base = NoRow
  /\ row' = Merged(q)
  /\ creators' = creators \cup {q}
  /\ Goto(q, [pc |-> "committed", action |-> "create"])
  /\ UNCHANGED <<exists, lock, imports, log>>

InsertProfile(q) ==
  /\ request[q].pc = "loaded"
  /\ request[q].base = NoRow
  /\ row = NoRow
  /\ row' = Merged(q)
  /\ creators' = creators \cup {q}
  /\ Goto(q, [pc |-> "committed", action |-> "create"])
  /\ UNCHANGED <<exists, lock, imports, log>>

GiveUp(q) == [pc |-> "conflict"]  \* mistake: no second attempt

Retry(q) ==
  IF request[q].attempt < MaxAttempts
  THEN [pc |-> "begun", patch |-> request[q].patch, attempt |-> request[q].attempt + 1]
  ELSE [pc |-> "conflict"]

(* Another writer has inserted the profile since the read: the unique       *)
(* constraint refuses this one, and the transaction is tried again.         *)
UniqueViolation(q) ==
  /\ request[q].pc = "loaded"
  /\ request[q].base = NoRow
  /\ row # NoRow
  /\ Goto(q, Retry(q))
  /\ UNCHANGED <<exists, row, lock, imports, log, creators>>

UpdateProfile(q) ==
  /\ request[q].pc = "loaded"
  /\ request[q].base # NoRow
  /\ lock \in {q, Nobody}
  /\ row' = Merged(q)
  /\ Release(q)
  /\ Goto(q, [pc |-> "committed", action |-> "update"])
  /\ UNCHANGED <<exists, imports, log, creators>>

(* An error or a crash inside the transaction rolls it back.                *)
RollBack(q) ==
  /\ Faults
  /\ Serving(q)
  /\ Release(q)
  /\ Goto(q, [pc |-> "failed"])
  /\ UNCHANGED <<exists, row, imports, log, creators>>

(* audit.Log runs after the commit; its failure is only warned about.       *)
Audit(q) ==
  /\ request[q].pc = "committed"
  /\ \/ log' = log \cup {[by |-> q, action |-> request[q].action]}
     \/ Faults /\ log' = log
  /\ Goto(q, [pc |-> "done"])
  /\ UNCHANGED <<exists, row, lock, imports, creators>>

----------------------------------------------------------------------------
(* POST /v1/places, with or without an inline profile.                      *)
PostPlace(q) ==
  /\ request[q].pc = "new"
  /\ ~exists
  /\ exists' = TRUE
  /\ \/ /\ row' = row
        /\ creators' = creators
        /\ Goto(q, [pc |-> "done"])
     \/ \E val \in Vals :
          /\ row' = Profile(val, TRUE, q)
          /\ creators' = creators \cup {q}
          /\ Goto(q, [pc |-> "committed", action |-> "create"])
  /\ UNCHANGED <<lock, imports, log>>

----------------------------------------------------------------------------
(* UpsertProfileIngestion.                                                  *)

ImportLoad(j) ==
  /\ imports[j].pc = "new"
  /\ exists
  /\ imports' = [imports EXCEPT ![j] =
       IF row # NoRow /\ row.verified THEN [pc |-> "skipped"] ELSE [pc |-> "loaded", base |-> row]]
  /\ UNCHANGED <<exists, row, lock, request, log, creators>>

ImportInsert(j, val) ==
  /\ imports[j].pc = "loaded"
  /\ imports[j].base = NoRow
  /\ row = NoRow
  /\ row' = Profile(val, FALSE, Null)
  /\ creators' = creators \cup {j}
  /\ imports' = [imports EXCEPT ![j] = [pc |-> "done"]]
  /\ UNCHANGED <<exists, lock, request, log>>

Imported(val) == Profile(val, row.verified, Null)

(* UPDATE ... WHERE id = ?: every component, and the submitter cleared;     *)
(* user_verified is neither written nor asked for again.                    *)
ImportUpdate(j, val) ==
  /\ imports[j].pc = "loaded"
  /\ imports[j].base # NoRow
  /\ lock = Nobody
  /\ row' = Imported(val)
  /\ imports' = [imports EXCEPT ![j] = [pc |-> "done"]]
  /\ UNCHANGED <<exists, lock, request, log, creators>>

(* A unique violation is not retried here: the run is aborted.              *)
ImportFails(j) ==
  /\ imports[j].pc = "loaded"
  /\ Faults \/ (imports[j].base = NoRow /\ row # NoRow)
  /\ imports' = [imports EXCEPT ![j] = [pc |-> "failed"]]
  /\ UNCHANGED <<exists, row, lock, request, log, creators>>

----------------------------------------------------------------------------
PatchStep(q) ==
  \/ CheckPlace(q)
  \/ LoadForUpdate(q)
  \/ InsertProfile(q)
  \/ UniqueViolation(q)
  \/ UpdateProfile(q)
  \/ Audit(q)

ImportStep(j) ==
  \/ \E val \in Vals : ImportInsert(j, val) \/ ImportUpdate(j, val)
  \/ ImportFails(j)

Next ==
  \/ \E q \in Requests :
       \/ \E patch \in Patches : PatchBegin(q, patch)
       \/ PostPlace(q)
       \/ PatchStep(q)
       \/ RollBack(q)
  \/ \E j \in Imports : ImportLoad(j) \/ ImportStep(j)

(* A request being served is served to its end, an import begun is ended:   *)
(* no statement waits but for a row lock, and transactions end.             *)
Fairness ==
  /\ \A q \in Requests : WF_vars(PatchStep(q))
  /\ \A j \in Imports : WF_vars(ImportStep(j))

Spec == Init /\ [][Next]_vars

FairSpec == Spec /\ Fairness

----------------------------------------------------------------------------
(* Properties.                                                              *)

Store == INSTANCE ProfileStore WITH
           pending <- [q \in Requests |->
                         IF Serving(q) THEN {request[q].patch} ELSE {}],
           begun <- {j \in Imports : imports[j].pc = "loaded"}

(* Every write is atomic: concurrent PATCHes of one place serialize, so no  *)
(* member one of them set is lost to another that read the profile before;  *)
(* and an import that finds a person's profile writes nothing.              *)
WritesAreAtomic == Store!Spec

(* The row a PATCH is about to update is the row it has read: the lock is   *)
(* held from the read to the commit, against other requests and imports.    *)
LockedReadIsCurrent ==
  \A q \in Requests :
    request[q].pc = "loaded" /\ request[q].base # NoRow => lock = q /\ request[q].base = row

(* Two attempts suffice: a request whose insert was refused finds the row   *)
(* at its second attempt, since no path deletes a profile.                  *)
SecondAttemptSuffices == \A q \in Requests : request[q].pc # "conflict"

(* A profile is created once: of all requests and all imports, those that   *)
(* ended long ago and those whose audit row was lost among them, one at     *)
(* most has made it; and who is answered or logged as its creator is that   *)
(* one.                                                                     *)
Created(q) == request[q].pc = "committed" /\ request[q].action = "create"

CreatedOnce ==
  /\ Cardinality(creators) <= 1
  /\ {q \in Requests : Created(q)} \subseteq creators
  /\ {l.by : l \in {e \in log : e.action = "create"}} \subseteq creators

(* What the comment of UpsertProfileIngestion says: rows that are verified  *)
(* are skipped, so only a request changes them.                             *)
CorrectionsSurviveImport ==
  [][row # NoRow /\ row.verified /\ row' # row => row'.by # Null]_vars

(* A request being served is answered, and an import begun ends, however    *)
(* they wait for each other.                                                *)
EveryWriterEnds ==
  /\ \A q \in Requests : Serving(q) ~> ~Serving(q)
  /\ \A j \in Imports : imports[j].pc = "loaded" ~> imports[j].pc # "loaded"
=============================================================================
