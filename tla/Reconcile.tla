----------------------------- MODULE Reconcile -----------------------------
(***************************************************************************)
(* Reconciliation of external records with canonical places.  The two      *)
(* ingestion pipelines are separate processes over one database:           *)
(*                                                                         *)
(*   feed      cmd/ingestion runExternal: identity.Resolver matches each   *)
(*             record and attaches it to a place, or enqueues it in        *)
(*             unmatched_external;                                         *)
(*   importer  cmd/ingestion runCanonical: batches of OSM places are       *)
(*             upserted, then identity.Sweeper re-matches the queue rows   *)
(*             near the places just touched.                               *)
(*                                                                         *)
(* The API adds places too.  Every SQL statement is one step; nothing      *)
(* holds a lock from one statement to the next, so the steps of all        *)
(* processes interleave.  A statement may fail and a process may die       *)
(* between two statements; only what is in the database survives.          *)
(***************************************************************************)
EXTENDS MatchScore

CONSTANTS
  Places,        \* places that may come to exist
  OsmPlaces,     \* those the canonical source delivers (osm_id # 0)
  Records,       \* natural keys (source, source_id) of external records
  Sources,       \* external sources, the keys of places.external_ids
  SourceOf,      \* the source of a record
  Importers,     \* canonical ingestion processes
  Feeds,         \* external ingestion processes
  MaxParams,     \* identifiers one query can bind
  MaxRowId,      \* bound: queue rows ever inserted
  MaxAttempts,   \* bound: attempts saturates here
  MaxFlushes,    \* bound: batches one import flushes
  Faults         \* whether statements fail and processes die

ASSUME PlacesAssumption == OsmPlaces \subseteq Places
ASSUME SourceAssumption == SourceOf \in [Records -> Sources]
ASSUME BoundAssumption ==
  MaxParams \in Nat /\ MaxRowId \in Nat /\ MaxAttempts \in Nat \ {0} /\ MaxFlushes \in Nat

NoRow == [absent |-> TRUE]       \* a row that does not exist
NoRecord == [record |-> "none"]  \* a key external_ids does not hold

ASSUME AbsenceAssumption == NoRow \notin PlaceRows /\ NoRecord \notin Records

VARIABLES
  place,     \* places: the row of each place, NoRow while it is not there
  ref,       \* places.external_ids: the record attached to a place, by source
  queue,     \* unmatched_external, by its unique key (source, source_id)
  nextId,    \* the sequence behind unmatched_external.id
  feed,      \* local state of the external ingestion processes
  importer,  \* local state of the canonical ingestion processes
  settled,   \* history: records written by a feed or a sweep and not since
             \* wiped, displaced or deleted by a code path that may do so
  requeued,  \* history: records enqueued since an importer read the queue
  gone       \* history: records whose row was deleted since then

vars == <<place, ref, queue, nextId, feed, importer, settled, requeued, gone>>

----------------------------------------------------------------------------
(* State.                                                                   *)

Table == [p \in {q \in Places : place[q] # NoRow} |-> place[p]]

Queued(r) == queue[r] # NoRow
Attached(r) == \E p \in Places : ref[p][SourceOf[r]] = r

Idle == [pc |-> "idle"]

QueueRow == [id : Nat, row : RecordRows, attempts : 1..MaxAttempts]
Snapshot == [record : Records, id : Nat, row : RecordRows]

FeedState ==
  {Idle} \cup [pc : {"attach"}, record : Records, place : Places]
         \cup [pc : {"enqueue"}, record : Records, row : RecordRows]

ImporterState ==
  {Idle}
    \cup [pc : {"flushing"}, touched : SUBSET OsmPlaces, flushes : 0..MaxFlushes]
    \cup [pc : {"sweeping"}, rows : SUBSET Snapshot]
    \cup [pc : {"attach", "delete"}, rows : SUBSET Snapshot, current : Snapshot, place : Places]
    \cup [pc : {"bump"}, rows : SUBSET Snapshot, current : Snapshot]

TypeOK ==
  /\ place \in [Places -> PlaceRows \cup {NoRow}]
  /\ ref \in [Places -> [Sources -> Records \cup {NoRecord}]]
  /\ queue \in [Records -> QueueRow \cup {NoRow}]
  /\ nextId \in Nat
  /\ feed \in [Feeds -> FeedState]
  /\ importer \in [Importers -> ImporterState]
  /\ settled \subseteq Records
  /\ requeued \in [Importers -> SUBSET Records]
  /\ gone \in [Importers -> SUBSET Records]

Init ==
  /\ place = [p \in Places |-> NoRow]
  /\ ref = [p \in Places |-> [s \in Sources |-> NoRecord]]
  /\ queue = [r \in Records |-> NoRow]
  /\ nextId = 1
  /\ feed = [f \in Feeds |-> Idle]
  /\ importer = [i \in Importers |-> Idle]
  /\ settled = {}
  /\ requeued = [i \in Importers |-> {}]
  /\ gone = [i \in Importers |-> {}]

----------------------------------------------------------------------------
(* The statements the pipelines share.                                      *)

(* AttachExternalRef: jsonb_set of the record's source key.  What the key   *)
(* held before is displaced.                                                *)
AttachExternalRef(p, r) ==
  /\ ref' = [ref EXCEPT ![p][SourceOf[r]] = r]
  /\ settled' = (settled \ {ref[p][SourceOf[r]]}) \cup {r}

OneMore(attempts) == IF attempts < MaxAttempts THEN attempts + 1 ELSE MaxAttempts

(* Mistake: a refresh starts the count again.                               *)
RefreshedAnew(old, row) == [id |-> old.id, row |-> row, attempts |-> 1]

NewRow(row) == [id |-> nextId, row |-> row, attempts |-> 1]
Refreshed(old, row) == [id |-> old.id, row |-> row, attempts |-> OneMore(old.attempts)]

(* Enqueue: INSERT ... ON CONFLICT (source, source_id) DO UPDATE.  The      *)
(* insert has taken a number of the sequence when it meets the conflict;    *)
(* at the bound, where no row is inserted any more, numbers are not told    *)
(* apart.                                                                   *)
Enqueue(r, row) ==
  /\ queue' = [queue EXCEPT ![r] = IF Queued(r) THEN Refreshed(@, row) ELSE NewRow(row)]
  /\ nextId' = IF nextId <= MaxRowId THEN nextId + 1 ELSE nextId
  /\ settled' = settled \cup {r}
  /\ requeued' = [i \in Importers |-> requeued[i] \cup {r}]

(* Mistake: near every touched place instead of near one.                   *)
NearAllTouched(touched) ==
  {[record |-> r, id |-> queue[r].id, row |-> queue[r].row] :
     r \in {q \in Records : /\ Queued(q)
                            /\ \A p \in touched : place[p] # NoRow
                                               /\ Meters(queue[q].row, place[p]) <= RadiusM}}

(* FindCandidatesNearTouched: rows within RadiusM of a touched place, each  *)
(* copied as it is now.                                                     *)
NearTouched(touched) ==
  {[record |-> r, id |-> queue[r].id, row |-> queue[r].row] :
     r \in {q \in Records : /\ Queued(q)
                            /\ \E p \in touched : place[p] # NoRow
                                               /\ Meters(queue[q].row, place[p]) <= RadiusM}}

----------------------------------------------------------------------------
(* External pipeline: Resolver.Resolve on one record.                       *)

(* Match has read the candidates; its decision is now local to the process. *)
Resolve(f, r, row) ==
  /\ feed[f] = Idle
  /\ \E a \in Answers(row, Table) :
       feed' = [feed EXCEPT ![f] =
         IF a = NoMatch THEN [pc |-> "enqueue", record |-> r, row |-> row]
                        ELSE [pc |-> "attach", record |-> r, place |-> a.place]]
  /\ UNCHANGED <<place, ref, queue, nextId, importer, settled, requeued, gone>>

ResolveAttach(f) ==
  /\ feed[f].pc = "attach"
  /\ AttachExternalRef(feed[f].place, feed[f].record)
  /\ feed' = [feed EXCEPT ![f] = Idle]
  /\ UNCHANGED <<place, queue, nextId, importer, requeued, gone>>

ResolveEnqueue(f) ==
  /\ feed[f].pc = "enqueue"
  /\ Queued(feed[f].record) \/ nextId <= MaxRowId
  /\ Enqueue(feed[f].record, feed[f].row)
  /\ feed' = [feed EXCEPT ![f] = Idle]
  /\ UNCHANGED <<place, ref, importer, gone>>

(* The write fails and is counted (buildRecordSink), or the process dies.   *)
ResolveFails(f) ==
  /\ Faults
  /\ feed[f] # Idle
  /\ feed' = [feed EXCEPT ![f] = Idle]
  /\ UNCHANGED <<place, ref, queue, nextId, importer, settled, requeued, gone>>

----------------------------------------------------------------------------
(* Canonical pipeline: batcher and UpsertBatch.                             *)

StartImport(i) ==
  /\ importer[i] = Idle
  /\ importer' = [importer EXCEPT ![i] = [pc |-> "flushing", touched |-> {}, flushes |-> 0]]
  /\ UNCHANGED <<place, ref, queue, nextId, feed, settled, requeued, gone>>

Upserted(batch) == [p \in Places |-> IF p \in DOMAIN batch THEN batch[p] ELSE place[p]]

(* One INSERT for the batch.  A row that exists takes every column of the   *)
(* list, external_ids among them: the value written is {"osm": ...}, so the *)
(* references of the other sources go.  The identifiers RETURNING gives     *)
(* back are remembered in touchedIDs.                                       *)
FlushBatch(i, batch) ==
  /\ importer[i].pc = "flushing"
  /\ importer[i].flushes < MaxFlushes
  /\ place' = Upserted(batch)
  /\ ref' = [p \in Places |-> IF p \in DOMAIN batch THEN [s \in Sources |-> NoRecord] ELSE ref[p]]
  /\ settled' = settled \ {ref[p][s] : p \in DOMAIN batch, s \in Sources}
  /\ importer' = [importer EXCEPT ![i].touched = @ \cup DOMAIN batch, ![i].flushes = @ + 1]
  /\ UNCHANGED <<queue, nextId, feed, requeued, gone>>

(* Mistake: a run that fails takes the places of its batches back.          *)
ImportDiesUndone(i) ==
  /\ Faults
  /\ importer[i] # Idle
  /\ importer' = [importer EXCEPT ![i] = Idle]
  /\ place' = IF importer[i].pc = "flushing"
              THEN [p \in Places |-> IF p \in importer[i].touched THEN NoRow ELSE place[p]]
              ELSE place
  /\ UNCHANGED <<ref, queue, nextId, feed, settled, requeued, gone>>

(* A flush or profile write fails and runCanonical returns, or the process  *)
(* dies at any point.  touchedIDs and the rows still to sweep are gone.     *)
ImportDies(i) ==
  /\ Faults
  /\ importer[i] # Idle
  /\ importer' = [importer EXCEPT ![i] = Idle]
  /\ UNCHANGED <<place, ref, queue, nextId, feed, settled, requeued, gone>>

----------------------------------------------------------------------------
(* Canonical pipeline: Sweeper.Sweep.                                       *)

(* The final flush is done.  Nothing touched: Sweep returns at once.  More  *)
(* identifiers than one query can bind: the query fails, which runCanonical *)
(* logs.                                                                    *)
BeginSweep(i) ==
  /\ importer[i].pc = "flushing"
  /\ importer' = [importer EXCEPT ![i] =
       IF \/ importer[i].touched = {}
          \/ Cardinality(importer[i].touched) > MaxParams
       THEN Idle
       ELSE [pc |-> "sweeping", rows |-> NearTouched(importer[i].touched)]]
  /\ requeued' = [requeued EXCEPT ![i] = {}]
  /\ gone' = [gone EXCEPT ![i] = {}]
  /\ UNCHANGED <<place, ref, queue, nextId, feed, settled>>

SweepMatch(i) ==
  /\ importer[i].pc = "sweeping"
  /\ \E s \in importer[i].rows : \E a \in Answers(s.row, Table) :
       importer' = [importer EXCEPT ![i] =
         IF a = NoMatch
         THEN [pc |-> "bump", rows |-> @.rows \ {s}, current |-> s]
         ELSE [pc |-> "attach", rows |-> @.rows \ {s}, current |-> s, place |-> a.place]]
  /\ UNCHANGED <<place, ref, queue, nextId, feed, settled, requeued, gone>>

(* Mistake: the row that was attached stays in the queue.                   *)
SweepAttachOnly(i) ==
  /\ importer[i].pc = "attach"
  /\ AttachExternalRef(importer[i].place, importer[i].current.record)
  /\ importer' = [importer EXCEPT ![i] = [pc |-> "sweeping", rows |-> @.rows]]
  /\ UNCHANGED <<place, queue, nextId, feed, requeued, gone>>

SweepAttach(i) ==
  /\ importer[i].pc = "attach"
  /\ AttachExternalRef(importer[i].place, importer[i].current.record)
  /\ importer' = [importer EXCEPT ![i].pc = "delete"]
  /\ UNCHANGED <<place, queue, nextId, feed, requeued, gone>>

(* Mistake: a row done with is looked at again.                             *)
SameRow(i) == importer' = [importer EXCEPT ![i] = [pc |-> "sweeping", rows |-> @.rows \cup {@.current}]]

NextRow(i) == importer' = [importer EXCEPT ![i] = [pc |-> "sweeping", rows |-> @.rows]]

(* Mistake: by the natural key, as the row was found.                       *)
RowsOfRecord(s) == {r \in Records : Queued(r) /\ r = s.record}

(* WHERE id = ?                                                             *)
RowsWithId(s) == {r \in Records : Queued(r) /\ queue[r].id = s.id}

(* Delete.  No row affected is an error, which is counted.                  *)
SweepDelete(i) ==
  LET hit == RowsWithId(importer[i].current)
  IN /\ importer[i].pc = "delete"
     /\ queue' = [r \in Records |-> IF r \in hit THEN NoRow ELSE queue[r]]
     /\ settled' = settled \ (hit \cap requeued[i])
     /\ gone' = [j \in Importers |-> gone[j] \cup hit]
     /\ NextRow(i)
     /\ UNCHANGED <<place, ref, nextId, feed, requeued>>

(* BumpAttempts, likewise.                                                  *)
SweepBump(i) ==
  LET hit == RowsWithId(importer[i].current)
  IN /\ importer[i].pc = "bump"
     /\ queue' = [r \in Records |->
          IF r \in hit THEN [queue[r] EXCEPT !.attempts = OneMore(@)] ELSE queue[r]]
     /\ NextRow(i)
     /\ UNCHANGED <<place, ref, nextId, feed, settled, requeued, gone>>

(* Mistake: a failed attach does not keep the row from being deleted.       *)
SweepRowFallsThrough(i) ==
  /\ Faults
  /\ importer[i].pc = "attach"
  /\ importer' = [importer EXCEPT ![i].pc = "delete"]
  /\ UNCHANGED <<place, ref, queue, nextId, feed, settled, requeued, gone>>

(* A statement for one row fails: logged, counted, and on to the next row.  *)
SweepRowFails(i) ==
  /\ Faults
  /\ \/ importer[i].pc \in {"attach", "delete", "bump"} /\ NextRow(i)
     \/ /\ importer[i].pc = "sweeping"
        /\ \E s \in importer[i].rows : importer' = [importer EXCEPT ![i].rows = @ \ {s}]
  /\ UNCHANGED <<place, ref, queue, nextId, feed, settled, requeued, gone>>

EndSweep(i) ==
  /\ importer[i].pc = "sweeping"
  /\ importer[i].rows = {}
  /\ importer' = [importer EXCEPT ![i] = Idle]
  /\ UNCHANGED <<place, ref, queue, nextId, feed, settled, requeued, gone>>

----------------------------------------------------------------------------
(* POST /v1/places.  The place may carry the osm_id of one the canonical    *)
(* source delivers later; a second row for the same element is refused by   *)
(* the unique index.                                                        *)
CreatePlace(p, row) ==
  /\ place[p] = NoRow
  /\ place' = [place EXCEPT ![p] = row]
  /\ UNCHANGED <<ref, queue, nextId, feed, importer, settled, requeued, gone>>

----------------------------------------------------------------------------
Batches == UNION {[B -> PlaceRows] : B \in SUBSET OsmPlaces \ {{}}}

FeedNext(f) ==
  \/ \E r \in Records, row \in RecordRows : Resolve(f, r, row)
  \/ ResolveAttach(f)
  \/ ResolveEnqueue(f)
  \/ ResolveFails(f)

SweepStep(i) ==
  \/ SweepMatch(i)
  \/ SweepAttach(i)
  \/ SweepDelete(i)
  \/ SweepBump(i)
  \/ EndSweep(i)

ImporterNext(i) ==
  \/ StartImport(i)
  \/ \E batch \in Batches : FlushBatch(i, batch)
  \/ BeginSweep(i)
  \/ SweepStep(i)
  \/ SweepRowFails(i)
  \/ ImportDies(i)

Next ==
  \/ \E f \in Feeds : FeedNext(f)
  \/ \E i \in Importers : ImporterNext(i)
  \/ \E p \in Places, row \in PlaceRows : CreatePlace(p, row)

(* Fairness.  A process that has begun a record or a run goes on with it:    *)
(* the loops of Resolve and Sweep have no wait other than the statement they *)
(* issue, and the source is finite, so a run reaches its sweep.  Nothing     *)
(* obliges an operator to start a run or a client to create a place.         *)
Fairness ==
  /\ \A f \in Feeds : WF_vars(ResolveAttach(f) \/ ResolveEnqueue(f))
  /\ \A i \in Importers : WF_vars(BeginSweep(i)) /\ WF_vars(SweepStep(i))

Spec == Init /\ [][Next]_vars

FairSpec == Spec /\ Fairness

----------------------------------------------------------------------------
(* Properties.                                                              *)

(* No external record falls between the two writes that track it: once a    *)
(* feed or a sweep has written it, it is in the queue or attached to a      *)
(* place.  The code gives it up in three ways only, which settled takes out *)
(* of the claim: an OSM upsert wipes external_ids, another record of the    *)
(* same source takes the place's key, or a sweep deletes a queue row that   *)
(* was enqueued again after the sweep had read it.  Crashes and failed      *)
(* statements never lose one.                                               *)
Accounted == \A r \in settled : Queued(r) \/ Attached(r)

(* The strengthening of Accounted that is inductive: a sweep about to       *)
(* delete the row of a record has attached that record, and it is attached  *)
(* still unless one of the three ways has taken it out of settled or it was *)
(* enqueued meanwhile.                                                      *)
DeleteIsSafe ==
  \A i \in Importers :
    importer[i].pc = "delete" =>
      LET r == importer[i].current.record
      IN r \in settled /\ r \notin requeued[i] => Attached(r)

(* A sweep deletes or bumps the row it has read, or a refresh of it, and no *)
(* other: not the row of another record, and not one that was queued anew   *)
(* for the same record after another sweep had deleted the row it has read. *)
SweepsHitTheirRows ==
  [][\A i \in Importers, r \in Records :
       /\ importer[i].pc \in {"delete", "bump"} /\ importer'[i] # importer[i]
       /\ Queued(r) /\ queue'[r] # queue[r]
       => r = importer[i].current.record /\ r \notin gone[i]]_vars

(* A feed or a sweep that is about to attach names a place that exists, so  *)
(* the statement never affects zero rows: no path deletes a place.          *)
AttachTargetExists ==
  /\ \A f \in Feeds : feed[f].pc = "attach" => place[feed[f].place] # NoRow
  /\ \A i \in Importers : importer[i].pc = "attach" => place[importer[i].place] # NoRow

(* The retry history of a queue row is never reset: while the row stays,    *)
(* enqueueing the record again and failing to match it only add attempts.   *)
AttemptsNeverReset ==
  [][\A r \in Records :
       Queued(r) /\ Queued(r)' /\ queue'[r].id = queue[r].id =>
         queue'[r].attempts >= queue[r].attempts]_vars

(* An import that has flushed its last batch reconsiders every queue row    *)
(* the places it touched could now match, whatever failed before.           *)
ImportReconsiders ==
  [][\A i \in Importers : BeginSweep(i) =>
         \A r \in Records :
           Queued(r) /\ (\E a \in Answers(queue[r].row, Table) :
                           a # NoMatch /\ a.place \in importer[i].touched) =>
             /\ importer'[i].pc = "sweeping"
             /\ \E s \in importer'[i].rows : s.record = r /\ s.row = queue[r].row]_vars

(* What the documentation of UpsertBatch says: an import does not touch the *)
(* references attached to a place.                                          *)
RefsSurviveImport ==
  [][\A p \in Places, s \in Sources : ref[p][s] # NoRecord => ref'[p][s] # NoRecord]_vars

(* Every run comes to its end, whatever the others do to its rows.          *)
ImportEnds == \A i \in Importers : importer[i] # Idle ~> importer[i] = Idle

(* A queue row that a sweep has read and that matches leaves the queue,     *)
(* unless it has left before and the record is there under another number.  *)
MatchingRowIsDrained ==
  \A i \in Importers, r \in Records :
    /\ importer[i].pc = "sweeping"
    /\ Queued(r)
    /\ \E s \in importer[i].rows :
         s.record = r /\ s.id = queue[r].id /\ NoMatch \notin Answers(s.row, Table)
    ~> ~Queued(r)
=============================================================================
