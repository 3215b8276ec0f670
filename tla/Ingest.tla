------------------------------- MODULE Ingest -------------------------------
(***************************************************************************)
(* A canonical import from the extract to the sweep (cmd/ingestion         *)
(* runCanonical and batcher, internal/sources/osm): elements are read one  *)
(* by one, those that are places fill a buffer, a full buffer is upserted  *)
(* in one statement and then its profiles are written one by one.  Clients *)
(* create places and correct profiles meanwhile.  A run that fails or dies *)
(* leaves what it has written; the operator starts it again.               *)
(*                                                                         *)
(* OsmTags has what becomes of the tags of an element, Reconcile the sweep *)
(* and what the upsert does to external references, ProfileWrites the      *)
(* other writers of a profile.                                             *)
(***************************************************************************)
EXTENDS Naturals, Sequences, FiniteSets, SequencesExt

CONSTANTS
  Elements,   \* (osm_id, osm_type) of nodes and ways
  Data,       \* what the tags say of a place
  Ratings,    \* what the tags say of its accessibility
  Extracts,   \* the files imported: sequences of Element records
  Importers,  \* ingestion processes
  BatchSize,  \* 1000 in the code
  MaxRuns,    \* bound: runs started
  Faults      \* whether statements fail and processes die

Nil == [nil |-> TRUE]          \* no profile: no accessibility tag
Dropped == [dropped |-> TRUE]  \* an element Evaluate excludes
NoRow == [absent |-> TRUE]

Element == [id : Elements, data : Data \cup {Dropped}, rating : Ratings \cup {Nil}]

ASSUME ExtractAssumption == Extracts \subseteq Seq(Element)
ASSUME BatchAssumption == BatchSize \in Nat \ {0} /\ MaxRuns \in Nat
ASSUME AbsenceAssumption == NoRow \notin Data

VARIABLES
  place,    \* places, by natural key
  profile,  \* accessibility_profiles, by natural key of the place
  run,      \* local state of each importer
  runs      \* how many runs have been started

vars == <<place, profile, run, runs>>

Idle == [pc |-> "idle"]

ProfileRow == [rating : Ratings, verified : BOOLEAN]

(* at is the place of the batch whose profile is due, base the profile that *)
(* was read for it.                                                         *)
Run ==
  [pc : {"reading", "profiles", "writing", "sweeping"},
   extract : Extracts, todo : Seq(Element), buffer : Seq(Element), pending : Seq(Ratings \cup {Nil}),
   touched : SUBSET Elements, at : Nat, base : ProfileRow \cup {NoRow}]

Bounded(r) ==
  /\ Len(r.buffer) <= BatchSize
  /\ r.pc = "profiles" => r.at \in 1..Len(r.buffer) + 1
  /\ r.pc = "writing" => r.at \in 1..Len(r.buffer)

TypeOK ==
  /\ place \in [Elements -> Data \cup {NoRow}]
  /\ profile \in [Elements -> ProfileRow \cup {NoRow}]
  /\ run \in [Importers -> Run \cup {Idle}]
  /\ \A i \in Importers : run[i] # Idle => Bounded(run[i])
  /\ runs \in 0..MaxRuns

Init ==
  /\ place = [e \in Elements |-> NoRow]
  /\ profile = [e \in Elements |-> NoRow]
  /\ run = [i \in Importers |-> Idle]
  /\ runs = 0

Goto(i, r) == run' = [run EXCEPT ![i] = r]

----------------------------------------------------------------------------
(* FullImport and the batcher's sink.                                       *)

StartImport(i, x) ==
  /\ run[i] = Idle
  /\ runs < MaxRuns
  /\ runs' = runs + 1
  /\ Goto(i, [pc |-> "reading", extract |-> x, todo |-> x, buffer |-> << >>,
              pending |-> << >>, touched |-> {}, at |-> 1, base |-> NoRow])
  /\ UNCHANGED <<place, profile>>

BufferOverfull(r) == Len(r.buffer) > BatchSize  \* mistake: one too many
BufferFull(r) == Len(r.buffer) >= BatchSize

ReadElement(i) ==
  /\ run[i].pc = "reading"
  /\ run[i].todo # << >>
  /\ ~BufferFull(run[i])
  /\ LET e == Head(run[i].todo) IN
       Goto(i, IF e.data = Dropped
               THEN [run[i] EXCEPT !.todo = Tail(@)]
               ELSE [run[i] EXCEPT !.todo = Tail(@), !.buffer = Append(@, e),
                                   !.pending = Append(@, e.rating)])
  /\ UNCHANGED <<place, profile, runs>>

----------------------------------------------------------------------------
(* flushNow, when the buffer is full and when the source has ended.         *)

(* Mistakes: what is left in the buffer at the end is not written; the      *)
(* pending profiles, or the places too, outlive their batch.                *)
FlushDueWhenFull(r) == BufferFull(r)
ClearedPlaces(r) == [r EXCEPT !.pc = "reading", !.buffer = << >>, !.at = 1]
ClearedNothing(r) == [r EXCEPT !.pc = "reading", !.at = 1]

FlushDue(r) == r.buffer # << >> /\ (BufferFull(r) \/ r.todo = << >>)
Cleared(r) == [r EXCEPT !.pc = "reading", !.buffer = << >>, !.pending = << >>, !.at = 1]
Touched(r) == r.touched \cup {r.buffer[r.at].id}

Ids(buffer) == {buffer[n].id : n \in DOMAIN buffer}

(* UpsertBatch: one statement, refused when two of its rows have the same   *)
(* natural key.  The run ends there.                                        *)
Flush(i) ==
  LET b == run[i].buffer
  IN /\ run[i].pc = "reading"
     /\ FlushDue(run[i])
     /\ IF Cardinality(Ids(b)) < Len(b)
        THEN Goto(i, Idle) /\ UNCHANGED place
        ELSE /\ place' = [e \in Elements |->
                            IF e \in Ids(b) THEN (CHOOSE x \in Range(b) : x.id = e).data ELSE place[e]]
             /\ Goto(i, [run[i] EXCEPT !.pc = "profiles", !.at = 1])
     /\ UNCHANGED <<profile, runs>>

(* The next place of the batch; UpsertProfileIngestion reads its profile.   *)
LoadProfile(i) ==
  LET r == run[i]
      next == [r EXCEPT !.at = @ + 1, !.touched = Touched(r)]
      row == profile[r.buffer[r.at].id]
  IN /\ r.pc = "profiles"
     /\ r.at <= Len(r.buffer)
     /\ Goto(i, IF r.pending[r.at] = Nil \/ (row # NoRow /\ row.verified)
                THEN next
                ELSE [r EXCEPT !.pc = "writing", !.base = row, !.touched = Touched(r)])
     /\ UNCHANGED <<place, profile, runs>>

(* ... and inserts or updates it.  An insert that comes second is refused,  *)
(* and the run ends there, its remaining profiles and its sweep undone.     *)
WriteProfile(i) ==
  LET r == run[i]
      e == r.buffer[r.at].id
  IN /\ r.pc = "writing"
     /\ IF r.base = NoRow /\ profile[e] # NoRow
        THEN Goto(i, Idle) /\ UNCHANGED profile
        ELSE /\ profile' = [profile EXCEPT ![e] =
                  [rating |-> r.pending[r.at],
                   verified |-> profile[e] # NoRow /\ profile[e].verified]]
             /\ Goto(i, [r EXCEPT !.pc = "profiles", !.at = @ + 1, !.base = NoRow])
     /\ UNCHANGED <<place, runs>>

EndBatch(i) ==
  /\ run[i].pc = "profiles"
  /\ run[i].at > Len(run[i].buffer)
  /\ Goto(i, Cleared(run[i]))
  /\ UNCHANGED <<place, profile, runs>>

(* The source has ended and the buffer is empty: Sweep(touchedIDs).         *)
BeginSweep(i) ==
  /\ run[i].pc = "reading"
  /\ run[i].todo = << >>
  /\ ~FlushDue(run[i])
  /\ Goto(i, [run[i] EXCEPT !.pc = "sweeping"])
  /\ UNCHANGED <<place, profile, runs>>

EndRun(i) ==
  /\ run[i].pc = "sweeping"
  /\ Goto(i, Idle)
  /\ UNCHANGED <<place, profile, runs>>

(* Any statement may fail, the file may end in the middle, the process may  *)
(* die: the run is over and what it had in memory is gone.                  *)
Dies(i) ==
  /\ Faults
  /\ run[i] # Idle
  /\ Goto(i, Idle)
  /\ UNCHANGED <<place, profile, runs>>

----------------------------------------------------------------------------
(* Clients.                                                                 *)

PostPlace(e, data) ==
  /\ place[e] = NoRow
  /\ place' = [place EXCEPT ![e] = data]
  /\ UNCHANGED <<profile, run, runs>>

PatchProfile(e, rating) ==
  /\ place[e] # NoRow
  /\ profile' = [profile EXCEPT ![e] = [rating |-> rating, verified |-> TRUE]]
  /\ UNCHANGED <<place, run, runs>>

RunStep(i) ==
  \/ ReadElement(i)
  \/ Flush(i)
  \/ LoadProfile(i)
  \/ WriteProfile(i)
  \/ EndBatch(i)
  \/ BeginSweep(i)
  \/ EndRun(i)

Next ==
  \/ \E i \in Importers : (\E x \in Extracts : StartImport(i, x)) \/ RunStep(i) \/ Dies(i)
  \/ \E e \in Elements : \/ \E data \in Data : PostPlace(e, data)
                         \/ \E rating \in Ratings : PatchProfile(e, rating)

Spec == Init /\ [][Next]_vars

(* A run that has begun goes on: the loop over the file waits for nothing   *)
(* but its own statements.                                                  *)
FairSpec == Spec /\ \A i \in Importers : WF_vars(RunStep(i))

----------------------------------------------------------------------------
(* Properties.                                                              *)

Listed(x) == {n \in DOMAIN x : x[n].data # Dropped}

(* The last mention of an element in an extract.                            *)
LastOf(x, n) == \A m \in Listed(x) : x[m].id = x[n].id => m <= n

(* A run that reaches its sweep has done its work whatever failed before it *)
(* and whoever wrote beside it: each place of the extract has the data of   *)
(* the extract, its accessibility is that of the extract or a person's, and *)
(* the sweep is given all of these places and no other.                     *)
CompleteRunIsComplete ==
  \A i \in Importers : run[i].pc = "sweeping" =>
    LET x == run[i].extract
    IN /\ run[i].touched = {x[n].id : n \in Listed(x)}
       /\ \A n \in Listed(x) : LastOf(x, n) =>
            /\ place[x[n].id] = x[n].data
            /\ x[n].rating # Nil =>
                 /\ profile[x[n].id] # NoRow
                 /\ profile[x[n].id].verified \/ profile[x[n].id].rating = x[n].rating

(* No profile is written to another place than the one whose tags it was    *)
(* made from: the buffer and the list of profiles keep step, over batches,  *)
(* places without a profile and runs that fail.                             *)
ProfilesBelong ==
  \A i \in Importers : run[i].pc = "writing" =>
    LET r == run[i] IN r.pending[r.at] = r.buffer[r.at].rating

(* A run begun comes to its end.                                            *)
RunEnds == \A i \in Importers : run[i] # Idle ~> run[i] = Idle
=============================================================================
