---------------------------- MODULE IngestProofs ----------------------------
(***************************************************************************)
(* Proofs about Ingest, for any extracts, any batch size and any number of *)
(* runs that overlap, fail and die: the buffer of places and the list of   *)
(* their profiles keep step, so that no profile is written to a place it   *)
(* was not made for, and what a run has in memory agrees with its file.    *)
(* A run that reaches its sweep has written all of its file if it was      *)
(* alone or the files agree, and in any case has left no place of it       *)
(* without a row; and it comes to an end.                                  *)
(***************************************************************************)
EXTENDS Ingest, FiniteSetTheorems, TLAPS

(* What gets into a buffer: the elements Evaluate does not exclude.         *)
Kept == [id : Elements, data : Data, rating : Ratings \cup {Nil}]

(* The buffer and the pending profiles in step, and a profile in hand.      *)
InStep(r) ==
  /\ r.buffer \in Seq(Kept)
  /\ Len(r.pending) = Len(r.buffer)
  /\ \A n \in 1..Len(r.buffer) : r.pending[n] = r.buffer[n].rating
  /\ r.pc = "writing" => r.pending[r.at] # Nil

IInv == TypeOK /\ \A i \in Importers : run[i] # Idle => InStep(run[i])

Sound(r) == r \in Run /\ Bounded(r) /\ InStep(r)

LEMMA IdleIsNoRun == Idle \notin Run
BY DEF Idle, Run

(* A run that is in the middle of something.                                *)
LEMMA RunningType ==
  ASSUME IInv, NEW i \in Importers, run[i].pc # "idle" \/ run[i] # Idle
  PROVE  run[i] # Idle /\ Sound(run[i])
BY DEF IInv, TypeOK, Idle, Sound

(* A step of one run keeps the invariant if the run stays sound.            *)
LEMMA RunMoves ==
  ASSUME IInv, NEW i \in Importers, NEW r, Goto(i, r), r = Idle \/ Sound(r),
         place' \in [Elements -> Data \cup {NoRow}],
         profile' \in [Elements -> ProfileRow \cup {NoRow}],
         runs' \in 0..MaxRuns
  PROVE  IInv'
<1>1. run'[i] = r /\ \A j \in Importers \ {i} : run'[j] = run[j]
  BY DEF Goto, IInv, TypeOK
<1>2. run' \in [Importers -> Run \cup {Idle}]
  BY DEF Goto, IInv, TypeOK, Sound
<1>3. \A j \in Importers : run'[j] # Idle => Bounded(run'[j]) /\ InStep(run'[j])
  BY <1>1 DEF IInv, TypeOK, Sound
<1> QED
  BY <1>2, <1>3 DEF IInv, TypeOK

(* ReadElement: an element that is kept enters both lists.                  *)
LEMMA AppendBoth ==
  ASSUME NEW r, Sound(r), r.pc = "reading", r.todo # << >>, ~BufferFull(r),
         NEW e \in Kept
  PROVE  Sound([r EXCEPT !.todo = Tail(@), !.buffer = Append(@, e), !.pending = Append(@, e.rating)])
<1> DEFINE new == [r EXCEPT !.todo = Tail(@), !.buffer = Append(@, e), !.pending = Append(@, e.rating)]
<1>1. /\ r \in Run /\ r.todo \in Seq(Element) /\ r.buffer \in Seq(Element) /\ r.buffer \in Seq(Kept)
      /\ r.pending \in Seq(Ratings \cup {Nil})
  BY DEF Sound, InStep, Run
<1>2. e \in Element /\ e.rating \in Ratings \cup {Nil}
  BY DEF Kept, Element
<1>3. new \in Run /\ new.pc = "reading"
  <2>1. Tail(r.todo) \in Seq(Element)
    BY <1>1
  <2>2. Append(r.buffer, e) \in Seq(Element) /\ Append(r.pending, e.rating) \in Seq(Ratings \cup {Nil})
    BY <1>1, <1>2
  <2> QED
    BY <1>1, <2>1, <2>2 DEF Run
<1>4. new.buffer = Append(r.buffer, e) /\ new.pending = Append(r.pending, e.rating)
  BY <1>1 DEF Run
<1>5. Len(r.buffer) < BatchSize /\ Len(r.buffer) \in Nat
  BY <1>1, BatchAssumption DEF BufferFull
<1> HIDE DEF new
<1>6. Bounded(new)
  BY <1>1, <1>3, <1>4, <1>5, BatchAssumption DEF Bounded
<1>7. InStep(new)
  <2>1. Len(r.pending) = Len(r.buffer) /\ \A n \in 1..Len(r.buffer) : r.pending[n] = r.buffer[n].rating
    BY DEF Sound, InStep
  <2>2. Append(r.buffer, e) \in Seq(Kept)
    BY <1>1
  <2>3. /\ Len(new.pending) = Len(r.pending) + 1
        /\ Len(new.buffer) = Len(r.buffer) + 1
    BY <1>1, <1>2, <1>4
  <2>4. \A n \in 1..Len(new.buffer) : new.pending[n] = new.buffer[n].rating
    BY <1>1, <1>2, <1>4, <2>1, <2>3
  <2> QED
    BY <1>3, <1>4, <2>1, <2>2, <2>3, <2>4 DEF InStep
<1> QED
  BY <1>3, <1>6, <1>7 DEF Sound, new

LEMMA ReadKeeps ==
  ASSUME IInv, NEW i \in Importers, ReadElement(i)
  PROVE  IInv'
<1> DEFINE r == run[i]
           e == Head(r.todo)
<1>1. Sound(r) /\ r.pc = "reading" /\ r.todo # << >> /\ ~BufferFull(r)
  BY RunningType DEF ReadElement
<1>2. r \in Run /\ r.todo \in Seq(Element)
  BY <1>1 DEF Sound, Run
<1>3. e \in Element
  BY <1>1, <1>2
<1>4. UNCHANGED <<place, profile, runs>>
  BY DEF ReadElement
<1>5. CASE e.data = Dropped
  <2>1. Goto(i, [r EXCEPT !.todo = Tail(@)])
    BY <1>5 DEF ReadElement
  <2>2. Tail(r.todo) \in Seq(Element)
    BY <1>1, <1>2
  <2>3. Sound([r EXCEPT !.todo = Tail(@)])
    BY <1>1, <1>2, <2>2 DEF Sound, Run, Bounded, InStep
  <2> QED
    BY <1>4, <2>1, <2>3, RunMoves DEF IInv, TypeOK
<1>6. CASE e.data # Dropped
  <2>1. Goto(i, [r EXCEPT !.todo = Tail(@), !.buffer = Append(@, e), !.pending = Append(@, e.rating)])
    BY <1>6 DEF ReadElement
  <2>2. e \in Kept
    BY <1>3, <1>6 DEF Element, Kept
  <2>3. Sound([r EXCEPT !.todo = Tail(@), !.buffer = Append(@, e), !.pending = Append(@, e.rating)])
    BY <1>1, <2>2, AppendBoth
  <2> QED
    BY <1>4, <2>1, <2>3, RunMoves DEF IInv, TypeOK
<1> QED
  BY <1>5, <1>6

LEMMA StartKeeps ==
  ASSUME IInv, NEW i \in Importers, NEW x \in Extracts, StartImport(i, x)
  PROVE  IInv'
<1> DEFINE new == [pc |-> "reading", extract |-> x, todo |-> x, buffer |-> << >>,
                   pending |-> << >>, touched |-> {}, at |-> 1, base |-> NoRow]
<1>1. x \in Seq(Element)
  BY ExtractAssumption
<1>2. new \in Run
  BY <1>1 DEF Run
<1>3. Bounded(new) /\ InStep(new)
  BY BatchAssumption DEF Bounded, InStep
<1>4. runs' \in 0..MaxRuns
  BY BatchAssumption DEF StartImport, IInv, TypeOK
<1>5. Goto(i, new) /\ UNCHANGED <<place, profile>>
  BY DEF StartImport
<1> HIDE DEF new
<1> QED
  BY <1>2, <1>3, <1>4, <1>5, RunMoves DEF Sound, IInv, TypeOK

(* The rows of a batch are data of the extract.                             *)
LEMMA RowOfBatch ==
  ASSUME NEW b \in Seq(Kept), NEW e \in Ids(b)
  PROVE  (CHOOSE x \in Range(b) : x.id = e).data \in Data
<1>1. \A n \in DOMAIN b : b[n] \in Kept
  OBVIOUS
<1>2. \E x \in Range(b) : x.id = e
  BY DEF Ids, Range
<1>3. (CHOOSE x \in Range(b) : x.id = e) \in Range(b)
  BY <1>2
<1>4. \A x \in Range(b) : x.data \in Data
  BY <1>1 DEF Range, Kept
<1> QED
  BY <1>3, <1>4

LEMMA FlushKeeps ==
  ASSUME IInv, NEW i \in Importers, Flush(i)
  PROVE  IInv'
<1> DEFINE r == run[i]
           b == r.buffer
<1>1. Sound(r) /\ r.pc = "reading" /\ FlushDue(r)
  BY RunningType DEF Flush
<1>2. r \in Run /\ b \in Seq(Kept) /\ Len(b) \in Nat
  BY <1>1 DEF Sound, Run, InStep
<1>3. UNCHANGED <<profile, runs>>
  BY DEF Flush
<1>4. CASE Goto(i, Idle) /\ place' = place
  BY <1>3, <1>4, RunMoves DEF IInv, TypeOK
<1>5. CASE /\ place' = [e \in Elements |->
                          IF e \in Ids(b) THEN (CHOOSE x \in Range(b) : x.id = e).data ELSE place[e]]
           /\ Goto(i, [r EXCEPT !.pc = "profiles", !.at = 1])
  <2>1. \A e \in Ids(b) : (CHOOSE x \in Range(b) : x.id = e).data \in Data
    BY <1>2, RowOfBatch
  <2>2. place' \in [Elements -> Data \cup {NoRow}]
    BY <1>5, <2>1 DEF IInv, TypeOK
  <2>3. Sound([r EXCEPT !.pc = "profiles", !.at = 1])
    <3> DEFINE new == [r EXCEPT !.pc = "profiles", !.at = 1]
    <3>1. /\ new \in Run /\ new.pc = "profiles" /\ new.at = 1
          /\ new.buffer = b /\ new.pending = r.pending
      <4>1. r \in Run /\ 1 \in Nat
        BY <1>2
      <4> QED
        BY <4>1 DEF Run
    <3> HIDE DEF new
    <3>2. Bounded(new)
      BY <1>1, <1>2, <3>1 DEF Sound, Bounded
    <3>3. InStep(new)
      BY <1>1, <3>1 DEF Sound, InStep
    <3> QED
      BY <3>1, <3>2, <3>3 DEF Sound, new
  <2> QED
    BY <1>3, <1>5, <2>2, <2>3, RunMoves DEF IInv, TypeOK
<1> QED
  BY <1>4, <1>5 DEF Flush

LEMMA LoadKeeps ==
  ASSUME IInv, NEW i \in Importers, LoadProfile(i)
  PROVE  IInv'
<1> DEFINE r == run[i]
           row == profile[r.buffer[r.at].id]
           next == [r EXCEPT !.at = @ + 1, !.touched = Touched(r)]
           loaded == [r EXCEPT !.pc = "writing", !.base = row, !.touched = Touched(r)]
<1>1. Sound(r) /\ r.pc = "profiles" /\ r.at <= Len(r.buffer)
  BY RunningType DEF LoadProfile
<1>2. /\ r \in Run /\ r.buffer \in Seq(Kept) /\ r.at \in 1..Len(r.buffer) /\ r.at \in Nat
      /\ Len(r.buffer) \in Nat /\ Len(r.buffer) <= BatchSize
  BY <1>1 DEF Sound, Run, Bounded, InStep
<1>3. r.buffer[r.at].id \in Elements
  <2>1. r.buffer[r.at] \in Kept
    BY <1>2
  <2> QED
    BY <2>1 DEF Kept
<1>4. row \in ProfileRow \cup {NoRow} /\ Touched(r) \in SUBSET Elements
  BY <1>2, <1>3 DEF Touched, Run, IInv, TypeOK
<1>5. UNCHANGED <<place, profile, runs>>
  BY DEF LoadProfile
<1>6. CASE Goto(i, next)
  <2>1. /\ next \in Run /\ next.pc = "profiles" /\ next.at = r.at + 1
        /\ next.buffer = r.buffer /\ next.pending = r.pending
    <3>1. r \in Run /\ r.pc = "profiles" /\ Touched(r) \in SUBSET Elements /\ r.at + 1 \in Nat
      BY <1>1, <1>2, <1>4
    <3> QED
      BY <3>1 DEF Run
  <2> HIDE DEF next
  <2>2. Sound(next)
    BY <1>1, <1>2, <2>1 DEF Sound, Bounded, InStep
  <2> QED
    BY <1>5, <1>6, <2>2, RunMoves DEF IInv, TypeOK
<1>7. CASE Goto(i, loaded) /\ r.pending[r.at] # Nil
  <2>1. /\ loaded \in Run /\ loaded.pc = "writing" /\ loaded.at = r.at
        /\ loaded.buffer = r.buffer /\ loaded.pending = r.pending
    BY <1>1, <1>2, <1>4 DEF Run
  <2> HIDE DEF loaded
  <2>2. Sound(loaded)
    BY <1>1, <1>2, <1>7, <2>1 DEF Sound, Bounded, InStep
  <2> QED
    BY <1>5, <1>7, <2>2, RunMoves DEF IInv, TypeOK
<1> QED
  BY <1>6, <1>7 DEF LoadProfile

LEMMA WriteKeeps ==
  ASSUME IInv, NEW i \in Importers, WriteProfile(i)
  PROVE  IInv'
<1> DEFINE r == run[i]
           e == r.buffer[r.at].id
           new == [r EXCEPT !.pc = "profiles", !.at = @ + 1, !.base = NoRow]
<1>1. Sound(r) /\ r.pc = "writing"
  BY RunningType DEF WriteProfile
<1>2. /\ r \in Run /\ r.buffer \in Seq(Kept) /\ r.at \in 1..Len(r.buffer) /\ r.at \in Nat
      /\ Len(r.buffer) \in Nat /\ Len(r.buffer) <= BatchSize
      /\ r.pending \in Seq(Ratings \cup {Nil}) /\ Len(r.pending) = Len(r.buffer)
      /\ r.pending[r.at] # Nil
  BY <1>1 DEF Sound, Run, Bounded, InStep
<1>3. e \in Elements /\ r.pending[r.at] \in Ratings
  <2>1. r.buffer[r.at] \in Kept
    BY <1>2
  <2>2. r.pending[r.at] \in Ratings \cup {Nil}
    BY <1>2
  <2> QED
    BY <1>2, <2>1, <2>2 DEF Kept
<1>4. UNCHANGED <<place, runs>>
  BY DEF WriteProfile
<1>5. CASE Goto(i, Idle) /\ profile' = profile
  BY <1>4, <1>5, RunMoves DEF IInv, TypeOK
<1>6. CASE /\ profile' = [profile EXCEPT ![e] =
                [rating |-> r.pending[r.at], verified |-> profile[e] # NoRow /\ profile[e].verified]]
           /\ Goto(i, new)
  <2>1. /\ new \in Run /\ new.pc = "profiles" /\ new.at = r.at + 1
        /\ new.buffer = r.buffer /\ new.pending = r.pending
    <3>1. r \in Run /\ r.at + 1 \in Nat
      BY <1>2
    <3> QED
      BY <3>1 DEF Run
  <2> HIDE DEF new
  <2>2. Sound(new)
    BY <1>1, <1>2, <2>1 DEF Sound, Bounded, InStep
  <2>3. (profile[e] # NoRow /\ profile[e].verified) \in BOOLEAN
    OBVIOUS
  <2>4. [rating |-> r.pending[r.at], verified |-> profile[e] # NoRow /\ profile[e].verified] \in ProfileRow
    BY <1>3, <2>3 DEF ProfileRow
  <2>5. profile' \in [Elements -> ProfileRow \cup {NoRow}]
    BY <1>3, <1>6, <2>4 DEF IInv, TypeOK
  <2> QED
    BY <1>4, <1>6, <2>2, <2>5, RunMoves DEF IInv, TypeOK
<1> QED
  BY <1>5, <1>6 DEF WriteProfile

LEMMA EndKeeps ==
  ASSUME IInv, NEW i \in Importers, EndBatch(i) \/ BeginSweep(i) \/ EndRun(i) \/ Dies(i)
  PROVE  IInv'
<1> DEFINE r == run[i]
<1>1. UNCHANGED <<place, profile, runs>>
  BY DEF EndBatch, BeginSweep, EndRun, Dies
<1>2. CASE EndBatch(i)
  <2>1. Sound(r) /\ r.pc = "profiles"
    BY <1>2, RunningType DEF EndBatch
  <2>2. Sound(Cleared(r))
    <3>1. r \in Run /\ << >> \in Seq(Element) /\ << >> \in Seq(Ratings \cup {Nil}) /\ 1 \in Nat
      BY <2>1 DEF Sound
    <3>2. Cleared(r) \in Run
      BY <3>1 DEF Cleared, Run
    <3>3. /\ Cleared(r).pc = "reading"
          /\ Cleared(r).buffer = << >> /\ Cleared(r).pending = << >>
      BY <3>1 DEF Cleared, Run
    <3> QED
      BY <3>2, <3>3, BatchAssumption DEF Sound, Bounded, InStep
  <2> QED
    BY <1>1, <1>2, <2>2, RunMoves DEF EndBatch, IInv, TypeOK
<1>3. CASE BeginSweep(i)
  <2>1. Sound(r) /\ r.pc = "reading"
    BY <1>3, RunningType DEF BeginSweep
  <2>2. Sound([r EXCEPT !.pc = "sweeping"])
    BY <2>1 DEF Sound, Run, Bounded, InStep
  <2> QED
    BY <1>1, <1>3, <2>2, RunMoves DEF BeginSweep, IInv, TypeOK
<1>4. CASE EndRun(i) \/ Dies(i)
  BY <1>1, <1>4, RunMoves DEF EndRun, Dies, IInv, TypeOK
<1> QED
  BY <1>2, <1>3, <1>4

LEMMA ClientsKeep ==
  ASSUME IInv, NEW e \in Elements,
         \/ \E data \in Data : PostPlace(e, data)
         \/ \E rating \in Ratings : PatchProfile(e, rating)
  PROVE  IInv'
<1>1. CASE \E data \in Data : PostPlace(e, data)
  BY <1>1 DEF PostPlace, IInv, TypeOK
<1>2. ASSUME NEW rating \in Ratings, PatchProfile(e, rating)
      PROVE  IInv'
  <2>1. [rating |-> rating, verified |-> TRUE] \in ProfileRow
    BY DEF ProfileRow
  <2> QED
    BY <1>2, <2>1 DEF PatchProfile, IInv, TypeOK
<1> QED
  BY <1>1, <1>2

LEMMA Inductive == IInv /\ [Next]_vars => IInv'
<1> SUFFICES ASSUME IInv, [Next]_vars PROVE IInv'
  OBVIOUS
<1>1. CASE UNCHANGED vars
  BY <1>1 DEF vars, IInv, TypeOK
<1> QED
  BY <1>1, StartKeeps, ReadKeeps, FlushKeeps, LoadKeeps, WriteKeeps, EndKeeps, ClientsKeep
     DEF Next, RunStep

LEMMA Initially == Init => IInv
BY BatchAssumption DEF Init, IInv, TypeOK

(* The variables of Ingest keep their types: no batch is longer than the    *)
(* batch size, no index leaves its batch, no place has the data of an       *)
(* element that is excluded.                                                *)
THEOREM TypeCorrect == Spec => []TypeOK
<1>1. IInv => TypeOK
  BY DEF IInv
<1> QED
  BY <1>1, Initially, Inductive, PTL DEF Spec

(* A profile is written to the place whose tags it was made from, over any  *)
(* number of batches, places without one and runs that fail.                *)
THEOREM ProfilesStay == Spec => []ProfilesBelong
<1>1. IInv => ProfilesBelong
  <2> SUFFICES ASSUME IInv, NEW i \in Importers, run[i].pc = "writing"
               PROVE  run[i].pending[run[i].at] = run[i].buffer[run[i].at].rating
    BY DEF ProfilesBelong
  <2>1. Sound(run[i])
    BY RunningType
  <2> QED
    BY <2>1 DEF Sound, Bounded, InStep
<1> QED
  BY <1>1, Initially, Inductive, PTL DEF Spec

----------------------------------------------------------------------------
(* What a run has behind it.  The file is read up to Position; of what was  *)
(* read, the places up to some index f are written with their profiles, the *)
(* others are in the buffer, and of these some are written.                 *)

Position(r) == Len(r.extract) - Len(r.todo)

TodoIsRest(r) ==
  /\ Len(r.todo) <= Len(r.extract)
  /\ \A m \in 1..Len(r.todo) : r.todo[m] = r.extract[Position(r) + m]

Waiting(r, f) == {n \in Listed(r.extract) : f < n /\ n <= Position(r)}

BufferHolds(r, f) ==
  /\ f \in 0..Position(r)
  /\ \A n \in Waiting(r, f) : \E m \in 1..Len(r.buffer) : r.buffer[m] = r.extract[n]
  /\ \A m \in 1..Len(r.buffer) : \E n \in Waiting(r, f) : r.buffer[m] = r.extract[n]

PlaceDone(e) == place[e.id] = e.data
ProfileDone(e) ==
  e.rating # Nil =>
    /\ profile[e.id] # NoRow
    /\ profile[e.id].verified \/ profile[e.id].rating = e.rating

Behind(r, f) == {n \in Listed(r.extract) : n <= f}

AllDone(r, f) ==
  \A n \in Behind(r, f) : LastOf(r.extract, n) =>
    PlaceDone(r.extract[n]) /\ ProfileDone(r.extract[n])

InBatch(r) == r.pc \in {"profiles", "writing"}

(* The places of the batch that the run has told the sweep about.           *)
Begun(r) ==
  {m \in 1..Len(r.buffer) : InBatch(r) /\ (m < r.at \/ (r.pc = "writing" /\ m = r.at))}

TouchedIs(r, f) ==
  r.touched = {r.extract[n].id : n \in Behind(r, f)} \cup {r.buffer[m].id : m \in Begun(r)}

BatchDone(r) ==
  InBatch(r) =>
    /\ \A m, l \in 1..Len(r.buffer) : r.buffer[m].id = r.buffer[l].id => m = l
    /\ \A m \in 1..Len(r.buffer) : PlaceDone(r.buffer[m])
    /\ \A m \in 1..Len(r.buffer) : m < r.at => ProfileDone(r.buffer[m])

(* What a run has in memory agrees with its file, whatever the tables hold. *)
KnowsAt(r, f) ==
  /\ TodoIsRest(r)
  /\ BufferHolds(r, f)
  /\ TouchedIs(r, f)
  /\ r.pc = "sweeping" => r.todo = << >> /\ r.buffer = << >>

OnTrack(r) ==
  /\ \E f \in Nat : KnowsAt(r, f) /\ AllDone(r, f)
  /\ BatchDone(r)

TrackInv == \A i \in Importers : run[i] # Idle => OnTrack(run[i])

(* The sequences of a run, and what its file lists.                         *)
LEMMA RunParts ==
  ASSUME NEW r, Sound(r)
  PROVE  /\ r.extract \in Seq(Element) /\ r.todo \in Seq(Element) /\ r.buffer \in Seq(Kept)
         /\ Len(r.extract) \in Nat /\ Len(r.todo) \in Nat /\ Len(r.buffer) \in Nat
         /\ r.at \in Nat
         /\ \A m \in 1..Len(r.buffer) : r.buffer[m] \in Kept
         /\ \A n \in Listed(r.extract) : n \in 1..Len(r.extract) /\ n \in Nat /\ r.extract[n] \in Kept
<1>1. /\ r.extract \in Seq(Element) /\ r.todo \in Seq(Element) /\ r.buffer \in Seq(Kept) /\ r.at \in Nat
  BY ExtractAssumption DEF Sound, Run, InStep
<1>2. ASSUME NEW n \in Listed(r.extract)
      PROVE  n \in 1..Len(r.extract) /\ n \in Nat /\ r.extract[n] \in Kept
  <2>1. n \in 1..Len(r.extract) /\ r.extract[n].data # Dropped
    BY <1>1 DEF Listed
  <2>2. r.extract[n] \in Element
    BY <1>1, <2>1
  <2> QED
    BY <2>1, <2>2 DEF Element, Kept
<1> QED
  BY <1>1, <1>2

(* What is done of one place stays done: the run is as far as it was.       *)
LEMMA TrackStays ==
  ASSUME NEW r, Sound(r), OnTrack(r),
         \A e \in Kept : (PlaceDone(e) => PlaceDone(e)') /\ (ProfileDone(e) => ProfileDone(e)')
  PROVE  OnTrack(r)'
<1>1. ASSUME NEW f \in Nat, AllDone(r, f)
      PROVE  AllDone(r, f)'
  BY <1>1, RunParts DEF AllDone, Behind
<1>2. BatchDone(r)'
  BY RunParts DEF OnTrack, BatchDone, InBatch
<1> QED
  BY <1>1, <1>2 DEF OnTrack, KnowsAt, TodoIsRest, Position, BufferHolds, Waiting, TouchedIs, Behind, Begun, InBatch

LEMMA TailShifts ==
  ASSUME NEW S, NEW q \in Seq(S), q # << >>
  PROVE  /\ Len(q) \in Nat /\ Len(q) >= 1 /\ Head(q) = q[1]
         /\ Len(Tail(q)) = Len(q) - 1
         /\ \A m \in 1..Len(q) - 1 : Tail(q)[m] = q[m + 1]
OBVIOUS

LEMMA AppendAdds ==
  ASSUME NEW S, NEW q \in Seq(S), NEW e
  PROVE  /\ Len(q) \in Nat /\ Len(Append(q, e)) = Len(q) + 1
         /\ Append(q, e)[Len(q) + 1] = e
         /\ \A m \in 1..Len(q) : Append(q, e)[m] = q[m]
OBVIOUS

(* Reading the head of what is left of a file moves the position by one.    *)
LEMMA PositionMoves ==
  ASSUME NEW r, NEW s, Sound(r), TodoIsRest(r), r.todo # << >>,
         s.extract = r.extract, s.todo = Tail(r.todo)
  PROVE  /\ Position(r) \in Nat /\ Position(r) + 1 \in 1..Len(r.extract)
         /\ Position(s) = Position(r) + 1
         /\ Head(r.todo) = r.extract[Position(r) + 1]
         /\ TodoIsRest(s)
<1>1. PICK n \in Nat : n = Len(r.extract)
  BY RunParts
<1>2. PICK t \in Nat : t = Len(r.todo)
  BY RunParts
<1>3. /\ t >= 1 /\ Len(s.todo) = t - 1 /\ Head(r.todo) = r.todo[1]
      /\ \A m \in 1..t - 1 : s.todo[m] = r.todo[m + 1]
  <2>1. r.todo \in Seq(Element)
    BY RunParts
  <2> QED
    BY <1>2, <2>1, TailShifts
<1>4. t <= n /\ \A m \in 1..t : r.todo[m] = r.extract[(n - t) + m]
  BY <1>1, <1>2 DEF TodoIsRest, Position
<1>5. Position(r) = n - t /\ Position(s) = n - (t - 1)
  BY <1>1, <1>2, <1>3 DEF Position
<1>6. Head(r.todo) = r.extract[(n - t) + 1]
  BY <1>3, <1>4
<1>7. TodoIsRest(s)
  <2>1. ASSUME NEW m \in 1..t - 1
        PROVE  s.todo[m] = r.extract[(n - (t - 1)) + m]
    <3>1. m + 1 \in 1..t /\ (n - t) + (m + 1) = (n - (t - 1)) + m
      BY <1>3
    <3>2. s.todo[m] = r.todo[m + 1] /\ r.todo[m + 1] = r.extract[(n - t) + (m + 1)]
      BY <1>3, <1>4, <3>1
    <3> QED
      BY <3>1, <3>2
  <2>2. t - 1 <= n
    BY <1>4
  <2> QED
    BY <1>1, <1>3, <1>5, <2>1, <2>2 DEF TodoIsRest
<1>8. n - t \in Nat /\ (n - t) + 1 \in 1..n /\ n - (t - 1) = (n - t) + 1
  BY <1>3, <1>4
<1> QED
  BY <1>1, <1>5, <1>6, <1>7, <1>8

LEMMA SameBuffer ==
  ASSUME NEW r, NEW s, NEW f, BufferHolds(r, f), s.buffer = r.buffer, s.extract = r.extract,
         Waiting(s, f) = Waiting(r, f), f \in 0..Position(s)
  PROVE  BufferHolds(s, f)
<1>1. /\ \A n \in Waiting(r, f) : \E m \in 1..Len(r.buffer) : r.buffer[m] = r.extract[n]
      /\ \A m \in 1..Len(r.buffer) : \E n \in Waiting(r, f) : r.buffer[m] = r.extract[n]
  BY DEF BufferHolds
<1>2. \A n \in Waiting(s, f) : \E m \in 1..Len(s.buffer) : s.buffer[m] = s.extract[n]
  BY <1>1
<1>3. \A m \in 1..Len(s.buffer) : \E n \in Waiting(s, f) : s.buffer[m] = s.extract[n]
  BY <1>1
<1>4. f \in 0..Position(s)
  OBVIOUS
<1> QED
  BY <1>2, <1>3, <1>4 DEF BufferHolds

(* The run reads an element: it is dropped, or it waits in the buffer.      *)
LEMMA ReadKnows ==
  ASSUME NEW r, NEW s, NEW f \in Nat, Sound(r), KnowsAt(r, f),
         r.pc = "reading", s.pc = "reading", r.todo # << >>,
         s.extract = r.extract, s.touched = r.touched, s.todo = Tail(r.todo),
         s.buffer = IF Head(r.todo).data = Dropped THEN r.buffer ELSE Append(r.buffer, Head(r.todo))
  PROVE  KnowsAt(s, f)
<1>1. BufferHolds(r, f) /\ TouchedIs(r, f)
  BY DEF KnowsAt
<1>2. TodoIsRest(r)
  BY DEF KnowsAt
<1>3. PICK k \in Nat : /\ Position(r) = k /\ k + 1 \in 1..Len(r.extract) /\ Position(s) = k + 1
                       /\ Head(r.todo) = r.extract[k + 1] /\ TodoIsRest(s)
  BY <1>2, PositionMoves
<1>4. /\ r.extract \in Seq(Element)
      /\ \A n \in Listed(r.extract) : n \in Nat
      /\ f \in 0..k
  BY <1>1, <1>3, RunParts DEF BufferHolds
<1>5. BufferHolds(s, f)
  <2>1. CASE r.extract[k + 1].data = Dropped
    <3>1. s.buffer = r.buffer
      BY <1>3, <2>1
    <3>2. Waiting(s, f) = Waiting(r, f)
      BY <1>3, <1>4, <2>1 DEF Waiting, Listed
    <3>3. f \in 0..Position(s)
      BY <1>3, <1>4
    <3> QED
      BY <1>1, <3>1, <3>2, <3>3, SameBuffer
  <2>2. CASE r.extract[k + 1].data # Dropped
    <3>1. s.buffer = Append(r.buffer, r.extract[k + 1])
      BY <1>3, <2>2
    <3>2. /\ Len(r.buffer) \in Nat
          /\ Len(s.buffer) = Len(r.buffer) + 1 /\ s.buffer[Len(r.buffer) + 1] = r.extract[k + 1]
          /\ \A m \in 1..Len(r.buffer) : s.buffer[m] = r.buffer[m]
      <4>1. PICK q \in Seq(Kept) : q = r.buffer
        BY RunParts
      <4>2. PICK e : e = r.extract[k + 1]
        OBVIOUS
      <4>3. s.buffer = Append(q, e)
        BY <3>1, <4>1, <4>2
      <4>4. /\ Len(q) \in Nat /\ Len(Append(q, e)) = Len(q) + 1 /\ Append(q, e)[Len(q) + 1] = e
            /\ \A m \in 1..Len(q) : Append(q, e)[m] = q[m]
        BY AppendAdds
      <4> QED
        BY <4>1, <4>2, <4>3, <4>4
    <3>3. Waiting(s, f) = Waiting(r, f) \cup {k + 1}
      BY <1>3, <1>4, <2>2 DEF Waiting, Listed
    <3>4. \A n \in Waiting(s, f) : \E m \in 1..Len(s.buffer) : s.buffer[m] = s.extract[n]
      <4> SUFFICES ASSUME NEW n \in Waiting(s, f)
                   PROVE  \E m \in 1..Len(s.buffer) : s.buffer[m] = r.extract[n]
        OBVIOUS
      <4>1. CASE n = k + 1
        BY <3>2, <4>1
      <4>2. CASE n \in Waiting(r, f)
        <5>1. PICK m \in 1..Len(r.buffer) : r.buffer[m] = r.extract[n]
          BY <1>1, <4>2 DEF BufferHolds
        <5> QED
          BY <3>2, <5>1
      <4> QED
        BY <3>3, <4>1, <4>2
    <3>5. \A m \in 1..Len(s.buffer) : \E n \in Waiting(s, f) : s.buffer[m] = s.extract[n]
      <4> SUFFICES ASSUME NEW m \in 1..Len(s.buffer)
                   PROVE  \E n \in Waiting(s, f) : s.buffer[m] = r.extract[n]
        OBVIOUS
      <4>1. CASE m = Len(r.buffer) + 1
        BY <3>2, <3>3, <4>1
      <4>2. CASE m \in 1..Len(r.buffer)
        BY <1>1, <3>2, <3>3, <4>2 DEF BufferHolds
      <4> QED
        BY <3>2, <4>1, <4>2
    <3>6. f \in 0..Position(s)
      <4>1. PICK j \in Nat : j = f /\ j \in 0..k
        BY <1>4
      <4>2. j \in 0..k + 1
        BY <4>1
      <4> QED
        BY <1>3, <4>1, <4>2
    <3> QED
      BY <3>4, <3>5, <3>6, Zenon DEF BufferHolds
  <2> QED
    BY <2>1, <2>2
<1>6. TouchedIs(s, f)
  BY <1>1 DEF TouchedIs, Behind, Begun, InBatch
<1> QED
  BY <1>3, <1>5, <1>6 DEF KnowsAt

(* A run that neither reads nor empties its buffer is where it was.         *)
LEMMA SameFile ==
  ASSUME NEW r, NEW s, NEW f, TodoIsRest(r), BufferHolds(r, f),
         s.extract = r.extract, s.todo = r.todo, s.buffer = r.buffer
  PROVE  TodoIsRest(s) /\ BufferHolds(s, f)
<1>1. TodoIsRest(s) /\ Position(s) = Position(r)
  BY DEF TodoIsRest, Position
<1>2. Waiting(s, f) = Waiting(r, f)
  BY <1>1 DEF Waiting
<1>3. f \in 0..Position(s)
  BY <1>1 DEF BufferHolds
<1> QED
  BY <1>1, <1>2, <1>3, SameBuffer

(* A batch is begun: the sweep is told of nothing yet.                       *)
LEMMA FlushKnows ==
  ASSUME NEW r, NEW s, NEW f, Sound(r), KnowsAt(r, f), r.pc = "reading", s.pc = "profiles", s.at = 1,
         s.extract = r.extract, s.touched = r.touched, s.todo = r.todo, s.buffer = r.buffer
  PROVE  KnowsAt(s, f)
<1>1. TodoIsRest(s) /\ BufferHolds(s, f)
  BY SameFile DEF KnowsAt
<1>2. Begun(r) = {} /\ Begun(s) = {}
  BY RunParts DEF Begun, InBatch
<1>3. TouchedIs(s, f)
  BY <1>2 DEF KnowsAt, TouchedIs, Behind
<1> QED
  BY <1>1, <1>3 DEF KnowsAt

(* The next place of the batch is begun, and the sweep told of it.          *)
LEMMA LoadKnows ==
  ASSUME NEW r, NEW s, NEW f, Sound(r), KnowsAt(r, f), r.pc = "profiles", r.at <= Len(r.buffer),
         s.extract = r.extract, s.touched = Touched(r), s.todo = r.todo, s.buffer = r.buffer,
         (s.pc = "profiles" /\ s.at = r.at + 1) \/ (s.pc = "writing" /\ s.at = r.at)
  PROVE  KnowsAt(s, f)
<1>1. TodoIsRest(s) /\ BufferHolds(s, f)
  BY SameFile DEF KnowsAt
<1>2. PICK a \in Nat : a = r.at /\ a \in 1..Len(r.buffer) /\ Len(r.buffer) \in Nat
  BY RunParts DEF Sound, Bounded
<1>3. Begun(s) = Begun(r) \cup {a}
  BY <1>2 DEF Begun, InBatch
<1>4. TouchedIs(s, f)
  BY <1>2, <1>3 DEF KnowsAt, TouchedIs, Behind, Touched
<1> QED
  BY <1>1, <1>4 DEF KnowsAt

LEMMA WriteKnows ==
  ASSUME NEW r, NEW s, NEW f, Sound(r), KnowsAt(r, f), r.pc = "writing", s.pc = "profiles", s.at = r.at + 1,
         s.extract = r.extract, s.touched = r.touched, s.todo = r.todo, s.buffer = r.buffer
  PROVE  KnowsAt(s, f)
<1>1. TodoIsRest(s) /\ BufferHolds(s, f)
  BY SameFile DEF KnowsAt
<1>2. r.at \in Nat /\ r.at \in 1..Len(r.buffer) /\ Len(r.buffer) \in Nat
  BY RunParts DEF Sound, Bounded
<1>3. Begun(s) = Begun(r)
  BY <1>2 DEF Begun, InBatch
<1>4. TouchedIs(s, f)
  BY <1>3 DEF KnowsAt, TouchedIs, Behind
<1> QED
  BY <1>1, <1>4 DEF KnowsAt

(* EndBatch: what was in the buffer is behind the run.                      *)
LEMMA EndKnows ==
  ASSUME NEW r, NEW s, NEW f \in Nat, Sound(r), KnowsAt(r, f),
         r.pc = "profiles", r.at > Len(r.buffer), s.pc = "reading",
         s.extract = r.extract, s.touched = r.touched, s.todo = r.todo, s.buffer = << >>
  PROVE  /\ Position(r) \in Nat /\ KnowsAt(s, Position(r))
         /\ Behind(r, Position(r)) = Behind(r, f) \cup Waiting(r, f)
<1>1. BufferHolds(r, f) /\ TouchedIs(r, f)
  BY DEF KnowsAt
<1>2. PICK k \in Nat : k = Position(r) /\ f <= k
  <2>1. Position(r) \in Nat
    BY RunParts DEF KnowsAt, TodoIsRest, Position
  <2>2. f \in 0..Position(r)
    BY <1>1 DEF BufferHolds
  <2> QED
    BY <2>1, <2>2
<1>3. TodoIsRest(s) /\ Position(s) = k
  BY <1>2 DEF KnowsAt, TodoIsRest, Position
<1>4. Waiting(s, k) = {} /\ Len(s.buffer) = 0
  <2>1. \A n \in Listed(r.extract) : n \in Nat
    BY RunParts
  <2> QED
    BY <1>3, <2>1 DEF Waiting
<1>5. BufferHolds(s, k)
  BY <1>2, <1>3, <1>4 DEF BufferHolds
<1>6. Behind(r, k) = Behind(r, f) \cup Waiting(r, f)
  <2>1. \A n \in Listed(r.extract) : n \in Nat
    BY RunParts
  <2> QED
    BY <1>2, <2>1 DEF Waiting, Behind
<1>7. /\ \A n \in Waiting(r, f) : \E m \in 1..Len(r.buffer) : r.buffer[m] = r.extract[n]
      /\ \A m \in 1..Len(r.buffer) : \E n \in Waiting(r, f) : r.buffer[m] = r.extract[n]
  BY <1>1 DEF BufferHolds
<1>8. PICK a \in Nat : a = r.at /\ \A m \in 1..Len(r.buffer) : m < a
  BY RunParts
<1>9. TouchedIs(s, k)
  <2>1. Begun(r) = 1..Len(r.buffer) /\ Begun(s) = {}
    BY <1>4, <1>8 DEF Begun, InBatch
  <2>2. ASSUME NEW id
        PROVE  (\E m \in 1..Len(r.buffer) : id = r.buffer[m].id)
                 <=> (\E n \in Waiting(r, f) : id = r.extract[n].id)
    BY <1>7
  <2>3. {r.buffer[m].id : m \in 1..Len(r.buffer)} = {r.extract[n].id : n \in Waiting(r, f)}
    BY <2>2
  <2>4. r.touched = {r.extract[n].id : n \in Behind(r, f)} \cup {r.extract[n].id : n \in Waiting(r, f)}
    BY <1>1, <2>1, <2>3 DEF TouchedIs
  <2>5. r.touched = {r.extract[n].id : n \in Behind(r, k)}
    BY <1>6, <2>4
  <2>6. Behind(s, k) = Behind(r, k)
    BY DEF Behind
  <2> QED
    BY <2>1, <2>5, <2>6 DEF TouchedIs
<1> QED
  BY <1>2, <1>3, <1>5, <1>6, <1>9 DEF KnowsAt

LEMMA StartKnows ==
  ASSUME NEW s, s.extract \in Seq(Element), s.todo = s.extract, s.buffer = << >>,
         s.pc = "reading", s.touched = {}
  PROVE  KnowsAt(s, 0) /\ Behind(s, 0) = {}
<1>1. PICK x \in Seq(Element) : x = s.extract
  OBVIOUS
<1>2. Len(x) \in Nat /\ Listed(x) \subseteq 1..Len(x)
  BY DEF Listed
<1>3. Len(s.extract) = Len(x) /\ Len(s.todo) = Len(x) /\ Len(s.buffer) = 0
  BY <1>1
<1>4. Position(s) = 0
  BY <1>2, <1>3 DEF Position
<1>5. TodoIsRest(s)
  BY <1>1, <1>2, <1>3, <1>4 DEF TodoIsRest
<1>6. Waiting(s, 0) = {} /\ Behind(s, 0) = {} /\ Begun(s) = {}
  BY <1>1, <1>2, <1>4 DEF Waiting, Behind, Begun, InBatch
<1>7. BufferHolds(s, 0) /\ TouchedIs(s, 0)
  BY <1>3, <1>4, <1>6 DEF BufferHolds, TouchedIs
<1> QED
  BY <1>5, <1>6, <1>7 DEF KnowsAt

(* The file is read and the buffer empty.                                   *)
LEMMA SweepKnows ==
  ASSUME NEW r, NEW s, NEW f, KnowsAt(r, f),
         r.pc = "reading", r.todo = << >>, ~FlushDue(r), s.pc = "sweeping",
         s.extract = r.extract, s.touched = r.touched, s.todo = r.todo, s.buffer = r.buffer
  PROVE  KnowsAt(s, f)
<1>1. TodoIsRest(s) /\ BufferHolds(s, f)
  BY SameFile DEF KnowsAt
<1>2. TouchedIs(s, f)
  BY DEF KnowsAt, TouchedIs, Behind, Begun, InBatch
<1>3. s.todo = << >> /\ s.buffer = << >>
  BY DEF FlushDue
<1> QED
  BY <1>1, <1>2, <1>3 DEF KnowsAt

(* At its sweep a run has all of its file behind it.                        *)
LEMMA SweepIsBehind ==
  ASSUME NEW r, Sound(r), NEW f \in Nat, KnowsAt(r, f), r.pc = "sweeping"
  PROVE  Behind(r, f) = Listed(r.extract) /\ Begun(r) = {}
<1>1. r.todo = << >> /\ r.buffer = << >>
  BY DEF KnowsAt
<1>2. PICK k \in Nat : k = Len(r.extract) /\ k = Position(r) /\ Listed(r.extract) \subseteq 1..k
  BY <1>1, RunParts DEF Position
<1>3. Waiting(r, f) = {}
  BY <1>1 DEF KnowsAt, BufferHolds
<1>4. Behind(r, f) = Listed(r.extract)
  BY <1>2, <1>3 DEF Behind, Waiting
<1> QED
  BY <1>4 DEF Begun, InBatch

----------------------------------------------------------------------------
(* One importer: what is behind a run is stored as the file has it.         *)

LEMMA ReadTracks ==
  ASSUME NEW r, NEW s, Sound(r), OnTrack(r), UNCHANGED <<place, profile>>,
         r.pc = "reading", s.pc = "reading", r.todo # << >>,
         s.extract = r.extract, s.touched = r.touched, s.todo = Tail(r.todo),
         s.buffer = IF Head(r.todo).data = Dropped THEN r.buffer ELSE Append(r.buffer, Head(r.todo))
  PROVE  OnTrack(s)'
<1>1. PICK f \in Nat : KnowsAt(r, f) /\ AllDone(r, f)
  BY DEF OnTrack
<1>2. KnowsAt(s, f)
  BY <1>1, ReadKnows
<1>3. AllDone(s, f)'
  BY <1>1 DEF AllDone, Behind, PlaceDone, ProfileDone
<1>4. BatchDone(s)'
  BY DEF BatchDone, InBatch
<1> QED
  BY <1>2, <1>3, <1>4
     DEF OnTrack, KnowsAt, TodoIsRest, Position, BufferHolds, Waiting, TouchedIs, Behind, Begun, InBatch

(* What UpsertBatch admits has no two rows for one element.                 *)
LEMMA BatchOfDifferent ==
  ASSUME NEW b \in Seq(Kept), ~(Cardinality(Ids(b)) < Len(b))
  PROVE  \A m, l \in 1..Len(b) : b[m].id = b[l].id => m = l
<1> DEFINE idOf == [n \in 1..Len(b) |-> b[n].id]
<1>1. Len(b) \in Nat /\ DOMAIN b = 1..Len(b)
  OBVIOUS
<1>2. IsFiniteSet(1..Len(b)) /\ Cardinality(1..Len(b)) = Len(b)
  BY <1>1, FS_Interval
<1>3. idOf \in Surjection(1..Len(b), Ids(b))
  BY <1>1 DEF Surjection, Ids
<1>4. Cardinality(Ids(b)) <= Len(b) /\ IsFiniteSet(Ids(b))
      /\ (Cardinality(Ids(b)) = Len(b) => idOf \in Injection(1..Len(b), Ids(b)))
  BY <1>2, <1>3, FS_Surjection
<1>5. Cardinality(Ids(b)) = Len(b)
  BY <1>1, <1>4, FS_CardinalityType
<1>6. \A m, l \in 1..Len(b) : idOf[m] = idOf[l] => m = l
  BY <1>4, <1>5 DEF Injection, IsInjective
<1> QED
  BY <1>6

(* The buffer has nothing that was mentioned for the last time before it.   *)
LEMMA BatchIsNewer ==
  ASSUME NEW r, Sound(r), NEW f \in Nat, BufferHolds(r, f),
         NEW n \in Behind(r, f), LastOf(r.extract, n), NEW m \in 1..Len(r.buffer)
  PROVE  r.buffer[m].id # r.extract[n].id
<1> SUFFICES ASSUME r.buffer[m].id = r.extract[n].id PROVE FALSE
  OBVIOUS
<1>1. PICK l \in Waiting(r, f) : r.buffer[m] = r.extract[l]
  BY DEF BufferHolds
<1>2. l \in Listed(r.extract) /\ l \in Nat /\ f < l
  BY <1>1, RunParts DEF Waiting
<1>3. n \in Nat /\ n <= f
  BY RunParts DEF Behind
<1>4. l <= n
  BY <1>1, <1>2 DEF LastOf
<1> QED
  BY <1>2, <1>3, <1>4

(* The batch is written; what is behind it and mentioned no more stays.     *)
LEMMA FlushTracks ==
  ASSUME NEW r, NEW s, Sound(r), OnTrack(r), IInv, UNCHANGED profile,
         r.pc = "reading", s.pc = "profiles", s.at = 1,
         s.extract = r.extract, s.touched = r.touched, s.todo = r.todo, s.buffer = r.buffer,
         ~(Cardinality(Ids(r.buffer)) < Len(r.buffer)),
         place' = [e \in Elements |-> IF e \in Ids(r.buffer)
                                      THEN (CHOOSE x \in Range(r.buffer) : x.id = e).data ELSE place[e]]
  PROVE  OnTrack(s)'
<1>1. PICK f \in Nat : KnowsAt(r, f) /\ AllDone(r, f) /\ BufferHolds(r, f)
  BY DEF OnTrack, KnowsAt
<1>2. PICK b \in Seq(Kept) : b = r.buffer
  BY RunParts
<1>3. \A m, l \in 1..Len(b) : b[m].id = b[l].id => m = l
  BY <1>2, BatchOfDifferent
<1>4. DOMAIN b = 1..Len(b) /\ \A m \in 1..Len(b) : b[m] \in Kept
  BY <1>2, RunParts
<1>5. ASSUME NEW m \in 1..Len(b)
      PROVE  PlaceDone(b[m])'
  <2>1. b[m].id \in Ids(b) /\ b[m].id \in Elements
    BY <1>4 DEF Ids, Kept
  <2>2. \A x \in Range(b) : x.id = b[m].id => x = b[m]
    BY <1>3, <1>4 DEF Range
  <2>3. b[m] \in Range(b)
    BY <1>4 DEF Range
  <2>4. (CHOOSE x \in Range(b) : x.id = b[m].id) = b[m]
    BY <2>2, <2>3
  <2> QED
    BY <1>2, <2>1, <2>4 DEF PlaceDone
<1>6. ASSUME NEW n \in Behind(r, f), LastOf(r.extract, n)
      PROVE  PlaceDone(r.extract[n])'
  <2>1. /\ n \in Listed(r.extract) /\ n \in Nat /\ n <= f
        /\ r.extract[n].id \in Elements /\ PlaceDone(r.extract[n])
    BY <1>1, <1>6, RunParts DEF Behind, AllDone, Kept
  <2>2. r.extract[n].id \notin Ids(b)
    BY <1>1, <1>2, <1>4, <1>6, BatchIsNewer DEF Ids
  <2> QED
    BY <1>2, <2>1, <2>2 DEF PlaceDone
<1>7. KnowsAt(s, f)
  BY <1>1, FlushKnows
<1>8. AllDone(s, f)'
  BY <1>1, <1>6 DEF AllDone, Behind, ProfileDone
<1>9. BatchDone(s)'
  BY <1>2, <1>3, <1>5, RunParts DEF BatchDone
<1> QED
  BY <1>7, <1>8, <1>9
     DEF OnTrack, KnowsAt, TodoIsRest, Position, BufferHolds, Waiting, TouchedIs, Behind, Begun, InBatch

(* The next place of the batch has no profile due, or is about to get it.   *)
LEMMA LoadTracks ==
  ASSUME NEW r, NEW s, Sound(r), OnTrack(r), UNCHANGED <<place, profile>>,
         r.pc = "profiles", r.at <= Len(r.buffer),
         s.extract = r.extract, s.touched = Touched(r), s.todo = r.todo, s.buffer = r.buffer,
         \/ s.pc = "profiles" /\ s.at = r.at + 1 /\ ProfileDone(r.buffer[r.at])
         \/ s.pc = "writing" /\ s.at = r.at
  PROVE  OnTrack(s)'
<1>1. PICK f \in Nat : KnowsAt(r, f) /\ AllDone(r, f)
  BY DEF OnTrack
<1>2. PICK a \in Nat : a = r.at /\ a \in 1..Len(r.buffer) /\ Len(r.buffer) \in Nat
  BY RunParts DEF Sound, Bounded
<1>3. KnowsAt(s, f)
  BY <1>1, LoadKnows
<1>4. AllDone(s, f)'
  BY <1>1 DEF AllDone, Behind, PlaceDone, ProfileDone
<1>5. BatchDone(s)'
  <2>1. /\ \A m, l \in 1..Len(r.buffer) : r.buffer[m].id = r.buffer[l].id => m = l
        /\ \A m \in 1..Len(r.buffer) : PlaceDone(r.buffer[m])
        /\ \A m \in 1..Len(r.buffer) : m < a => ProfileDone(r.buffer[m])
    BY <1>2 DEF OnTrack, BatchDone, InBatch
  <2>2. \A m \in 1..Len(r.buffer) : m < s.at => ProfileDone(r.buffer[m])
    BY <1>2, <2>1
  <2> QED
    BY <2>1, <2>2 DEF BatchDone, PlaceDone, ProfileDone
<1> QED
  BY <1>2, <1>3, <1>4, <1>5
     DEF OnTrack, KnowsAt, TodoIsRest, Position, BufferHolds, Waiting, TouchedIs, Behind, Begun, InBatch

(* The profile of the place in hand is written, and no other one.           *)
LEMMA WriteTracks ==
  ASSUME NEW r, NEW s, Sound(r), OnTrack(r), IInv, UNCHANGED place,
         r.pc = "writing", s.pc = "profiles", s.at = r.at + 1,
         s.extract = r.extract, s.touched = r.touched, s.todo = r.todo, s.buffer = r.buffer,
         NEW verified,
         profile' = [profile EXCEPT ![r.buffer[r.at].id] =
                       [rating |-> r.pending[r.at], verified |-> verified]]
  PROVE  OnTrack(s)'
<1>1. PICK f \in Nat : KnowsAt(r, f) /\ AllDone(r, f) /\ BufferHolds(r, f)
  BY DEF OnTrack, KnowsAt
<1>2. PICK a \in Nat : a = r.at /\ a \in 1..Len(r.buffer) /\ Len(r.buffer) \in Nat
  BY RunParts DEF Sound, Bounded
<1>3. KnowsAt(s, f)
  BY <1>1, WriteKnows
<1>4. PICK e : e = r.buffer[a]
  OBVIOUS
<1>5. e \in Kept /\ e.id \in Elements /\ r.pending[a] = e.rating
  BY <1>2, <1>4, RunParts DEF Kept, Sound, InStep
<1>6. profile'[e.id] = [rating |-> e.rating, verified |-> verified]
  BY <1>2, <1>4, <1>5 DEF IInv, TypeOK
<1>7. ProfileDone(e)'
  <2>1. profile'[e.id] # NoRow
    BY <1>6 DEF NoRow
  <2> QED
    BY <1>6, <2>1 DEF ProfileDone
<1>8. ASSUME NEW x \in Kept, x.id # e.id, ProfileDone(x)
      PROVE  ProfileDone(x)'
  <2>1. profile'[x.id] = profile[x.id]
    BY <1>2, <1>4, <1>8 DEF Kept, IInv, TypeOK
  <2> QED
    BY <1>8, <2>1 DEF ProfileDone
<1>9. AllDone(s, f)'
  <2>1. ASSUME NEW n \in Behind(r, f), LastOf(r.extract, n)
        PROVE  PlaceDone(r.extract[n])' /\ ProfileDone(r.extract[n])'
    <3>1. PlaceDone(r.extract[n]) /\ ProfileDone(r.extract[n]) /\ r.extract[n] \in Kept
      BY <1>1, <2>1, RunParts DEF AllDone, Behind
    <3>2. r.extract[n].id # e.id
      BY <1>1, <1>2, <1>4, <2>1, BatchIsNewer
    <3> QED
      BY <1>8, <3>1, <3>2 DEF PlaceDone
  <2> QED
    BY <2>1 DEF AllDone, Behind
<1>10. BatchDone(s)'
  <2>1. /\ \A m, l \in 1..Len(r.buffer) : r.buffer[m].id = r.buffer[l].id => m = l
        /\ \A m \in 1..Len(r.buffer) : PlaceDone(r.buffer[m])
        /\ \A m \in 1..Len(r.buffer) : m < a => ProfileDone(r.buffer[m])
    BY <1>2 DEF OnTrack, BatchDone, InBatch
  <2>2. ASSUME NEW m \in 1..Len(r.buffer), m < a + 1
        PROVE  ProfileDone(r.buffer[m])'
    <3>1. CASE m = a
      BY <1>4, <1>7, <3>1
    <3>2. CASE m # a
      <4>1. m < a
        BY <1>2, <2>2, <3>2
      <4>2. ProfileDone(r.buffer[m]) /\ r.buffer[m] \in Kept
        BY <2>1, <4>1, RunParts
      <4>3. r.buffer[m].id # e.id
        BY <1>2, <1>4, <2>1, <3>2
      <4> QED
        BY <1>8, <4>2, <4>3
    <3> QED
      BY <3>1, <3>2
  <2> QED
    BY <1>2, <2>1, <2>2 DEF BatchDone, PlaceDone
<1> QED
  BY <1>3, <1>9, <1>10
     DEF OnTrack, KnowsAt, TodoIsRest, Position, BufferHolds, Waiting, TouchedIs, Behind, Begun, InBatch

LEMMA EndTracks ==
  ASSUME NEW r, NEW s, Sound(r), OnTrack(r), UNCHANGED <<place, profile>>,
         r.pc = "profiles", r.at > Len(r.buffer), s.pc = "reading",
         s.extract = r.extract, s.touched = r.touched, s.todo = r.todo, s.buffer = << >>
  PROVE  OnTrack(s)'
<1>1. PICK f \in Nat : KnowsAt(r, f) /\ AllDone(r, f)
  BY DEF OnTrack
<1>2. PICK k \in Nat : k = Position(r) /\ KnowsAt(s, k) /\ Behind(r, k) = Behind(r, f) \cup Waiting(r, f)
  BY <1>1, EndKnows
<1>3. \A n \in Waiting(r, f) : \E m \in 1..Len(r.buffer) : r.buffer[m] = r.extract[n]
  BY <1>1 DEF KnowsAt, BufferHolds
<1>4. PICK a \in Nat : a = r.at /\ \A m \in 1..Len(r.buffer) : m < a
  BY RunParts
<1>5. \A m \in 1..Len(r.buffer) : PlaceDone(r.buffer[m]) /\ ProfileDone(r.buffer[m])
  BY <1>4 DEF OnTrack, BatchDone, InBatch
<1>6. AllDone(s, k)'
  <2>1. ASSUME NEW n \in Behind(r, k), LastOf(r.extract, n)
        PROVE  PlaceDone(r.extract[n]) /\ ProfileDone(r.extract[n])
    <3>1. CASE n \in Behind(r, f)
      BY <1>1, <2>1, <3>1 DEF AllDone
    <3>2. CASE n \in Waiting(r, f)
      BY <1>3, <1>5, <3>2
    <3> QED
      BY <1>2, <2>1, <3>1, <3>2
  <2> QED
    BY <2>1 DEF AllDone, Behind, PlaceDone, ProfileDone
<1>7. BatchDone(s)'
  BY DEF BatchDone, InBatch
<1> QED
  BY <1>2, <1>6, <1>7
     DEF OnTrack, KnowsAt, TodoIsRest, Position, BufferHolds, Waiting, TouchedIs, Behind, Begun, InBatch

LEMMA StartTracks ==
  ASSUME NEW s, s.extract \in Seq(Element), s.todo = s.extract, s.buffer = << >>,
         s.pc = "reading", s.touched = {}
  PROVE  OnTrack(s)'
<1>1. KnowsAt(s, 0) /\ Behind(s, 0) = {}
  BY StartKnows
<1>2. AllDone(s, 0)'
  BY <1>1 DEF AllDone, Behind
<1>3. BatchDone(s)'
  BY DEF BatchDone, InBatch
<1> QED
  BY <1>1, <1>2, <1>3
     DEF OnTrack, KnowsAt, TodoIsRest, Position, BufferHolds, Waiting, TouchedIs, Behind, Begun, InBatch

LEMMA SweepTracks ==
  ASSUME NEW r, NEW s, Sound(r), OnTrack(r), UNCHANGED <<place, profile>>,
         r.pc = "reading", r.todo = << >>, ~FlushDue(r), s.pc = "sweeping",
         s.extract = r.extract, s.touched = r.touched, s.todo = r.todo, s.buffer = r.buffer
  PROVE  OnTrack(s)'
<1>1. PICK f \in Nat : KnowsAt(r, f) /\ AllDone(r, f)
  BY DEF OnTrack
<1>2. KnowsAt(s, f)
  BY <1>1, SweepKnows
<1>3. AllDone(s, f)'
  BY <1>1 DEF AllDone, Behind, PlaceDone, ProfileDone
<1>4. BatchDone(s)'
  BY DEF BatchDone, InBatch
<1> QED
  BY <1>2, <1>3, <1>4
     DEF OnTrack, KnowsAt, TodoIsRest, Position, BufferHolds, Waiting, TouchedIs, Behind, Begun, InBatch

LEMMA SameRun ==
  ASSUME NEW i, NEW s, run'[i] = s, OnTrack(s)'
  PROVE  OnTrack(run[i])'
<1>1. TodoIsRest(s)' => TodoIsRest(run[i])'
  BY DEF TodoIsRest, Position
<1>2. ASSUME NEW f
      PROVE  BufferHolds(s, f)' => BufferHolds(run[i], f)'
  <2>1. Position(s)' = Position(run[i])' /\ Listed(s.extract)' = Listed(run[i].extract)'
    BY DEF Position, Listed
  <2>2. Waiting(s, f)' = Waiting(run[i], f)'
    BY <2>1 DEF Waiting
  <2> QED
    BY <2>1, <2>2 DEF BufferHolds
<1>3. ASSUME NEW f
      PROVE  AllDone(s, f)' => AllDone(run[i], f)'
  BY DEF AllDone, Behind, PlaceDone, ProfileDone, Listed, LastOf
<1>4. ASSUME NEW f
      PROVE  TouchedIs(s, f)' => TouchedIs(run[i], f)'
  BY DEF TouchedIs, Behind, Begun, InBatch, Listed
<1>5. BatchDone(s)' => BatchDone(run[i])'
  BY DEF BatchDone, InBatch, PlaceDone, ProfileDone
<1> QED
  BY <1>1, <1>2, <1>3, <1>4, <1>5 DEF OnTrack, KnowsAt

(* The only importer has moved, and is still on track or has ended.         *)
LEMMA TrackMoves ==
  ASSUME NEW i, Importers = {i}, NEW s, run'[i] = s, s = Idle \/ OnTrack(s)'
  PROVE  TrackInv'
BY SameRun DEF TrackInv

LEMMA RunsTrack ==
  ASSUME IInv, TrackInv, NEW i, Importers = {i},
         (\E x \in Extracts : StartImport(i, x)) \/ RunStep(i) \/ Dies(i)
  PROVE  TrackInv'
<1>1. PICK r : r = run[i]
  OBVIOUS
<1>2. r # Idle => Sound(r) /\ OnTrack(r)
  BY <1>1, RunningType DEF TrackInv
<1>3. ASSUME NEW s, Goto(i, s), s = Idle \/ OnTrack(s)'
      PROVE  TrackInv'
  <2>1. run'[i] = s
    BY <1>3 DEF Goto, IInv, TypeOK
  <2> QED
    BY <1>3, <2>1, TrackMoves
<1>4. CASE \E x \in Extracts : StartImport(i, x)
  <2>1. PICK x \in Extracts : StartImport(i, x)
    BY <1>4
  <2>2. PICK s : s = [pc |-> "reading", extract |-> x, todo |-> x, buffer |-> << >>,
                      pending |-> << >>, touched |-> {}, at |-> 1, base |-> NoRow]
    OBVIOUS
  <2>3. s.extract \in Seq(Element)
    BY <2>2, ExtractAssumption
  <2>4. OnTrack(s)'
    BY <2>2, <2>3, StartTracks
  <2> QED
    BY <1>3, <2>1, <2>2, <2>4 DEF StartImport
<1>5. CASE ReadElement(i)
  <2>1. /\ r.pc = "reading" /\ r.todo # << >> /\ UNCHANGED <<place, profile>>
        /\ Sound(r) /\ OnTrack(r)
    BY <1>1, <1>2, <1>5 DEF ReadElement, Idle
  <2>2. PICK s : s = IF Head(r.todo).data = Dropped
                     THEN [r EXCEPT !.todo = Tail(@)]
                     ELSE [r EXCEPT !.todo = Tail(@), !.buffer = Append(@, Head(r.todo)),
                                    !.pending = Append(@, Head(r.todo).rating)]
    OBVIOUS
  <2>3. Goto(i, s)
    BY <1>1, <1>5, <2>2 DEF ReadElement
  <2>4. /\ s.pc = "reading" /\ s.extract = r.extract /\ s.touched = r.touched /\ s.todo = Tail(r.todo)
        /\ s.buffer = IF Head(r.todo).data = Dropped THEN r.buffer ELSE Append(r.buffer, Head(r.todo))
    BY <2>1, <2>2 DEF Sound, Run
  <2>5. OnTrack(s)'
    BY <2>1, <2>4, ReadTracks
  <2> QED
    BY <1>3, <2>3, <2>5
<1>6. CASE Flush(i)
  <2>1. CASE Goto(i, Idle)
    BY <1>3, <2>1
  <2>2. CASE ~(Cardinality(Ids(r.buffer)) < Len(r.buffer))
    <3>1. r.pc = "reading" /\ Sound(r) /\ OnTrack(r) /\ UNCHANGED profile
      BY <1>1, <1>2, <1>6 DEF Flush, Idle
    <3>2. PICK s : s = [r EXCEPT !.pc = "profiles", !.at = 1]
      OBVIOUS
    <3>3. /\ Goto(i, s)
          /\ place' = [e \in Elements |-> IF e \in Ids(r.buffer)
                        THEN (CHOOSE x \in Range(r.buffer) : x.id = e).data ELSE place[e]]
      BY <1>1, <1>6, <2>2, <3>2 DEF Flush
    <3>4. /\ s.pc = "profiles" /\ s.at = 1 /\ s.extract = r.extract /\ s.touched = r.touched
          /\ s.todo = r.todo /\ s.buffer = r.buffer
      BY <3>1, <3>2 DEF Sound, Run
    <3>5. OnTrack(s)'
      BY <2>2, <3>1, <3>3, <3>4, FlushTracks
    <3> QED
      BY <1>3, <3>3, <3>5
  <2> QED
    BY <1>1, <1>6, <2>1, <2>2 DEF Flush
<1>7. CASE LoadProfile(i)
  <2>1. r.pc = "profiles" /\ r.at <= Len(r.buffer) /\ Sound(r) /\ OnTrack(r)
        /\ UNCHANGED <<place, profile>>
    BY <1>1, <1>2, <1>7 DEF LoadProfile, Idle
  <2>2. PICK row : row = profile[r.buffer[r.at].id]
    OBVIOUS
  <2>3. CASE /\ r.pending[r.at] = Nil \/ (row # NoRow /\ row.verified)
             /\ Goto(i, [r EXCEPT !.at = @ + 1, !.touched = Touched(r)])
    <3>1. PICK s : s = [r EXCEPT !.at = @ + 1, !.touched = Touched(r)]
      OBVIOUS
    <3>2. /\ s.pc = "profiles" /\ s.at = r.at + 1 /\ s.extract = r.extract /\ s.touched = Touched(r)
          /\ s.todo = r.todo /\ s.buffer = r.buffer
      BY <2>1, <3>1 DEF Sound, Run
    <3>3. r.at \in 1..Len(r.buffer)
      BY <2>1, RunParts DEF Sound, Bounded
    <3>4. r.pending[r.at] = r.buffer[r.at].rating
      BY <2>1, <3>3 DEF Sound, InStep
    <3>5. ProfileDone(r.buffer[r.at])
      BY <2>2, <2>3, <3>4 DEF ProfileDone
    <3>6. OnTrack(s)'
      BY <2>1, <3>2, <3>5, LoadTracks
    <3> QED
      BY <1>3, <2>3, <3>1, <3>6
  <2>4. CASE Goto(i, [r EXCEPT !.pc = "writing", !.base = row, !.touched = Touched(r)])
    <3>1. PICK s : s = [r EXCEPT !.pc = "writing", !.base = row, !.touched = Touched(r)]
      OBVIOUS
    <3>2. /\ s.pc = "writing" /\ s.at = r.at /\ s.extract = r.extract /\ s.touched = Touched(r)
          /\ s.todo = r.todo /\ s.buffer = r.buffer
      BY <2>1, <3>1 DEF Sound, Run
    <3>3. OnTrack(s)'
      BY <2>1, <3>2, LoadTracks
    <3> QED
      BY <1>3, <2>4, <3>1, <3>3
  <2> QED
    BY <1>1, <1>7, <2>2, <2>3, <2>4 DEF LoadProfile
<1>8. CASE WriteProfile(i)
  <2>1. CASE Goto(i, Idle)
    BY <1>3, <2>1
  <2>2. PICK verified : verified = (profile[r.buffer[r.at].id] # NoRow /\ profile[r.buffer[r.at].id].verified)
    OBVIOUS
  <2>3. CASE /\ profile' = [profile EXCEPT ![r.buffer[r.at].id] =
                             [rating |-> r.pending[r.at], verified |-> verified]]
             /\ Goto(i, [r EXCEPT !.pc = "profiles", !.at = @ + 1, !.base = NoRow])
    <3>1. r.pc = "writing" /\ Sound(r) /\ OnTrack(r) /\ UNCHANGED place
      BY <1>1, <1>2, <1>8 DEF WriteProfile, Idle
    <3>2. PICK s : s = [r EXCEPT !.pc = "profiles", !.at = @ + 1, !.base = NoRow]
      OBVIOUS
    <3>3. /\ s.pc = "profiles" /\ s.at = r.at + 1 /\ s.extract = r.extract /\ s.touched = r.touched
          /\ s.todo = r.todo /\ s.buffer = r.buffer
      BY <3>1, <3>2 DEF Sound, Run
    <3>4. OnTrack(s)'
      BY <2>3, <3>1, <3>3, WriteTracks
    <3> QED
      BY <1>3, <2>3, <3>2, <3>4
  <2> QED
    BY <1>1, <1>8, <2>1, <2>2, <2>3 DEF WriteProfile
<1>9. CASE EndBatch(i)
  <2>1. r.pc = "profiles" /\ r.at > Len(r.buffer) /\ Sound(r) /\ OnTrack(r)
        /\ UNCHANGED <<place, profile>>
    BY <1>1, <1>2, <1>9 DEF EndBatch, Idle
  <2>2. PICK s : s = Cleared(r)
    OBVIOUS
  <2>3. /\ s.pc = "reading" /\ s.extract = r.extract /\ s.touched = r.touched
        /\ s.todo = r.todo /\ s.buffer = << >>
    BY <2>1, <2>2 DEF Cleared, Sound, Run
  <2>4. OnTrack(s)'
    BY <2>1, <2>3, EndTracks
  <2> QED
    BY <1>1, <1>3, <1>9, <2>2, <2>4 DEF EndBatch
<1>10. CASE BeginSweep(i)
  <2>1. r.pc = "reading" /\ r.todo = << >> /\ ~FlushDue(r) /\ Sound(r) /\ OnTrack(r)
        /\ UNCHANGED <<place, profile>>
    BY <1>1, <1>2, <1>10 DEF BeginSweep, Idle
  <2>2. PICK s : s = [r EXCEPT !.pc = "sweeping"]
    OBVIOUS
  <2>3. /\ s.pc = "sweeping" /\ s.extract = r.extract /\ s.touched = r.touched
        /\ s.todo = r.todo /\ s.buffer = r.buffer
    BY <2>1, <2>2 DEF Sound, Run
  <2>4. OnTrack(s)'
    BY <2>1, <2>3, SweepTracks
  <2> QED
    BY <1>1, <1>3, <1>10, <2>2, <2>4 DEF BeginSweep
<1>11. CASE EndRun(i) \/ Dies(i)
  BY <1>3, <1>11 DEF EndRun, Dies
<1> QED
  BY <1>4, <1>5, <1>6, <1>7, <1>8, <1>9, <1>10, <1>11 DEF RunStep

(* Clients undo nothing of it: a place that is there is not created again,  *)
(* and what a person says of its accessibility is as good.                  *)
LEMMA ClientsUndoNothing ==
  ASSUME IInv, NEW e \in Elements, NEW x \in Kept,
         \/ \E data \in Data : PostPlace(e, data)
         \/ \E rating \in Ratings : PatchProfile(e, rating)
  PROVE  (PlaceDone(x) => PlaceDone(x)') /\ (ProfileDone(x) => ProfileDone(x)')
<1>1. x.id \in Elements /\ x.data # NoRow
  BY AbsenceAssumption DEF Kept
<1>2. PlaceDone(x) => PlaceDone(x)'
  BY <1>1 DEF PlaceDone, PostPlace, PatchProfile, IInv, TypeOK
<1>3. CASE \E data \in Data : PostPlace(e, data)
  BY <1>2, <1>3 DEF PostPlace, ProfileDone
<1>4. ASSUME NEW rating \in Ratings, PatchProfile(e, rating), ProfileDone(x)
      PROVE  ProfileDone(x)'
  <2>1. CASE x.id = e
    <3>1. profile'[x.id] = [rating |-> rating, verified |-> TRUE]
      BY <1>1, <1>4, <2>1 DEF PatchProfile, IInv, TypeOK
    <3>2. profile'[x.id] # NoRow /\ profile'[x.id].verified
      BY <3>1 DEF NoRow
    <3> QED
      BY <3>2 DEF ProfileDone
  <2>2. CASE x.id # e
    <3>1. profile'[x.id] = profile[x.id]
      BY <1>1, <1>4, <2>2 DEF PatchProfile, IInv, TypeOK
    <3> QED
      BY <1>4, <3>1 DEF ProfileDone
  <2> QED
    BY <2>1, <2>2
<1> QED
  BY <1>2, <1>3, <1>4

LEMMA ClientsTrack ==
  ASSUME IInv, TrackInv, NEW e \in Elements,
         \/ \E data \in Data : PostPlace(e, data)
         \/ \E rating \in Ratings : PatchProfile(e, rating)
  PROVE  TrackInv'
<1>1. run' = run
  BY DEF PostPlace, PatchProfile
<1>2. \A x \in Kept : (PlaceDone(x) => PlaceDone(x)') /\ (ProfileDone(x) => ProfileDone(x)')
  BY ClientsUndoNothing
<1>3. ASSUME NEW r, Sound(r), OnTrack(r)
      PROVE  OnTrack(r)'
  BY <1>2, <1>3, TrackStays
<1>4. ASSUME NEW i \in Importers, run'[i] # Idle
      PROVE  OnTrack(run[i])'
  <2>1. PICK r : r = run[i]
    OBVIOUS
  <2>2. Sound(r) /\ OnTrack(r) /\ run'[i] = r
    BY <1>1, <1>4, <2>1, RunningType DEF TrackInv
  <2>3. OnTrack(r)'
    BY <1>3, <2>2
  <2> QED
    BY <2>2, <2>3, SameRun
<1> QED
  BY <1>4 DEF TrackInv

LEMMA TrackInductive ==
  ASSUME NEW i, Importers = {i}
  PROVE  IInv /\ TrackInv /\ [Next]_vars => TrackInv'
<1> SUFFICES ASSUME IInv, TrackInv, [Next]_vars PROVE TrackInv'
  OBVIOUS
<1>1. CASE UNCHANGED vars
  <2>1. run' = run /\ place' = place /\ profile' = profile
    BY <1>1 DEF vars
  <2>2. ASSUME run[i] # Idle
        PROVE  OnTrack(run[i])'
    <3>1. PICK r : r = run[i]
      OBVIOUS
    <3>2. Sound(r) /\ OnTrack(r) /\ run'[i] = r
      BY <2>1, <2>2, <3>1, RunningType DEF TrackInv
    <3>3. OnTrack(r)'
      BY <2>1, <3>2, TrackStays DEF PlaceDone, ProfileDone
    <3> QED
      BY <3>2, <3>3, SameRun
  <2> QED
    BY <2>1, <2>2 DEF TrackInv
<1>2. CASE \E e \in Elements : \/ \E data \in Data : PostPlace(e, data)
                              \/ \E rating \in Ratings : PatchProfile(e, rating)
  BY <1>2, ClientsTrack
<1>3. CASE (\E x \in Extracts : StartImport(i, x)) \/ RunStep(i) \/ Dies(i)
  BY <1>3, RunsTrack
<1> QED
  BY <1>1, <1>2, <1>3 DEF Next

LEMMA TrackedIsComplete == IInv /\ TrackInv => CompleteRunIsComplete
<1> SUFFICES ASSUME IInv, TrackInv, NEW i \in Importers, run[i].pc = "sweeping"
             PROVE  LET x == run[i].extract
                    IN /\ run[i].touched = {x[n].id : n \in Listed(x)}
                       /\ \A n \in Listed(x) : LastOf(x, n) => PlaceDone(x[n]) /\ ProfileDone(x[n])
  BY DEF CompleteRunIsComplete, PlaceDone, ProfileDone
<1>1. PICK r : r = run[i]
  OBVIOUS
<1>2. Sound(r) /\ OnTrack(r) /\ r.pc = "sweeping"
  BY <1>1, RunningType DEF TrackInv, Idle
<1>3. PICK f \in Nat : KnowsAt(r, f) /\ AllDone(r, f) /\ BufferHolds(r, f) /\ TouchedIs(r, f)
  BY <1>2 DEF OnTrack, KnowsAt
<1>4. Behind(r, f) = Listed(r.extract) /\ Begun(r) = {}
  BY <1>2, <1>3, SweepIsBehind
<1> QED
  BY <1>1, <1>3, <1>4 DEF TouchedIs, AllDone

(* With one importer at work, a run that reaches its sweep has done its     *)
(* work, for any file, any batch size, after any failures and whatever the  *)
(* clients write beside it: the places and the accessibility of the file    *)
(* are stored, and the sweep is given these places and no others.           *)
THEOREM CompleteRuns ==
  ASSUME NEW i, Importers = {i}
  PROVE  Spec => []CompleteRunIsComplete
<1>1. Init => TrackInv
  BY DEF Init, TrackInv
<1>2. IInv /\ TrackInv /\ [Next]_vars => IInv' /\ TrackInv'
  BY Inductive, TrackInductive
<1>3. IInv /\ TrackInv => CompleteRunIsComplete
  BY TrackedIsComplete
<1> QED
  BY <1>1, <1>2, <1>3, Initially, PTL DEF Spec

----------------------------------------------------------------------------
(* Any number of importers.  P is a set of elements whose place is as it    *)
(* should be, Q one of elements whose profile is; no step takes anything    *)
(* out of them.                                                             *)

BatchPresent(r, P, Q) ==
  InBatch(r) =>
    /\ \A m \in 1..Len(r.buffer) : r.buffer[m] \in P
    /\ \A m \in 1..Len(r.buffer) : m < r.at => r.buffer[m] \in Q

PresentAt(r, f, P, Q) ==
  /\ KnowsAt(r, f)
  /\ \A n \in Behind(r, f) : r.extract[n] \in P /\ r.extract[n] \in Q

Present(r, P, Q) == (\E f \in Nat : PresentAt(r, f, P, Q)) /\ BatchPresent(r, P, Q)

(* Whoever wrote, a run has behind it what it had.                          *)
LEMMA PresentStays ==
  ASSUME NEW r, NEW P, NEW Q, NEW P1, NEW Q1, Present(r, P, Q), P \subseteq P1, Q \subseteq Q1
  PROVE  Present(r, P1, Q1)
BY DEF Present, PresentAt, BatchPresent

LEMMA ReadPresent ==
  ASSUME NEW r, NEW s, NEW P, NEW Q, Sound(r), Present(r, P, Q),
         r.pc = "reading", s.pc = "reading", r.todo # << >>,
         s.extract = r.extract, s.touched = r.touched, s.todo = Tail(r.todo),
         s.buffer = IF Head(r.todo).data = Dropped THEN r.buffer ELSE Append(r.buffer, Head(r.todo))
  PROVE  Present(s, P, Q)
<1>1. PICK f \in Nat : PresentAt(r, f, P, Q)
  BY DEF Present
<1>2. KnowsAt(s, f)
  BY <1>1, ReadKnows DEF PresentAt
<1>3. PresentAt(s, f, P, Q)
  BY <1>1, <1>2 DEF PresentAt, Behind
<1> QED
  BY <1>3 DEF Present, BatchPresent, InBatch

LEMMA FlushPresent ==
  ASSUME NEW r, NEW s, NEW P, NEW Q, Sound(r), Present(r, P, Q),
         r.pc = "reading", s.pc = "profiles", s.at = 1,
         s.extract = r.extract, s.touched = r.touched, s.todo = r.todo, s.buffer = r.buffer,
         \A m \in 1..Len(r.buffer) : r.buffer[m] \in P
  PROVE  Present(s, P, Q)
<1>1. PICK f \in Nat : PresentAt(r, f, P, Q)
  BY DEF Present
<1>2. KnowsAt(s, f)
  BY <1>1, FlushKnows DEF PresentAt
<1>3. PresentAt(s, f, P, Q)
  BY <1>1, <1>2 DEF PresentAt, Behind
<1>4. \A m \in 1..Len(r.buffer) : ~(m < 1)
  BY RunParts
<1> QED
  BY <1>3, <1>4 DEF Present, BatchPresent

LEMMA LoadPresent ==
  ASSUME NEW r, NEW s, NEW P, NEW Q, Sound(r), Present(r, P, Q),
         r.pc = "profiles", r.at <= Len(r.buffer),
         s.extract = r.extract, s.touched = Touched(r), s.todo = r.todo, s.buffer = r.buffer,
         \/ s.pc = "profiles" /\ s.at = r.at + 1 /\ r.buffer[r.at] \in Q
         \/ s.pc = "writing" /\ s.at = r.at
  PROVE  Present(s, P, Q)
<1>1. PICK f \in Nat : PresentAt(r, f, P, Q)
  BY DEF Present
<1>2. KnowsAt(s, f)
  BY <1>1, LoadKnows DEF PresentAt
<1>3. PresentAt(s, f, P, Q)
  BY <1>1, <1>2 DEF PresentAt, Behind
<1>4. PICK a \in Nat : a = r.at /\ Len(r.buffer) \in Nat
  BY RunParts
<1>5. /\ \A m \in 1..Len(r.buffer) : r.buffer[m] \in P
      /\ \A m \in 1..Len(r.buffer) : m < a => r.buffer[m] \in Q
  BY <1>4 DEF Present, BatchPresent, InBatch
<1>6. \A m \in 1..Len(r.buffer) : m < s.at => r.buffer[m] \in Q
  BY <1>4, <1>5
<1> QED
  BY <1>3, <1>5, <1>6 DEF Present, BatchPresent

LEMMA WritePresent ==
  ASSUME NEW r, NEW s, NEW P, NEW Q, Sound(r), Present(r, P, Q),
         r.pc = "writing", s.pc = "profiles", s.at = r.at + 1,
         s.extract = r.extract, s.touched = r.touched, s.todo = r.todo, s.buffer = r.buffer,
         r.buffer[r.at] \in Q
  PROVE  Present(s, P, Q)
<1>1. PICK f \in Nat : PresentAt(r, f, P, Q)
  BY DEF Present
<1>2. KnowsAt(s, f)
  BY <1>1, WriteKnows DEF PresentAt
<1>3. PresentAt(s, f, P, Q)
  BY <1>1, <1>2 DEF PresentAt, Behind
<1>4. PICK a \in Nat : a = r.at /\ Len(r.buffer) \in Nat
  BY RunParts
<1>5. /\ \A m \in 1..Len(r.buffer) : r.buffer[m] \in P
      /\ \A m \in 1..Len(r.buffer) : m < a => r.buffer[m] \in Q
  BY <1>4 DEF Present, BatchPresent, InBatch
<1>6. \A m \in 1..Len(r.buffer) : m < s.at => r.buffer[m] \in Q
  BY <1>4, <1>5
<1> QED
  BY <1>3, <1>5, <1>6 DEF Present, BatchPresent

LEMMA EndPresent ==
  ASSUME NEW r, NEW s, NEW P, NEW Q, Sound(r), Present(r, P, Q),
         r.pc = "profiles", r.at > Len(r.buffer), s.pc = "reading",
         s.extract = r.extract, s.touched = r.touched, s.todo = r.todo, s.buffer = << >>
  PROVE  Present(s, P, Q)
<1>1. PICK f \in Nat : KnowsAt(r, f) /\ PresentAt(r, f, P, Q)
  BY DEF Present, PresentAt
<1>2. PICK k \in Nat : k = Position(r) /\ KnowsAt(s, k) /\ Behind(r, k) = Behind(r, f) \cup Waiting(r, f)
  BY <1>1, EndKnows
<1>3. \A n \in Waiting(r, f) : \E m \in 1..Len(r.buffer) : r.buffer[m] = r.extract[n]
  BY <1>1 DEF KnowsAt, BufferHolds
<1>4. PICK a \in Nat : a = r.at /\ \A m \in 1..Len(r.buffer) : m < a
  BY RunParts
<1>5. \A m \in 1..Len(r.buffer) : r.buffer[m] \in P /\ r.buffer[m] \in Q
  BY <1>4 DEF Present, BatchPresent, InBatch
<1>6. \A n \in Behind(r, k) : r.extract[n] \in P /\ r.extract[n] \in Q
  BY <1>1, <1>2, <1>3, <1>5 DEF PresentAt
<1>7. PresentAt(s, k, P, Q)
  BY <1>2, <1>6 DEF PresentAt, Behind
<1> QED
  BY <1>7 DEF Present, BatchPresent, InBatch

LEMMA StartPresent ==
  ASSUME NEW s, NEW P, NEW Q, s.extract \in Seq(Element), s.todo = s.extract, s.buffer = << >>,
         s.pc = "reading", s.touched = {}
  PROVE  Present(s, P, Q)
<1>1. PresentAt(s, 0, P, Q)
  BY StartKnows DEF PresentAt
<1> QED
  BY <1>1 DEF Present, BatchPresent, InBatch

LEMMA SweepPresent ==
  ASSUME NEW r, NEW s, NEW P, NEW Q, Sound(r), Present(r, P, Q),
         r.pc = "reading", r.todo = << >>, ~FlushDue(r), s.pc = "sweeping",
         s.extract = r.extract, s.touched = r.touched, s.todo = r.todo, s.buffer = r.buffer
  PROVE  Present(s, P, Q)
<1>1. PICK f \in Nat : PresentAt(r, f, P, Q)
  BY DEF Present
<1>2. KnowsAt(s, f)
  BY <1>1, SweepKnows DEF PresentAt
<1>3. PresentAt(s, f, P, Q)
  BY <1>1, <1>2 DEF PresentAt, Behind
<1> QED
  BY <1>3 DEF Present, BatchPresent, InBatch

(* What a step of a run completes is in P and in Q.                          *)
Completes(i, P, Q) ==
  /\ Flush(i) /\ run'[i] # Idle => \A m \in 1..Len(run[i].buffer) : run[i].buffer[m] \in P
  /\ LoadProfile(i) /\ run'[i].pc = "profiles" => run[i].buffer[run[i].at] \in Q
  /\ WriteProfile(i) /\ run'[i] # Idle => run[i].buffer[run[i].at] \in Q

LEMMA RunsPresent ==
  ASSUME IInv, NEW i \in Importers, NEW P, NEW Q, run[i] # Idle => Present(run[i], P, Q),
         Completes(i, P, Q),
         (\E x \in Extracts : StartImport(i, x)) \/ RunStep(i) \/ Dies(i)
  PROVE  run'[i] # Idle => Present(run'[i], P, Q)
<1>1. PICK r : r = run[i]
  OBVIOUS
<1>2. r # Idle => Sound(r) /\ Present(r, P, Q)
  BY <1>1, RunningType
<1>3. ASSUME NEW s, Goto(i, s), s = Idle \/ Present(s, P, Q)
      PROVE  run'[i] # Idle => Present(run'[i], P, Q)
  BY <1>3 DEF Goto, IInv, TypeOK
<1>4. CASE \E x \in Extracts : StartImport(i, x)
  <2>1. PICK x \in Extracts : StartImport(i, x)
    BY <1>4
  <2>2. PICK s : s = [pc |-> "reading", extract |-> x, todo |-> x, buffer |-> << >>,
                      pending |-> << >>, touched |-> {}, at |-> 1, base |-> NoRow]
    OBVIOUS
  <2>3. s.extract \in Seq(Element)
    BY <2>2, ExtractAssumption
  <2>4. Present(s, P, Q)
    BY <2>2, <2>3, StartPresent
  <2> QED
    BY <1>3, <2>1, <2>2, <2>4 DEF StartImport
<1>5. CASE ReadElement(i)
  <2>1. r.pc = "reading" /\ r.todo # << >> /\ Sound(r) /\ Present(r, P, Q)
    BY <1>1, <1>2, <1>5 DEF ReadElement, Idle
  <2>2. PICK s : s = IF Head(r.todo).data = Dropped
                     THEN [r EXCEPT !.todo = Tail(@)]
                     ELSE [r EXCEPT !.todo = Tail(@), !.buffer = Append(@, Head(r.todo)),
                                    !.pending = Append(@, Head(r.todo).rating)]
    OBVIOUS
  <2>3. Goto(i, s)
    BY <1>1, <1>5, <2>2 DEF ReadElement
  <2>4. /\ s.pc = "reading" /\ s.extract = r.extract /\ s.touched = r.touched /\ s.todo = Tail(r.todo)
        /\ s.buffer = IF Head(r.todo).data = Dropped THEN r.buffer ELSE Append(r.buffer, Head(r.todo))
    BY <2>1, <2>2 DEF Sound, Run
  <2>5. Present(s, P, Q)
    BY <2>1, <2>4, ReadPresent
  <2> QED
    BY <1>3, <2>3, <2>5
<1>6. CASE Flush(i)
  <2>1. CASE Goto(i, Idle)
    BY <1>3, <2>1
  <2>2. CASE Goto(i, [r EXCEPT !.pc = "profiles", !.at = 1])
    <3>1. r.pc = "reading" /\ Sound(r) /\ Present(r, P, Q)
      BY <1>1, <1>2, <1>6 DEF Flush, Idle
    <3>2. PICK s : s = [r EXCEPT !.pc = "profiles", !.at = 1]
      OBVIOUS
    <3>3. /\ s.pc = "profiles" /\ s.at = 1 /\ s.extract = r.extract /\ s.touched = r.touched
          /\ s.todo = r.todo /\ s.buffer = r.buffer
      BY <3>1, <3>2 DEF Sound, Run
    <3>4. run'[i] = s /\ s # Idle
      BY <2>2, <3>2, <3>3 DEF Goto, Idle, IInv, TypeOK
    <3>5. Present(s, P, Q)
      BY <1>1, <1>6, <3>1, <3>3, <3>4, FlushPresent DEF Completes
    <3> QED
      BY <1>3, <2>2, <3>2, <3>5
  <2> QED
    BY <1>1, <1>6, <2>1, <2>2 DEF Flush
<1>7. CASE LoadProfile(i)
  <2>1. r.pc = "profiles" /\ r.at <= Len(r.buffer) /\ Sound(r) /\ Present(r, P, Q)
    BY <1>1, <1>2, <1>7 DEF LoadProfile, Idle
  <2>2. PICK row : row = profile[r.buffer[r.at].id]
    OBVIOUS
  <2>3. CASE Goto(i, [r EXCEPT !.at = @ + 1, !.touched = Touched(r)])
    <3>1. PICK s : s = [r EXCEPT !.at = @ + 1, !.touched = Touched(r)]
      OBVIOUS
    <3>2. /\ s.pc = "profiles" /\ s.at = r.at + 1 /\ s.extract = r.extract /\ s.touched = Touched(r)
          /\ s.todo = r.todo /\ s.buffer = r.buffer
      BY <2>1, <3>1 DEF Sound, Run
    <3>3. run'[i] = s
      BY <2>3, <3>1 DEF Goto, IInv, TypeOK
    <3>4. Present(s, P, Q)
      BY <1>1, <1>7, <2>1, <3>2, <3>3, LoadPresent DEF Completes
    <3> QED
      BY <1>3, <2>3, <3>1, <3>4
  <2>4. CASE Goto(i, [r EXCEPT !.pc = "writing", !.base = row, !.touched = Touched(r)])
    <3>1. PICK s : s = [r EXCEPT !.pc = "writing", !.base = row, !.touched = Touched(r)]
      OBVIOUS
    <3>2. /\ s.pc = "writing" /\ s.at = r.at /\ s.extract = r.extract /\ s.touched = Touched(r)
          /\ s.todo = r.todo /\ s.buffer = r.buffer
      BY <2>1, <3>1 DEF Sound, Run
    <3>3. Present(s, P, Q)
      BY <2>1, <3>2, LoadPresent
    <3> QED
      BY <1>3, <2>4, <3>1, <3>3
  <2> QED
    BY <1>1, <1>7, <2>2, <2>3, <2>4 DEF LoadProfile
<1>8. CASE WriteProfile(i)
  <2>1. CASE Goto(i, Idle)
    BY <1>3, <2>1
  <2>2. CASE Goto(i, [r EXCEPT !.pc = "profiles", !.at = @ + 1, !.base = NoRow])
    <3>1. r.pc = "writing" /\ Sound(r) /\ Present(r, P, Q)
      BY <1>1, <1>2, <1>8 DEF WriteProfile, Idle
    <3>2. PICK s : s = [r EXCEPT !.pc = "profiles", !.at = @ + 1, !.base = NoRow]
      OBVIOUS
    <3>3. /\ s.pc = "profiles" /\ s.at = r.at + 1 /\ s.extract = r.extract /\ s.touched = r.touched
          /\ s.todo = r.todo /\ s.buffer = r.buffer
      BY <3>1, <3>2 DEF Sound, Run
    <3>4. run'[i] = s /\ s # Idle
      BY <2>2, <3>2, <3>3 DEF Goto, Idle, IInv, TypeOK
    <3>5. Present(s, P, Q)
      BY <1>1, <1>8, <3>1, <3>3, <3>4, WritePresent DEF Completes
    <3> QED
      BY <1>3, <2>2, <3>2, <3>5
  <2> QED
    BY <1>1, <1>8, <2>1, <2>2 DEF WriteProfile
<1>9. CASE EndBatch(i)
  <2>1. r.pc = "profiles" /\ r.at > Len(r.buffer) /\ Sound(r) /\ Present(r, P, Q)
    BY <1>1, <1>2, <1>9 DEF EndBatch, Idle
  <2>2. PICK s : s = Cleared(r)
    OBVIOUS
  <2>3. /\ s.pc = "reading" /\ s.extract = r.extract /\ s.touched = r.touched
        /\ s.todo = r.todo /\ s.buffer = << >>
    BY <2>1, <2>2 DEF Cleared, Sound, Run
  <2>4. Present(s, P, Q)
    BY <2>1, <2>3, EndPresent
  <2> QED
    BY <1>1, <1>3, <1>9, <2>2, <2>4 DEF EndBatch
<1>10. CASE BeginSweep(i)
  <2>1. r.pc = "reading" /\ r.todo = << >> /\ ~FlushDue(r) /\ Sound(r) /\ Present(r, P, Q)
    BY <1>1, <1>2, <1>10 DEF BeginSweep, Idle
  <2>2. PICK s : s = [r EXCEPT !.pc = "sweeping"]
    OBVIOUS
  <2>3. /\ s.pc = "sweeping" /\ s.extract = r.extract /\ s.touched = r.touched
        /\ s.todo = r.todo /\ s.buffer = r.buffer
    BY <2>1, <2>2 DEF Sound, Run
  <2>4. Present(s, P, Q)
    BY <2>1, <2>3, SweepPresent
  <2> QED
    BY <1>1, <1>3, <1>10, <2>2, <2>4 DEF BeginSweep
<1>11. CASE EndRun(i) \/ Dies(i)
  BY <1>3, <1>11 DEF EndRun, Dies
<1> QED
  BY <1>4, <1>5, <1>6, <1>7, <1>8, <1>9, <1>10, <1>11 DEF RunStep

(* The runs have behind them what is in P and Q, if it stays there.          *)
LEMMA PresentInductive ==
  ASSUME IInv, [Next]_vars, NEW P, NEW Q, NEW P1, NEW Q1, P \subseteq P1, Q \subseteq Q1,
         \A i \in Importers : run[i] # Idle => Present(run[i], P, Q),
         \A i \in Importers : Completes(i, P1, Q1)
  PROVE  \A i \in Importers : run'[i] # Idle => Present(run'[i], P1, Q1)
<1>1. \A i \in Importers : run[i] # Idle => Present(run[i], P1, Q1)
  BY PresentStays
<1> SUFFICES ASSUME NEW j \in Importers, run'[j] # Idle
             PROVE  Present(run'[j], P1, Q1)
  OBVIOUS
<1>2. CASE run'[j] = run[j]
  BY <1>1, <1>2
<1>3. ASSUME NEW i \in Importers,
             (\E x \in Extracts : StartImport(i, x)) \/ RunStep(i) \/ Dies(i)
      PROVE  Present(run'[j], P1, Q1)
  <2>1. CASE i = j
    BY <1>1, <1>3, <2>1, RunsPresent
  <2>2. CASE i # j
    <3>1. \E s : Goto(i, s)
      BY <1>3 DEF StartImport, RunStep, ReadElement, Flush, LoadProfile, WriteProfile, EndBatch,
                  BeginSweep, EndRun, Dies
    <3>2. run'[j] = run[j]
      BY <2>2, <3>1 DEF Goto, IInv, TypeOK
    <3> QED
      BY <1>2, <3>2
  <2> QED
    BY <2>1, <2>2
<1>4. CASE \E e \in Elements : \/ \E data \in Data : PostPlace(e, data)
                               \/ \E rating \in Ratings : PatchProfile(e, rating)
  BY <1>2, <1>4 DEF PostPlace, PatchProfile
<1>5. CASE UNCHANGED vars
  BY <1>2, <1>5 DEF vars
<1> QED
  BY <1>3, <1>4, <1>5 DEF Next

(* What is in the hands of a run at its sweep.                              *)
LEMMA PresentAtSweep ==
  ASSUME IInv, NEW i \in Importers, run[i].pc = "sweeping",
         NEW P, NEW Q, run[i] # Idle => Present(run[i], P, Q)
  PROVE  LET x == run[i].extract
         IN /\ run[i].touched = {x[n].id : n \in Listed(x)}
            /\ \A n \in Listed(x) : x[n] \in P /\ x[n] \in Q
<1>1. PICK r : r = run[i]
  OBVIOUS
<1>2. Sound(r) /\ Present(r, P, Q) /\ r.pc = "sweeping"
  BY <1>1, RunningType DEF Idle
<1>3. PICK f \in Nat : PresentAt(r, f, P, Q) /\ KnowsAt(r, f)
  BY <1>2 DEF Present, PresentAt
<1>4. Behind(r, f) = Listed(r.extract) /\ Begun(r) = {}
  BY <1>2, <1>3, SweepIsBehind
<1> QED
  BY <1>1, <1>3, <1>4 DEF PresentAt, KnowsAt, TouchedIs

(* A step of a run leaves its places, and the profile due, as the file says. *)
LEMMA FlushedIsDone ==
  ASSUME IInv, NEW i \in Importers, Flush(i), run'[i] # Idle,
         NEW b, b = run[i].buffer, NEW m \in 1..Len(b)
  PROVE  b[m] \in Kept /\ PlaceDone(b[m])'
<1>1. b \in Seq(Kept)
  BY RunningType DEF Flush, Sound, InStep
<1>2. DOMAIN b = 1..Len(b) /\ \A l \in 1..Len(b) : b[l] \in Kept
  BY <1>1
<1>3. /\ ~(Cardinality(Ids(b)) < Len(b))
      /\ place' = [e \in Elements |->
                     IF e \in Ids(b) THEN (CHOOSE x \in Range(b) : x.id = e).data ELSE place[e]]
  BY DEF Flush, Goto, IInv, TypeOK
<1>4. \A k, l \in 1..Len(b) : b[k].id = b[l].id => k = l
  BY <1>1, <1>3, BatchOfDifferent
<1>5. b[m].id \in Ids(b) /\ b[m].id \in Elements
  BY <1>2 DEF Ids, Kept
<1>6. (CHOOSE x \in Range(b) : x.id = b[m].id) = b[m]
  <2>1. \A x \in Range(b) : x.id = b[m].id => x = b[m]
    BY <1>2, <1>4 DEF Range
  <2>2. b[m] \in Range(b)
    BY <1>2 DEF Range
  <2> QED
    BY <2>1, <2>2
<1> QED
  BY <1>2, <1>3, <1>5, <1>6 DEF PlaceDone

LEMMA SkippedIsDone ==
  ASSUME IInv, NEW i \in Importers, LoadProfile(i), run'[i].pc = "profiles",
         NEW e, e = run[i].buffer[run[i].at]
  PROVE  e \in Kept /\ ProfileDone(e)'
<1>1. PICK r : r = run[i]
  OBVIOUS
<1>2. Sound(r) /\ r \in Run /\ r.pc = "profiles" /\ r.at <= Len(r.buffer) /\ profile' = profile
  BY <1>1, RunningType DEF LoadProfile, Sound
<1>3. r.at \in 1..Len(r.buffer) /\ e \in Kept
  BY <1>1, <1>2, RunParts DEF Sound, Bounded
<1>4. r.pending[r.at] = e.rating
  BY <1>1, <1>2, <1>3 DEF Sound, InStep
<1>5. CASE Goto(i, [r EXCEPT !.pc = "writing", !.base = profile[e.id], !.touched = Touched(r)])
  <2>1. run'[i].pc = "writing"
    BY <1>2, <1>5 DEF Goto, Run, IInv, TypeOK
  <2> QED
    BY <2>1
<1>6. CASE r.pending[r.at] = Nil \/ (profile[e.id] # NoRow /\ profile[e.id].verified)
  BY <1>2, <1>3, <1>4, <1>6 DEF ProfileDone
<1> QED
  BY <1>1, <1>5, <1>6 DEF LoadProfile

LEMMA WrittenIsDone ==
  ASSUME IInv, NEW i \in Importers, WriteProfile(i), run'[i] # Idle,
         NEW e, e = run[i].buffer[run[i].at]
  PROVE  /\ e \in Kept /\ ProfileDone(e)'
         /\ \A d \in Elements : d # e.id => profile'[d] = profile[d]
<1>1. PICK r : r = run[i]
  OBVIOUS
<1>2. Sound(r) /\ r.pc = "writing"
  BY <1>1, RunningType DEF WriteProfile
<1>3. r.at \in 1..Len(r.buffer) /\ e \in Kept /\ e.id \in Elements
  BY <1>1, <1>2, RunParts DEF Sound, Bounded, Kept
<1>4. r.pending[r.at] = e.rating
  BY <1>1, <1>2, <1>3 DEF Sound, InStep
<1>5. PICK verified : profile' = [profile EXCEPT ![e.id] = [rating |-> r.pending[r.at], verified |-> verified]]
  BY <1>1 DEF WriteProfile, Goto, IInv, TypeOK
<1>6. profile'[e.id] = [rating |-> e.rating, verified |-> verified]
  BY <1>3, <1>4, <1>5 DEF IInv, TypeOK
<1>7. profile'[e.id] # NoRow
  BY <1>6 DEF NoRow
<1> QED
  BY <1>3, <1>5, <1>6, <1>7 DEF ProfileDone, IInv, TypeOK

----------------------------------------------------------------------------
(* Importers over the same elements or not: another run may have the last   *)
(* word on what a row says, but no run and no client removes a row.         *)

Placed == {e \in Kept : place[e.id] # NoRow}
Rated == {e \in Kept : e.rating # Nil => profile[e.id] # NoRow}

PresentInv == \A i \in Importers : run[i] # Idle => Present(run[i], Placed, Rated)

(* A run that reaches its sweep has been through its whole file: each of    *)
(* its places has a row, each of its ratings a profile, and the sweep is    *)
(* given these places and no others.                                        *)
SweepsKnowTheirPlaces ==
  \A i \in Importers : run[i].pc = "sweeping" =>
    LET x == run[i].extract
    IN /\ run[i].touched = {x[n].id : n \in Listed(x)}
       /\ \A n \in Listed(x) : x[n] \in Placed /\ x[n] \in Rated

RowsStay(p, q, p1, q1) ==
  \A e \in Elements : (p[e] # NoRow => p1[e] # NoRow) /\ (q[e] # NoRow => q1[e] # NoRow)

LEMMA NothingIsRemoved ==
  ASSUME IInv, [Next]_vars
  PROVE  RowsStay(place, profile, place', profile')
<1>1. \A data \in Data : data # NoRow
  BY AbsenceAssumption
<1>2. \A row \in ProfileRow : row # NoRow
  BY DEF ProfileRow, NoRow
<1>3. place' \in [Elements -> Data \cup {NoRow}] /\ profile' \in [Elements -> ProfileRow \cup {NoRow}]
  BY Inductive DEF IInv, TypeOK
<1>4. CASE UNCHANGED <<place, profile>>
  BY <1>4 DEF RowsStay
<1>5. ASSUME NEW i \in Importers, Flush(i)
      PROVE  RowsStay(place, profile, place', profile')
  <2>1. PICK b : b = run[i].buffer
    OBVIOUS
  <2>2. b \in Seq(Kept)
    BY <1>5, <2>1, RunningType DEF Flush, Sound, InStep
  <2>3. CASE place' = [e \in Elements |->
                         IF e \in Ids(b) THEN (CHOOSE x \in Range(b) : x.id = e).data ELSE place[e]]
    <3>1. \A e \in Elements : place'[e] \in Data \/ place'[e] = place[e]
      BY <2>2, <2>3, RowOfBatch
    <3> QED
      BY <1>1, <1>5, <3>1 DEF RowsStay, Flush
  <2>4. CASE place' = place
    BY <1>5, <2>4 DEF RowsStay, Flush
  <2> QED
    BY <1>5, <2>1, <2>3, <2>4 DEF Flush
<1>6. ASSUME NEW i \in Importers, WriteProfile(i)
      PROVE  RowsStay(place, profile, place', profile')
  <2>1. PICK e, rating, verified :
             \/ profile' = profile
             \/ profile' = [profile EXCEPT ![e] = [rating |-> rating, verified |-> verified]]
    BY <1>6 DEF WriteProfile
  <2>2. [rating |-> rating, verified |-> verified] # NoRow
    BY DEF NoRow
  <2>3. \A x \in Elements : profile[x] # NoRow => profile'[x] # NoRow
    BY <2>1, <2>2 DEF IInv, TypeOK
  <2> QED
    BY <1>6, <2>3 DEF RowsStay, WriteProfile
<1>7. ASSUME NEW e \in Elements, NEW data \in Data, PostPlace(e, data)
      PROVE  RowsStay(place, profile, place', profile')
  BY <1>1, <1>7 DEF PostPlace, RowsStay, IInv, TypeOK
<1>8. ASSUME NEW e \in Elements, NEW rating \in Ratings, PatchProfile(e, rating)
      PROVE  RowsStay(place, profile, place', profile')
  <2>1. [rating |-> rating, verified |-> TRUE] # NoRow
    BY DEF NoRow
  <2>2. \A x \in Elements : profile[x] # NoRow => profile'[x] # NoRow
    BY <1>8, <2>1 DEF PatchProfile, IInv, TypeOK
  <2> QED
    BY <1>8, <2>2 DEF RowsStay, PatchProfile
<1>9. ASSUME NEW i \in Importers,
             \/ \E x \in Extracts : StartImport(i, x)
             \/ ReadElement(i) \/ LoadProfile(i) \/ EndBatch(i) \/ BeginSweep(i) \/ EndRun(i) \/ Dies(i)
      PROVE  UNCHANGED <<place, profile>>
  BY <1>9 DEF StartImport, ReadElement, LoadProfile, EndBatch, BeginSweep, EndRun, Dies
<1> QED
  BY <1>4, <1>5, <1>6, <1>7, <1>8, <1>9 DEF Next, RunStep, vars

LEMMA RowsPresent == IInv /\ PresentInv /\ [Next]_vars => PresentInv'
<1> SUFFICES ASSUME IInv, PresentInv, [Next]_vars PROVE PresentInv'
  OBVIOUS
<1>1. PICK P, Q : P = Placed' /\ Q = Rated'
  OBVIOUS
<1>2. Placed \subseteq P /\ Rated \subseteq Q
  BY <1>1, NothingIsRemoved DEF RowsStay, Placed, Rated, Kept
<1>3. \A e \in Kept : (PlaceDone(e)' => e \in P) /\ (ProfileDone(e)' => e \in Q)
  BY <1>1, AbsenceAssumption DEF PlaceDone, ProfileDone, Placed, Rated, Kept
<1>4. \A i \in Importers : Completes(i, P, Q)
  BY <1>3, FlushedIsDone, SkippedIsDone, WrittenIsDone DEF Completes
<1> QED
  BY <1>1, <1>2, <1>4, PresentInductive DEF PresentInv

(* However many importers work beside each other, over one file or several, *)
(* and whatever failed before, a run that reaches its sweep has a row for   *)
(* every place and every rating of its file, and reconsiders these places   *)
(* and no others: a buffer flushed twice, a batch lost or a place of        *)
(* another run's file in the list of touched places would break this.       *)
THEOREM RunsBesideEachOther == Spec => []SweepsKnowTheirPlaces
<1>1. Init => PresentInv
  BY DEF Init, PresentInv
<1>2. IInv /\ PresentInv /\ [Next]_vars => IInv' /\ PresentInv'
  BY Inductive, RowsPresent
<1>3. IInv /\ PresentInv => SweepsKnowTheirPlaces
  BY PresentAtSweep DEF PresentInv, SweepsKnowTheirPlaces
<1> QED
  BY <1>1, <1>2, <1>3, Initially, PTL DEF Spec

----------------------------------------------------------------------------
(* Importers whose files agree, for example two runs of one file: none has  *)
(* another last word.                                                       *)

Mentioned == {e \in Kept : \E x \in Extracts : \E n \in Listed(x) : x[n] = e}
Agreement == \A e, d \in Mentioned : e.id = d.id => e = d

PlacesDone == {e \in Mentioned : PlaceDone(e)}
ProfilesDone == {e \in Mentioned : ProfileDone(e)}

DoneInv == \A i \in Importers : run[i] # Idle => Present(run[i], PlacesDone, ProfilesDone)

LEMMA BatchIsMentioned ==
  ASSUME NEW r, Sound(r), NEW P, NEW Q, Present(r, P, Q), NEW m \in 1..Len(r.buffer)
  PROVE  r.buffer[m] \in Mentioned
<1>1. r.extract \in Extracts /\ r.buffer[m] \in Kept
  BY RunParts DEF Sound, Run
<1>2. PICK f \in Nat : BufferHolds(r, f)
  BY DEF Present, PresentAt, KnowsAt
<1>3. PICK n \in Listed(r.extract) : r.buffer[m] = r.extract[n]
  BY <1>2 DEF BufferHolds, Waiting
<1> QED
  BY <1>1, <1>3 DEF Mentioned

(* What another run writes of an element is what the file of this one says. *)
LEMMA DoneStays ==
  ASSUME Agreement, IInv, DoneInv, [Next]_vars, NEW e \in Mentioned
  PROVE  (PlaceDone(e) => PlaceDone(e)') /\ (ProfileDone(e) => ProfileDone(e)')
<1>1. e \in Kept /\ e.id \in Elements
  BY DEF Mentioned, Kept
<1>2. CASE UNCHANGED <<place, profile>>
  BY <1>2 DEF PlaceDone, ProfileDone
<1>3. ASSUME NEW i \in Importers, Flush(i)
      PROVE  (PlaceDone(e) => PlaceDone(e)') /\ (ProfileDone(e) => ProfileDone(e)')
  <2>1. PICK r, b : r = run[i] /\ b = r.buffer
    OBVIOUS
  <2>2. Sound(r) /\ Present(r, PlacesDone, ProfilesDone) /\ r.pc = "reading" /\ profile' = profile
    BY <1>3, <2>1, RunningType DEF Flush, DoneInv
  <2>3. CASE place' = place
    BY <1>2, <2>2, <2>3
  <2>4. CASE /\ place' = [x \in Elements |->
                            IF x \in Ids(b) THEN (CHOOSE y \in Range(b) : y.id = x).data ELSE place[x]]
             /\ Goto(i, [r EXCEPT !.pc = "profiles", !.at = 1])
    <3>1. run'[i] # Idle
      <4>1. run'[i].pc = "profiles"
        BY <2>2, <2>4 DEF Goto, Sound, Run, IInv, TypeOK
      <4> QED
        BY <4>1 DEF Idle
    <3>2. CASE e.id \in Ids(b)
      <4>1. PICK m \in 1..Len(b) : b[m].id = e.id
        <5>1. DOMAIN b = 1..Len(b)
          BY <2>1, <2>2, RunParts
        <5> QED
          BY <3>2, <5>1 DEF Ids
      <4>2. b[m] = e
        BY <2>1, <2>2, <4>1, BatchIsMentioned DEF Agreement
      <4>3. PlaceDone(b[m])'
        BY <1>3, <2>1, <3>1, FlushedIsDone
      <4> QED
        BY <2>2, <4>2, <4>3 DEF ProfileDone, PlaceDone
    <3>3. CASE e.id \notin Ids(b)
      BY <1>1, <2>2, <2>4, <3>3 DEF PlaceDone, ProfileDone
    <3> QED
      BY <3>2, <3>3
  <2> QED
    BY <1>3, <2>1, <2>3, <2>4 DEF Flush
<1>4. ASSUME NEW i \in Importers, WriteProfile(i)
      PROVE  (PlaceDone(e) => PlaceDone(e)') /\ (ProfileDone(e) => ProfileDone(e)')
  <2>1. PICK r, d : r = run[i] /\ d = r.buffer[r.at]
    OBVIOUS
  <2>2. Sound(r) /\ Present(r, PlacesDone, ProfilesDone) /\ r.pc = "writing" /\ place' = place
    BY <1>4, <2>1, RunningType DEF WriteProfile, DoneInv
  <2>3. CASE profile' = profile
    BY <1>2, <2>2, <2>3
  <2>4. CASE run'[i] # Idle
    <3>1. d \in Mentioned
      BY <2>1, <2>2, BatchIsMentioned DEF Sound, Bounded
    <3>2. ProfileDone(d)' /\ \A x \in Elements : x # d.id => profile'[x] = profile[x]
      BY <1>4, <2>1, <2>4, WrittenIsDone
    <3>3. e = d \/ profile'[e.id] = profile[e.id]
      BY <1>1, <3>1, <3>2 DEF Agreement
    <3> QED
      BY <2>2, <3>2, <3>3 DEF PlaceDone, ProfileDone
  <2>5. profile' = profile \/ run'[i] # Idle
    <3>1. CASE Goto(i, [r EXCEPT !.pc = "profiles", !.at = @ + 1, !.base = NoRow])
      <4>1. run'[i].pc = "profiles"
        BY <2>2, <3>1 DEF Goto, Sound, Run, IInv, TypeOK
      <4> QED
        BY <4>1 DEF Idle
    <3> QED
      BY <1>4, <2>1, <3>1 DEF WriteProfile
  <2> QED
    BY <2>3, <2>4, <2>5
<1>5. ASSUME NEW x \in Elements, \/ \E data \in Data : PostPlace(x, data)
                                 \/ \E rating \in Ratings : PatchProfile(x, rating)
      PROVE  (PlaceDone(e) => PlaceDone(e)') /\ (ProfileDone(e) => ProfileDone(e)')
  BY <1>1, <1>5, ClientsUndoNothing
<1>6. ASSUME NEW i \in Importers,
             \/ \E x \in Extracts : StartImport(i, x)
             \/ ReadElement(i) \/ LoadProfile(i) \/ EndBatch(i) \/ BeginSweep(i) \/ EndRun(i) \/ Dies(i)
      PROVE  UNCHANGED <<place, profile>>
  BY <1>6 DEF StartImport, ReadElement, LoadProfile, EndBatch, BeginSweep, EndRun, Dies
<1> QED
  BY <1>2, <1>3, <1>4, <1>5, <1>6 DEF Next, RunStep, vars

LEMMA DonePresent == Agreement /\ IInv /\ DoneInv /\ [Next]_vars => DoneInv'
<1> SUFFICES ASSUME Agreement, IInv, DoneInv, [Next]_vars PROVE DoneInv'
  OBVIOUS
<1>1. PICK P, Q : P = PlacesDone' /\ Q = ProfilesDone'
  OBVIOUS
<1>2. PlacesDone \subseteq P /\ ProfilesDone \subseteq Q
  BY <1>1, DoneStays DEF PlacesDone, ProfilesDone
<1>3. \A e \in Mentioned : (PlaceDone(e)' => e \in P) /\ (ProfileDone(e)' => e \in Q)
  BY <1>1 DEF PlacesDone, ProfilesDone
<1>4. ASSUME NEW i \in Importers
      PROVE  Completes(i, P, Q)
  <2>1. PICK r : r = run[i]
    OBVIOUS
  <2>2. ASSUME r.pc # "idle"
        PROVE  \A m \in 1..Len(r.buffer) : r.buffer[m] \in Mentioned
    BY <2>1, <2>2, RunningType, BatchIsMentioned DEF DoneInv
  <2>3. ASSUME r.pc \in {"profiles", "writing"}, r.pc = "profiles" => r.at <= Len(r.buffer)
        PROVE  r.at \in 1..Len(r.buffer)
    BY <2>1, <2>3, RunningType, RunParts DEF Sound, Bounded
  <2>4. Flush(i) /\ run'[i] # Idle => \A m \in 1..Len(r.buffer) : r.buffer[m] \in P
    BY <1>3, <2>1, <2>2, FlushedIsDone DEF Flush
  <2>5. LoadProfile(i) /\ run'[i].pc = "profiles" => r.buffer[r.at] \in Q
    BY <1>3, <2>1, <2>2, <2>3, SkippedIsDone DEF LoadProfile
  <2>6. WriteProfile(i) /\ run'[i] # Idle => r.buffer[r.at] \in Q
    BY <1>3, <2>1, <2>2, <2>3, WrittenIsDone DEF WriteProfile
  <2> QED
    BY <2>1, <2>4, <2>5, <2>6 DEF Completes
<1> QED
  BY <1>1, <1>2, <1>4, PresentInductive DEF DoneInv

(* However many runs of files that agree overlap, fail, die and are started *)
(* again, each one that reaches its sweep has done its work, whatever the   *)
(* clients write beside it.                                                 *)
THEOREM AgreeingRunsComplete ==
  ASSUME Agreement
  PROVE  Spec => []CompleteRunIsComplete
<1>1. Init => DoneInv
  BY DEF Init, DoneInv
<1>2. IInv /\ DoneInv /\ [Next]_vars => IInv' /\ DoneInv'
  BY Inductive, DonePresent
<1>3. IInv /\ DoneInv => CompleteRunIsComplete
  <2> SUFFICES ASSUME IInv, DoneInv, NEW i \in Importers, run[i].pc = "sweeping"
               PROVE  LET x == run[i].extract
                      IN /\ run[i].touched = {x[n].id : n \in Listed(x)}
                         /\ \A n \in Listed(x) : PlaceDone(x[n]) /\ ProfileDone(x[n])
    BY DEF CompleteRunIsComplete, PlaceDone, ProfileDone
  <2>1. PICK P, Q : P = PlacesDone /\ Q = ProfilesDone
    OBVIOUS
  <2>2. run[i] # Idle => Present(run[i], P, Q)
    BY <2>1 DEF DoneInv
  <2>3. PICK x : x = run[i].extract
    OBVIOUS
  <2>4. run[i].touched = {x[n].id : n \in Listed(x)} /\ \A n \in Listed(x) : x[n] \in P /\ x[n] \in Q
    BY <2>2, <2>3, PresentAtSweep
  <2>5. \A n \in Listed(x) : PlaceDone(x[n]) /\ ProfileDone(x[n])
    BY <2>1, <2>4 DEF PlacesDone, ProfilesDone
  <2> QED
    BY <2>3, <2>4, <2>5
<1> QED
  BY <1>1, <1>2, <1>3, Initially, PTL DEF Spec

----------------------------------------------------------------------------
(* How far a run is from its end: each element costs at most five steps,    *)
(* one into the buffer and four for the batch and the profile it is in.     *)
StepsLeft(r) ==
  CASE r = Idle            -> 0
    [] r.pc = "reading"    -> 5 * Len(r.todo) + 4 * Len(r.buffer) + 2
    [] r.pc = "profiles"   -> 5 * Len(r.todo) + 2 * (Len(r.buffer) + 1 - r.at) + 3
    [] r.pc = "writing"    -> 5 * Len(r.todo) + 2 * (Len(r.buffer) + 1 - r.at) + 2
    [] r.pc = "sweeping"   -> 5 * Len(r.todo) + 1

(* A run begins with at most five steps for each element and two, and every *)
(* step it takes, whether it fails or not, brings it closer to its end.     *)
EveryStepCounts ==
  \A i \in Importers :
    /\ StepsLeft(run[i]) \in Nat
    /\ run[i] = Idle /\ run'[i] # Idle => StepsLeft(run'[i]) = 5 * Len(run'[i].extract) + 2
    /\ run[i] # Idle /\ run'[i] # run[i] => StepsLeft(run'[i]) < StepsLeft(run[i])

LEMMA StepsOfRun ==
  ASSUME NEW r, Sound(r)
  PROVE  /\ r # Idle /\ StepsLeft(r) \in Nat /\ StepsLeft(r) > 0
         /\ r.pc = "reading" => StepsLeft(r) = 5 * Len(r.todo) + 4 * Len(r.buffer) + 2
         /\ r.pc = "profiles" => StepsLeft(r) = 5 * Len(r.todo) + 2 * (Len(r.buffer) + 1 - r.at) + 3
         /\ r.pc = "writing" => StepsLeft(r) = 5 * Len(r.todo) + 2 * (Len(r.buffer) + 1 - r.at) + 2
         /\ r.pc = "sweeping" => StepsLeft(r) = 5 * Len(r.todo) + 1
<1>1. r \in Run /\ Bounded(r)
  BY DEF Sound
<1>2. r.pc \in {"reading", "profiles", "writing", "sweeping"} /\ r # Idle
  BY <1>1, IdleIsNoRun DEF Run
<1>3. r.todo \in Seq(Element) /\ r.buffer \in Seq(Element) /\ r.at \in Nat
  BY <1>1 DEF Run
<1>4. PICK t \in Nat, b \in Nat : t = Len(r.todo) /\ b = Len(r.buffer)
  BY <1>3
<1>5. /\ r.pc = "profiles" => r.at \in 1..b + 1
      /\ r.pc = "writing" => r.at \in 1..b
  BY <1>1, <1>4 DEF Bounded
<1>6. /\ r.pc = "reading" => StepsLeft(r) = 5 * t + 4 * b + 2
      /\ r.pc = "profiles" => StepsLeft(r) = 5 * t + 2 * (b + 1 - r.at) + 3
      /\ r.pc = "writing" => StepsLeft(r) = 5 * t + 2 * (b + 1 - r.at) + 2
      /\ r.pc = "sweeping" => StepsLeft(r) = 5 * t + 1
  BY <1>2, <1>4 DEF StepsLeft
<1>7. StepsLeft(r) \in Nat /\ StepsLeft(r) > 0
  BY <1>2, <1>3, <1>5, <1>6
<1> QED
  BY <1>2, <1>4, <1>6, <1>7

LEMMA IdleHasNone == StepsLeft(Idle) = 0
BY DEF StepsLeft, Idle

(* What a run goes over to is idle or sound.                                *)
LEMMA RunBecomes ==
  ASSUME IInv, [Next]_vars, NEW i \in Importers, NEW s, Goto(i, s)
  PROVE  run'[i] = s /\ (s = Idle \/ Sound(s))
<1>1. run'[i] = s
  BY DEF Goto, IInv, TypeOK
<1>2. IInv'
  BY Inductive
<1> QED
  BY <1>1, <1>2 DEF IInv, TypeOK, Sound

LEMMA RunShrinks ==
  ASSUME IInv, [Next]_vars, NEW i \in Importers, RunStep(i) \/ Dies(i)
  PROVE  StepsLeft(run'[i]) < StepsLeft(run[i])
<1>1. PICK r : r = run[i]
  OBVIOUS
<1>2. r # Idle /\ Sound(r) /\ r \in Run
  BY <1>1, RunningType DEF RunStep, ReadElement, Flush, LoadProfile, WriteProfile, EndBatch,
                           BeginSweep, EndRun, Dies, Sound, Idle
<1>3. r.todo \in Seq(Element) /\ r.buffer \in Seq(Element) /\ r.at \in Nat
  BY <1>2 DEF Run
<1>4. PICK t \in Nat, b \in Nat : t = Len(r.todo) /\ b = Len(r.buffer)
  BY <1>3
<1>5. ASSUME NEW s, Goto(i, s), Sound(s) => StepsLeft(s) < StepsLeft(r)
      PROVE  StepsLeft(run'[i]) < StepsLeft(run[i])
  BY <1>1, <1>2, <1>5, RunBecomes, StepsOfRun, IdleHasNone
<1>6. Goto(i, Idle) => StepsLeft(run'[i]) < StepsLeft(run[i])
  BY <1>1, <1>2, RunBecomes, StepsOfRun, IdleHasNone
<1>7. CASE ReadElement(i)
  <2>1. r.pc = "reading" /\ r.todo # << >>
    BY <1>1, <1>7 DEF ReadElement
  <2>2. PICK s : s = IF Head(r.todo).data = Dropped
                     THEN [r EXCEPT !.todo = Tail(@)]
                     ELSE [r EXCEPT !.todo = Tail(@), !.buffer = Append(@, Head(r.todo)),
                                    !.pending = Append(@, Head(r.todo).rating)]
    OBVIOUS
  <2>3. Goto(i, s)
    BY <1>1, <1>7, <2>2 DEF ReadElement
  <2>4. /\ s.pc = "reading" /\ s.todo = Tail(r.todo)
        /\ s.buffer = r.buffer \/ s.buffer = Append(r.buffer, Head(r.todo))
    BY <1>2, <2>1, <2>2 DEF Run
  <2>5. t > 0 /\ Len(s.todo) = t - 1 /\ Len(s.buffer) \in {b, b + 1}
    <3>1. Head(r.todo) \in Element
      BY <1>3, <2>1
    <3> QED
      BY <1>3, <1>4, <2>1, <2>4, <3>1
  <2>6. Sound(s) => StepsLeft(s) < StepsLeft(r)
    <3>1. StepsLeft(r) = 5 * t + 4 * b + 2
      BY <1>2, <1>4, <2>1, StepsOfRun
    <3>2. PICK u \in Int, v \in Int : u = Len(s.todo) /\ v = Len(s.buffer)
      BY <2>5
    <3>3. Sound(s) => StepsLeft(s) = 5 * u + 4 * v + 2
      BY <2>4, <3>2, StepsOfRun
    <3>4. u = t - 1 /\ v <= b + 1
      BY <2>5, <3>2
    <3> QED
      BY <3>1, <3>3, <3>4
  <2> QED
    BY <1>5, <2>3, <2>6
<1>8. CASE Flush(i)
  <2>1. r.pc = "reading" /\ FlushDue(r)
    BY <1>1, <1>8 DEF Flush
  <2>2. PICK s : s = [r EXCEPT !.pc = "profiles", !.at = 1]
    OBVIOUS
  <2>3. Goto(i, Idle) \/ Goto(i, s)
    BY <1>1, <1>8, <2>2 DEF Flush
  <2>4. s.pc = "profiles" /\ s.todo = r.todo /\ s.buffer = r.buffer /\ s.at = 1
    BY <1>2, <2>2 DEF Run
  <2>5. b > 0
    BY <1>3, <1>4, <2>1 DEF FlushDue
  <2>6. Sound(s) => StepsLeft(s) < StepsLeft(r)
    <3>1. StepsLeft(r) = 5 * t + 4 * b + 2
      BY <1>2, <1>4, <2>1, StepsOfRun
    <3>2. Sound(s) => StepsLeft(s) = 5 * t + 2 * (b + 1 - 1) + 3
      BY <1>4, <2>4, StepsOfRun
    <3> QED
      BY <2>5, <3>1, <3>2
  <2> QED
    BY <1>5, <1>6, <2>3, <2>6
<1>9. CASE LoadProfile(i)
  <2>1. r.pc = "profiles" /\ StepsLeft(r) = 5 * t + 2 * (b + 1 - r.at) + 3
    BY <1>1, <1>2, <1>4, <1>9, StepsOfRun DEF LoadProfile
  <2>2. PICK row : row = profile[r.buffer[r.at].id]
    OBVIOUS
  <2>3. PICK next : next = [r EXCEPT !.at = @ + 1, !.touched = Touched(r)]
    OBVIOUS
  <2>4. PICK begun : begun = [r EXCEPT !.pc = "writing", !.base = row, !.touched = Touched(r)]
    OBVIOUS
  <2>5. Goto(i, next) \/ Goto(i, begun)
    BY <1>1, <1>9, <2>2, <2>3, <2>4 DEF LoadProfile
  <2>6. /\ next.pc = "profiles" /\ next.todo = r.todo /\ next.buffer = r.buffer /\ next.at = r.at + 1
        /\ begun.pc = "writing" /\ begun.todo = r.todo /\ begun.buffer = r.buffer /\ begun.at = r.at
    BY <1>2, <2>1, <2>3, <2>4 DEF Run
  <2>7. Sound(next) => StepsLeft(next) = 5 * t + 2 * (b + 1 - (r.at + 1)) + 3
    BY <1>4, <2>6, StepsOfRun
  <2>8. Sound(begun) => StepsLeft(begun) = 5 * t + 2 * (b + 1 - r.at) + 2
    BY <1>4, <2>6, StepsOfRun
  <2>9. Sound(next) => StepsLeft(next) < StepsLeft(r)
    BY <1>3, <2>1, <2>7
  <2>10. Sound(begun) => StepsLeft(begun) < StepsLeft(r)
    BY <1>3, <2>1, <2>8
  <2> QED
    BY <1>5, <2>5, <2>9, <2>10
<1>10. CASE WriteProfile(i)
  <2>1. r.pc = "writing" /\ StepsLeft(r) = 5 * t + 2 * (b + 1 - r.at) + 2
    BY <1>1, <1>2, <1>4, <1>10, StepsOfRun DEF WriteProfile
  <2>2. PICK s : s = [r EXCEPT !.pc = "profiles", !.at = @ + 1, !.base = NoRow]
    OBVIOUS
  <2>3. Goto(i, Idle) \/ Goto(i, s)
    BY <1>1, <1>10, <2>2 DEF WriteProfile
  <2>4. s.pc = "profiles" /\ s.todo = r.todo /\ s.buffer = r.buffer /\ s.at = r.at + 1
    BY <1>2, <2>2 DEF Run
  <2>5. Sound(s) => StepsLeft(s) = 5 * t + 2 * (b + 1 - (r.at + 1)) + 3
    BY <1>4, <2>4, StepsOfRun
  <2>6. Sound(s) => StepsLeft(s) < StepsLeft(r)
    BY <1>3, <2>1, <2>5
  <2> QED
    BY <1>5, <1>6, <2>3, <2>6
<1>11. CASE EndBatch(i)
  <2>1. r.pc = "profiles" /\ r.at > b /\ StepsLeft(r) = 5 * t + 2 * (b + 1 - r.at) + 3
    BY <1>1, <1>2, <1>4, <1>11, StepsOfRun DEF EndBatch
  <2>2. r.at = b + 1
    BY <1>2, <1>4, <2>1 DEF Sound, Bounded
  <2>3. PICK s : s = Cleared(r)
    OBVIOUS
  <2>4. s.pc = "reading" /\ s.todo = r.todo /\ s.buffer = << >>
    BY <1>2, <2>3 DEF Run, Cleared
  <2>5. Sound(s) => StepsLeft(s) = 5 * t + 2
    <3>1. Len(s.buffer) = 0
      BY <2>4
    <3>2. Sound(s) => StepsLeft(s) = 5 * t + 4 * Len(s.buffer) + 2
      BY <1>4, <2>4, StepsOfRun
    <3> QED
      BY <3>1, <3>2
  <2>6. Sound(s) => StepsLeft(s) < StepsLeft(r)
    BY <2>1, <2>2, <2>5
  <2> QED
    BY <1>1, <1>5, <1>11, <2>3, <2>6 DEF EndBatch
<1>12. CASE BeginSweep(i)
  <2>1. r.pc = "reading" /\ StepsLeft(r) = 5 * t + 4 * b + 2
    BY <1>1, <1>2, <1>4, <1>12, StepsOfRun DEF BeginSweep
  <2>2. PICK s : s = [r EXCEPT !.pc = "sweeping"]
    OBVIOUS
  <2>3. s.pc = "sweeping" /\ s.todo = r.todo
    BY <1>2, <2>2 DEF Run
  <2>4. Sound(s) => StepsLeft(s) = 5 * t + 1
    BY <1>4, <2>3, StepsOfRun
  <2>5. Sound(s) => StepsLeft(s) < StepsLeft(r)
    BY <2>1, <2>4
  <2> QED
    BY <1>1, <1>5, <1>12, <2>2, <2>5 DEF BeginSweep
<1> QED
  BY <1>6, <1>7, <1>8, <1>9, <1>10, <1>11, <1>12 DEF RunStep, EndRun, Dies

(* A run of a file of n elements ends within 5 * n + 2 steps, however often *)
(* it is interrupted by other runs and by clients: no step of a run leaves  *)
(* it where it was or takes it back.  That a run which has steps left takes *)
(* one is the fairness that RunEnds adds.                                   *)
THEOREM RunsAreFinite == Spec => [][EveryStepCounts]_vars
<1>1. ASSUME IInv, [Next]_vars
      PROVE  EveryStepCounts
  <2> SUFFICES ASSUME NEW i \in Importers
               PROVE  /\ StepsLeft(run[i]) \in Nat
                      /\ run[i] = Idle /\ run'[i] # Idle => StepsLeft(run'[i]) = 5 * Len(run'[i].extract) + 2
                      /\ run[i] # Idle /\ run'[i] # run[i] => StepsLeft(run'[i]) < StepsLeft(run[i])
    BY DEF EveryStepCounts
  <2>1. StepsLeft(run[i]) \in Nat
    <3>1. CASE run[i] = Idle
      BY <3>1, IdleHasNone
    <3>2. CASE run[i] # Idle
      BY <1>1, <3>2, RunningType, StepsOfRun
    <3> QED
      BY <3>1, <3>2
  <2>2. CASE RunStep(i) \/ Dies(i)
    <3>1. run[i].pc # "idle" \/ run[i] # Idle
      BY <2>2 DEF RunStep, ReadElement, Flush, LoadProfile, WriteProfile, EndBatch,
                  BeginSweep, EndRun, Dies
    <3>2. run[i] # Idle
      BY <1>1, <3>1, RunningType
    <3> QED
      BY <1>1, <2>1, <2>2, <3>2, RunShrinks
  <2>3. CASE \E x \in Extracts : StartImport(i, x)
    <3>1. PICK x \in Extracts : StartImport(i, x)
      BY <2>3
    <3>2. PICK s : s = [pc |-> "reading", extract |-> x, todo |-> x, buffer |-> << >>,
                        pending |-> << >>, touched |-> {}, at |-> 1, base |-> NoRow]
      OBVIOUS
    <3>3. Goto(i, s) /\ run[i] = Idle
      BY <3>1, <3>2 DEF StartImport
    <3>4. run'[i] = s /\ (s = Idle \/ Sound(s))
      BY <1>1, <3>3, RunBecomes
    <3>5. s.pc = "reading" /\ s.todo = x /\ s.extract = x /\ s.buffer = << >> /\ s # Idle
      BY <3>2 DEF Idle
    <3>6. StepsLeft(s) = 5 * Len(x) + 4 * Len(s.buffer) + 2 /\ Len(s.buffer) = 0
      BY <3>4, <3>5, StepsOfRun
    <3>7. x \in Seq(Element)
      BY ExtractAssumption
    <3> QED
      BY <2>1, <3>3, <3>4, <3>5, <3>6, <3>7
  <2>4. CASE \E j \in Importers \ {i} : (\E x \in Extracts : StartImport(j, x)) \/ RunStep(j) \/ Dies(j)
    <3>1. run'[i] = run[i]
      BY <1>1, <2>4 DEF RunStep, StartImport, ReadElement, Flush, LoadProfile, WriteProfile, EndBatch,
                        BeginSweep, EndRun, Dies, Goto, IInv, TypeOK
    <3> QED
      BY <2>1, <3>1
  <2>5. CASE \/ UNCHANGED vars
             \/ \E e \in Elements : \/ \E data \in Data : PostPlace(e, data)
                                    \/ \E rating \in Ratings : PatchProfile(e, rating)
    BY <2>1, <2>5 DEF vars, PostPlace, PatchProfile
  <2> QED
    BY <1>1, <2>2, <2>3, <2>4, <2>5 DEF Next
<1>2. IInv /\ [Next]_vars => IInv'
  BY Inductive
<1> QED
  BY <1>1, <1>2, Initially, PTL DEF Spec
=============================================================================
