---------------------------- MODULE ProfileStore ----------------------------
(***************************************************************************)
(* What the accessibility profile of one place promises its writers.  A    *)
(* PATCH that was submitted takes effect in one step, on the profile as it *)
(* is at that moment, or not at all; so does the profile of a POST.  An    *)
(* import that begins while no person has written the profile may replace  *)
(* it once, later; it never clears the mark of a person's write.           *)
(***************************************************************************)
EXTENDS ProfileData

CONSTANT Imports

VARIABLES
  exists,   \* whether the place is there
  row,      \* its profile
  pending,  \* the patch each request has submitted, in a set
  begun     \* imports that may still write

vars == <<exists, row, pending, begun>>

Init ==
  /\ exists \in BOOLEAN
  /\ row \in Earlier(exists)
  /\ pending = [q \in Requests |-> {}]
  /\ begun = {}

CreatePlace(q) ==
  /\ ~exists
  /\ exists' = TRUE
  /\ \/ row' = row
     \/ \E val \in Vals : row' = Profile(val, TRUE, q)
  /\ UNCHANGED <<pending, begun>>

Submit(q) ==
  /\ pending[q] = {}
  /\ \E patch \in Patches : pending' = [pending EXCEPT ![q] = {patch}]
  /\ UNCHANGED <<exists, row, begun>>

Patch(q) ==
  /\ pending' = [pending EXCEPT ![q] = {}]
  /\ \E patch \in pending[q] :
       \/ exists /\ row' = Profile(MergePatch(ValOf(row), patch), TRUE, q)
       \/ row' = row
  /\ UNCHANGED <<exists, begun>>

ImportBegin(j) ==
  /\ exists
  /\ row = NoRow \/ ~row.verified
  /\ begun' = begun \cup {j}
  /\ UNCHANGED <<exists, row, pending>>

ImportEnd(j) ==
  /\ j \in begun
  /\ begun' = begun \ {j}
  /\ \/ \E val \in Vals : row' = Profile(val, row # NoRow /\ row.verified, Null)
     \/ row' = row
  /\ UNCHANGED <<exists, pending>>

Next ==
  \/ \E q \in Requests : CreatePlace(q) \/ Submit(q) \/ Patch(q)
  \/ \E j \in Imports : ImportBegin(j) \/ ImportEnd(j)

Spec == Init /\ [][Next]_vars
=============================================================================
