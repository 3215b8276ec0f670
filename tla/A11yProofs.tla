----------------------------- MODULE A11yProofs -----------------------------
(***************************************************************************)
(* The accessibility rules at work, in Inheritance and in TagMapping.      *)
(*                                                                         *)
(* Inheritance: the audit flags of every stored component are a function   *)
(* of its members.  The invariant needs to know of the profiles no more    *)
(* than that there is one for each of the two places: whatever a merge, an *)
(* import or a client that sends back what it read puts into a profile,    *)
(* the flags are computed last.  Of an answer it needs what the GET in     *)
(* progress has read, and may have read.                                   *)
(*                                                                         *)
(* TagMapping: a place is its tags transformed.  Three lemmas say which    *)
(* members the tags give a profile, and one which flags follow; the        *)
(* theorems are then about tags alone.                                     *)
(***************************************************************************)
EXTENDS Inheritance, TagMapping, TLAPS

(* The flags the functions entranceFlags ... elevatorFlags append are those *)
(* that are warranted, one by one.                                          *)
LEMMA FlagsAreWarranted ==
  ASSUME NEW name, NEW members
  PROVE  Flags(name, members) = {f \in AllFlags : Warranted(name, f, members)}
<1> DEFINE Rows == {r \in FlagTable : r[1] = name /\ Has(members, r[2], r[3])}
           Level == name = "entrance" /\ NoLevelRoute(members)
<1>1. Flags(name, members) = {row[4] : row \in Rows} \cup (IF Level THEN {"no_level_route"} ELSE {})
  BY DEF Flags
<1>2. \A f : Warranted(name, f, members)
               <=> \/ \E row \in Rows : row[4] = f
                   \/ Level /\ f = "no_level_route"
  BY DEF Warranted, NoLevelRoute
<1>3. \A f : (\E row \in Rows : row[4] = f) => f \in AllFlags
  BY DEF AllFlags
<1>4. "no_level_route" \in AllFlags
  BY DEF AllFlags
<1> QED
  BY <1>1, <1>2, <1>3, <1>4

HasRows == profile = [p \in Places |-> profile[p]]

IInv == HasRows /\ FlagsAreCurrent

(* A profile that has been through WithAuditFlags satisfies the invariant.  *)
LEMMA StoredFlagsAreCurrent ==
  ASSUME IInv, NEW p \in Places, NEW comps, NEW verified, Store(p, WithAuditFlags(comps), verified)
  PROVE  IInv'
<1> DEFINE new == WithAuditFlags(comps)
<1>1. profile' = [profile EXCEPT ![p] = [comps |-> new, verified |-> verified]]
  BY DEF Store
<1>2. /\ profile' = [q \in Places |-> profile'[q]]
      /\ profile'[p].comps = new
      /\ \A q \in Places \ {p} : profile'[q] = profile[q]
  BY <1>1 DEF IInv, HasRows
<1>3. \A c \in DOMAIN new : new[c].flags = {f \in AllFlags : Warranted(c, f, new[c].members)}
  <2> TAKE c \in DOMAIN new
  <2>1. c \in DOMAIN comps /\ new[c] = [comps[c] EXCEPT !.flags = Flags(c, comps[c].members)]
    BY DEF WithAuditFlags
  <2> QED
    BY <2>1, FlagsAreWarranted
<1>4. FlagsAreCurrent'
  BY <1>2, <1>3 DEF IInv, FlagsAreCurrent
<1> QED
  BY <1>2, <1>4 DEF IInv, HasRows

(* Whatever merges, imports and send-backs led to it, the flags of a stored *)
(* component are those its members warrant (Engine.WithAuditFlags).         *)
THEOREM FlagsCorrect == Spec => []FlagsAreCurrent
<1>1. Init => IInv
  <2> SUFFICES ASSUME Init PROVE IInv
    OBVIOUS
  <2>1. \A p \in Places : DOMAIN profile[p].comps = {}
    BY DEF Init, NoProfile, NoComponents
  <2>2. FlagsAreCurrent
    BY <2>1 DEF FlagsAreCurrent
  <2> QED
    BY <2>2 DEF Init, IInv, HasRows
<1>2. IInv /\ [Next]_vars => IInv'
  <2> SUFFICES ASSUME IInv, [Next]_vars PROVE IInv'
    OBVIOUS
  <2>1. ASSUME NEW p \in Places, NEW patch \in Patches, Patch(p, patch) PROVE IInv'
    BY <2>1, StoredFlagsAreCurrent DEF Patch
  <2>2. ASSUME NEW p \in Places, NEW c \in Imported, Import(p, c) PROVE IInv'
    BY <2>2, StoredFlagsAreCurrent DEF Import
  <2>3. ASSUME NEW r \in Readers, SendBack(r) PROVE IInv'
    <3>1. Child \in Places
      BY DEF Places
    <3> QED
      BY <2>3, <3>1, StoredFlagsAreCurrent DEF SendBack
  <2>4. ASSUME profile' = profile PROVE IInv'
    BY <2>4 DEF IInv, HasRows, FlagsAreCurrent
  <2>5. ASSUME NEW r \in Readers, ReadPlace(r) \/ ReadParent(r) \/ ReadParentFails(r) PROVE IInv'
    BY <2>4, <2>5 DEF ReadPlace, ReadParent, ReadParentFails
  <2>6. CASE UNCHANGED vars
    BY <2>4, <2>6 DEF vars
  <2> QED
    BY <2>1, <2>2, <2>3, <2>5, <2>6 DEF Next
<1>3. IInv => FlagsAreCurrent
  BY DEF IInv
<1> QED
  BY <1>1, <1>2, <1>3, PTL DEF Spec

----------------------------------------------------------------------------
(* Profiles.                                                                *)

LEMMA OverrideValues ==
  ASSUME NEW new, NEW old
  PROVE  /\ DOMAIN Override(new, old) = DOMAIN new \cup DOMAIN old
         /\ \A m \in DOMAIN new : Override(new, old)[m] = new[m]
         /\ \A m \in DOMAIN old \ DOMAIN new : Override(new, old)[m] = old[m]
BY DEF Override

(* A component of a profile has members and flags and no more.              *)
LEMMA ComponentShape ==
  ASSUME NEW comps, IsProfile(comps), NEW c \in DOMAIN comps
  PROVE  comps[c] = [members |-> comps[c].members, flags |-> comps[c].flags]
BY DEF IsProfile

LEMMA FlagsKeepProfile ==
  ASSUME NEW comps, IsProfile(comps)
  PROVE  IsProfile(WithAuditFlags(comps))
<1> DEFINE new == WithAuditFlags(comps)
<1>1. DOMAIN new = DOMAIN comps
  BY DEF WithAuditFlags
<1>2. \A c \in DOMAIN comps :
        new[c] = [members |-> comps[c].members, flags |-> Flags(c, comps[c].members)]
  <2> TAKE c \in DOMAIN comps
  <2>1. new[c] = [comps[c] EXCEPT !.flags = Flags(c, comps[c].members)]
    BY DEF WithAuditFlags
  <2> QED
    BY <2>1, ComponentShape
<1>3. new = [c \in DOMAIN new |-> [members |-> new[c].members, flags |-> new[c].flags]]
  BY <1>1, <1>2 DEF WithAuditFlags
<1> QED
  BY <1>1, <1>2, <1>3 DEF IsProfile

LEMMA MergedMembers ==
  ASSUME NEW old, NEW patch
  PROVE  \A m \in DOMAIN MergeMembers(old, patch) : MergeMembers(old, patch)[m] # "null"
BY DEF MergeMembers

LEMMA MergeKeepsProfile ==
  ASSUME NEW comps, IsProfile(comps), NEW patch, DOMAIN patch \subseteq Names
  PROVE  IsProfile(MergePatch(comps, patch))
<1> DEFINE new == MergePatch(comps, patch)
<1>1. /\ DOMAIN new \subseteq DOMAIN comps \cup DOMAIN patch
      /\ \A c \in DOMAIN new : new[c] = MergeComponent(comps, c, patch)
      /\ new = [c \in DOMAIN new |-> new[c]]
  BY DEF MergePatch
<1>2. ASSUME NEW c \in DOMAIN new
      PROVE  /\ new[c] = [members |-> new[c].members, flags |-> new[c].flags]
             /\ \A m \in DOMAIN new[c].members : new[c].members[m] # "null"
  <2>1. CASE c \notin DOMAIN patch
    <3>1. c \in DOMAIN comps /\ new[c] = comps[c]
      BY <1>1, <1>2, <2>1 DEF MergeComponent
    <3> QED
      BY <3>1, ComponentShape DEF IsProfile
  <2>2. CASE c \in DOMAIN patch /\ c \in DOMAIN comps
    <3> DEFINE merged == MergeMembers(comps[c].members, patch[c].set)
    <3>1. new[c] = [comps[c] EXCEPT !.members = merged]
      BY <1>1, <1>2, <2>2 DEF MergeComponent
    <3>2. comps[c] = [members |-> comps[c].members, flags |-> comps[c].flags]
      BY <2>2, ComponentShape
    <3>3. new[c] = [members |-> merged, flags |-> comps[c].flags]
      BY <3>1, <3>2
    <3> HIDE DEF new
    <3> QED
      BY <3>3, MergedMembers
  <2>3. CASE c \in DOMAIN patch /\ c \notin DOMAIN comps
    <3>1. new[c] = [members |-> MergeMembers(<< >>, patch[c].set), flags |-> {}]
      BY <1>1, <1>2, <2>3 DEF MergeComponent
    <3> HIDE DEF new
    <3> QED
      BY <3>1, MergedMembers
  <2> QED
    BY <2>1, <2>2, <2>3
<1>3. new = [c \in DOMAIN new |-> [members |-> new[c].members, flags |-> new[c].flags]]
  BY <1>1, <1>2
<1> QED
  BY <1>1, <1>2, <1>3 DEF IsProfile

(* What is inherited differs by its marks only.                             *)
LEMMA InheritedShape ==
  ASSUME NEW component, component = [members |-> component.members, flags |-> component.flags]
  PROVE  Inherited(component, Parent) =
           [members |-> Override(Marks(Parent), component.members), flags |-> component.flags]
BY DEF Inherited

LEMMA EffectiveIsProfile ==
  ASSUME NEW own, NEW above, IsProfile(own), IsProfile(above)
  PROVE  IsProfile(EffectiveProfile(own, above, Parent))
<1> DEFINE new == EffectiveProfile(own, above, Parent)
<1>1. /\ DOMAIN new = DOMAIN own \cup DOMAIN above
      /\ \A c \in DOMAIN own : new[c] = own[c]
      /\ \A c \in DOMAIN above \ DOMAIN own : new[c] = Inherited(above[c], Parent)
      /\ new = [c \in DOMAIN new |-> new[c]]
  BY DEF EffectiveProfile
<1> HIDE DEF new
<1>2. ASSUME NEW c \in DOMAIN new
      PROVE  /\ new[c] = [members |-> new[c].members, flags |-> new[c].flags]
             /\ \A m \in DOMAIN new[c].members : new[c].members[m] # "null"
  <2>1. CASE c \in DOMAIN own
    BY <1>1, <2>1, ComponentShape DEF IsProfile
  <2>2. CASE c \in DOMAIN above \ DOMAIN own
    <3> DEFINE members == Override(Marks(Parent), above[c].members)
    <3>1. new[c] = [members |-> members, flags |-> above[c].flags]
      BY <1>1, <2>2, ComponentShape, InheritedShape
    <3>2. \A m \in DOMAIN above[c].members : above[c].members[m] # "null"
      BY <2>2 DEF IsProfile
    <3>3. \A m \in DOMAIN Marks(Parent) : Marks(Parent)[m] # "null"
      BY PlacesAssumption DEF Marks
    <3>4. ASSUME NEW m \in DOMAIN members
          PROVE  members[m] # "null"
      <4>1. DOMAIN members = DOMAIN Marks(Parent) \cup DOMAIN above[c].members
        BY OverrideValues
      <4>2. CASE m \in DOMAIN Marks(Parent)
        <5>1. members[m] = Marks(Parent)[m]
          BY <4>2, OverrideValues
        <5> QED
          BY <3>3, <4>2, <5>1
      <4>3. CASE m \in DOMAIN above[c].members \ DOMAIN Marks(Parent)
        <5>1. \A n \in DOMAIN above[c].members \ DOMAIN Marks(Parent) :
                members[n] = above[c].members[n]
          BY OverrideValues
        <5> QED
          BY <3>2, <4>3, <5>1
      <4> QED
        BY <3>4, <4>1, <4>2, <4>3
    <3> HIDE DEF members
    <3> QED
      BY <3>1, <3>4
  <2> QED
    BY <1>1, <1>2, <2>1, <2>2
<1>3. new = [c \in DOMAIN new |-> [members |-> new[c].members, flags |-> new[c].flags]]
  BY <1>1, <1>2
<1> QED
  BY <1>1, <1>2, <1>3 DEF IsProfile, new

----------------------------------------------------------------------------
(* What a GET in progress may have seen.                                    *)

Shape ==
  /\ HasRows
  /\ reader = [r \in Readers |-> reader[r]]
  /\ seen = [r \in Readers |-> [p \in Places |-> seen[r][p]]]

(* The history of a GET has the place as it read it and the parent as it is.*)
HistoryIsComplete ==
  \A r \in Readers : reader[r].pc = "loaded" =>
    /\ reader[r].own \in seen[r][Child]
    /\ profile[Parent].comps \in seen[r][Parent]

HInv == Shape /\ TypeOK /\ HistoryIsComplete

(* A write by someone who is not in the middle of a GET.                    *)
LEMMA StoreKeeps ==
  ASSUME HInv, NEW p \in Places, NEW comps, IsProfile(comps), NEW verified \in BOOLEAN,
         Store(p, comps, verified),
         \/ reader' = reader
         \/ \E r \in Readers : reader[r].pc = "answered" /\ reader' = [reader EXCEPT ![r] = Idle]
  PROVE  HInv'
<1>1. /\ profile' = [profile EXCEPT ![p] = [comps |-> comps, verified |-> verified]]
      /\ seen' = [r \in Readers |-> IF reader[r].pc = "loaded"
                                    THEN [seen[r] EXCEPT ![p] = @ \cup {comps}] ELSE seen[r]]
  BY DEF Store
<1>2. /\ profile' = [q \in Places |-> profile'[q]]
      /\ profile'[p].comps = comps /\ profile'[p].verified = verified
      /\ \A q \in Places \ {p} : profile'[q] = profile[q]
  BY <1>1 DEF HInv, Shape, HasRows
<1>3. /\ reader' = [r \in Readers |-> reader'[r]]
      /\ \A r \in Readers : reader'[r] = reader[r] \/ reader'[r] = Idle
  BY DEF HInv, Shape
<1>4. \A r \in Readers :
        /\ seen'[r] = [q \in Places |-> seen'[r][q]]
        /\ \A q \in Places : seen'[r][q] \in {seen[r][q], seen[r][q] \cup {comps}}
        /\ \A q \in Places \ {p} : seen'[r][q] = seen[r][q]
        /\ reader[r].pc = "loaded" => seen'[r][p] = seen[r][p] \cup {comps}
  <2> TAKE r \in Readers
  <2>1. seen[r] = [q \in Places |-> seen[r][q]]
    BY DEF HInv, Shape
  <2>2. CASE reader[r].pc = "loaded"
    BY <1>1, <2>1, <2>2
  <2>3. CASE reader[r].pc # "loaded"
    BY <1>1, <2>1, <2>3
  <2> QED
    BY <2>2, <2>3
<1>5. Shape'
  <2>1. seen' = [r \in Readers |-> [q \in Places |-> seen'[r][q]]]
    BY <1>1, <1>4
  <2> QED
    BY <1>2, <1>3, <2>1 DEF Shape, HasRows
<1>6. TypeOK'
  <2>1. \A q \in Places : IsProfile(profile'[q].comps) /\ profile'[q].verified \in BOOLEAN
    BY <1>2 DEF HInv, TypeOK
  <2>2. \A r \in Readers, q \in Places : \A row \in seen'[r][q] : IsProfile(row)
    <3> TAKE r \in Readers, q \in Places
    <3>1. \A row \in seen[r][q] \cup {comps} : IsProfile(row)
      BY DEF HInv, TypeOK
    <3>2. seen'[r][q] \in {seen[r][q], seen[r][q] \cup {comps}}
      BY <1>4
    <3> QED
      BY <3>1, <3>2
  <2>3. \A r \in Readers :
          /\ reader'[r].pc \in {"idle", "loaded", "answered"}
          /\ reader'[r].pc = "loaded" => IsProfile(reader'[r].own)
          /\ reader'[r].pc = "answered" => IsProfile(reader'[r].response)
    BY <1>3 DEF HInv, TypeOK, Idle
  <2> QED
    BY <2>1, <2>2, <2>3 DEF TypeOK
<1>7. HistoryIsComplete'
  <2> SUFFICES ASSUME NEW r \in Readers, reader'[r].pc = "loaded"
               PROVE  /\ reader'[r].own \in seen'[r][Child]
                      /\ profile'[Parent].comps \in seen'[r][Parent]
    BY DEF HistoryIsComplete
  <2>1. reader'[r] = reader[r] /\ reader[r].pc = "loaded"
    BY <1>3 DEF Idle
  <2>2. reader[r].own \in seen[r][Child] /\ profile[Parent].comps \in seen[r][Parent]
    BY <2>1 DEF HInv, HistoryIsComplete
  <2>3. Child \in Places /\ Parent \in Places
    BY DEF Places
  <2> QED
    BY <1>2, <1>4, <2>1, <2>2, <2>3
<1> QED
  BY <1>5, <1>6, <1>7 DEF HInv

(* A step of a GET.                                                         *)
LEMMA ReadKeeps ==
  ASSUME HInv, NEW r \in Readers, ReadPlace(r) \/ ReadParent(r) \/ ReadParentFails(r)
  PROVE  HInv'
<1>1. profile' = profile
  BY DEF ReadPlace, ReadParent, ReadParentFails
<1>2. Child \in Places /\ Parent \in Places
  BY DEF Places
<1>3. PICK state, rows :
        /\ reader' = [reader EXCEPT ![r] = state]
        /\ seen' = [seen EXCEPT ![r] = [p \in Places |-> rows[p]]]
        /\ \A p \in Places : \A row \in rows[p] : IsProfile(row)
        /\ state.pc \in {"loaded", "answered"}
        /\ state.pc = "loaded" => /\ IsProfile(state.own) /\ state.own \in rows[Child]
                                  /\ profile[Parent].comps \in rows[Parent]
        /\ state.pc = "answered" => IsProfile(state.response)
  <2>1. CASE ReadPlace(r)
    <3> DEFINE state == [pc |-> "loaded", own |-> profile[Child].comps]
               rows == [p \in Places |-> {profile[p].comps}]
    <3>1. reader' = [reader EXCEPT ![r] = state] /\ seen' = [seen EXCEPT ![r] = [p \in Places |-> rows[p]]]
      BY <2>1 DEF ReadPlace
    <3>2. \A p \in Places : \A row \in rows[p] : IsProfile(row)
      BY DEF HInv, TypeOK
    <3>3. /\ state.pc = "loaded" /\ IsProfile(state.own) /\ state.own \in rows[Child]
          /\ profile[Parent].comps \in rows[Parent]
      BY <1>2 DEF HInv, TypeOK
    <3> HIDE DEF state, rows
    <3> QED
      BY <3>1, <3>2, <3>3
  <2>2. ASSUME NEW response, IsProfile(response),
               reader' = [reader EXCEPT ![r] = [pc |-> "answered", response |-> response]],
               seen' = [seen EXCEPT ![r] = [p \in Places |-> {}]]
        PROVE  \E state, rows :
                 /\ reader' = [reader EXCEPT ![r] = state]
                 /\ seen' = [seen EXCEPT ![r] = [p \in Places |-> rows[p]]]
                 /\ \A p \in Places : \A row \in rows[p] : IsProfile(row)
                 /\ state.pc \in {"loaded", "answered"}
                 /\ state.pc = "loaded" => /\ IsProfile(state.own) /\ state.own \in rows[Child]
                                           /\ profile[Parent].comps \in rows[Parent]
                 /\ state.pc = "answered" => IsProfile(state.response)
    <3> DEFINE state == [pc |-> "answered", response |-> response]
               rows == [p \in Places |-> {}]
    <3>1. seen' = [seen EXCEPT ![r] = [p \in Places |-> rows[p]]]
      BY <2>2
    <3>2. \A p \in Places : \A row \in rows[p] : IsProfile(row)
      OBVIOUS
    <3>3. state.pc = "answered" /\ IsProfile(state.response)
      BY <2>2
    <3>4. reader' = [reader EXCEPT ![r] = state]
      BY <2>2
    <3> HIDE DEF state, rows
    <3> QED
      BY <3>1, <3>2, <3>3, <3>4
  <2>3. CASE ReadParent(r)
    <3>1. IsProfile(EffectiveProfile(reader[r].own, profile[Parent].comps, Parent))
      BY <1>2, <2>3, EffectiveIsProfile DEF ReadParent, HInv, TypeOK
    <3> QED
      BY <2>2, <2>3, <3>1 DEF ReadParent
  <2>4. CASE ReadParentFails(r)
    <3>1. IsProfile(reader[r].own)
      BY <2>4 DEF ReadParentFails, HInv, TypeOK
    <3> QED
      BY <2>2, <2>4, <3>1 DEF ReadParentFails
  <2> QED
    BY <2>1, <2>3, <2>4
<1>4. /\ reader' = [q \in Readers |-> reader'[q]] /\ reader'[r] = state
      /\ \A q \in Readers \ {r} : reader'[q] = reader[q]
  BY <1>3 DEF HInv, Shape
<1>5. /\ seen' = [q \in Readers |-> [p \in Places |-> seen'[q][p]]]
      /\ \A p \in Places : seen'[r][p] = rows[p]
      /\ \A q \in Readers \ {r}, p \in Places : seen'[q][p] = seen[q][p]
  <2>1. seen = [q \in Readers |-> [p \in Places |-> seen[q][p]]]
    BY DEF HInv, Shape
  <2> QED
    BY <1>3, <2>1
<1>6. Shape'
  BY <1>1, <1>4, <1>5 DEF HInv, Shape, HasRows
<1>7. TypeOK'
  BY <1>1, <1>3, <1>4, <1>5 DEF HInv, TypeOK
<1>8. HistoryIsComplete'
  BY <1>1, <1>2, <1>3, <1>4, <1>5 DEF HInv, HistoryIsComplete
<1> QED
  BY <1>6, <1>7, <1>8 DEF HInv

LEMMA HistoryStep == HInv /\ [Next]_vars => HInv'
<1> SUFFICES ASSUME HInv, [Next]_vars PROVE HInv'
  OBVIOUS
<1>1. ASSUME NEW p \in Places, NEW patch \in Patches, Patch(p, patch) PROVE HInv'
  <2>1. IsProfile(WithAuditFlags(MergePatch(profile[p].comps, patch)))
    <3>1. IsProfile(profile[p].comps) /\ DOMAIN patch \subseteq Names
      BY BodiesAssumption DEF HInv, TypeOK
    <3> QED
      BY <3>1, MergeKeepsProfile, FlagsKeepProfile
  <2> QED
    BY <1>1, <2>1, StoreKeeps DEF Patch
<1>2. ASSUME NEW p \in Places, NEW comps \in Imported, Import(p, comps) PROVE HInv'
  <2>1. IsProfile(WithAuditFlags(comps))
    BY BodiesAssumption, FlagsKeepProfile
  <2> QED
    BY <1>2, <2>1, StoreKeeps DEF Import
<1>3. ASSUME NEW r \in Readers, SendBack(r) PROVE HInv'
  <2> DEFINE resp == reader[r].response
             body == [c \in DOMAIN resp |-> [null |-> FALSE, set |-> resp[c].members]]
             new == WithAuditFlags(MergePatch(profile[Child].comps, body))
  <2>1. Child \in Places
    BY DEF Places
  <2>2. IsProfile(new)
    <3>1. IsProfile(profile[Child].comps) /\ DOMAIN body \subseteq Names
      BY <1>3, <2>1 DEF SendBack, HInv, TypeOK, IsProfile
    <3> QED
      BY <3>1, MergeKeepsProfile, FlagsKeepProfile
  <2>3. Store(Child, new, TRUE)
    BY <1>3 DEF SendBack
  <2>4. reader[r].pc = "answered" /\ reader' = [reader EXCEPT ![r] = Idle]
    BY <1>3 DEF SendBack
  <2> HIDE DEF new
  <2> QED
    BY <2>1, <2>2, <2>3, <2>4, StoreKeeps
<1>4. CASE UNCHANGED vars
  BY <1>4 DEF vars, HInv, Shape, HasRows, TypeOK, HistoryIsComplete
<1> QED
  BY <1>1, <1>2, <1>3, <1>4, ReadKeeps DEF Next

LEMMA HistoryInitially == Init => HInv
<1> SUFFICES ASSUME Init PROVE HInv
  OBVIOUS
<1>1. Shape
  BY DEF Init, Shape, HasRows
<1>2. IsProfile(NoComponents)
  BY DEF IsProfile, NoComponents
<1>3. TypeOK
  BY <1>2 DEF Init, TypeOK, NoProfile, Idle
<1>4. HistoryIsComplete
  BY DEF Init, HistoryIsComplete, Idle
<1> QED
  BY <1>1, <1>3, <1>4 DEF HInv

(* The variables of Inheritance keep their types: a stored component has no *)
(* member that is null, whatever a PATCH, an import or a send-back put in.  *)
THEOREM TypeCorrect == Spec => []TypeOK
<1>1. HInv => TypeOK
  BY DEF HInv
<1> QED
  BY <1>1, HistoryStep, HistoryInitially, PTL DEF Spec

(* A GET that ends was a GET that read the two rows.                        *)
LEMMA AnswerSteps ==
  ASSUME HInv, [Next]_vars, NEW r \in Readers, Answered(r)
  PROVE  ReadParent(r) \/ ReadParentFails(r)
<1> USE DEF Answered
<1>1. ASSUME NEW q \in Readers, NEW state, reader' = [reader EXCEPT ![q] = state], q # r
      PROVE  FALSE
  BY <1>1 DEF HInv, Shape
<1>2. ASSUME reader' = reader
      PROVE  FALSE
  BY <1>2
<1>3. ASSUME NEW q \in Readers, q # r,
             ReadPlace(q) \/ ReadParent(q) \/ ReadParentFails(q) \/ SendBack(q)
      PROVE  FALSE
  <2>1. \E state : reader' = [reader EXCEPT ![q] = state]
    BY <1>3 DEF ReadPlace, ReadParent, ReadParentFails, SendBack
  <2> QED
    BY <1>1, <1>3, <2>1
<1>4. ~ReadPlace(r) /\ ~SendBack(r)
  BY DEF ReadPlace, SendBack
<1> QED
  BY <1>2, <1>3, <1>4 DEF Next, Patch, Import, vars

(* What a GET answers from the rows it read.                                *)
LEMMA AnswerIs ==
  ASSUME HInv, NEW r \in Readers
  PROVE  /\ ReadParent(r) =>
              reader'[r].response = EffectiveProfile(reader[r].own, profile[Parent].comps, Parent)
         /\ ReadParentFails(r) => reader'[r].response = reader[r].own
<1>1. \A state : reader' = [reader EXCEPT ![r] = state] => reader'[r] = state
  BY DEF HInv, Shape
<1> QED
  BY <1>1 DEF ReadParent, ReadParentFails

(* An inherited component is the parent's, marked.                          *)
LEMMA InheritedIsAbove ==
  ASSUME NEW r \in Readers, NEW row \in seen[r][Parent], IsProfile(row), NEW c \in DOMAIN row
  PROVE  AboveAt(r, c, Inherited(row[c], Parent))
<1> DEFINE component == Inherited(row[c], Parent)
           members == Override(Marks(Parent), row[c].members)
<1>1. component = [members |-> members, flags |-> row[c].flags]
  BY ComponentShape, InheritedShape
<1>2. DOMAIN Marks(Parent) = {"is_inherited", "source_id"}
  BY DEF Marks
<1>3. Marks(Parent)["is_inherited"] = "true" /\ Marks(Parent)["source_id"] = Parent
  BY DEF Marks
<1>4. /\ DOMAIN members = DOMAIN Marks(Parent) \cup DOMAIN row[c].members
      /\ \A m \in DOMAIN Marks(Parent) : members[m] = Marks(Parent)[m]
      /\ \A m \in DOMAIN row[c].members \ DOMAIN Marks(Parent) : members[m] = row[c].members[m]
  BY OverrideValues
<1>5. /\ Has(members, "is_inherited", "true") /\ Has(members, "source_id", Parent)
      /\ \A m \in DOMAIN row[c].members \ {"is_inherited", "source_id"} :
           Has(members, m, row[c].members[m])
  <2> HIDE DEF members
  <2> QED
    BY <1>2, <1>3, <1>4 DEF Has
<1>6. DOMAIN members = DOMAIN row[c].members \cup {"is_inherited", "source_id"}
  BY <1>2, <1>4
<1> HIDE DEF component, members
<1>7. component.members = members /\ component.flags = row[c].flags
  BY <1>1
<1>8. AboveAt(r, c, component)
  BY <1>5, <1>7, <1>6 DEF AboveAt
<1> QED
  BY <1>8 DEF component

(* What a reader is shown was there while it read, the place's own before   *)
(* the parent's, members never mixed (GetPlace, ComputeEffectiveProfile).   *)
THEOREM AnswersAreWarranted == Spec => ResponseIsWarranted
<1>1. ASSUME HInv, [Next]_vars, NEW r \in Readers, Answered(r), NEW c \in DOMAIN reader'[r].response
      PROVE  \/ OwnAt(r, c, reader'[r].response[c])
             \/ NoneAt(r, Child, c) /\ AboveAt(r, c, reader'[r].response[c])
  <2> DEFINE own == reader[r].own
             above == profile[Parent].comps
  <2>1. own \in seen[r][Child] /\ above \in seen[r][Parent]
    BY <1>1 DEF HInv, HistoryIsComplete, Answered
  <2>2. IsProfile(above)
    BY <1>1 DEF HInv, TypeOK, Places
  <2>3. CASE reader'[r].response = own
    BY <1>1, <2>1, <2>3 DEF OwnAt
  <2>4. CASE reader'[r].response = EffectiveProfile(own, above, Parent)
    <3>1. CASE c \in DOMAIN own
      <4>1. reader'[r].response[c] = own[c]
        BY <2>4, <3>1 DEF EffectiveProfile
      <4> QED
        BY <2>1, <3>1, <4>1 DEF OwnAt
    <3>2. CASE c \notin DOMAIN own
      <4>1. c \in DOMAIN above /\ reader'[r].response[c] = Inherited(above[c], Parent)
        BY <1>1, <2>4, <3>2 DEF EffectiveProfile
      <4>2. NoneAt(r, Child, c)
        BY <2>1, <3>2 DEF NoneAt
      <4> HIDE DEF above
      <4>3. AboveAt(r, c, Inherited(above[c], Parent))
        BY <2>1, <2>2, <4>1, InheritedIsAbove
      <4> QED
        BY <4>1, <4>2, <4>3
    <3> QED
      BY <3>1, <3>2
  <2> QED
    BY <1>1, <2>3, <2>4, AnswerSteps, AnswerIs
<1>2. HInv /\ [Next]_vars =>
        [\A r \in Readers : Answered(r) =>
           LET response == reader'[r].response
           IN \A c \in DOMAIN response :
                \/ OwnAt(r, c, response[c])
                \/ NoneAt(r, Child, c) /\ AboveAt(r, c, response[c])]_vars
  BY <1>1
<1> QED
  BY <1>2, HistoryStep, HistoryInitially, PTL DEF Spec, ResponseIsWarranted

(* When the query of the parent succeeds, no component is missing that the  *)
(* place or its parent has had throughout the read.                         *)
THEOREM NothingIsMissing == Spec => NothingInheritableIsMissing
<1>1. ASSUME HInv, NEW r \in Readers, ReadParent(r), NEW c \in Names \ DOMAIN reader'[r].response
      PROVE  NoneAt(r, Child, c) /\ NoneAt(r, Parent, c)
  <2> DEFINE own == reader[r].own
             above == profile[Parent].comps
  <2>1. own \in seen[r][Child] /\ above \in seen[r][Parent]
    BY <1>1 DEF HInv, HistoryIsComplete, ReadParent
  <2>2. reader'[r].response = EffectiveProfile(own, above, Parent)
    BY <1>1, AnswerIs
  <2>3. c \notin DOMAIN own /\ c \notin DOMAIN above
    BY <1>1, <2>2 DEF EffectiveProfile
  <2> QED
    BY <2>1, <2>3 DEF NoneAt
<1>2. HInv /\ [Next]_vars =>
        [\A r \in Readers : ReadParent(r) =>
           \A c \in Names \ DOMAIN reader'[r].response :
             NoneAt(r, Child, c) /\ NoneAt(r, Parent, c)]_vars
  BY <1>1
<1> QED
  BY <1>2, HistoryStep, HistoryInitially, PTL DEF Spec, NothingInheritableIsMissing

----------------------------------------------------------------------------
(* TagMapping.                                                              *)

(* Override, member by member.                                              *)
LEMMA OverrideHas ==
  ASSUME NEW new, NEW old
  PROVE  /\ \A m : m \in DOMAIN Override(new, old) <=> m \in DOMAIN new \/ m \in DOMAIN old
         /\ \A m, v : m \in DOMAIN new => (Has(Override(new, old), m, v) <=> Has(new, m, v))
         /\ \A m, v : m \notin DOMAIN new => (Has(Override(new, old), m, v) <=> Has(old, m, v))
BY DEF Override, Has

----------------------------------------------------------------------------
(* What the tags say of a width, of a step and of the parking spaces.       *)

Narrow(t) == WidthTag(t) \in DOMAIN HundredthsOf /\ HundredthsOf[WidthTag(t)] < 70

Stepped(t) == HasSteps(t) /\ Value(t, "ramp:wheelchair") # "yes"

NoSpace(t) ==
  IF "capacity:disabled" \in DOMAIN t
  THEN t["capacity:disabled"] \in DOMAIN IntegerOf /\ ~PositiveInteger(t["capacity:disabled"])
  ELSE Value(t, "parking:disabled") = "no"

LEMMA WidthSays ==
  ASSUME NEW t
  PROVE  Has(DoorWidth(t), "width", "no") <=> Narrow(t)
<1> DEFINE v == WidthTag(t)
<1>1. Has(DoorWidth(t), "width", "no")
        <=> v \in DOMAIN HundredthsOf /\ "no" = LevelForDoorWidth(HundredthsOf[v])
  BY DEF DoorWidth, Only, Has
<1>2. \A n \in Int : "no" = LevelForDoorWidth(n) <=> n < 70
  BY DEF LevelForDoorWidth
<1> QED
  BY <1>1, <1>2, TableAssumption DEF Narrow

LEMMA RampSays ==
  ASSUME NEW t
  PROVE  /\ Has(FixedRamp(t), "has_fixed_ramp", "true") <=> Value(t, "ramp:wheelchair") = "yes"
         /\ \A m \in DOMAIN FixedRamp(t) : m = "has_fixed_ramp"
<1>1. CASE "ramp:wheelchair" \in DOMAIN t
  <2> DEFINE v == t["ramp:wheelchair"]
             level == IF v = "yes" THEN "true" ELSE "false"
  <2>1. FixedRamp(t) = Only(v \in {"yes", "no"}, "has_fixed_ramp", level)
    BY <1>1 DEF FixedRamp, YesOrNo
  <2>2. "true" = level <=> v = "yes"
    OBVIOUS
  <2> HIDE DEF level
  <2>3. Has(FixedRamp(t), "has_fixed_ramp", "true") <=> v \in {"yes", "no"} /\ "true" = level
    BY <2>1 DEF Only, Has
  <2>4. \A m \in DOMAIN FixedRamp(t) : m = "has_fixed_ramp"
    BY <2>1 DEF Only, Has
  <2> QED
    BY <1>1, <2>2, <2>3, <2>4 DEF Value
<1>2. CASE "ramp:wheelchair" \notin DOMAIN t
  <2>1. FixedRamp(t) = Only(Value(t, "ramp") = "no", "has_fixed_ramp", "false")
    BY <1>2 DEF FixedRamp
  <2>2. ~Has(FixedRamp(t), "has_fixed_ramp", "true")
    BY <2>1 DEF Only, Has
  <2>3. \A m \in DOMAIN FixedRamp(t) : m = "has_fixed_ramp"
    BY <2>1 DEF Only, Has
  <2> QED
    BY <1>2, <2>2, <2>3 DEF Value
<1> QED
  BY <1>1, <1>2

(* mapEntrance, by the three tags that can bring a flag.                    *)
LEMMA EntranceSays ==
  ASSUME NEW t
  PROVE  /\ Has(MapEntrance(t), "width", "no") <=> Narrow(t)
         /\ NoLevelRoute(MapEntrance(t)) <=> Stepped(t)
<1> DEFINE door == Only(Value(t, "automatic_door") \notin {"", "no"}, "door", "automatic")
           level == Only(HasSteps(t), "is_level", "false")
           ramp == FixedRamp(t)
           width == DoorWidth(t)
           slope == Slope(t)
           w == Override(width, slope)
           rw == Override(ramp, w)
           lrw == Override(level, rw)
<1>1. MapEntrance(t) = Override(door, lrw)
  BY DEF MapEntrance
<1>2. /\ \A m \in DOMAIN door : m = "door"
      /\ \A m \in DOMAIN level : m = "is_level"
      /\ \A m \in DOMAIN ramp : m = "has_fixed_ramp"
      /\ \A m \in DOMAIN width : m = "width"
      /\ \A m \in DOMAIN slope : m = "slope_percent"
  BY RampSays DEF DoorWidth, Slope, Only
<1>3. Has(level, "is_level", "false") <=> HasSteps(t)
  BY DEF Only, Has
<1> HIDE DEF door, level, ramp, width, slope, w, rw, lrw
<1>4. "width" \notin DOMAIN slope
  BY <1>2
<1>5. /\ Has(w, "width", "no") <=> Has(width, "width", "no")
      /\ \A m \in {"is_level", "has_fixed_ramp", "has_removable_ramp"} : m \notin DOMAIN w
  <2>1. Has(w, "width", "no") <=> Has(width, "width", "no")
    <3>1. CASE "width" \in DOMAIN width
      BY <3>1, OverrideHas DEF w
    <3>2. CASE "width" \notin DOMAIN width
      BY <1>4, <3>2, OverrideHas DEF w, Has
    <3> QED
      BY <3>1, <3>2
  <2>2. \A m : m \in DOMAIN w <=> m \in DOMAIN width \/ m \in DOMAIN slope
    BY OverrideHas DEF w
  <2> QED
    BY <1>2, <2>1, <2>2
<1>6. /\ Has(rw, "width", "no") <=> Has(width, "width", "no")
      /\ Has(rw, "has_fixed_ramp", "true") <=> Has(ramp, "has_fixed_ramp", "true")
      /\ \A m \in {"is_level", "has_removable_ramp"} : m \notin DOMAIN rw
  BY <1>2, <1>5, OverrideHas DEF rw, Has
<1>7. /\ Has(lrw, "width", "no") <=> Has(width, "width", "no")
      /\ Has(lrw, "has_fixed_ramp", "true") <=> Has(ramp, "has_fixed_ramp", "true")
      /\ Has(lrw, "is_level", "false") <=> Has(level, "is_level", "false")
      /\ "has_removable_ramp" \notin DOMAIN lrw
  BY <1>2, <1>6, OverrideHas DEF lrw, Has
<1>8. /\ Has(MapEntrance(t), "width", "no") <=> Has(width, "width", "no")
      /\ Has(MapEntrance(t), "has_fixed_ramp", "true") <=> Has(ramp, "has_fixed_ramp", "true")
      /\ Has(MapEntrance(t), "is_level", "false") <=> Has(level, "is_level", "false")
      /\ ~Has(MapEntrance(t), "has_removable_ramp", "true")
  BY <1>1, <1>2, <1>7, OverrideHas DEF Has
<1>9. Has(width, "width", "no") <=> Narrow(t)
  BY WidthSays DEF width
<1>10. Has(ramp, "has_fixed_ramp", "true") <=> Value(t, "ramp:wheelchair") = "yes"
  BY RampSays DEF ramp
<1> QED
  BY <1>3, <1>8, <1>9, <1>10 DEF NoLevelRoute, Stepped

LEMMA ParkingSays ==
  ASSUME NEW t
  PROVE  Has(MapParking(t), "has_disabled_spaces", "false") <=> NoSpace(t)
<1>1. CASE "capacity:disabled" \in DOMAIN t
  <2> DEFINE v == t["capacity:disabled"]
             spaces == IF PositiveInteger(v) THEN "true" ELSE "false"
  <2>1. MapParking(t) = Only(v \in DOMAIN IntegerOf, "has_disabled_spaces", spaces)
    BY <1>1 DEF MapParking
  <2>2. "false" = spaces <=> ~PositiveInteger(v)
    OBVIOUS
  <2> HIDE DEF spaces
  <2>3. Has(MapParking(t), "has_disabled_spaces", "false")
          <=> v \in DOMAIN IntegerOf /\ "false" = spaces
    BY <2>1 DEF Only, Has
  <2> QED
    BY <1>1, <2>2, <2>3 DEF NoSpace
<1>2. CASE "capacity:disabled" \notin DOMAIN t
  <2>1. MapParking(t) = Only(Value(t, "parking:disabled") = "no", "has_disabled_spaces", "false")
    BY <1>2 DEF MapParking
  <2>2. Has(MapParking(t), "has_disabled_spaces", "false") <=> Value(t, "parking:disabled") = "no"
    BY <2>1 DEF Only, Has
  <2> QED
    BY <1>2, <2>2 DEF NoSpace
<1> QED
  BY <1>1, <1>2

----------------------------------------------------------------------------
(* The profile.                                                             *)

(* A component of the mapped profile has the members its mapping gives it.  *)
LEMMA ComponentsAre ==
  ASSUME NEW t
  PROVE  LET comps == MapComponents(t) IN
         /\ DOMAIN comps \subseteq {"entrance", "restroom", "parking", "elevator"}
         /\ "entrance" \in DOMAIN comps <=> DOMAIN MapEntrance(t) # {}
         /\ "parking" \in DOMAIN comps <=> DOMAIN MapParking(t) # {}
         /\ "entrance" \in DOMAIN comps => comps["entrance"].members = MapEntrance(t)
         /\ "restroom" \in DOMAIN comps => comps["restroom"].members = MapRestroom(t)
         /\ "parking" \in DOMAIN comps => comps["parking"].members = MapParking(t)
         /\ "elevator" \in DOMAIN comps => comps["elevator"].members = << >>
         /\ \A c \in DOMAIN comps : comps[c] = [members |-> comps[c].members, flags |-> {}]
<1> DEFINE e == Component("entrance", MapEntrance(t), DOMAIN MapEntrance(t) # {})
           r == Component("restroom", MapRestroom(t), DOMAIN MapRestroom(t) # {})
           p == Component("parking", MapParking(t), DOMAIN MapParking(t) # {})
           l == Component("elevator", << >>, Value(t, "elevator") = "yes")
           pl == Override(p, l)
           rpl == Override(r, pl)
<1>1. MapComponents(t) = Override(e, rpl)
  BY DEF MapComponents
<1>2. /\ \A c \in DOMAIN e : c = "entrance" /\ e[c] = [members |-> MapEntrance(t), flags |-> {}]
      /\ \A c \in DOMAIN r : c = "restroom" /\ r[c] = [members |-> MapRestroom(t), flags |-> {}]
      /\ \A c \in DOMAIN p : c = "parking" /\ p[c] = [members |-> MapParking(t), flags |-> {}]
      /\ \A c \in DOMAIN l : c = "elevator" /\ l[c] = [members |-> << >>, flags |-> {}]
      /\ "entrance" \in DOMAIN e <=> DOMAIN MapEntrance(t) # {}
      /\ "parking" \in DOMAIN p <=> DOMAIN MapParking(t) # {}
  BY DEF Component, Only
<1> HIDE DEF e, r, p, l
<1>3. /\ DOMAIN pl = DOMAIN p \cup DOMAIN l
      /\ \A c \in DOMAIN p : pl[c] = p[c]
      /\ \A c \in DOMAIN l \ DOMAIN p : pl[c] = l[c]
  BY DEF Override
<1> HIDE DEF pl
<1>4. /\ DOMAIN rpl = DOMAIN r \cup DOMAIN pl
      /\ \A c \in DOMAIN r : rpl[c] = r[c]
      /\ \A c \in DOMAIN pl \ DOMAIN r : rpl[c] = pl[c]
  BY DEF Override
<1> HIDE DEF rpl
<1> DEFINE comps == MapComponents(t)
<1>5. /\ DOMAIN comps = DOMAIN e \cup DOMAIN rpl
      /\ \A c \in DOMAIN e : comps[c] = e[c]
      /\ \A c \in DOMAIN rpl \ DOMAIN e : comps[c] = rpl[c]
  BY <1>1 DEF Override
<1> HIDE DEF comps
<1>6. /\ DOMAIN comps = DOMAIN e \cup DOMAIN r \cup DOMAIN p \cup DOMAIN l
      /\ \A c \in DOMAIN e : comps[c] = e[c]
      /\ \A c \in DOMAIN r : comps[c] = r[c]
      /\ \A c \in DOMAIN p : comps[c] = p[c]
      /\ \A c \in DOMAIN l : comps[c] = l[c]
  <2>1. \A c \in DOMAIN r : c \notin DOMAIN e
    BY <1>2
  <2>2. \A c \in DOMAIN p : c \notin DOMAIN e /\ c \notin DOMAIN r
    BY <1>2
  <2>3. \A c \in DOMAIN l : c \notin DOMAIN e /\ c \notin DOMAIN r /\ c \notin DOMAIN p
    BY <1>2
  <2> QED
    BY <1>3, <1>4, <1>5, <2>1, <2>2, <2>3
<1>7. \A c \in DOMAIN comps : comps[c] = [members |-> comps[c].members, flags |-> {}]
  <2>1. \A c \in DOMAIN comps : \E members : comps[c] = [members |-> members, flags |-> {}]
    BY <1>2, <1>6
  <2> QED
    BY <2>1
<1>8. /\ DOMAIN comps \subseteq {"entrance", "restroom", "parking", "elevator"}
      /\ "entrance" \in DOMAIN comps <=> "entrance" \in DOMAIN e
      /\ "restroom" \in DOMAIN comps <=> "restroom" \in DOMAIN r
      /\ "parking" \in DOMAIN comps <=> "parking" \in DOMAIN p
      /\ "elevator" \in DOMAIN comps <=> "elevator" \in DOMAIN l
  BY <1>2, <1>6
<1>9. /\ "entrance" \in DOMAIN comps => comps["entrance"].members = MapEntrance(t)
      /\ "restroom" \in DOMAIN comps => comps["restroom"].members = MapRestroom(t)
      /\ "parking" \in DOMAIN comps => comps["parking"].members = MapParking(t)
      /\ "elevator" \in DOMAIN comps => comps["elevator"].members = << >>
  BY <1>2, <1>6, <1>8
<1> QED
  BY <1>2, <1>7, <1>8, <1>9 DEF comps

(* The flags that members without the other rows' can have.                 *)
LEMMA MappedFlags ==
  ASSUME NEW t
  PROVE  /\ \A f : f \in Flags("entrance", MapEntrance(t))
                     <=> \/ f = "narrow_width" /\ Narrow(t)
                         \/ f = "no_level_route" /\ Stepped(t)
         /\ \A f : f \notin Flags("restroom", MapRestroom(t))
         /\ \A f : f \in Flags("parking", MapParking(t)) <=> f = "no_disabled_spaces" /\ NoSpace(t)
         /\ \A f : f \notin Flags("elevator", << >>)
<1>0. \A name, members, f : f \in Flags(name, members)
               <=> \/ \E row \in FlagTable :
                        row[1] = name /\ Has(members, row[2], row[3]) /\ f = row[4]
                   \/ name = "entrance" /\ NoLevelRoute(members) /\ f = "no_level_route"
  BY DEF Flags
<1>1. \A f : f \in Flags("entrance", MapEntrance(t))
               <=> \/ f = "narrow_width" /\ Has(MapEntrance(t), "width", "no")
                   \/ f = "no_level_route" /\ NoLevelRoute(MapEntrance(t))
  <2> DEFINE narrow == <<"entrance", "width", "no", "narrow_width">>
  <2>1. \A row \in FlagTable : row[1] = "entrance" <=> row = narrow
    BY DEF FlagTable
  <2>2. narrow \in FlagTable
    BY DEF FlagTable
  <2>3. narrow[1] = "entrance" /\ narrow[2] = "width" /\ narrow[3] = "no" /\ narrow[4] = "narrow_width"
    OBVIOUS
  <2> HIDE DEF narrow
  <2> QED
    BY <1>0, <2>1, <2>2, <2>3
<1>2. \A f : f \in Flags("parking", MapParking(t))
               <=> f = "no_disabled_spaces" /\ Has(MapParking(t), "has_disabled_spaces", "false")
  <2> DEFINE full == <<"parking", "has_disabled_spaces", "false", "no_disabled_spaces">>
  <2>1. \A row \in FlagTable : row[1] = "parking" <=> row = full
    BY DEF FlagTable
  <2>2. full \in FlagTable
    BY DEF FlagTable
  <2>3. /\ full[1] = "parking" /\ full[2] = "has_disabled_spaces" /\ full[3] = "false"
        /\ full[4] = "no_disabled_spaces"
    OBVIOUS
  <2> HIDE DEF full
  <2> QED
    BY <1>0, <2>1, <2>2, <2>3
<1>3. \A f : f \notin Flags("restroom", MapRestroom(t))
  <2>1. \A m \in DOMAIN MapRestroom(t) : m = "is_accessible"
    BY DEF MapRestroom, YesOrNo, Only
  <2>2. \A row \in FlagTable : row[1] = "restroom" => row[2] # "is_accessible"
    BY DEF FlagTable
  <2> QED
    BY <2>1, <2>2 DEF Flags, Has
<1>4. \A f : f \notin Flags("elevator", << >>)
  <2>1. \A m, v : ~Has(<< >>, m, v)
    BY DEF Has
  <2> QED
    BY <2>1 DEF Flags
<1> QED
  BY <1>1, <1>2, <1>3, <1>4, EntranceSays, ParkingSays

(* The flags of an imported place, from its tags.                           *)
LEMMA FlagsAre ==
  ASSUME NEW t, Included(Transform(t))
  PROVE  \A flag : flag \in FlagsOf(Transform(t))
                     <=> \/ flag = <<"entrance", "narrow_width">> /\ Narrow(t)
                         \/ flag = <<"entrance", "no_level_route">> /\ Stepped(t)
                         \/ flag = <<"parking", "no_disabled_spaces">> /\ NoSpace(t)
<1> DEFINE raw == MapComponents(t)
           comps == WithAuditFlags(raw)
<1>1. Transform(t).comps = comps
  BY DEF Included, Transform, MapTagsToProfile
<1>2. /\ DOMAIN comps = DOMAIN raw
      /\ \A c \in DOMAIN raw : comps[c].flags = Flags(c, raw[c].members)
  <2>1. \A c \in DOMAIN raw : comps[c] = [raw[c] EXCEPT !.flags = Flags(c, raw[c].members)]
    BY DEF WithAuditFlags
  <2>2. \A c \in DOMAIN raw : raw[c] = [members |-> raw[c].members, flags |-> {}]
    BY ComponentsAre
  <2>3. DOMAIN comps = DOMAIN raw
    BY DEF WithAuditFlags
  <2> HIDE DEF comps, raw
  <2> QED
    BY <2>1, <2>2, <2>3
<1>3. \A flag : flag \in FlagsOf(Transform(t))
                  <=> \E c \in DOMAIN raw : \E f \in Flags(c, raw[c].members) : flag = <<c, f>>
  <2> HIDE DEF comps, raw
  <2>1. FlagsOf(Transform(t)) = UNION {{<<c, f>> : f \in comps[c].flags} : c \in DOMAIN comps}
    BY <1>1 DEF FlagsOf
  <2> QED
    BY <1>2, <2>1
<1>4. /\ Narrow(t) => "entrance" \in DOMAIN raw
      /\ Stepped(t) => "entrance" \in DOMAIN raw
      /\ NoSpace(t) => "parking" \in DOMAIN raw
  <2>1. Narrow(t) \/ Stepped(t) => DOMAIN MapEntrance(t) # {}
    BY EntranceSays DEF Has, NoLevelRoute
  <2>2. NoSpace(t) => DOMAIN MapParking(t) # {}
    BY ParkingSays DEF Has
  <2> QED
    BY <2>1, <2>2, ComponentsAre
<1>5. ASSUME NEW c \in DOMAIN raw, NEW f
      PROVE  f \in Flags(c, raw[c].members)
               <=> \/ c = "entrance" /\ f = "narrow_width" /\ Narrow(t)
                   \/ c = "entrance" /\ f = "no_level_route" /\ Stepped(t)
                   \/ c = "parking" /\ f = "no_disabled_spaces" /\ NoSpace(t)
  BY <1>5, ComponentsAre, MappedFlags
<1> HIDE DEF raw
<1> QED
  BY <1>3, <1>4, <1>5

----------------------------------------------------------------------------
(* The element and its place.                                               *)

TransformsTags == poi = Transform(tags)

LEMMA TagsStep == [TagNext]_tagVars /\ TransformsTags => TransformsTags'
BY DEF TagNext, AddTag, RemoveTag, Edit, tagVars, TransformsTags

With(t, k, v) == Override([l \in {k} |-> v], t)

(* A tag that is added is read, and every other as before.                  *)
LEMMA AddedKey ==
  ASSUME NEW t, NEW k, NEW v
  PROVE  DOMAIN With(t, k, v) = DOMAIN t \cup {k}
BY DEF With, Override

LEMMA AddedValue ==
  ASSUME NEW t, NEW k, NEW v
  PROVE  With(t, k, v)[k] = v
BY DEF With, Override

LEMMA AddedElsewhere ==
  ASSUME NEW t, NEW k, NEW v, NEW l, l # k
  PROVE  /\ l \in DOMAIN t => With(t, k, v)[l] = t[l]
         /\ Value(With(t, k, v), l) = Value(t, l)
<1>1. CASE l \in DOMAIN t
  BY <1>1 DEF With, Override, Value
<1>2. CASE l \notin DOMAIN t
  BY <1>2 DEF With, Override, Value
<1> QED
  BY <1>1, <1>2

LEMMA GrowingAdds ==
  ASSUME TagNext, Grows
  PROVE  \E k, v : /\ k \notin DOMAIN tags
                   /\ tags' = With(tags, k, v)
                   /\ poi' = Transform(tags')
<1>1. ASSUME NEW k \in DOMAIN tags, RemoveTag(k)
      PROVE  FALSE
  BY <1>1 DEF RemoveTag, Edit, Grows
<1>2. ASSUME NEW k, NEW v, AddTag(k, v)
      PROVE  k \notin DOMAIN tags /\ tags' = With(tags, k, v) /\ poi' = Transform(tags')
  BY <1>2 DEF AddTag, Edit, With
<1> QED
  BY <1>1, <1>2 DEF TagNext

LEMMA CategoryIs ==
  ASSUME NEW t
  PROVE  /\ Transform(t).category = Evaluate(t)
         /\ Included(Transform(t)) => Transform(t).rank = DeriveRank(Evaluate(t), t)
BY DEF Transform, Included

(* The allowlist.                                                           *)
Listed(t) ==
  \/ Value(t, "amenity") \in DOMAIN AmenityToCategory
  \/ Value(t, "public_transport") \in {"station", "stop_area"}
  \/ Value(t, "shop") # ""
  \/ Value(t, "building") # "" /\ \E key \in BuildingQualifyingKeys : Value(t, key) # ""

LEMMA EvaluateLists ==
  ASSUME NEW t
  PROVE  /\ Evaluate(t) # Excluded <=> Listed(t)
         /\ Value(t, "amenity") \in DOMAIN AmenityToCategory =>
              Evaluate(t) = AmenityToCategory[Value(t, "amenity")] /\ Evaluate(t) # Excluded
<1>1. CASE Value(t, "amenity") \in DOMAIN AmenityToCategory
  <2>1. Value(t, "amenity") = t["amenity"]
    BY <1>1, TableAssumption DEF Value
  <2>2. Evaluate(t) = AmenityToCategory[t["amenity"]]
    BY <1>1 DEF Evaluate
  <2> QED
    BY <1>1, <2>1, <2>2, TableAssumption DEF Listed
<1>2. CASE Value(t, "amenity") \notin DOMAIN AmenityToCategory
  <2> DEFINE built == Value(t, "building") # "" /\ \E key \in BuildingQualifyingKeys : Value(t, key) # ""
             otherwise == IF built THEN "other" ELSE Excluded
  <2>1. otherwise # Excluded <=> built
    BY DEF Excluded
  <2>2. Evaluate(t) = IF Value(t, "public_transport") \in {"station", "stop_area"} THEN "transport"
                      ELSE IF Value(t, "shop") # "" THEN "shop" ELSE otherwise
    BY <1>2 DEF Evaluate
  <2>3. Listed(t) <=> \/ Value(t, "public_transport") \in {"station", "stop_area"}
                      \/ Value(t, "shop") # ""
                      \/ built
    BY <1>2 DEF Listed
  <2> HIDE DEF built, otherwise
  <2> QED
    BY <1>2, <2>1, <2>2, <2>3 DEF Excluded
<1> QED
  BY <1>1, <1>2

LEMMA TagsInitially == TagInit => TransformsTags
<1> SUFFICES ASSUME TagInit PROVE TransformsTags
  OBVIOUS
<1>1. \A k : Value(tags, k) = ""
  BY DEF TagInit, Value
<1>2. Evaluate(tags) = Excluded
  BY <1>1, EvaluateLists, TableAssumption DEF Listed
<1> QED
  BY <1>2 DEF TagInit, TransformsTags, Transform

LEMMA TagsInvariant == TagSpec => []TransformsTags
BY TagsStep, TagsInitially, PTL DEF TagSpec

(* No tag that is added takes an element off the allowlist.                 *)
LEMMA EvaluateIsMonotone ==
  ASSUME NEW t, NEW k, NEW v, k \notin DOMAIN t, Evaluate(t) # Excluded
  PROVE  Evaluate(With(t, k, v)) # Excluded
<1> DEFINE u == With(t, k, v)
<1>1. \A l : Value(t, l) # "" => Value(u, l) = Value(t, l)
  BY AddedElsewhere DEF Value
<1> HIDE DEF u
<1>2. Listed(t) => Listed(u)
  BY <1>1, TableAssumption DEF Listed
<1> QED
  BY <1>2, EvaluateLists DEF u

(* Tagging an element in more detail never drops it from the registry       *)
(* (Evaluate).                                                              *)
THEOREM TaggingKeeps == TagSpec => InclusionIsMonotone
<1>1. ASSUME TransformsTags, TagNext, Grows, Included(poi)
      PROVE  Included(poi')
  <2>1. PICK k, v : /\ k \notin DOMAIN tags
                    /\ tags' = With(tags, k, v)
                    /\ poi' = Transform(tags')
    BY <1>1, GrowingAdds
  <2>2. Evaluate(tags) # Excluded
    BY <1>1, CategoryIs DEF TransformsTags, Included
  <2>3. Evaluate(tags') # Excluded
    BY <2>1, <2>2, EvaluateIsMonotone
  <2> QED
    BY <2>1, <2>3, CategoryIs DEF Included
<1>2. TransformsTags /\ [TagNext]_tagVars => [Grows /\ Included(poi) => Included(poi')]_tagVars
  BY <1>1
<1> QED
  BY <1>2, TagsInvariant, PTL DEF TagSpec, InclusionIsMonotone

(* What an amenity of the table decides.                                    *)
LEMMA AmenityDecidesIt ==
  ASSUME NEW t, Value(t, "amenity") \in DOMAIN AmenityToCategory
  PROVE  LET category == AmenityToCategory[Value(t, "amenity")] IN
         /\ Transform(t).category = category
         /\ Transform(t).rank = "feature"
              <=> \/ category = "toilet"
                  \/ /\ category \in {"finance", "social"}
                     /\ Value(t, "amenity") \in {"toilets", "atm", "shelter"}
<1> DEFINE category == AmenityToCategory[Value(t, "amenity")]
<1>1. Evaluate(t) = category /\ category # Excluded
  BY EvaluateLists
<1>2. Transform(t).category = category /\ Transform(t).rank = DeriveRank(category, t)
  BY <1>1, CategoryIs DEF Included
<1> HIDE DEF category
<1>3. DeriveRank(category, t) = "feature"
        <=> \/ category = "toilet"
            \/ category \in {"finance", "social"} /\ Value(t, "amenity") \in {"toilets", "atm", "shelter"}
  BY DEF DeriveRank
<1> QED
  BY <1>2, <1>3 DEF category

(* An amenity of the table decides the category and whether the place is a  *)
(* minor utility, whatever else is tagged (Evaluate, DeriveRank).           *)
THEOREM AmenityRules == TagSpec => AmenityDecides
<1>1. ASSUME TransformsTags, TagNext, Value(tags, "amenity") \in DOMAIN AmenityToCategory,
             Value(tags', "amenity") = Value(tags, "amenity")
      PROVE  /\ poi'.category = poi.category
             /\ poi'.rank = "feature" <=> poi.rank = "feature"
  <2>1. poi = Transform(tags) /\ poi' = Transform(tags')
    BY <1>1, TagsStep DEF TransformsTags
  <2> QED
    BY <1>1, <2>1, AmenityDecidesIt
<1>2. TransformsTags /\ [TagNext]_tagVars =>
        [Value(tags, "amenity") \in DOMAIN AmenityToCategory /\ Value(tags', "amenity") = Value(tags, "amenity")
           => /\ poi'.category = poi.category
              /\ poi'.rank = "feature" <=> poi.rank = "feature"]_tagVars
  BY <1>1
<1> QED
  BY <1>2, TagsInvariant, PTL DEF TagSpec, AmenityDecides

(* An imported place has the flags its tags are evidence of and no others   *)
(* (mapTagsToProfile, entranceFlags, parkingFlags).                         *)
THEOREM FlagsAreEarned == TagSpec => []FlagsMeetEvidence
<1>1. ASSUME TransformsTags PROVE FlagsMeetEvidence
  <2>1. CASE ~Included(poi)
    BY <2>1 DEF FlagsMeetEvidence, FlagsOf
  <2>2. CASE Included(poi)
    <3>1. poi = Transform(tags)
      BY <1>1 DEF TransformsTags
    <3>2. \A flag : flag \in FlagsOf(poi)
                      <=> \/ flag = <<"entrance", "narrow_width">> /\ Narrow(tags)
                          \/ flag = <<"entrance", "no_level_route">> /\ Stepped(tags)
                          \/ flag = <<"parking", "no_disabled_spaces">> /\ NoSpace(tags)
      BY <2>2, <3>1, FlagsAre
    <3>3. Narrow(tags) <=> TaggedNarrow(tags)
      BY DEF Narrow, WidthTag, TaggedNarrow, TooNarrow, Readable
    <3>4. Stepped(tags) <=> TaggedStepped(tags)
      BY DEF Stepped, HasSteps, TaggedStepped
    <3>5. NoSpace(tags) <=> TaggedNoSpace(tags)
      BY DEF NoSpace, TaggedNoSpace
    <3>6. \A flag : flag \in Evidence(tags)
                      <=> \/ flag = <<"entrance", "narrow_width">> /\ TaggedNarrow(tags)
                          \/ flag = <<"entrance", "no_level_route">> /\ TaggedStepped(tags)
                          \/ flag = <<"parking", "no_disabled_spaces">> /\ TaggedNoSpace(tags)
      BY DEF Evidence
    <3>7. \A flag : flag \in FlagsOf(poi) <=> flag \in Evidence(tags)
      BY <3>2, <3>3, <3>4, <3>5, <3>6
    <3>8. FlagsOf(poi) = Evidence(tags)
      BY <3>7
    <3> QED
      BY <2>2, <3>8 DEF FlagsMeetEvidence
  <2> QED
    BY <2>1, <2>2
<1> QED
  BY <1>1, TagsInvariant, PTL

LEMMA GoodNewsOf ==
  ASSUME NEW t, NEW k, NEW v, k \notin DOMAIN t, Favourable(k, v)
  PROVE  LET u == With(t, k, v) IN
         /\ Narrow(u) => Narrow(t)
         /\ Stepped(u) => Stepped(t)
         /\ NoSpace(u) => NoSpace(t)
<1> DEFINE u == With(t, k, v)
<1>1. /\ DOMAIN u = DOMAIN t \cup {k}
      /\ u[k] = v /\ Value(u, k) = v
      /\ \A l \in DOMAIN t : u[l] = t[l]
      /\ \A l : l # k => Value(u, l) = Value(t, l)
  <2>1. DOMAIN u = DOMAIN t \cup {k}
    BY AddedKey
  <2>2. u[k] = v
    BY AddedValue
  <2>3. Value(u, k) = v
    BY <2>1, <2>2 DEF Value
  <2>4. \A l \in DOMAIN t : u[l] = t[l]
    BY AddedElsewhere
  <2>5. \A l : l # k => Value(u, l) = Value(t, l)
    BY AddedElsewhere
  <2> QED
    BY <2>1, <2>2, <2>3, <2>4, <2>5
<1> HIDE DEF u
<1>2. Narrow(u) => Narrow(t)
  <2>1. CASE k \notin {"width", "door:width"}
    BY <1>1, <2>1 DEF Narrow, WidthTag
  <2>2. CASE k \in {"width", "door:width"}
    <3>1. v \in DOMAIN HundredthsOf /\ HundredthsOf[v] >= 70
      BY <2>2 DEF Favourable
    <3>2. WidthTag(u) = v \/ WidthTag(u) = WidthTag(t)
      BY <1>1, <2>2, <3>1 DEF WidthTag
    <3> QED
      <4>1. HundredthsOf[v] \in Int
        BY <3>1, TableAssumption
      <4>2. CASE WidthTag(u) = v
        BY <3>1, <4>1, <4>2 DEF Narrow
      <4>3. CASE WidthTag(u) = WidthTag(t)
        BY <4>3 DEF Narrow
      <4> QED
        BY <3>2, <4>2, <4>3
  <2> QED
    BY <2>1, <2>2
<1>3. Stepped(u) => Stepped(t)
  <2>1. k \notin {"step_count", "entrance:step_count"}
    BY DEF Favourable
  <2>2. HasSteps(u) <=> HasSteps(t)
    BY <1>1, <2>1 DEF HasSteps
  <2>3. Value(t, "ramp:wheelchair") = "yes" => Value(u, "ramp:wheelchair") = "yes"
    BY <1>1 DEF Value, Favourable
  <2> QED
    BY <2>2, <2>3 DEF Stepped
<1>4. NoSpace(u) => NoSpace(t)
  <2>1. k # "parking:disabled"
    BY DEF Favourable
  <2>2. CASE k = "capacity:disabled"
    <3>1. PositiveInteger(v)
      BY <2>2 DEF Favourable
    <3> QED
      BY <1>1, <2>2, <3>1 DEF NoSpace
  <2>3. CASE k # "capacity:disabled"
    BY <1>1, <2>1, <2>3 DEF NoSpace
  <2> QED
    BY <2>2, <2>3
<1> QED
  BY <1>2, <1>3, <1>4 DEF u

(* Good news adds no flag: a ramp, a wider door or a parking space recorded *)
(* on a listed place never makes it look worse (mapEntrance, mapParking).   *)
THEOREM GoodNewsIsHarmless == TagSpec => GoodNewsAddsNoFlag
<1>1. ASSUME TransformsTags, TagNext, Included(poi), Grows,
             \A k \in DOMAIN tags' \ DOMAIN tags : Favourable(k, tags'[k])
      PROVE  FlagsOf(poi') \subseteq FlagsOf(poi)
  <2>1. PICK k, v : /\ k \notin DOMAIN tags
                    /\ tags' = With(tags, k, v)
                    /\ poi' = Transform(tags')
    BY <1>1, GrowingAdds
  <2>2. Favourable(k, v)
    <3>1. DOMAIN With(tags, k, v) = DOMAIN tags \cup {k}
      BY AddedKey
    <3>2. With(tags, k, v)[k] = v
      BY AddedValue
    <3> QED
      BY <1>1, <2>1, <3>1, <3>2
  <2>3. /\ Narrow(tags') => Narrow(tags)
        /\ Stepped(tags') => Stepped(tags)
        /\ NoSpace(tags') => NoSpace(tags)
    BY <2>1, <2>2, GoodNewsOf
  <2>4. CASE ~Included(poi')
    BY <2>4 DEF FlagsOf
  <2>5. CASE Included(poi')
    <3>1. poi = Transform(tags)
      BY <1>1 DEF TransformsTags
    <3>2. \A flag : flag \in FlagsOf(poi)
                      <=> \/ flag = <<"entrance", "narrow_width">> /\ Narrow(tags)
                          \/ flag = <<"entrance", "no_level_route">> /\ Stepped(tags)
                          \/ flag = <<"parking", "no_disabled_spaces">> /\ NoSpace(tags)
      BY <1>1, <3>1, FlagsAre
    <3>3. \A flag : flag \in FlagsOf(poi')
                      <=> \/ flag = <<"entrance", "narrow_width">> /\ Narrow(tags')
                          \/ flag = <<"entrance", "no_level_route">> /\ Stepped(tags')
                          \/ flag = <<"parking", "no_disabled_spaces">> /\ NoSpace(tags')
      BY <2>1, <2>5, FlagsAre
    <3> QED
      BY <2>3, <3>2, <3>3
  <2> QED
    BY <2>4, <2>5
<1>2. TransformsTags /\ [TagNext]_tagVars =>
        [Included(poi) /\ Grows /\ (\A k \in DOMAIN tags' \ DOMAIN tags : Favourable(k, tags'[k]))
           => FlagsOf(poi') \subseteq FlagsOf(poi)]_tagVars
  BY <1>1
<1> QED
  BY <1>2, TagsInvariant, PTL DEF TagSpec, GoodNewsAddsNoFlag
=============================================================================
