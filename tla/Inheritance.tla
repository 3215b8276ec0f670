---------------------------- MODULE Inheritance ----------------------------
(***************************************************************************)
(* A place and its parent, and the profile a reader is shown (cmd/api      *)
(* GetPlace, PatchPlaceAccessibility; internal/a11y).  GET reads the place *)
(* with its profile and then the parent with its own: no transaction joins *)
(* the reads, and profiles are written in between.  The places rows do not *)
(* change, no path writes parent_id, so a row and the profile preloaded    *)
(* with it are read in one step, that of the profile.                      *)
(*                                                                         *)
(* A write is atomic here: ProfileWrites has the statements it is made of. *)
(***************************************************************************)
EXTENDS A11yEngine

CONSTANTS
  Child, Parent,  \* the two places
  Readers,        \* clients; a client may send back what it has read
  Patches,        \* the bodies of PATCH requests
  Imported,       \* the profiles an import delivers, without flags
  MaxSeen,        \* bound: rows of one place that one GET lives through
  Faults          \* whether a query may fail

Places == {Child, Parent}
Names == {"entrance", "pathways", "restroom", "parking", "elevator"}

(* A member that is null is a member that is not there.                     *)
IsProfile(comps) ==
  /\ DOMAIN comps \subseteq Names
  /\ comps = [c \in DOMAIN comps |-> [members |-> comps[c].members, flags |-> comps[c].flags]]
  /\ \A c \in DOMAIN comps : \A m \in DOMAIN comps[c].members : comps[c].members[m] # "null"

ASSUME PlacesAssumption == Child # Parent /\ Parent # "null" /\ MaxSeen \in Nat \ {0}
ASSUME BodiesAssumption ==
  /\ \A patch \in Patches : DOMAIN patch \subseteq Names
  /\ \A comps \in Imported : IsProfile(comps)

VARIABLES
  profile,  \* accessibility_profiles: components and user_verified by place
  reader,   \* local state of each GET
  seen      \* history: the rows of each place since a GET in progress began

vars == <<profile, reader, seen>>

NoProfile == [comps |-> NoComponents, verified |-> FALSE]
Idle == [pc |-> "idle"]

TypeOK ==
  /\ \A p \in Places : IsProfile(profile[p].comps) /\ profile[p].verified \in BOOLEAN
  /\ \A r \in Readers :
       /\ reader[r].pc \in {"idle", "loaded", "answered"}
       /\ reader[r].pc = "loaded" => IsProfile(reader[r].own)
       /\ reader[r].pc = "answered" => IsProfile(reader[r].response)
  /\ \A r \in Readers, p \in Places : \A comps \in seen[r][p] : IsProfile(comps)

Init ==
  /\ profile = [p \in Places |-> NoProfile]
  /\ reader = [r \in Readers |-> Idle]
  /\ seen = [r \in Readers |-> [p \in Places |-> {}]]

----------------------------------------------------------------------------
(* Writes.                                                                  *)

(* RFC 7396.  A patch names components; a component is "null" or names      *)
(* members, a member is "null" or a value.                                  *)
MergeMembers(old, patch) ==
  LET new == Override(patch, old)
  IN [m \in {n \in DOMAIN new : new[n] # "null"} |-> new[m]]

MergeComponent(comps, name, patch) ==
  IF name \notin DOMAIN patch THEN comps[name]
  ELSE IF name \in DOMAIN comps
       THEN [comps[name] EXCEPT !.members = MergeMembers(@, patch[name].set)]
       ELSE [members |-> MergeMembers(<< >>, patch[name].set), flags |-> {}]

Cleared(patch) == {c \in DOMAIN patch : patch[c].null}

MergePatch(comps, patch) ==
  [c \in (DOMAIN comps \cup DOMAIN patch) \ Cleared(patch) |-> MergeComponent(comps, c, patch)]

(* Every row that a GET in progress could have read is in its history.      *)
Store(p, comps, verified) ==
  /\ \A r \in Readers : Cardinality(seen[r][p] \cup {comps}) <= MaxSeen
  /\ profile' = [profile EXCEPT ![p] = [comps |-> comps, verified |-> verified]]
  /\ seen' = [r \in Readers |-> IF reader[r].pc = "loaded"
                                THEN [seen[r] EXCEPT ![p] = @ \cup {comps}] ELSE seen[r]]

(* UpsertProfile: merge, then prepare computes the flags of what is stored. *)
Patch(p, patch) ==
  /\ Store(p, WithAuditFlags(MergePatch(profile[p].comps, patch)), TRUE)
  /\ UNCHANGED reader

(* UpsertProfileIngestion, with the flags the batcher computed.             *)
Import(p, comps) ==
  /\ ~profile[p].verified
  /\ Store(p, WithAuditFlags(comps), FALSE)
  /\ UNCHANGED reader

----------------------------------------------------------------------------
(* GET /v1/places/{id} of the child.                                        *)

ReadPlace(r) ==
  /\ reader[r].pc # "loaded"
  /\ reader' = [reader EXCEPT ![r] = [pc |-> "loaded", own |-> profile[Child].comps]]
  /\ seen' = [seen EXCEPT ![r] = [p \in Places |-> {profile[p].comps}]]
  /\ UNCHANGED profile

ReadParent(r) ==
  /\ reader[r].pc = "loaded"
  /\ reader' = [reader EXCEPT ![r] =
       [pc |-> "answered", response |-> EffectiveProfile(reader[r].own, profile[Parent].comps, Parent)]]
  /\ seen' = [seen EXCEPT ![r] = [p \in Places |-> {}]]
  /\ UNCHANGED profile

(* The query of the parent fails: the place is answered as it is.           *)
ReadParentFails(r) ==
  /\ Faults
  /\ reader[r].pc = "loaded"
  /\ reader' = [reader EXCEPT ![r] = [pc |-> "answered", response |-> reader[r].own]]
  /\ seen' = [seen EXCEPT ![r] = [p \in Places |-> {}]]
  /\ UNCHANGED profile

(* A client sends what it was given, less what the API declares read-only:  *)
(* audit_flags, and not the marks of an inherited component.                *)
SendBack(r) ==
  /\ reader[r].pc = "answered"
  /\ LET resp == reader[r].response
         body == [c \in DOMAIN resp |-> [null |-> FALSE, set |-> resp[c].members]]
     IN Store(Child, WithAuditFlags(MergePatch(profile[Child].comps, body)), TRUE)
  /\ reader' = [reader EXCEPT ![r] = Idle]

Next ==
  \/ \E p \in Places : (\E patch \in Patches : Patch(p, patch)) \/ (\E c \in Imported : Import(p, c))
  \/ \E r \in Readers : ReadPlace(r) \/ ReadParent(r) \/ ReadParentFails(r) \/ SendBack(r)

Spec == Init /\ [][Next]_vars

----------------------------------------------------------------------------
(* Properties.                                                              *)

(* The audit flags of a stored component are a function of its members, as  *)
(* the review rules demand: whatever sequence of merges, imports and        *)
(* send-backs led to it, no flag is stale, missing or taken from a client.  *)
Warranted(name, flag, members) ==
  \/ \E row \in FlagTable : row[1] = name /\ row[4] = flag /\ Has(members, row[2], row[3])
  \/ /\ name = "entrance" /\ flag = "no_level_route"
     /\ Has(members, "is_level", "false")
     /\ \A m \in {"has_fixed_ramp", "has_removable_ramp"} : ~Has(members, m, "true")

AllFlags == {row[4] : row \in FlagTable} \cup {"no_level_route"}

FlagsAreCurrent ==
  \A p \in Places : LET comps == profile[p].comps IN
    \A c \in DOMAIN comps :
      comps[c].flags = {f \in AllFlags : Warranted(c, f, comps[c].members)}

(* What a reader is shown was there while it read: a component is the       *)
(* place's own at some moment of the read, or the parent's at some moment,  *)
(* marked, when the place had none.  Members are never mixed, invented or   *)
(* left out, flags belong to the members they come with, and the parent's   *)
(* never wins.                                                              *)
Answered(r) == reader[r].pc = "loaded" /\ reader'[r].pc = "answered"

OwnAt(r, c, component) == \E row \in seen[r][Child] : c \in DOMAIN row /\ row[c] = component
NoneAt(r, p, c) == \E row \in seen[r][p] : c \notin DOMAIN row
AboveAt(r, c, component) ==
  \E row \in seen[r][Parent] :
    /\ c \in DOMAIN row
    /\ component.flags = row[c].flags
    /\ DOMAIN component.members = DOMAIN row[c].members \cup {"is_inherited", "source_id"}
    /\ Has(component.members, "is_inherited", "true")
    /\ Has(component.members, "source_id", Parent)
    /\ \A m \in DOMAIN row[c].members \ {"is_inherited", "source_id"} :
         Has(component.members, m, row[c].members[m])

ResponseIsWarranted ==
  [][\A r \in Readers : Answered(r) =>
       LET response == reader'[r].response
       IN \A c \in DOMAIN response :
            \/ OwnAt(r, c, response[c])
            \/ NoneAt(r, Child, c) /\ AboveAt(r, c, response[c])]_vars

(* A place inherits every component it does not define: when the query of   *)
(* the parent succeeds, no answer lacks a component that the place or its   *)
(* parent has had throughout the read.                                      *)
NothingInheritableIsMissing ==
  [][\A r \in Readers : ReadParent(r) =>
       \A c \in Names \ DOMAIN reader'[r].response :
         NoneAt(r, Child, c) /\ NoneAt(r, Parent, c)]_vars
=============================================================================
