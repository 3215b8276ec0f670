----------------------------- MODULE A11yEngine -----------------------------
(***************************************************************************)
(* The accessibility rules (internal/a11y): the audit flags of a           *)
(* component, and the profile a place shows together with its parent.      *)
(*                                                                         *)
(* A component is a record of its members and its audit flags; the members *)
(* are a function from the names of those that are set to their values, a  *)
(* boolean being "true" or "false" and a rating "good", "limited" or "no". *)
(* A profile is a function from the names of its components, those that    *)
(* are nil being outside its domain.                                       *)
(***************************************************************************)
EXTENDS Integers, FiniteSets, TLC

NoComponents == << >>  \* the profile without components

(* new @@ old, of which the prover knows no definition.                     *)
Override(new, old) ==
  [m \in DOMAIN new \cup DOMAIN old |-> IF m \in DOMAIN new THEN new[m] ELSE old[m]]

----------------------------------------------------------------------------
(* entranceFlags ... elevatorFlags: component, member, value, flag.         *)
FlagTable ==
  {<<"entrance", "width", "no", "narrow_width">>,
   <<"pathways", "width", "no", "narrow_pathway">>,
   <<"restroom", "door_width", "no", "narrow_door">>,
   <<"restroom", "turning_radius", "no", "small_turning_radius">>,
   <<"restroom", "has_grab_rails", "false", "missing_grab_rails">>,
   <<"parking", "has_disabled_spaces", "false", "no_disabled_spaces">>,
   <<"elevator", "width", "no", "small_cabin_width">>,
   <<"elevator", "depth", "no", "small_cabin_depth">>,
   <<"elevator", "door_width", "no", "narrow_door">>,
   <<"elevator", "has_braille", "false", "missing_braille">>,
   <<"elevator", "has_audio", "false", "missing_audio">>}

Has(members, m, v) == m \in DOMAIN members /\ members[m] = v

NoLevelRoute(members) ==
  /\ Has(members, "is_level", "false")
  /\ ~Has(members, "has_fixed_ramp", "true")
  /\ ~Has(members, "has_removable_ramp", "true")

Flags(name, members) ==
  {row[4] : row \in {r \in FlagTable : r[1] = name /\ Has(members, r[2], r[3])}}
    \cup (IF name = "entrance" /\ NoLevelRoute(members) THEN {"no_level_route"} ELSE {})

(* Mistake: a component that has flags keeps them.                          *)
WithAuditFlagsOnce(profile) ==
  [c \in DOMAIN profile |->
     IF profile[c].flags = {} THEN [profile[c] EXCEPT !.flags = Flags(c, profile[c].members)]
                              ELSE profile[c]]

(* Engine.WithAuditFlags: whatever flags came with the profile are gone.    *)
WithAuditFlags(profile) ==
  [c \in DOMAIN profile |-> [profile[c] EXCEPT !.flags = Flags(c, profile[c].members)]]

----------------------------------------------------------------------------
(* LevelForDoorWidth, in centimetres; LevelForSlopePercent, in hundredths   *)
(* of a percent.                                                            *)
LevelForDoorWidth(cm) == IF cm >= 80 THEN "good" ELSE IF cm >= 70 THEN "limited" ELSE "no"

LevelForSlopePercent(h) == IF h <= 600 THEN "good" ELSE IF h <= 833 THEN "limited" ELSE "no"

----------------------------------------------------------------------------
(* ComputeEffectiveProfile.                                                 *)

Marks(parent) == [is_inherited |-> "true", source_id |-> parent]

Inherited(component, parent) == [component EXCEPT !.members = Override(Marks(parent), @)]

(* Mistakes: the parent's component wins; a place that has any component    *)
(* inherits none.                                                           *)
EffectiveParentFirst(own, above, parent) ==
  [c \in DOMAIN own \cup DOMAIN above |->
     IF c \in DOMAIN above THEN Inherited(above[c], parent) ELSE own[c]]
EffectiveIfNone(own, above, parent) ==
  IF own # NoComponents THEN own ELSE [c \in DOMAIN above |-> Inherited(above[c], parent)]

EffectiveProfile(own, above, parent) ==
  [c \in DOMAIN own \cup DOMAIN above |->
     IF c \in DOMAIN own THEN own[c] ELSE Inherited(above[c], parent)]
=============================================================================
