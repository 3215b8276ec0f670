----------------------------- MODULE TagMapping -----------------------------
(***************************************************************************)
(* One OSM element in the course of its edits, imported after each of      *)
(* them: Evaluate, transform and, as the batcher does before it writes the *)
(* profile, WithAuditFlags.                                                *)
(***************************************************************************)
EXTENDS OsmTags

CONSTANTS
  TagValues,  \* function: the keys edited to the values they may take
  MaxTags     \* bound: tags on the element

ASSUME TagAssumption == MaxTags \in Nat

(* The table knows no empty amenity and no category "excluded".  What is    *)
(* read of a width is a number; an infinite one, or none (NaN), stands for  *)
(* any number of the level it is given.  The empty string is no integer.    *)
ASSUME TableAssumption ==
  /\ "" \notin DOMAIN AmenityToCategory
  /\ \A a \in DOMAIN AmenityToCategory : AmenityToCategory[a] # Excluded
  /\ \A v \in DOMAIN HundredthsOf : HundredthsOf[v] \in Int
  /\ "" \notin DOMAIN IntegerOf

VARIABLES
  tags,
  poi  \* what the import makes of the element

tagVars == <<tags, poi>>

Transform(t) ==
  IF Evaluate(t) = Excluded THEN [category |-> Excluded]
  ELSE [category |-> Evaluate(t), rank |-> DeriveRank(Evaluate(t), t),
        reports |-> MapTagsToProfile(t).reports,
        comps |-> WithAuditFlags(MapTagsToProfile(t).comps)]

Included(p) == p.category # Excluded

TagInit ==
  /\ tags = << >>
  /\ poi = [category |-> Excluded]

Edit(t) ==
  /\ tags' = t
  /\ poi' = Transform(t)

AddTag(k, v) ==
  /\ k \notin DOMAIN tags
  /\ Cardinality(DOMAIN tags) < MaxTags
  /\ Edit(Override([l \in {k} |-> v], tags))

RemoveTag(k) ==
  /\ k \in DOMAIN tags
  /\ Edit([l \in DOMAIN tags \ {k} |-> tags[l]])

TagNext ==
  \/ \E k \in DOMAIN TagValues : \E v \in TagValues[k] : AddTag(k, v)
  \/ \E k \in DOMAIN tags : RemoveTag(k)

TagSpec == TagInit /\ [][TagNext]_tagVars

----------------------------------------------------------------------------
(* Properties.                                                              *)

Grows == DOMAIN tags \subseteq DOMAIN tags'

(* Tagging an element in more detail never drops it from the registry: the  *)
(* filter is an allowlist, and no branch of Evaluate shadows a later one.   *)
InclusionIsMonotone == [][Grows /\ Included(poi) => Included(poi')]_tagVars

(* An amenity that is in the table decides the category and whether the     *)
(* place is a minor utility; whatever else is tagged or untagged then, the  *)
(* place keeps both, and with them its candidates in the matcher.           *)
AmenityDecides ==
  [][Value(tags, "amenity") \in DOMAIN AmenityToCategory /\ Value(tags', "amenity") = Value(tags, "amenity")
       => /\ poi'.category = poi.category
          /\ poi'.rank = "feature" <=> poi.rank = "feature"]_tagVars

FlagsOf(p) ==
  IF Included(p) THEN UNION {{<<c, f>> : f \in p.comps[c].flags} : c \in DOMAIN p.comps} ELSE {}

Readable(t, k) == Value(t, k) \in DOMAIN HundredthsOf
TooNarrow(t, k) == Readable(t, k) /\ HundredthsOf[Value(t, k)] < 70

(* What the tags of a place say against it.  One tag decides: the width     *)
(* before the door's, if it is a number; ramp:wheelchair, a plain ramp=yes  *)
(* being no ramp for a wheelchair; capacity:disabled before                 *)
(* parking:disabled, even if it is no number.                               *)
TaggedNarrow(t) == TooNarrow(t, "width") \/ (~Readable(t, "width") /\ TooNarrow(t, "door:width"))
TaggedStepped(t) ==
  /\ \E k \in {"step_count", "entrance:step_count"} : PositiveInteger(Value(t, k))
  /\ Value(t, "ramp:wheelchair") # "yes"
TaggedNoSpace(t) ==
  IF "capacity:disabled" \in DOMAIN t
  THEN t["capacity:disabled"] \in DOMAIN IntegerOf /\ ~PositiveInteger(t["capacity:disabled"])
  ELSE Value(t, "parking:disabled") = "no"

Evidence(t) ==
  (IF TaggedNarrow(t) THEN {<<"entrance", "narrow_width">>} ELSE {})
    \cup (IF TaggedStepped(t) THEN {<<"entrance", "no_level_route">>} ELSE {})
    \cup (IF TaggedNoSpace(t) THEN {<<"parking", "no_disabled_spaces">>} ELSE {})

(* An imported place has the flags its tags are evidence of and no others:  *)
(* what is not tagged, or is tagged in words, accuses nobody, and no        *)
(* evidence is lost between the tags, the members made of them and the      *)
(* rules for members.                                                       *)
FlagsMeetEvidence == FlagsOf(poi) = IF Included(poi) THEN Evidence(tags) ELSE {}

Favourable(k, v) ==
  \/ k = "ramp:wheelchair" /\ v = "yes"
  \/ k \in {"width", "door:width"} /\ v \in DOMAIN HundredthsOf /\ HundredthsOf[v] >= 70
  \/ k = "capacity:disabled" /\ PositiveInteger(v)

(* Good news adds no flag: a ramp, a wider door or a parking space recorded *)
(* on a place already listed never makes it look worse.                     *)
GoodNewsAddsNoFlag ==
  [][Included(poi) /\ Grows /\ (\A k \in DOMAIN tags' \ DOMAIN tags : Favourable(k, tags'[k]))
       => FlagsOf(poi') \subseteq FlagsOf(poi)]_tagVars
=============================================================================
