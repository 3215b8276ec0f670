------------------------------ MODULE OsmTags ------------------------------
(***************************************************************************)
(* What the OSM source makes of the tags of an element                     *)
(* (internal/sources/osm): whether it is a place and of which category,    *)
(* its rank, and its accessibility profile.                                *)
(*                                                                         *)
(* Tags are a function from the keys that are present to their values, all *)
(* strings.  strconv is external: IntegerOf, HundredthsOf and PercentOf    *)
(* give the numbers it reads, and their domains are what it can read.      *)
(***************************************************************************)
EXTENDS A11yEngine

CONSTANTS
  AmenityToCategory,  \* function: amenity values to categories
  IntegerOf,          \* function: what strconv.Atoi reads
  HundredthsOf,       \* function: what strconv.ParseFloat reads, times 100
  PercentOf           \* function: "n%" read as n, times 100

Value(tags, key) == IF key \in DOMAIN tags THEN tags[key] ELSE ""

----------------------------------------------------------------------------
(* Evaluate.                                                                *)

BuildingQualifyingKeys ==
  {"amenity", "shop", "tourism", "leisure", "office", "healthcare", "public_transport"}

Excluded == "excluded"

(* Mistakes: an amenity that is not in the table excludes the element; a    *)
(* shop is a shop whatever amenity it is.                                   *)
EvaluateAmenityOnly(tags) ==
  IF "amenity" \in DOMAIN tags /\ tags["amenity"] \notin DOMAIN AmenityToCategory THEN Excluded
  ELSE IF "amenity" \in DOMAIN tags THEN AmenityToCategory[tags["amenity"]]
  ELSE IF Value(tags, "shop") # "" THEN "shop" ELSE Excluded
EvaluateShopFirst(tags) ==
  IF Value(tags, "shop") # "" THEN "shop"
  ELSE IF Value(tags, "amenity") \in DOMAIN AmenityToCategory THEN AmenityToCategory[tags["amenity"]]
  ELSE Excluded

Evaluate(tags) ==
  IF Value(tags, "amenity") \in DOMAIN AmenityToCategory THEN AmenityToCategory[tags["amenity"]]
  ELSE IF Value(tags, "public_transport") \in {"station", "stop_area"} THEN "transport"
  ELSE IF Value(tags, "shop") # "" THEN "shop"
  ELSE IF /\ Value(tags, "building") # ""
          /\ \E k \in BuildingQualifyingKeys : Value(tags, k) # ""
       THEN "other"
  ELSE Excluded

DeriveRank(category, tags) ==
  LET amenity == Value(tags, "amenity")
      landmark == \/ category = "healthcare" /\ amenity = "hospital"
                  \/ category = "education" /\ amenity = "university"
                  \/ /\ category = "transport"
                     /\ \/ amenity \in {"bus_station", "ferry_terminal"}
                        \/ Value(tags, "public_transport") = "station"
      feature == \/ category = "toilet"
                 \/ category \in {"finance", "social"} /\ amenity \in {"toilets", "atm", "shelter"}
  IN IF landmark THEN "landmark" ELSE IF feature THEN "feature" ELSE "establishment"

----------------------------------------------------------------------------
(* mapTagsToProfile.  The operators give the members of a component that    *)
(* are set; a component without any is nil, the elevator excepted.          *)

Only(condition, member, value) == [m \in IF condition THEN {member} ELSE {} |-> value]

(* "yes" and "no" are heard, other values are not.                          *)
YesOrNo(v, member) == Only(v \in {"yes", "no"}, member, IF v = "yes" THEN "true" ELSE "false")

MapRestroom(tags) == YesOrNo(Value(tags, "toilets:wheelchair"), "is_accessible")

PositiveInteger(v) == v \in DOMAIN IntegerOf /\ IntegerOf[v] > 0

(* Mistake: one space is none.                                              *)
MapParkingFromTwo(tags) ==
  LET v == Value(tags, "capacity:disabled")
  IN Only(v \in DOMAIN IntegerOf, "has_disabled_spaces",
          IF v \in DOMAIN IntegerOf /\ IntegerOf[v] > 1 THEN "true" ELSE "false")

(* A capacity that is no number hides parking:disabled.                     *)
MapParking(tags) ==
  IF "capacity:disabled" \in DOMAIN tags
  THEN LET v == tags["capacity:disabled"]
       IN Only(v \in DOMAIN IntegerOf, "has_disabled_spaces",
               IF PositiveInteger(v) THEN "true" ELSE "false")
  ELSE Only(Value(tags, "parking:disabled") = "no", "has_disabled_spaces", "false")

HasSteps(tags) == \E k \in {"step_count", "entrance:step_count"} : PositiveInteger(Value(tags, k))

(* Mistake: the generic tag is read first.                                  *)
FixedRampGeneric(tags) ==
  IF Value(tags, "ramp") = "no" THEN YesOrNo("no", "has_fixed_ramp")
  ELSE Only(Value(tags, "ramp:wheelchair") = "yes", "has_fixed_ramp", "true")

(* ramp:wheelchair, whatever its value, hides ramp.                         *)
FixedRamp(tags) ==
  IF "ramp:wheelchair" \in DOMAIN tags THEN YesOrNo(tags["ramp:wheelchair"], "has_fixed_ramp")
  ELSE Only(Value(tags, "ramp") = "no", "has_fixed_ramp", "false")

(* parseMetres: the first of the two that is a number.                      *)
WidthTag(tags) ==
  IF Value(tags, "width") \in DOMAIN HundredthsOf THEN Value(tags, "width") ELSE Value(tags, "door:width")

DoorWidth(tags) ==
  Only(WidthTag(tags) \in DOMAIN HundredthsOf, "width", LevelForDoorWidth(HundredthsOf[WidthTag(tags)]))

(* parsePercent drops the sign.                                             *)
Slope(tags) ==
  LET v == Value(tags, "incline")
      h == PercentOf[v]
  IN Only(v \in DOMAIN PercentOf, "slope_percent", LevelForSlopePercent(IF h < 0 THEN -h ELSE h))

MapEntrance(tags) ==
  Override(Only(Value(tags, "automatic_door") \notin {"", "no"}, "door", "automatic"),
  Override(Only(HasSteps(tags), "is_level", "false"),
  Override(FixedRamp(tags), Override(DoorWidth(tags), Slope(tags)))))

Component(name, members, present) == Only(present, name, [members |-> members, flags |-> {}])

MapComponents(tags) ==
  Override(Component("entrance", MapEntrance(tags), DOMAIN MapEntrance(tags) # {}),
  Override(Component("restroom", MapRestroom(tags), DOMAIN MapRestroom(tags) # {}),
  Override(Component("parking", MapParking(tags), DOMAIN MapParking(tags) # {}),
           Component("elevator", << >>, Value(tags, "elevator") = "yes"))))

(* The opinion of the wheelchair tag is kept as it is.                      *)
Reports(tags) == {Value(tags, "wheelchair")} \cap {"yes", "designated", "limited", "no"}

MapTagsToProfile(tags) == [reports |-> Reports(tags), comps |-> MapComponents(tags)]

=============================================================================
