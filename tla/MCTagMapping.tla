---------------------------- MODULE MCTagMapping ----------------------------
(***************************************************************************)
(* TagMapping over every tag the filter and the rank look at, and the tags *)
(* a profile is made from, with readable, unreadable, zero and negative    *)
(* values.                                                                 *)
(***************************************************************************)
EXTENDS TagMapping

MCAmenityToCategory ==
  [hospital |-> "healthcare", university |-> "education", bus_station |-> "transport",
   taxi |-> "transport", toilets |-> "toilet", atm |-> "finance", shelter |-> "social",
   cafe |-> "cafe"]

MCIntegerOf == ("0" :> 0) @@ ("1" :> 1) @@ ("-1" :> -1)
MCHundredthsOf == ("0.6" :> 60) @@ ("0.7" :> 70) @@ ("0.8" :> 80)
MCPercentOf == ("6%" :> 600) @@ ("-7%" :> -700) @@ ("9%" :> 900)

MCTagValues ==
  ("amenity" :> DOMAIN MCAmenityToCategory \cup {"bench"})
    @@ ("public_transport" :> {"station", "stop_area", "platform"})
    @@ ("shop" :> {"yes", ""})
    @@ ("building" :> {"yes"})
    @@ ("healthcare" :> {"hospital"})
    @@ ("tourism" :> {"hotel", ""})
    @@ ("step_count" :> {"0", "1", "some"})
    @@ ("entrance:step_count" :> {"1", "-1"})
    @@ ("ramp:wheelchair" :> {"yes", "no", "steep"})
    @@ ("ramp" :> {"no", "yes"})
    @@ ("width" :> {"0.6", "0.8", "wide"})
    @@ ("door:width" :> {"0.6", "0.7"})
    @@ ("capacity:disabled" :> {"0", "1", "yes"})
    @@ ("parking:disabled" :> {"no"})
    @@ ("incline" :> {"6%", "-7%", "9%", "up"})
    @@ ("automatic_door" :> {"yes", "no"})
    @@ ("toilets:wheelchair" :> {"yes", "no"})
    @@ ("wheelchair" :> {"limited", "unknown"})
    @@ ("elevator" :> {"yes"})
=============================================================================
