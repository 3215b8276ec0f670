---------------------------- MODULE MCMatching ----------------------------
(***************************************************************************)
(* Matching over three places.  Distances 0, 18, 20, 50 and 51 m sit on    *)
(* both sides of every threshold the weights imply.                        *)
(***************************************************************************)
EXTENDS Matching

MCToken == {"Cafe", "cafe", "rosso", "nero", "inc", "Via", "via", "1A", "1a", "2"}
MCFold == [t \in MCToken |-> CASE t = "Cafe" -> "cafe" [] t = "Via" -> "via"
                               [] t = "1A" -> "1a" [] OTHER -> t]
MCBusinessSuffixes == {"inc"}

MCRecordRows ==
  [pos : {0}, name : {<<"cafe", "rosso">>, <<"cafe">>, << >>}, cat : {"cafe", "shop"},
   street : {<<"via">>, << >>}, house : {<<"1a">>}]

Row(pos, name, street, house, cat, active) ==
  [pos |-> pos, name |-> name, street |-> street, house |-> house, cat |-> cat, active |-> active]

MCPlaceRows ==
  {Row(m, <<"Cafe", "rosso", "inc">>, << >>, << >>, "cafe", TRUE) : m \in {0, 18, 20, 50, 51}}
    \cup {Row(m, <<"Cafe", "nero">>, <<"Via">>, <<"1A">>, "bar", TRUE) : m \in {0, 18, 20}}
    \cup {Row(m, <<"cafe", "rosso">>, <<"via">>, <<"2">>, "restaurant", TRUE) : m \in {0, 20}}
    \cup {Row(m, <<"rosso", "cafe">>, <<"Via">>, <<"1A">>, "cafe", TRUE) : m \in {18, 20}}
    \cup {Row(0, <<"cafe">>, << >>, << >>, "shop", TRUE),
          Row(0, <<"cafe", "rosso">>, << >>, << >>, "cafe", FALSE)}
=============================================================================
