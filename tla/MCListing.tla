----------------------------- MODULE MCListing -----------------------------
(***************************************************************************)
(* Listing with three places that differ in name and position, pages of    *)
(* one row, and a query for each filter and each way to be refused.        *)
(***************************************************************************)
EXTENDS Listing, TLC

MCIds == 1..3

Place(n, x) == [name |-> n, lng |-> x, lat |-> x]
MCPlaces == {Place("cafe", 0), Place("bar", 2)}

All == [p \in {} |-> 0]
Cafe == [q |-> "cafe"]
Around == [lng |-> 0, lat |-> 1, radius |-> 1]
Within == [min_lng |-> 0, min_lat |-> 0, max_lng |-> 1, max_lat |-> 1]

Sound == {All, Cafe, Around, Within}
Unsound == {
  [lng |-> 0],
  [min_lng |-> 0, max_lng |-> 1, max_lat |-> 1],
  Around @@ Within,
  [Within EXCEPT !.max_lat = 0],
  [q |-> Blank],
  [cursor |-> Undecodable]}

MCQueries == Sound \cup Unsound
=============================================================================
