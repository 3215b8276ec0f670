--------------------------- MODULE ListingProofs ---------------------------
(***************************************************************************)
(* A client that pages is given nothing that passes over a parameter of    *)
(* its query, each row nobody writes once, and an end, for all queries,    *)
(* places, page sizes and writers.                                         *)
(***************************************************************************)
EXTENDS Listing, FiniteSetTheorems, TLAPS

(* How many parameters of a group a query has tells which, when it has none *)
(* of them or all (countNonNilFloats).                                      *)
LEMMA GroupSizes ==
  /\ IsFiniteSet(Circle) /\ Cardinality(Circle) = 3
  /\ IsFiniteSet(Box) /\ Cardinality(Box) = 4
<1>1. IsFiniteSet({"lng"}) /\ Cardinality({"lng"}) = 1
  BY FS_Singleton
<1> DEFINE LngLat == {"lng"} \cup {"lat"}
<1>2. IsFiniteSet(LngLat) /\ Cardinality(LngLat) = 2
  <2>1. "lat" \notin {"lng"}
    OBVIOUS
  <2> QED
    BY <1>1, <2>1, FS_AddElement
<1>3. IsFiniteSet(Circle) /\ Cardinality(Circle) = 3
  <2>1. Circle = LngLat \cup {"radius"} /\ "radius" \notin LngLat
    BY DEF Circle
  <2> HIDE DEF LngLat
  <2> QED
    BY <1>2, <2>1, FS_AddElement
<1>4. IsFiniteSet({"min_lng"}) /\ Cardinality({"min_lng"}) = 1
  BY FS_Singleton
<1> DEFINE Mins == {"min_lng"} \cup {"min_lat"}
           Three == Mins \cup {"max_lng"}
<1>5. IsFiniteSet(Mins) /\ Cardinality(Mins) = 2
  <2>1. "min_lat" \notin {"min_lng"}
    OBVIOUS
  <2> QED
    BY <1>4, <2>1, FS_AddElement
<1>6. IsFiniteSet(Three) /\ Cardinality(Three) = 3
  <2>1. "max_lng" \notin Mins
    OBVIOUS
  <2> HIDE DEF Mins
  <2> QED
    BY <1>5, <2>1, FS_AddElement
<1>7. IsFiniteSet(Box) /\ Cardinality(Box) = 4
  <2>1. Box = Three \cup {"max_lat"} /\ "max_lat" \notin Three
    BY DEF Box
  <2> HIDE DEF Three
  <2> QED
    BY <1>6, <2>1, FS_AddElement
<1> QED
  BY <1>3, <1>7

LEMMA AllOrNone ==
  /\ Given(Circle) = 0 => DOMAIN query \cap Circle = {}
  /\ Given(Circle) = 3 => Circle \subseteq DOMAIN query
  /\ Given(Box) = 0 => DOMAIN query \cap Box = {}
  /\ Given(Box) = 4 => Box \subseteq DOMAIN query
<1>1. ASSUME NEW S, IsFiniteSet(S)
      PROVE  /\ Given(S) = 0 => DOMAIN query \cap S = {}
             /\ Given(S) = Cardinality(S) => S \subseteq DOMAIN query
  <2>1. IsFiniteSet(DOMAIN query \cap S)
        /\ (Cardinality(S) = Cardinality(DOMAIN query \cap S) => S = DOMAIN query \cap S)
    BY <1>1, FS_Subset
  <2> QED
    BY <2>1, FS_EmptySet DEF Given
<1> QED
  BY <1>1, GroupSizes

----------------------------------------------------------------------------
(* A client that has come to the end asked for something that was sound.    *)
IInv ==
  /\ DOMAIN query \subseteq Circle \cup Box \cup {"q", "cursor"}
  /\ client = "ended" => PlacesQuery

(* What the validator admits, the handler uses up.                          *)
LEMMA SoundIsUsed ==
  ASSUME IInv, PlacesQuery
  PROVE  Used = DOMAIN query
<1>1. \/ DOMAIN query \cap Circle = {}
      \/ Circle \subseteq DOMAIN query /\ DOMAIN query \cap Box = {}
  BY AllOrNone DEF PlacesQuery
<1>2. DOMAIN query \cap Box = {} \/ Box \subseteq DOMAIN query
  BY AllOrNone DEF PlacesQuery
<1>3. "lng" \in Circle /\ "min_lng" \in Box /\ {"q", "cursor"} \cap (Circle \cup Box) = {}
  BY DEF Circle, Box
<1>4. {p \in {"q", "cursor"} : Has(p) /\ (p = "cursor" => Decodes)} = DOMAIN query \cap {"q", "cursor"}
  BY DEF PlacesQuery, Has
<1>5. CASE Has("lng")
  BY <1>1, <1>3, <1>4, <1>5 DEF Used, Has, IInv
<1>6. CASE ~Has("lng") /\ Has("min_lng")
  BY <1>1, <1>2, <1>3, <1>4, <1>6 DEF Used, Has, IInv
<1>7. CASE ~Has("lng") /\ ~Has("min_lng")
  BY <1>1, <1>2, <1>3, <1>4, <1>7 DEF Used, Has, IInv
<1> QED
  BY <1>5, <1>6, <1>7

(* No query makes ListPlaces pass over a parameter or look at one that is   *)
(* not there, on any page.                                                  *)
THEOREM NothingPassedOver == Spec => []UsesWhatItIsGiven
<1>1. Init => IInv
  BY ListingAssumption DEF Init, IInv
<1>2. IInv /\ [Next]_vars => IInv'
  <2> SUFFICES ASSUME IInv, [Next]_vars PROVE IInv'
    OBVIOUS
  <2>1. ASSUME query' = query, client' = client \/ client' # "ended" \/ PlacesQuery
        PROVE  IInv'
    BY <2>1 DEF IInv, PlacesQuery, Given, Ordered, Decodes, NotBlank, Has
  <2>2. ASSUME GivePage, client = "paging", PlacesQuery
        PROVE  IInv'
    <3>1. CASE query' = query
      BY <2>1, <2>2, <3>1
    <3>2. ASSUME NEW c, query' = Continued(c), client' = client
          PROVE  IInv'
      <4>1. DOMAIN query' = DOMAIN query \cup {"cursor"}
        BY <3>2 DEF Continued
      <4> QED
        BY <2>2, <3>2, <4>1 DEF IInv
    <3> QED
      BY <2>2, <3>1, <3>2 DEF GivePage
  <2>3. CASE ListPlaces
    BY <2>1, <2>2, <2>3 DEF ListPlaces
  <2>4. ASSUME NEW w \in Writers, (\E ids \in SUBSET Ids \ {{}} : TakeTimestamp(w, ids)) \/ Commit(w)
        PROVE  IInv'
    BY <2>1, <2>4 DEF TakeTimestamp, Commit
  <2>5. CASE Tick \/ UNCHANGED vars
    BY <2>1, <2>5 DEF Tick, vars
  <2> QED
    BY <2>3, <2>4, <2>5 DEF Next
<1>3. IInv => UsesWhatItIsGiven
  BY SoundIsUsed DEF IInv, UsesWhatItIsGiven
<1> QED
  BY <1>1, <1>2, <1>3, PTL DEF Spec

----------------------------------------------------------------------------
(* Rows, writers and the client keep their types; of the client's query,    *)
(* nothing but the cursor changes from page to page.                        *)
THEOREM TypeCorrect == Spec => []TypeOK
<1> DEFINE Asks == \E q \in Queries : \A p \in DOMAIN query \cup DOMAIN q :
                     p # "cursor" => p \in DOMAIN q /\ p \in DOMAIN query /\ query[p] = q[p]
<1>1. Init => TypeOK
  <2> SUFFICES ASSUME Init PROVE TypeOK
    OBVIOUS
  <2>1. rows \in [Ids -> Row \cup {NoRow}]
    <3>1. [at : {0, 1}, place : Places] \subseteq Row
      BY ListingAssumption DEF Row
    <3> QED
      BY <3>1 DEF Init
  <2>2. Asks
    BY DEF Init
  <2> QED
    BY <2>1, <2>2, ListingAssumption DEF Init, TypeOK
<1>2. TypeOK /\ [Next]_vars => TypeOK'
  <2> SUFFICES ASSUME TypeOK, [Next]_vars PROVE TypeOK'
    OBVIOUS
  <2>1. CASE ListPlaces
    <3>1. CASE ~PlacesQuery /\ client' = "refused" /\ UNCHANGED <<query, times>>
      BY <2>1, <3>1 DEF ListPlaces, TypeOK
    <3>2. CASE GivePage
      <4>1. times' \in [Ids -> 0..2]
        <5>1. PICK S : times' = [i \in Ids |-> IF i \in S /\ times[i] < 2 THEN times[i] + 1 ELSE times[i]]
          BY <3>2 DEF GivePage, Give
        <5> QED
          BY <5>1 DEF TypeOK
      <4>2. client' \in {"paging", "ended", "refused"}
        BY <3>2 DEF GivePage, TypeOK
      <4>3. Asks'
        <5>1. CASE query' = query
          BY <5>1 DEF TypeOK
        <5>2. ASSUME NEW c, query' = Continued(c)
              PROVE  Asks'
          <6>1. PICK q \in Queries : \A p \in DOMAIN query \cup DOMAIN q :
                  p # "cursor" => p \in DOMAIN q /\ p \in DOMAIN query /\ query[p] = q[p]
            BY DEF TypeOK
          <6>2. /\ DOMAIN query' = DOMAIN query \cup {"cursor"}
                /\ \A p \in DOMAIN query : p # "cursor" => query'[p] = query[p]
            BY <5>2 DEF Continued
          <6> QED
            BY <6>1, <6>2
        <5> QED
          BY <3>2, <5>1, <5>2 DEF GivePage
      <4> QED
        BY <2>1, <4>1, <4>2, <4>3 DEF ListPlaces, TypeOK
    <3> QED
      BY <2>1, <3>1, <3>2 DEF ListPlaces
  <2>2. ASSUME NEW w \in Writers, NEW ids \in SUBSET Ids, TakeTimestamp(w, ids)
        PROVE  TypeOK'
    <3>1. [ids |-> ids, at |-> clock] \in [ids : SUBSET Ids, at : 0..MaxTime]
      BY DEF TypeOK
    <3>2. writer' \in [Writers -> {Idle} \cup [ids : SUBSET Ids, at : 0..MaxTime]]
      BY <2>2, <3>1 DEF TakeTimestamp, TypeOK
    <3> QED
      BY <2>2, <3>2 DEF TakeTimestamp, TypeOK
  <2>3. ASSUME NEW w \in Writers, Commit(w)
        PROVE  TypeOK'
    <3>1. writer[w] \in [ids : SUBSET Ids, at : 0..MaxTime]
      BY <2>3 DEF Commit, TypeOK
    <3>2. rows' \in [Ids -> Row \cup {NoRow}]
      BY <2>3, <3>1 DEF Commit, TypeOK, Row
    <3> QED
      BY <2>3, <3>1, <3>2 DEF Commit, TypeOK
  <2>4. CASE Tick
    BY <2>4, ListingAssumption DEF Tick, TypeOK
  <2>5. CASE UNCHANGED vars
    BY <2>5 DEF vars, TypeOK
  <2> QED
    BY <2>1, <2>2, <2>3, <2>4, <2>5 DEF Next
<1> QED
  BY <1>1, <1>2, PTL DEF Spec

----------------------------------------------------------------------------
(* Each page ends where the next one begins, in an order that writers do    *)
(* not change for the rows they leave alone.                                *)

Listed(i) == rows[i] # NoRow /\ Passes(rows[i].place)

(* The client's cursor is the place of some row in the order.               *)
CursorIsPlace ==
  Has("cursor") /\ Decodes => \E at \in Int, i \in Ids : query["cursor"] = <<at, i>>

(* What the client was given of the rows nobody wrote is what lies up to    *)
(* its cursor, and at the end all there is.                                 *)
GivenToHere ==
  \A i \in Ids \ written :
    times[i] = IF Listed(i) /\ (client = "ended" \/ ~After(i)) THEN 1 ELSE 0

PagingInv == CursorIsPlace /\ GivenToHere

(* The cursor changes nothing about the filters of a query that is sound.   *)
LEMMA FiltersStay ==
  ASSUME PlacesQuery, NEW c, query' = Continued(c)
  PROVE  \A p : Passes(p)' <=> Passes(p)
<1>1. /\ DOMAIN query' = DOMAIN query \cup {"cursor"}
      /\ \A p \in DOMAIN query \cup {"cursor"} : p # "cursor" => query'[p] = query[p]
  BY DEF Continued
<1>2. ASSUME NEW p, p # "cursor"
      PROVE  (Has(p)' <=> Has(p)) /\ (Has(p) => query'[p] = query[p])
  BY <1>1, <1>2 DEF Has
<1>3. SUFFICES ASSUME NEW p PROVE Passes(p)' <=> Passes(p)
  OBVIOUS
<1>4. (Has("q") => p.name = query["q"])' <=> (Has("q") => p.name = query["q"])
  BY <1>2
<1>5. Has("lng") => (Near(p)' <=> Near(p))
  <2>1. Has("lng") => Circle \subseteq DOMAIN query
    BY AllOrNone DEF PlacesQuery, Has, Circle
  <2> QED
    BY <1>2, <2>1 DEF Near, Has, Circle, Square
<1>6. Has("min_lng") => (InBox(p)' <=> InBox(p))
  <2>1. Has("min_lng") => Box \subseteq DOMAIN query
    BY AllOrNone DEF PlacesQuery, Has, Box
  <2> QED
    BY <1>2, <2>1 DEF InBox, Has, Box
<1>7. (Has("lng")' <=> Has("lng")) /\ (Has("min_lng")' <=> Has("min_lng"))
  BY <1>2
<1> QED
  BY <1>4, <1>5, <1>6, <1>7 DEF Passes

LEMMA LastPage ==
  ASSUME TypeOK, PagingInv, client = "paging", client' = "ended",
         UNCHANGED <<rows, query, written>>, Give(Result)
  PROVE  PagingInv'
<1>1. CursorIsPlace'
  BY DEF PagingInv, CursorIsPlace, Has, Decodes
<1>2. ASSUME NEW i \in Ids \ written
      PROVE  times'[i] = IF Listed(i) THEN 1 ELSE 0
  BY <1>2 DEF PagingInv, GivenToHere, Give, Result, Listed, TypeOK
<1>3. \A i \in Ids : Listed(i)' <=> Listed(i)
  BY DEF Listed, Passes, Has, Near, InBox, Square
<1> QED
  BY <1>1, <1>2, <1>3 DEF PagingInv, GivenToHere

LEMMA PageBefore ==
  ASSUME TypeOK, PagingInv, PlacesQuery, client = "paging", client' = client,
         UNCHANGED <<rows, written>>,
         NEW page \in SUBSET Result, NEW last \in page, Give(page),
         \A i \in page, j \in Result \ page : Before(i, j),
         \A i \in page \ {last} : Before(i, last),
         query' = Continued(Encode(last))
  PROVE  PagingInv'
<1>1. /\ last \in Ids /\ last \in Int /\ After(last)
      /\ rows[last] \in Row /\ rows[last].at \in Int
  BY ListingAssumption DEF Result, TypeOK, Row
<1>2. Has("cursor")' /\ query'["cursor"] = <<rows[last].at, last>>
  BY DEF Continued, Encode, Has
<1>3. Decodes'
  <2>1. <<rows[last].at, last>> # << >>
    OBVIOUS
  <2> QED
    BY <1>2, <2>1 DEF Decodes, Undecodable
<1>4. CursorIsPlace'
  BY <1>1, <1>2 DEF CursorIsPlace
<1>5. \A i \in Ids : After(i)' <=> Before(last, i)
  BY <1>2, <1>3 DEF After, Before
<1>6. \A i \in Ids : Listed(i)' <=> Listed(i)
  BY FiltersStay DEF Listed
<1>7. ASSUME NEW i \in Ids \ written
      PROVE  times'[i] = IF Listed(i) /\ ~Before(last, i) THEN 1 ELSE 0
  <2>1. CASE ~Listed(i)
    BY <2>1 DEF PagingInv, GivenToHere, Give, Result, Listed
  <2>2. ASSUME Listed(i)
        PROVE  i \in Int /\ rows[i].at \in Int
    BY <2>2, ListingAssumption DEF Listed, TypeOK, Row
  <2>3. CASE Listed(i) /\ i \in page
    <3>1. times'[i] = 1
      BY <2>3 DEF PagingInv, GivenToHere, Give, Result
    <3>2. ~Before(last, i)
      BY <1>1, <2>2, <2>3 DEF Before
    <3> QED
      BY <2>3, <3>1, <3>2
  <2>4. CASE Listed(i) /\ i \in Result \ page
    <3>1. times'[i] = 0
      BY <2>4 DEF PagingInv, GivenToHere, Give, Result
    <3> QED
      BY <2>4, <3>1
  <2>5. CASE Listed(i) /\ i \notin Result
    <3>1. ~After(i)
      BY <2>5 DEF Result, Listed
    <3>2. times'[i] = 1
      BY <2>5, <3>1 DEF PagingInv, GivenToHere, Give
    <3>3. PICK at \in Int, j \in Ids : query["cursor"] = <<at, j>>
      BY <3>1 DEF After, PagingInv, CursorIsPlace
    <3>4. /\ rows[last].at < at \/ (rows[last].at = at /\ last > j)
          /\ ~(rows[i].at < at \/ (rows[i].at = at /\ i > j))
      BY <1>1, <3>1, <3>3 DEF After
    <3>5. ~Before(last, i)
      BY <1>1, <2>2, <2>5, <3>4, ListingAssumption DEF Before
    <3> QED
      BY <2>5, <3>2, <3>5
  <2> QED
    BY <2>1, <2>3, <2>4, <2>5
<1> QED
  BY <1>4, <1>5, <1>6, <1>7 DEF PagingInv, GivenToHere

LEMMA PagingInitially == Init => PagingInv
<1> SUFFICES ASSUME Init PROVE PagingInv
  OBVIOUS
<1>1. ~(Has("cursor") /\ Decodes)
  BY ListingAssumption DEF Init, Has, Decodes
<1> QED
  BY <1>1 DEF Init, PagingInv, CursorIsPlace, GivenToHere, After

LEMMA PagingInductive == TypeOK /\ PagingInv /\ [Next]_vars => PagingInv'
<1> SUFFICES ASSUME TypeOK, PagingInv, [Next]_vars PROVE PagingInv'
  OBVIOUS
<1>1. ASSUME UNCHANGED <<query, times>>, written \subseteq written',
             client' = client \/ (client = "paging" /\ client' = "refused"),
             \A i \in Ids \ written' : rows'[i] = rows[i]
      PROVE  PagingInv'
  <2>1. CursorIsPlace'
    BY <1>1 DEF PagingInv, CursorIsPlace, Has, Decodes
  <2>2. \A i \in Ids \ written' : Listed(i)' <=> Listed(i)
    BY <1>1 DEF Listed, Passes, Has, Near, InBox, Square
  <2>3. \A i \in Ids \ written' : After(i)' <=> After(i)
    BY <1>1 DEF After, Has, Decodes
  <2> QED
    BY <1>1, <2>1, <2>2, <2>3 DEF PagingInv, GivenToHere
<1>2. CASE ListPlaces
  <2>1. CASE client' = "refused" /\ UNCHANGED <<query, times>>
    BY <1>1, <1>2, <2>1 DEF ListPlaces
  <2>2. CASE GivePage
    BY <1>2, <2>2, LastPage, PageBefore DEF ListPlaces, GivePage
  <2> QED
    BY <1>2, <2>1, <2>2 DEF ListPlaces
<1>3. ASSUME NEW w \in Writers, NEW ids \in SUBSET Ids, TakeTimestamp(w, ids)
      PROVE  PagingInv'
  BY <1>1, <1>3 DEF TakeTimestamp
<1>4. ASSUME NEW w \in Writers, Commit(w)
      PROVE  PagingInv'
  BY <1>1, <1>4 DEF Commit
<1>5. CASE Tick \/ UNCHANGED vars
  BY <1>1, <1>5 DEF Tick, vars
<1> QED
  BY <1>2, <1>3, <1>4, <1>5 DEF Next

(* A place nobody writes while the client pages is given to it exactly once *)
(* if it passes the filters, and never if it does not: for every number of  *)
(* places, writers and filters and every size of page.                      *)
THEOREM GivenOnce == Spec => []UnwrittenOnce
<1>1. TypeOK /\ PagingInv => UnwrittenOnce
  BY DEF PagingInv, GivenToHere, UnwrittenOnce, Listed
<1> QED
  BY <1>1, PagingInitially, PagingInductive, TypeCorrect, PTL DEF Spec

----------------------------------------------------------------------------
(* Pages come to an end: each one moves the cursor on in the order, and     *)
(* there are no more cursors than timestamps and rows.                      *)

Follows(c, d) == c[1] < d[1] \/ (c[1] = d[1] /\ c[2] > d[2])

Positions == (0..MaxTime) \X Ids

CursorsLeft == {c \in Positions : Has("cursor") /\ Decodes => Follows(c, query["cursor"])}

(* Every page but the last leaves fewer places for a cursor, though writers *)
(* move the rows under it, and nothing else a process does leaves more.     *)
EveryPageCounts ==
  /\ Cardinality(CursorsLeft) \in 0..(MaxTime + 1) * Cardinality(Ids)
  /\ Cardinality(CursorsLeft)' <= Cardinality(CursorsLeft)
  /\ ListPlaces => client' # "paging" \/ Cardinality(CursorsLeft)' < Cardinality(CursorsLeft)

LEMMA PositionsAreFinite ==
  ASSUME IsFiniteSet(Ids)
  PROVE  /\ IsFiniteSet(Positions) /\ Cardinality(Positions) = (MaxTime + 1) * Cardinality(Ids)
         /\ \A S \in SUBSET Positions :
              IsFiniteSet(S) /\ Cardinality(S) \in 0..(MaxTime + 1) * Cardinality(Ids)
<1>1. IsFiniteSet(0..MaxTime) /\ Cardinality(0..MaxTime) = MaxTime + 1
  BY FS_Interval, ListingAssumption
<1>2. IsFiniteSet(Positions) /\ Cardinality(Positions) = (MaxTime + 1) * Cardinality(Ids)
  BY <1>1, FS_Product DEF Positions
<1>3. ASSUME NEW S \in SUBSET Positions
      PROVE  IsFiniteSet(S) /\ Cardinality(S) \in 0..(MaxTime + 1) * Cardinality(Ids)
  <2>1. IsFiniteSet(S) /\ Cardinality(S) <= Cardinality(Positions)
    BY <1>2, FS_Subset
  <2>2. PICK n \in Nat, m \in Nat : n = Cardinality(S) /\ m = Cardinality(Positions)
    BY <1>2, <2>1, FS_CardinalityType
  <2> QED
    BY <1>2, <2>1, <2>2
<1> QED
  BY <1>2, <1>3

(* A page that is not the last ends further on than the one before it.      *)
LEMMA CursorMovesOn ==
  ASSUME TypeOK, PagingInv, NEW last \in Result, query' = Continued(Encode(last))
  PROVE  \E c \in CursorsLeft : CursorsLeft' \subseteq CursorsLeft \ {c}
<1>1. /\ last \in Ids /\ last \in Int /\ After(last)
      /\ rows[last].at \in 0..MaxTime /\ rows[last].at \in Int
  BY ListingAssumption DEF Result, TypeOK, Row
<1>2. PICK c : c = <<rows[last].at, last>>
  OBVIOUS
<1>3. c \in Positions /\ c[1] = rows[last].at /\ c[2] = last
  BY <1>1, <1>2 DEF Positions
<1>4. Has("cursor")' /\ query'["cursor"] = c
  BY <1>2 DEF Continued, Encode, Has
<1>5. Decodes'
  <2>1. c # << >>
    BY <1>2
  <2> QED
    BY <1>4, <2>1 DEF Decodes, Undecodable
<1>6. c \in CursorsLeft
  BY <1>1, <1>3 DEF CursorsLeft, Follows, After
<1>7. ASSUME NEW d \in CursorsLeft'
      PROVE  d \in CursorsLeft /\ d # c
  <2>1. PICK at \in Int, i \in Int : d[1] = at /\ d[2] = i /\ d \in Positions
    <3>1. d \in (0..MaxTime) \X Ids
      BY DEF CursorsLeft, Positions
    <3>2. PICK at \in 0..MaxTime, i \in Ids : d[1] = at /\ d[2] = i
      BY <3>1
    <3>3. at \in Int /\ i \in Int
      BY ListingAssumption
    <3> QED
      BY <3>1, <3>2, <3>3 DEF Positions
  <2>2. at < rows[last].at \/ (at = rows[last].at /\ i > last)
    BY <1>3, <1>4, <1>5, <2>1 DEF CursorsLeft, Follows
  <2>3. d # c
    BY <1>1, <1>3, <2>1, <2>2
  <2>4. ASSUME Has("cursor"), Decodes
        PROVE  Follows(d, query["cursor"])
    <3>1. PICK t \in Int, j \in Ids : query["cursor"] = <<t, j>>
      BY <2>4 DEF PagingInv, CursorIsPlace
    <3>2. j \in Int /\ (rows[last].at < t \/ (rows[last].at = t /\ last > j))
      BY <1>1, <2>4, <3>1, ListingAssumption DEF After
    <3>3. at < t \/ (at = t /\ i > j)
      BY <1>1, <2>1, <2>2, <3>1, <3>2
    <3> QED
      BY <2>1, <3>1, <3>3 DEF Follows
  <2> QED
    BY <2>1, <2>3, <2>4 DEF CursorsLeft
<1> QED
  BY <1>6, <1>7

LEMMA FewerCursors ==
  ASSUME IsFiniteSet(Ids), NEW S \in SUBSET Positions, NEW T, NEW c \in S, T \subseteq S \ {c}
  PROVE  Cardinality(T) < Cardinality(S)
<1>1. IsFiniteSet(S)
  BY PositionsAreFinite
<1>2. IsFiniteSet(T) /\ Cardinality(T) <= Cardinality(S) /\ (Cardinality(S) = Cardinality(T) => S = T)
  BY <1>1, FS_Subset
<1>3. Cardinality(S) \in Nat /\ Cardinality(T) \in Nat
  BY <1>1, <1>2, FS_CardinalityType
<1> QED
  BY <1>2, <1>3

(* However writers move the rows, and whatever they add, a client that goes *)
(* on asking comes to the last page: at the latest after as many pages as   *)
(* there are timestamps and rows.                                           *)
THEOREM PagesAreFinite ==
  ASSUME IsFiniteSet(Ids)
  PROVE  Spec => [][EveryPageCounts]_vars
<1>1. ASSUME TypeOK, PagingInv, [Next]_vars
      PROVE  EveryPageCounts
  <2>1. CursorsLeft \in SUBSET Positions /\ CursorsLeft' \in SUBSET Positions
    BY DEF CursorsLeft, Positions
  <2>2. Cardinality(CursorsLeft) \in 0..(MaxTime + 1) * Cardinality(Ids)
    BY <2>1, PositionsAreFinite
  <2>3. Cardinality(CursorsLeft) \in Nat
    BY <2>1, PositionsAreFinite, FS_CardinalityType
  <2>4. CASE query' = query
    <3>1. CursorsLeft' = CursorsLeft
      BY <2>4 DEF CursorsLeft, Has, Decodes, Positions
    <3>2. ListPlaces => client' # "paging" \/ \E last \in Result : query' = Continued(Encode(last))
      BY DEF ListPlaces, GivePage
    <3>3. ~(\E last \in Result : query' = Continued(Encode(last)))
      BY <1>1, <3>1, CursorMovesOn
    <3> QED
      BY <2>2, <2>3, <3>1, <3>2, <3>3 DEF EveryPageCounts
  <2>5. CASE query' # query
    <3>1. PICK last \in Result : query' = Continued(Encode(last))
      BY <1>1, <2>5 DEF Next, ListPlaces, GivePage, TakeTimestamp, Commit, Tick, vars
    <3>2. PICK c \in CursorsLeft : CursorsLeft' \subseteq CursorsLeft \ {c}
      BY <1>1, <3>1, CursorMovesOn
    <3>3. Cardinality(CursorsLeft') < Cardinality(CursorsLeft)
      BY <2>1, <3>2, FewerCursors
    <3>4. Cardinality(CursorsLeft') \in Nat
      BY <2>1, PositionsAreFinite, FS_CardinalityType
    <3> QED
      BY <2>2, <2>3, <3>3, <3>4 DEF EveryPageCounts
  <2> QED
    BY <2>4, <2>5
<1> QED
  BY <1>1, PagingInitially, PagingInductive, TypeCorrect, PTL DEF Spec
=============================================================================
