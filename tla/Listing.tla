------------------------------ MODULE Listing ------------------------------
(***************************************************************************)
(* A client pages through GET /v1/places while other processes write       *)
(* (cmd/api ListPlaces, internal/validation PlacesQuery, internal/geo,     *)
(* internal/pagination).  A query is a function of the parameters it has.  *)
(* Rows are ordered by (updated_at DESC, id ASC); the cursor is the pair   *)
(* of the last row of a page, sent along with the next request.  A writer  *)
(* takes its timestamp, and its rows get it when the statement commits:    *)
(* later, and not in the order of the timestamps.                          *)
(***************************************************************************)
EXTENDS Integers, FiniteSets

CONSTANTS
  Ids,      \* identifiers of places, a set of numbers ordered as the uuids are
  Places,   \* what a place may be: its name and its position on a grid
  Queries,  \* what a client may ask for
  Writers,  \* import batches and other statements that set updated_at
  Limit,    \* rows per page
  MaxTime   \* bound: the clock stops here

Circle == {"lng", "lat", "radius"}
Box == {"min_lng", "min_lat", "max_lng", "max_lat"}
Blank == "blank"               \* a name of white space
Undecodable == << >>           \* a cursor nobody was given

ASSUME ListingAssumption ==
  /\ Ids \subseteq Nat /\ Limit \in Nat \ {0} /\ MaxTime \in Nat \ {0}
  /\ \A q \in Queries :
       /\ DOMAIN q \subseteq Circle \cup Box \cup {"q", "cursor"}
       /\ "cursor" \in DOMAIN q => q["cursor"] = Undecodable

VARIABLES
  rows,    \* places: updated_at and the place
  clock,
  writer,  \* rows each writer is about to write, and its timestamp
  query,   \* what the client asks for next
  client,  \* whether the client is paging, at the end, or was refused
  times,   \* history: how often the client was given each row (2: or more)
  written  \* history: rows written since the client began

vars == <<rows, clock, writer, query, client, times, written>>

NoRow == [absent |-> TRUE]
Idle == [idle |-> TRUE]

Row == [at : 0..MaxTime, place : Places]

TypeOK ==
  /\ rows \in [Ids -> Row \cup {NoRow}]
  /\ clock \in 0..MaxTime
  /\ writer \in [Writers -> {Idle} \cup [ids : SUBSET Ids, at : 0..MaxTime]]
  /\ client \in {"paging", "ended", "refused"}
  /\ \E q \in Queries : \A p \in DOMAIN query \cup DOMAIN q :
       p # "cursor" => p \in DOMAIN q /\ p \in DOMAIN query /\ query[p] = q[p]
  /\ times \in [Ids -> 0..2]
  /\ written \subseteq Ids

Init ==
  /\ rows \in [Ids -> [at : {0, 1}, place : Places] \cup {NoRow}]
  /\ clock = 1
  /\ writer = [w \in Writers |-> Idle]
  /\ query \in Queries
  /\ client = "paging"
  /\ times = [i \in Ids |-> 0]
  /\ written = {}

Has(p) == p \in DOMAIN query
Given(S) == Cardinality(DOMAIN query \cap S)

----------------------------------------------------------------------------
(* PlacesQuery.                                                             *)

Ordered == query["min_lng"] < query["max_lng"] /\ query["min_lat"] < query["max_lat"]
Decodes == Has("cursor") => query["cursor"] # Undecodable
NotBlank == Has("q") => query["q"] # Blank

(* Mistake: a query may have both groups.                                   *)
PlacesQueryEither ==
  /\ Given(Circle) \in {0, 3} /\ Given(Box) \in {0, 4}
  /\ Given(Box) = 4 => Ordered
  /\ Decodes /\ NotBlank

PlacesQuery ==
  /\ Given(Circle) \in {0, 3} /\ Given(Box) \in {0, 4}
  /\ Given(Circle) = 0 \/ Given(Box) = 0
  /\ Given(Box) = 4 => Ordered
  /\ Decodes /\ NotBlank

----------------------------------------------------------------------------
(* ListPlaces.                                                              *)

(* Mistakes: rows that share the cursor's timestamp are skipped, or all     *)
(* given again.                                                             *)
Earlier(i) == ~Has("cursor") \/ rows[i].at < query["cursor"][1]
NotLater(i) == ~Has("cursor") \/ rows[i].at <= query["cursor"][1]

Encode(last) == <<rows[last].at, last>>

(* places.updated_at < ts OR (places.updated_at = ts AND places.id > id);   *)
(* a cursor that does not decode is passed over.                            *)
After(i) ==
  Has("cursor") /\ Decodes =>
    LET c == query["cursor"] IN rows[i].at < c[1] \/ (rows[i].at = c[1] /\ i > c[2])

Before(i, j) == rows[i].at > rows[j].at \/ (rows[i].at = rows[j].at /\ i < j)

Square(n) == n * n

(* FindNearbyPlaces and FindPlacesInBoundingBox: both include their edges.  *)
Near(p) ==
  Square(p.lng - query["lng"]) + Square(p.lat - query["lat"]) <= Square(query["radius"])
InBox(p) ==
  /\ query["min_lng"] <= p.lng /\ p.lng <= query["max_lng"]
  /\ query["min_lat"] <= p.lat /\ p.lat <= query["max_lat"]

(* ILIKE '%q%', seen as equality of names.  The switch looks at one         *)
(* parameter of a group and dereferences all of them.                       *)
Passes(p) ==
  /\ Has("q") => p.name = query["q"]
  /\ CASE Has("lng") -> Near(p)
       [] ~Has("lng") /\ Has("min_lng") -> InBox(p)
       [] OTHER -> TRUE

Result == {i \in Ids : rows[i] # NoRow /\ Passes(rows[i].place) /\ After(i)}

Continued(cursor) ==
  [p \in DOMAIN query \cup {"cursor"} |-> IF p = "cursor" THEN cursor ELSE query[p]]

Give(page) ==
  times' = [i \in Ids |-> IF i \in page /\ times[i] < 2 THEN times[i] + 1 ELSE times[i]]

(* ORDER BY, LIMIT Limit + 1: the extra row says whether there is another   *)
(* page after this one.                                                     *)
GivePage ==
  \/ /\ Cardinality(Result) <= Limit
     /\ Give(Result)
     /\ query' = query /\ client' = "ended"
  \/ /\ Cardinality(Result) > Limit
     /\ \E page \in SUBSET Result :
          /\ Cardinality(page) = Limit
          /\ \A i \in page, j \in Result \ page : Before(i, j)
          /\ Give(page)
          /\ \E last \in page : /\ \A i \in page \ {last} : Before(i, last)
                                /\ query' = Continued(Encode(last))
     /\ client' = client

ListPlaces ==
  /\ client = "paging"
  /\ \/ PlacesQuery /\ GivePage
     \/ ~PlacesQuery /\ client' = "refused" /\ UNCHANGED <<query, times>>
  /\ UNCHANGED <<rows, clock, writer, written>>

----------------------------------------------------------------------------
(* UpsertBatch, AttachExternalRef, CreatePlace, seen from the list.         *)

TakeTimestamp(w, ids) ==
  /\ writer[w] = Idle
  /\ writer' = [writer EXCEPT ![w] = [ids |-> ids, at |-> clock]]
  /\ UNCHANGED <<rows, clock, query, client, times, written>>

Commit(w) ==
  /\ writer[w] # Idle
  /\ \E p \in Places :
       rows' = [i \in Ids |-> IF i \in writer[w].ids
                              THEN [at |-> writer[w].at, place |-> p] ELSE rows[i]]
  /\ written' = written \cup writer[w].ids
  /\ writer' = [writer EXCEPT ![w] = Idle]
  /\ UNCHANGED <<clock, query, client, times>>

Tick ==
  /\ clock < MaxTime
  /\ clock' = clock + 1
  /\ UNCHANGED <<rows, writer, query, client, times, written>>

Next ==
  \/ ListPlaces
  \/ \E w \in Writers : (\E ids \in SUBSET Ids \ {{}} : TakeTimestamp(w, ids)) \/ Commit(w)
  \/ Tick

Spec == Init /\ [][Next]_vars

FairSpec == Spec /\ WF_vars(ListPlaces)

----------------------------------------------------------------------------
(* Properties.                                                              *)

(* What the handler makes use of.                                           *)
Used ==
  {p \in {"q", "cursor"} : Has(p) /\ (p = "cursor" => Decodes)}
    \cup IF Has("lng") THEN Circle ELSE IF Has("min_lng") THEN Box ELSE {}

(* The handler dereferences no parameter a client left out, and a client is *)
(* given no page that passes over a parameter it sent: such a query is      *)
(* refused, on the first page as on any later one.                          *)
UsesWhatItIsGiven ==
  (client = "paging" /\ PlacesQuery) \/ client = "ended" => Used = DOMAIN query

(* A place nobody writes while the client pages is given to the client once *)
(* and only once if it passes the client's filters, whatever becomes of the *)
(* places around it, also of those that share its timestamp because one     *)
(* batch wrote them, and never if it does not.                              *)
UnwrittenOnce ==
  \A i \in Ids \ written :
    /\ times[i] <= 1
    /\ client = "ended" /\ rows[i] # NoRow => (times[i] = 1 <=> Passes(rows[i].place))

(* The client comes to the last page, however long the writers go on.       *)
PagingEnds == <>(client # "paging")
=============================================================================
