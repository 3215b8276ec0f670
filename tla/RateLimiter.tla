---------------------------- MODULE RateLimiter ----------------------------
(***************************************************************************)
(* internal/middleware RateLimiter: a sync.Map from keys to rate.Limiter   *)
(* objects, used by the goroutines of many requests, and a goroutine that  *)
(* evicts the entries whose bucket is full again.  A look-up, a            *)
(* LoadOrStore, a deletion and a call of a limiter are atomic; nothing     *)
(* joins two of them.                                                      *)
(*                                                                         *)
(* A tick is one refill period (20 minutes for registrations, 1 second for *)
(* keys, 1/20 second for reads).  A limiter object is external             *)
(* (golang.org/x/time/rate): it starts full and gains a token per tick.    *)
(***************************************************************************)
EXTENDS Naturals, FiniteSets, Sequences

CONSTANTS
  Keys,        \* client addresses or key hashes
  Callers,     \* goroutines in Allow
  Burst,       \* size of a bucket
  MaxObjects   \* bound: limiter objects ever created

ASSUME LimiterAssumption ==
  Burst \in Nat \ {0} /\ MaxObjects \in Nat

VARIABLES
  limiters,  \* the map: object of each key, 0 for none
  objects,   \* tokens in each limiter object created so far
  caller,    \* local state of each goroutine
  evictor,   \* local state of the eviction goroutine
  made,      \* history: the objects made for each key, one a generation
  ideal,     \* history: the bucket each key would have were it never evicted
  raced      \* history: whether a request has used an entry about to be evicted

vars == <<limiters, objects, caller, evictor, made, ideal, raced>>

Idle == [pc |-> "idle"]
None == 0
Refill(n) == IF n < Burst THEN n + 1 ELSE Burst

TypeOK ==
  /\ objects \in Seq(0..Burst)
  /\ limiters \in [Keys -> 0..Len(objects)]
  /\ caller \in [Callers -> {Idle}
                   \cup [pc : {"missed"}, key : Keys]
                   \cup [pc : {"found"}, key : Keys, object : 1..Len(objects)]
                   \cup [pc : {"allowed", "denied"}, key : Keys]]
  /\ evictor \in {Idle} \cup [pc : {"sweeping"}, left : SUBSET Keys]
                        \cup [pc : {"full"}, left : SUBSET Keys, key : Keys]
  /\ made \in [Keys -> Seq(1..MaxObjects)]
  /\ ideal \in [Keys -> 0..Burst]
  /\ raced \in BOOLEAN

Init ==
  /\ objects = << >>
  /\ limiters = [k \in Keys |-> None]
  /\ caller = [c \in Callers |-> Idle]
  /\ evictor = Idle
  /\ made = [k \in Keys |-> << >>]
  /\ ideal = [k \in Keys |-> Burst]
  /\ raced = FALSE

----------------------------------------------------------------------------
(* Allow: Load, LoadOrStore when there was nothing, then the limiter.       *)

Load(c, k) ==
  /\ caller[c].pc \in {"idle", "allowed", "denied"}
  /\ caller' = [caller EXCEPT ![c] =
       IF limiters[k] = None THEN [pc |-> "missed", key |-> k]
                             ELSE [pc |-> "found", key |-> k, object |-> limiters[k]]]
  /\ UNCHANGED <<limiters, objects, evictor, made, ideal, raced>>

EmptyBucket == 0  \* mistake: a new limiter has to fill up first
FullBucket == Burst

LoadOrStore(c) ==
  LET k == caller[c].key
  IN /\ caller[c].pc = "missed"
     /\ IF limiters[k] # None
        THEN /\ caller' = [caller EXCEPT ![c] = [pc |-> "found", key |-> k, object |-> limiters[k]]]
             /\ UNCHANGED <<limiters, objects, made>>
        ELSE /\ Len(objects) < MaxObjects
             /\ objects' = Append(objects, FullBucket)
             /\ limiters' = [limiters EXCEPT ![k] = Len(objects) + 1]
             /\ made' = [made EXCEPT ![k] = Append(@, Len(objects) + 1)]
             /\ caller' = [caller EXCEPT ![c] =
                             [pc |-> "found", key |-> k, object |-> Len(objects) + 1]]
     /\ UNCHANGED <<evictor, ideal, raced>>

SparesLast(o) == objects[o] > 1   \* mistake: the last token is never granted
RunsIntoDebt(o) == objects[o] >= 0 \* mistake: a token that is not there is granted
HasToken(o) == objects[o] > 0

Take(c) ==
  LET o == caller[c].object
      k == caller[c].key
  IN /\ caller[c].pc = "found"
     /\ IF HasToken(o)
        THEN /\ objects' = [objects EXCEPT ![o] = @ - 1]
             /\ caller' = [caller EXCEPT ![c] = [pc |-> "allowed", key |-> k]]
             /\ ideal' = [ideal EXCEPT ![k] = IF @ > 0 THEN @ - 1 ELSE 0]
             /\ raced' = (raced \/ (evictor.pc = "full" /\ evictor.key = k))
        ELSE /\ caller' = [caller EXCEPT ![c] = [pc |-> "denied", key |-> k]]
             /\ UNCHANGED <<objects, ideal, raced>>
     /\ UNCHANGED <<limiters, evictor, made>>

----------------------------------------------------------------------------
(* evictIdle and sweep.                                                     *)

BeginSweep ==
  /\ evictor = Idle
  /\ evictor' = [pc |-> "sweeping", left |-> Keys]
  /\ UNCHANGED <<limiters, objects, caller, made, ideal, raced>>

AlmostFull(k) == limiters[k] # None /\ objects[limiters[k]] + 1 >= Burst  \* mistake

Full(k) == limiters[k] # None /\ objects[limiters[k]] >= Burst

(* Range visits an entry; Tokens() says whether its bucket is full.         *)
Visit(k) ==
  /\ evictor.pc = "sweeping"
  /\ k \in evictor.left
  /\ evictor' = IF Full(k)
                THEN [pc |-> "full", left |-> evictor.left \ {k}, key |-> k]
                ELSE [pc |-> "sweeping", left |-> evictor.left \ {k}]
  /\ UNCHANGED <<limiters, objects, caller, made, ideal, raced>>

(* The deletion asks for nothing: a goroutine may have taken a token since  *)
(* the visit, or hold the object and take one afterwards.                   *)
Evict ==
  /\ evictor.pc = "full"
  /\ raced' = (raced \/ \E c \in Callers : caller[c].pc = "found" /\ caller[c].key = evictor.key)
  /\ limiters' = [limiters EXCEPT ![evictor.key] = None]
  /\ evictor' = [pc |-> "sweeping", left |-> evictor.left]
  /\ UNCHANGED <<objects, caller, made, ideal>>

EndSweep ==
  /\ evictor.pc = "sweeping"
  /\ evictor.left = {}
  /\ evictor' = Idle
  /\ UNCHANGED <<limiters, objects, caller, made, ideal, raced>>

----------------------------------------------------------------------------
(* The clock.                                                               *)
Tick ==
  /\ objects' = [o \in DOMAIN objects |-> Refill(objects[o])]
  /\ ideal' = [k \in Keys |-> Refill(ideal[k])]
  /\ UNCHANGED <<limiters, caller, evictor, made, raced>>

Next ==
  \/ \E c \in Callers : (\E k \in Keys : Load(c, k)) \/ LoadOrStore(c) \/ Take(c)
  \/ BeginSweep
  \/ \E k \in Keys : Visit(k)
  \/ Evict
  \/ EndSweep
  \/ Tick

Spec == Init /\ [][Next]_vars

----------------------------------------------------------------------------
(* Properties.                                                              *)

(* Until an eviction races with a request, the limiter is the bucket per    *)
(* key it promises: an entry that is not there stands for a full bucket, so *)
(* creating and evicting entries changes nothing.                           *)
Tokens == [k \in Keys |-> IF limiters[k] = None THEN Burst ELSE objects[limiters[k]]]

Bucket == INSTANCE TokenBucket WITH tokens <- Tokens

EvictionIsInvisible == Bucket!Init /\ [][raced' \/ Bucket!Next]_(Tokens)

Refuses(c) == caller[c].pc = "found" /\ caller'[c].pc = "denied"
Allows(c) == caller[c].pc = "found" /\ caller'[c].pc = "allowed"

(* With and without a race: each object made for a key is a bucket of its   *)
(* own, full until it is made, and a request is allowed for a token, or     *)
(* refused for the want of one, of one of those made for its key.  So a     *)
(* race can give a key what is left in one more bucket, and no more.        *)
Limiters == Keys \X (0..MaxObjects - 1)
LimiterTokens ==
  [l \in Limiters |-> IF l[2] < Len(made[l[1]]) THEN objects[made[l[1]][l[2] + 1]] ELSE Burst]

LimiterBucket == INSTANCE TokenBucket WITH Keys <- Limiters, tokens <- LimiterTokens

Asks(c, l) ==
  /\ caller[c].pc = "found" /\ caller[c].key = l[1] /\ l[2] < Len(made[l[1]])
  /\ \/ Allows(c) /\ LimiterBucket!Take(l)
     \/ Refuses(c) /\ LimiterTokens[l] = 0 /\ UNCHANGED LimiterTokens

EachLimiterIsABucket ==
  /\ LimiterBucket!Init
  /\ [][\/ \E c \in Callers : \E l \in Limiters : Asks(c, l)
        \/ /\ \A c \in Callers : ~Allows(c) /\ ~Refuses(c)
           /\ UNCHANGED LimiterTokens \/ LimiterBucket!Tick]_vars

(* Eviction never costs a client anything: a request is refused only when   *)
(* its key has used up the bucket it would have had.                        *)
RefusalsAreDue ==
  [][\A c \in Callers : Refuses(c) => ideal[caller[c].key] = 0]_vars

(* Why refusals are due: no limiter in use for a key, in the map or in the  *)
(* hands of a goroutine, evicted or not, has fewer tokens than the bucket   *)
(* the key would have had.                                                  *)
NoLimiterIsBehind ==
  /\ \A k \in Keys : limiters[k] # None => objects[limiters[k]] >= ideal[k]
  /\ \A c \in Callers :
       caller[c].pc = "found" => objects[caller[c].object] >= ideal[caller[c].key]
=============================================================================
