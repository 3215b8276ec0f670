------------------------- MODULE RateLimiterProofs -------------------------
(***************************************************************************)
(* Proofs about RateLimiter, for every set of keys and goroutines, every   *)
(* burst, and evictions that overlap with requests: no limiter in use is   *)
(* ever behind the bucket its key would have had, so evicting entries      *)
(* never makes a request be refused that was due; without a race a key has *)
(* one bucket, with races one for each object made for it.                 *)
(***************************************************************************)
EXTENDS RateLimiter, TLAPS

(* The limiter object o is in use for key k: the map holds it, or a         *)
(* goroutine has it in its hands.                                           *)
InUse(o, k) ==
  \/ limiters[k] # None /\ o = limiters[k]
  \/ \E c \in Callers : caller[c].pc = "found" /\ caller[c].key = k /\ caller[c].object = o

(* What makes the invariant inductive: no object serves two keys, so a      *)
(* token taken for one key is never missing for another.                    *)
Owned ==
  \A k, l \in Keys : \A o \in 1..Len(objects) : InUse(o, k) /\ InUse(o, l) => k = l

(* NoLimiterIsBehind, in terms of use.                                      *)
Ahead == \A k \in Keys : \A o \in 1..Len(objects) : InUse(o, k) => objects[o] >= ideal[k]

IInv == TypeOK /\ Owned /\ Ahead

Found == [pc : {"found"}, key : Keys, object : 1..Len(objects)]

LEMMA FoundType ==
  ASSUME TypeOK, NEW c \in Callers, caller[c].pc = "found"
  PROVE  caller[c] \in Found
<1>1. caller[c] \in {Idle} \cup [pc : {"missed"}, key : Keys] \cup Found
                    \cup [pc : {"allowed", "denied"}, key : Keys]
  BY DEF TypeOK, Found
<1>2. caller[c] \notin {Idle} \cup [pc : {"missed"}, key : Keys]
                       \cup [pc : {"allowed", "denied"}, key : Keys]
  BY DEF Idle
<1> QED
  BY <1>1, <1>2

LEMMA MissedType ==
  ASSUME TypeOK, NEW c \in Callers, caller[c].pc = "missed"
  PROVE  caller[c].key \in Keys
BY DEF TypeOK, Idle

(* An object in use exists.                                                 *)
LEMMA UsedExists ==
  ASSUME TypeOK, NEW k \in Keys, NEW o, InUse(o, k)
  PROVE  o \in 1..Len(objects)
<1>1. CASE limiters[k] # None /\ o = limiters[k]
  BY <1>1 DEF TypeOK, None
<1>2. ASSUME NEW c \in Callers,
             caller[c].pc = "found" /\ caller[c].key = k /\ caller[c].object = o
      PROVE  o \in 1..Len(objects)
  BY <1>2, FoundType DEF Found
<1> QED
  BY <1>1, <1>2 DEF InUse

LEMMA TokensType ==
  ASSUME TypeOK, NEW o \in 1..Len(objects)
  PROVE  objects[o] \in 0..Burst
<1>1. objects \in Seq(0..Burst)
  BY DEF TypeOK
<1> QED
  BY <1>1, LimiterAssumption

(* The two forms of the invariant.                                          *)
LEMMA AheadMeansNotBehind ==
  ASSUME TypeOK, Ahead
  PROVE  NoLimiterIsBehind
<1>1. ASSUME NEW k \in Keys, limiters[k] # None
      PROVE  objects[limiters[k]] >= ideal[k]
  <2>1. InUse(limiters[k], k)
    BY <1>1 DEF InUse
  <2> QED
    BY <2>1, UsedExists DEF Ahead
<1>2. ASSUME NEW c \in Callers, caller[c].pc = "found"
      PROVE  objects[caller[c].object] >= ideal[caller[c].key]
  <2>1. caller[c].key \in Keys /\ caller[c].object \in 1..Len(objects)
    BY <1>2, FoundType DEF Found
  <2>2. InUse(caller[c].object, caller[c].key)
    BY <1>2 DEF InUse
  <2> QED
    BY <2>1, <2>2 DEF Ahead
<1> QED
  BY <1>1, <1>2 DEF NoLimiterIsBehind

----------------------------------------------------------------------------
(* Type correctness.                                                        *)

LEMMA TypeInit == Init => TypeOK
<1> SUFFICES ASSUME Init PROVE TypeOK
  OBVIOUS
<1>1. raced \in BOOLEAN
  BY DEF Init
<1>2. objects \in Seq(0..Burst) /\ limiters \in [Keys -> 0..Len(objects)]
  BY LimiterAssumption DEF Init, None
<1>3. ideal \in [Keys -> 0..Burst] /\ made \in [Keys -> Seq(1..MaxObjects)]
  BY LimiterAssumption DEF Init
<1> QED
  BY <1>1, <1>2, <1>3 DEF Init, TypeOK


LEMMA TypeStep ==
  ASSUME TypeOK, [Next]_vars
  PROVE  TypeOK'
<1> USE LimiterAssumption DEF TypeOK
<1>1. ASSUME NEW c \in Callers, NEW k \in Keys, Load(c, k)
      PROVE  TypeOK'
  BY <1>1 DEF Load, None
<1>2. ASSUME NEW c \in Callers, LoadOrStore(c)
      PROVE  TypeOK'
  <2>1. PICK k \in Keys : k = caller[c].key
    BY <1>2, MissedType DEF LoadOrStore
  <2>2. CASE limiters[k] # None
    <3>1. limiters[k] \in 1..Len(objects)
      BY <2>1, <2>2 DEF None
    <3>2. /\ caller' = [caller EXCEPT ![c] =
                          [pc |-> "found", key |-> k, object |-> limiters[k]]]
          /\ UNCHANGED <<limiters, objects, evictor, made, ideal, raced>>
      BY <1>2, <2>1, <2>2 DEF LoadOrStore
    <3> QED
      BY <2>1, <3>1, <3>2
  <2>3. CASE limiters[k] = None
    <3>1. /\ objects' = Append(objects, Burst)
          /\ limiters' = [limiters EXCEPT ![k] = Len(objects) + 1]
          /\ caller' = [caller EXCEPT ![c] =
                          [pc |-> "found", key |-> k, object |-> Len(objects) + 1]]
          /\ made' = [made EXCEPT ![k] = Append(@, Len(objects) + 1)]
          /\ Len(objects) < MaxObjects
          /\ UNCHANGED <<evictor, ideal, raced>>
      BY <1>2, <2>1, <2>3 DEF LoadOrStore, FullBucket
    <3>2. objects' \in Seq(0..Burst) /\ Len(objects') = Len(objects) + 1
      BY <3>1
    <3>3. limiters' \in [Keys -> 0..Len(objects')]
      BY <3>1, <3>2
    <3>4. caller' \in [Callers -> {Idle}
                   \cup [pc : {"missed"}, key : Keys]
                   \cup [pc : {"found"}, key : Keys, object : 1..Len(objects')]
                   \cup [pc : {"allowed", "denied"}, key : Keys]]
      BY <3>1, <3>2
    <3>5. made' \in [Keys -> Seq(1..MaxObjects)]
      <4>1. Len(objects) + 1 \in 1..MaxObjects
        BY <3>1
      <4> QED
        BY <3>1, <4>1
    <3> QED
      BY <3>1, <3>2, <3>3, <3>4, <3>5
  <2> QED
    BY <2>2, <2>3
<1>3. ASSUME NEW c \in Callers, Take(c)
      PROVE  TypeOK'
  <2>1. caller[c].pc = "found"
    BY <1>3 DEF Take
  <2>2. caller[c].key \in Keys /\ caller[c].object \in 1..Len(objects)
    BY <2>1, FoundType DEF Found
  <2>3. PICK o \in 1..Len(objects), k \in Keys : o = caller[c].object /\ k = caller[c].key
    BY <2>2
  <2>4. UNCHANGED <<limiters, evictor, made>>
    BY <1>3 DEF Take
  <2>5. objects' \in Seq(0..Burst) /\ Len(objects') = Len(objects)
    <3>1. CASE objects[o] > 0 /\ objects' = [objects EXCEPT ![o] = @ - 1]
      <4>1. objects[o] - 1 \in 0..Burst
        BY <2>3, <3>1
      <4> QED
        BY <2>3, <3>1, <4>1
    <3> QED
      BY <1>3, <2>3, <3>1 DEF Take, HasToken
  <2>6. caller' \in [Callers -> {Idle}
                   \cup [pc : {"missed"}, key : Keys]
                   \cup [pc : {"found"}, key : Keys, object : 1..Len(objects)]
                   \cup [pc : {"allowed", "denied"}, key : Keys]]
    <3>1. PICK v \in {"allowed", "denied"} :
            caller' = [caller EXCEPT ![c] = [pc |-> v, key |-> k]]
      BY <1>3, <2>3 DEF Take, HasToken
    <3>2. [pc |-> v, key |-> k] \in [pc : {"allowed", "denied"}, key : Keys]
      OBVIOUS
    <3> QED
      BY <3>1, <3>2
  <2>7. ideal' \in [Keys -> 0..Burst]
    BY <1>3, <2>3 DEF Take, HasToken
  <2>9. raced' \in BOOLEAN
    BY <1>3 DEF Take
  <2> QED
    BY <2>4, <2>5, <2>6, <2>7, <2>9
<1>4. CASE BeginSweep \/ EndSweep
  BY <1>4 DEF BeginSweep, EndSweep
<1>5. ASSUME NEW k \in Keys, Visit(k)
      PROVE  TypeOK'
  <2>1. evictor.left \in SUBSET Keys
    BY <1>5 DEF Visit, Idle
  <2> QED
    BY <1>5, <2>1 DEF Visit
<1>6. CASE Evict
  <2>1. evictor.left \in SUBSET Keys /\ evictor.key \in Keys
    BY <1>6 DEF Evict, Idle
  <2>2. raced' \in BOOLEAN
    BY <1>6 DEF Evict
  <2> QED
    BY <1>6, <2>1, <2>2 DEF Evict, None
<1>7. CASE Tick
  <2>1. objects' \in Seq(0..Burst) /\ Len(objects') = Len(objects)
    <3>1. \A o \in 1..Len(objects) : Refill(objects[o]) \in 0..Burst
      BY DEF Refill
    <3>2. objects' = [o \in 1..Len(objects) |-> Refill(objects[o])]
      BY <1>7 DEF Tick
    <3> QED
      BY <3>1, <3>2
  <2>2. ideal' \in [Keys -> 0..Burst]
    BY <1>7 DEF Tick, Refill
  <2> QED
    BY <1>7, <2>1, <2>2 DEF Tick
<1>8. CASE UNCHANGED vars
  BY <1>8 DEF vars
<1> QED
  BY <1>1, <1>2, <1>3, <1>4, <1>5, <1>6, <1>7, <1>8 DEF Next

THEOREM TypeCorrect == Spec => []TypeOK
BY TypeInit, TypeStep, PTL DEF Spec

----------------------------------------------------------------------------
(* Ownership and the lead of the limiters.                                  *)

(* A step that puts no object to a new use, takes no token and refills      *)
(* nothing.                                                                 *)
LEMMA NoNewUse ==
  ASSUME IInv, UNCHANGED <<objects, ideal>>,
         \A k \in Keys : \A o \in 1..Len(objects) : InUse(o, k)' => InUse(o, k)
  PROVE  Owned' /\ Ahead'
BY DEF IInv, Owned, Ahead

LEMMA UseStep ==
  ASSUME IInv, [Next]_vars
  PROVE  Owned' /\ Ahead'
<1> USE DEF IInv
<1>1. ASSUME NEW c \in Callers, NEW k \in Keys, Load(c, k)
      PROVE  Owned' /\ Ahead'
  <2>1. \A l \in Keys : \A o \in 1..Len(objects) : InUse(o, l)' => InUse(o, l)
    BY <1>1 DEF Load, InUse, TypeOK
  <2> QED
    BY <1>1, <2>1, NoNewUse DEF Load
<1>2. ASSUME NEW c \in Callers, LoadOrStore(c)
      PROVE  Owned' /\ Ahead'
  <2>1. PICK k \in Keys : k = caller[c].key
    BY <1>2, MissedType DEF LoadOrStore
  <2>2. CASE limiters[k] # None
    <3>1. /\ caller' = [caller EXCEPT ![c] =
                          [pc |-> "found", key |-> k, object |-> limiters[k]]]
          /\ UNCHANGED <<limiters, objects, ideal>>
      BY <1>2, <2>1, <2>2 DEF LoadOrStore
    <3>2. \A l \in Keys : \A o \in 1..Len(objects) : InUse(o, l)' => InUse(o, l)
      BY <2>2, <3>1 DEF InUse, TypeOK
    <3> QED
      BY <3>1, <3>2, NoNewUse
  <2>3. CASE limiters[k] = None
    <3> DEFINE n == Len(objects) + 1
    <3>1. /\ objects' = Append(objects, Burst)
          /\ limiters' = [limiters EXCEPT ![k] = n]
          /\ caller' = [caller EXCEPT ![c] = [pc |-> "found", key |-> k, object |-> n]]
          /\ UNCHANGED ideal
      BY <1>2, <2>1, <2>3 DEF LoadOrStore, FullBucket
    <3>2. /\ Len(objects') = Len(objects) + 1
          /\ objects'[Len(objects) + 1] = Burst
          /\ \A o \in 1..Len(objects) : objects'[o] = objects[o]
      BY <3>1, LimiterAssumption DEF TypeOK
    <3>3. ASSUME NEW l \in Keys, NEW o \in 1..Len(objects'), InUse(o, l)'
          PROVE  (o = Len(objects) + 1 /\ l = k) \/ (o \in 1..Len(objects) /\ InUse(o, l))
      <4>1. CASE limiters'[l] # None /\ o = limiters'[l]
        <5>1. CASE l = k
          <6>1. limiters'[k] = Len(objects) + 1
            BY <3>1 DEF TypeOK
          <6>2. o = Len(objects) + 1
            BY <4>1, <5>1, <6>1
          <6> QED
            BY <5>1, <6>2
        <5>2. CASE l # k
          <6>1. limiters'[l] = limiters[l]
            BY <3>1, <5>2 DEF TypeOK
          <6>2. InUse(o, l)
            BY <4>1, <6>1 DEF InUse
          <6> QED
            BY <6>2, UsedExists
        <5> QED
          BY <5>1, <5>2
      <4>2. ASSUME NEW d \in Callers,
                   caller'[d].pc = "found" /\ caller'[d].key = l /\ caller'[d].object = o
            PROVE  (o = Len(objects) + 1 /\ l = k) \/ (o \in 1..Len(objects) /\ InUse(o, l))
        <5>1. CASE d = c
          <6>1. caller'[d] = [pc |-> "found", key |-> k, object |-> Len(objects) + 1]
            BY <3>1, <5>1 DEF TypeOK
          <6>2. l = k
            BY <4>2, <6>1
          <6>3. o = Len(objects) + 1
            BY <4>2, <6>1
          <6> QED
            BY <6>2, <6>3
        <5>2. CASE d # c
          <6>1. caller'[d] = caller[d]
            BY <3>1, <5>2 DEF TypeOK
          <6>2. InUse(o, l)
            BY <4>2, <6>1 DEF InUse
          <6> QED
            BY <6>2, UsedExists
        <5> QED
          BY <5>1, <5>2
      <4> QED
        BY <3>3, <4>1, <4>2 DEF InUse
    <3>4. Owned'
      <4> SUFFICES ASSUME NEW l \in Keys, NEW m \in Keys, NEW o \in 1..Len(objects'),
                          InUse(o, l)', InUse(o, m)'
                   PROVE  l = m
        BY DEF Owned
      <4>1. (o = Len(objects) + 1 /\ l = k) \/ (o \in 1..Len(objects) /\ InUse(o, l))
        BY <3>3
      <4>2. (o = Len(objects) + 1 /\ m = k) \/ (o \in 1..Len(objects) /\ InUse(o, m))
        BY <3>3
      <4>3. Len(objects) \in Nat
        BY DEF TypeOK
      <4>4. Len(objects) + 1 \notin 1..Len(objects)
        BY <4>3
      <4> QED
        BY <4>1, <4>2, <4>4 DEF Owned
    <3>5. Ahead'
      <4>1. Burst >= ideal[k]
        BY LimiterAssumption DEF TypeOK
      <4> QED
        BY <3>1, <3>2, <3>3, <4>1 DEF Ahead, TypeOK
    <3> QED
      BY <3>4, <3>5
  <2> QED
    BY <2>2, <2>3
<1>3. ASSUME NEW c \in Callers, Take(c)
      PROVE  Owned' /\ Ahead'
  <2>1. PICK o \in 1..Len(objects), k \in Keys : o = caller[c].object /\ k = caller[c].key
    BY <1>3, FoundType DEF Take, Found
  <2>2. InUse(o, k)
    BY <1>3, <2>1 DEF Take, InUse
  <2>3. \A l \in Keys : \A p \in 1..Len(objects) : InUse(p, l)' => InUse(p, l)
    <3>1. PICK v \in {"allowed", "denied"} :
            caller' = [caller EXCEPT ![c] = [pc |-> v, key |-> k]]
      BY <1>3, <2>1 DEF Take
    <3>2. /\ caller'[c].pc # "found"
          /\ \A d \in Callers : d # c => caller'[d] = caller[d]
      BY <3>1 DEF TypeOK
    <3>3. UNCHANGED limiters
      BY <1>3 DEF Take
    <3> QED
      BY <3>2, <3>3 DEF InUse
  <2>4. CASE UNCHANGED <<objects, ideal>>
    BY <2>3, <2>4, NoNewUse
  <2>5. CASE /\ objects[o] > 0
             /\ objects' = [objects EXCEPT ![o] = @ - 1]
             /\ ideal' = [ideal EXCEPT ![k] = IF @ > 0 THEN @ - 1 ELSE 0]
    <3>1. Len(objects') = Len(objects)
      BY <2>5 DEF TypeOK
    <3>2. Owned'
      BY <2>3, <3>1 DEF Owned
    <3>3. ASSUME NEW l \in Keys, NEW p \in 1..Len(objects), InUse(p, l)
          PROVE  objects'[p] >= ideal'[l]
      <4>1. objects[p] \in Nat /\ ideal[l] \in Nat /\ objects[p] >= ideal[l]
        <5>1. ideal[l] \in Nat
          BY LimiterAssumption DEF TypeOK
        <5> QED
          BY <3>3, <5>1, TokensType, LimiterAssumption DEF Ahead
      <4>2. CASE p # o
        BY <2>1, <2>5, <4>1, <4>2 DEF TypeOK
      <4>3. CASE p = o
        <5>1. l = k
          BY <2>2, <3>3, <4>3 DEF Owned
        <5> QED
          BY <2>1, <2>5, <4>1, <4>3, <5>1 DEF TypeOK
      <4> QED
        BY <4>2, <4>3
    <3> QED
      BY <2>3, <3>1, <3>2, <3>3 DEF Ahead
  <2> QED
    BY <1>3, <2>1, <2>4, <2>5 DEF Take, HasToken
<1>4. ASSUME BeginSweep \/ EndSweep \/ \E k \in Keys : Visit(k)
      PROVE  Owned' /\ Ahead'
  <2>1. UNCHANGED <<limiters, objects, caller, ideal>>
    BY <1>4 DEF BeginSweep, EndSweep, Visit
  <2> QED
    BY <2>1, NoNewUse DEF InUse
<1>5. CASE Evict
  <2>1. \A k \in Keys : \A o \in 1..Len(objects) : InUse(o, k)' => InUse(o, k)
    BY <1>5 DEF Evict, InUse, TypeOK
  <2> QED
    BY <1>5, <2>1, NoNewUse DEF Evict
<1>6. CASE Tick
  <2>1. objects' = [o \in 1..Len(objects) |-> Refill(objects[o])]
    BY <1>6 DEF Tick, TypeOK
  <2>2. Len(objects') = Len(objects)
    BY <2>1, LimiterAssumption DEF TypeOK
  <2>3. \A k \in Keys : \A o \in 1..Len(objects) : InUse(o, k)' => InUse(o, k)
    BY <1>6 DEF Tick, InUse
  <2>4. Owned'
    BY <2>2, <2>3 DEF Owned
  <2>5. ASSUME NEW k \in Keys, NEW o \in 1..Len(objects), InUse(o, k)
        PROVE  objects'[o] >= ideal'[k]
    <3>1. objects[o] \in 0..Burst /\ ideal[k] \in 0..Burst /\ objects[o] >= ideal[k]
      <4>1. ideal[k] \in 0..Burst
        BY DEF TypeOK
      <4> QED
        BY <2>5, <4>1, TokensType DEF Ahead
    <3>2. objects'[o] = Refill(objects[o]) /\ ideal'[k] = Refill(ideal[k])
      BY <1>6, <2>1 DEF Tick
    <3> QED
      BY <3>1, <3>2, LimiterAssumption DEF Refill
  <2> QED
    BY <2>2, <2>3, <2>4, <2>5 DEF Ahead
<1>7. CASE UNCHANGED vars
  BY <1>7, NoNewUse DEF vars, InUse
<1> QED
  BY <1>1, <1>2, <1>3, <1>4, <1>5, <1>6, <1>7 DEF Next

LEMMA Inductive == IInv /\ [Next]_vars => IInv'
BY TypeStep, UseStep DEF IInv

LEMMA Initially == Init => IInv
<1>1. Init => Len(objects) = 0
  BY DEF Init
<1> QED
  BY <1>1, TypeInit DEF IInv, Owned, Ahead

(* No limiter in use is behind the bucket its key would have had.           *)
THEOREM NotBehind == Spec => []NoLimiterIsBehind
<1>1. IInv => NoLimiterIsBehind
  BY AheadMeansNotBehind DEF IInv
<1> QED
  BY <1>1, Initially, Inductive, PTL DEF Spec

(* A request is refused only when its key has used up the bucket it would   *)
(* have had without eviction.                                               *)
THEOREM RefusalIsDue == Spec => RefusalsAreDue
<1>1. IInv /\ [Next]_vars =>
        [\A c \in Callers : Refuses(c) => ideal[caller[c].key] = 0]_vars
  <2> SUFFICES ASSUME IInv, Next, NEW c \in Callers, Refuses(c)
               PROVE  ideal[caller[c].key] = 0
    BY DEF vars
  <2>1. Take(c)
    BY DEF Refuses, IInv, TypeOK, Next, Load, LoadOrStore, Take, BeginSweep, Visit, Evict,
           EndSweep, Tick
  <2>2. caller[c].object \in 1..Len(objects) /\ caller[c].key \in Keys
    BY <2>1, FoundType DEF Take, IInv, Found
  <2>3. objects[caller[c].object] = 0
    <3>1. PICK o \in 1..Len(objects), k \in Keys : o = caller[c].object /\ k = caller[c].key
      BY <2>2
    <3>2. caller'[c].pc = "denied"
      BY DEF Refuses
    <3>3. objects[o] > 0 => caller'[c].pc = "allowed"
      BY <2>1, <3>1 DEF Take, HasToken, IInv, TypeOK
    <3> QED
      BY <3>1, <3>2, <3>3, TokensType, LimiterAssumption DEF IInv
  <2>4. objects[caller[c].object] >= ideal[caller[c].key]
    BY <2>1, AheadMeansNotBehind DEF Take, IInv, NoLimiterIsBehind
  <2> QED
    BY <2>2, <2>3, <2>4 DEF IInv, TypeOK
<1> QED
  BY <1>1, Initially, Inductive, PTL DEF Spec, RefusalsAreDue

----------------------------------------------------------------------------
(* Without a race.                                                          *)

(* A goroutine that has found an object has found the one in the map.       *)
Mapped == \A c \in Callers : caller[c].pc = "found" => limiters[caller[c].key] = caller[c].object

(* What is about to be evicted is still full.                               *)
FullStays == evictor.pc = "full" => evictor.key \in Keys /\ Full(evictor.key)

Quiet == ~raced => Mapped /\ FullStays

LEMMA RacedStays ==
  ASSUME IInv, [Next]_vars, ~raced'
  PROVE  ~raced
BY DEF IInv, TypeOK, Next, Load, LoadOrStore, Take, BeginSweep, Visit, Evict, EndSweep, Tick, vars

(* The object of a goroutine, and whose tokens it holds.                    *)
LEMMA TakeIs ==
  ASSUME IInv, Quiet, ~raced', NEW c \in Callers, Take(c), [Next]_vars
  PROVE  \E k \in Keys, o \in 1..Len(objects) :
           /\ k = caller[c].key /\ o = caller[c].object /\ limiters[k] = o
           /\ \A l \in Keys \ {k} : limiters[l] # o
           /\ \/ objects' = objects
              \/ objects[o] > 0 /\ objects' = [objects EXCEPT ![o] = @ - 1]
                 /\ ~(evictor.pc = "full" /\ evictor.key = k)
<1>1. caller[c].pc = "found"
  BY DEF Take
<1>2. PICK k \in Keys, o \in 1..Len(objects) : k = caller[c].key /\ o = caller[c].object
  BY <1>1, FoundType DEF IInv, Found
<1>3. limiters[k] = o
  BY <1>1, <1>2, RacedStays DEF Quiet, Mapped
<1>4. \A l \in Keys \ {k} : limiters[l] # o
  <2> SUFFICES ASSUME NEW l \in Keys, limiters[l] = o PROVE l = k
    OBVIOUS
  <2>1. InUse(o, l) /\ InUse(o, k)
    BY <1>3 DEF InUse, None
  <2> QED
    BY <2>1 DEF IInv, Owned
<1>5. CASE HasToken(o)
  <2>1. objects' = [objects EXCEPT ![o] = @ - 1]
    BY <1>2, <1>5 DEF Take
  <2>2. raced' = (raced \/ (evictor.pc = "full" /\ evictor.key = k))
    BY <1>2, <1>5 DEF Take
  <2> QED
    BY <1>2, <1>3, <1>4, <1>5, <2>1, <2>2 DEF HasToken
<1>6. CASE ~HasToken(o)
  <2>1. objects' = objects
    BY <1>2, <1>6 DEF Take
  <2> QED
    BY <1>2, <1>3, <1>4, <2>1
<1> QED
  BY <1>5, <1>6

(* A new object in the map, for the goroutine that missed.                  *)
LEMMA StoreIs ==
  ASSUME IInv, NEW c \in Callers, LoadOrStore(c)
  PROVE  \E k \in Keys, o \in 1..Len(objects') :
           /\ caller' = [caller EXCEPT ![c] = [pc |-> "found", key |-> k, object |-> o]]
           /\ limiters' = [limiters EXCEPT ![k] = o]
           /\ \/ limiters[k] = o /\ objects' = objects
              \/ limiters[k] = None /\ objects' = Append(objects, Burst) /\ o = Len(objects) + 1
<1>1. PICK k \in Keys : k = caller[c].key
  BY MissedType DEF LoadOrStore, IInv
<1>2. CASE limiters[k] # None
  <2>1. limiters[k] \in 1..Len(objects)
    BY <1>2 DEF IInv, TypeOK, None
  <2>2. /\ caller' = [caller EXCEPT ![c] = [pc |-> "found", key |-> k, object |-> limiters[k]]]
        /\ objects' = objects /\ limiters' = limiters
    BY <1>1, <1>2 DEF LoadOrStore
  <2>3. limiters' = [limiters EXCEPT ![k] = limiters[k]]
    BY <2>2 DEF IInv, TypeOK
  <2> QED
    BY <2>1, <2>2, <2>3
<1>3. CASE limiters[k] = None
  <2>1. /\ caller' = [caller EXCEPT ![c] = [pc |-> "found", key |-> k, object |-> Len(objects) + 1]]
        /\ objects' = Append(objects, Burst)
        /\ limiters' = [limiters EXCEPT ![k] = Len(objects) + 1]
    BY <1>1, <1>3 DEF LoadOrStore, FullBucket
  <2>2. Len(objects) + 1 \in 1..Len(objects')
    BY <2>1 DEF IInv, TypeOK
  <2> QED
    BY <1>3, <2>1, <2>2
<1> QED
  BY <1>2, <1>3

(* Objects that were there keep their tokens when one is added.             *)
LEMMA AppendKeeps ==
  ASSUME TypeOK, objects' = Append(objects, Burst)
  PROVE  /\ objects'[Len(objects) + 1] = Burst
         /\ \A o \in 1..Len(objects) : objects'[o] = objects[o]
BY LimiterAssumption DEF TypeOK

LEMMA RefillFull ==
  ASSUME NEW n \in 0..Burst
  PROVE  Refill(n) \in 0..Burst /\ (n >= Burst => Refill(n) >= Burst) /\ Refill(Burst) = Burst
BY LimiterAssumption DEF Refill

LEMMA QuietStep ==
  ASSUME IInv, Quiet, [Next]_vars
  PROVE  Quiet'
<1> SUFFICES ASSUME ~raced' PROVE Mapped' /\ FullStays'
  BY DEF Quiet
<1>1. Mapped /\ FullStays /\ TypeOK
  BY RacedStays DEF Quiet, IInv
<1>2. ASSUME NEW c \in Callers, NEW k \in Keys, Load(c, k)
      PROVE  Mapped' /\ FullStays'
  BY <1>1, <1>2 DEF Load, Mapped, FullStays, Full, TypeOK
<1>3. ASSUME NEW c \in Callers, LoadOrStore(c)
      PROVE  Mapped' /\ FullStays'
  <2>1. PICK k \in Keys, o \in 1..Len(objects') :
          /\ caller' = [caller EXCEPT ![c] = [pc |-> "found", key |-> k, object |-> o]]
          /\ limiters' = [limiters EXCEPT ![k] = o]
          /\ \/ limiters[k] = o /\ objects' = objects
             \/ limiters[k] = None /\ objects' = Append(objects, Burst) /\ o = Len(objects) + 1
    BY <1>3, StoreIs
  <2>2. limiters'[k] = o /\ \A l \in Keys \ {k} : limiters'[l] = limiters[l]
    BY <1>1, <2>1 DEF TypeOK
  <2>3. Mapped'
    <3> SUFFICES ASSUME NEW d \in Callers, caller'[d].pc = "found"
                 PROVE  limiters'[caller'[d].key] = caller'[d].object
      BY DEF Mapped
    <3>1. CASE d = c
      BY <1>1, <2>1, <2>2, <3>1 DEF TypeOK
    <3>2. CASE d # c
      <4>1. caller'[d] = caller[d]
        BY <1>1, <2>1, <3>2 DEF TypeOK
      <4>2. caller[d].key \in Keys /\ caller[d].object \in 1..Len(objects)
        BY <1>1, <3>2, <4>1, FoundType DEF Found
      <4>3. limiters[caller[d].key] = caller[d].object /\ caller[d].object # None
        BY <1>1, <4>1, <4>2 DEF Mapped, None
      <4> QED
        BY <2>1, <2>2, <4>1, <4>2, <4>3
    <3> QED
      BY <3>1, <3>2
  <2>4. FullStays'
    <3>1. evictor' = evictor
      BY <1>3 DEF LoadOrStore
    <3> SUFFICES ASSUME evictor.pc = "full", evictor.key \in Keys, Full(evictor.key)
                 PROVE  Full(evictor.key)'
      BY <1>1, <3>1 DEF FullStays
    <3>2. limiters[evictor.key] \in 1..Len(objects) /\ objects[limiters[evictor.key]] >= Burst
      BY <1>1 DEF Full, TypeOK, None
    <3>3. limiters'[evictor.key] = limiters[evictor.key]
      BY <2>1, <2>2, <3>2 DEF None
    <3>4. objects'[limiters[evictor.key]] = objects[limiters[evictor.key]]
      BY <1>1, <2>1, <3>2, AppendKeeps
    <3> QED
      BY <3>1, <3>2, <3>3, <3>4 DEF Full, None
  <2> QED
    BY <2>3, <2>4
<1>4. ASSUME NEW c \in Callers, Take(c)
      PROVE  Mapped' /\ FullStays'
  <2>1. PICK k \in Keys, o \in 1..Len(objects) :
          /\ k = caller[c].key /\ o = caller[c].object /\ limiters[k] = o
          /\ \A l \in Keys \ {k} : limiters[l] # o
          /\ \/ objects' = objects
             \/ objects[o] > 0 /\ objects' = [objects EXCEPT ![o] = @ - 1]
                /\ ~(evictor.pc = "full" /\ evictor.key = k)
    BY <1>4, TakeIs
  <2>2. limiters' = limiters /\ evictor' = evictor
    BY <1>4 DEF Take
  <2>3. Mapped'
    <3>1. \E state : state.pc # "found" /\ caller' = [caller EXCEPT ![c] = state]
      <4>1. \/ caller' = [caller EXCEPT ![c] = [pc |-> "allowed", key |-> caller[c].key]]
            \/ caller' = [caller EXCEPT ![c] = [pc |-> "denied", key |-> caller[c].key]]
        BY <1>4 DEF Take
      <4> QED
        BY <4>1
    <3> QED
      BY <1>1, <2>2, <3>1 DEF Mapped, TypeOK
  <2>4. FullStays'
    <3> SUFFICES ASSUME evictor.pc = "full", evictor.key \in Keys, Full(evictor.key)
                 PROVE  Full(evictor.key)'
      BY <1>1, <2>2 DEF FullStays
    <3>1. limiters[evictor.key] \in 1..Len(objects)
      BY <1>1 DEF Full, TypeOK, None
    <3>2. objects'[limiters[evictor.key]] = objects[limiters[evictor.key]]
      BY <1>1, <2>1, <3>1 DEF TypeOK
    <3> QED
      BY <2>2, <3>2 DEF Full
  <2> QED
    BY <2>3, <2>4
<1>5. CASE Evict
  <2>1. \A c \in Callers : ~(caller[c].pc = "found" /\ caller[c].key = evictor.key)
    BY <1>5 DEF Evict
  <2>2. evictor.key \in Keys
    BY <1>1, <1>5 DEF Evict, FullStays
  <2>3. Mapped'
    <3> SUFFICES ASSUME NEW c \in Callers, caller[c].pc = "found"
                 PROVE  limiters'[caller[c].key] = caller[c].object
      BY <1>5 DEF Evict, Mapped
    <3>1. caller[c].key \in Keys /\ caller[c].key # evictor.key
      BY <1>1, <2>1, FoundType DEF Found
    <3> QED
      BY <1>1, <1>5, <3>1 DEF Evict, Mapped, TypeOK
  <2>4. FullStays'
    BY <1>5 DEF Evict, FullStays
  <2> QED
    BY <2>3, <2>4
<1>6. ASSUME NEW k \in Keys, Visit(k)
      PROVE  Mapped' /\ FullStays'
  BY <1>1, <1>6 DEF Visit, Mapped, FullStays, Full
<1>7. CASE Tick
  <2>1. Mapped'
    BY <1>1, <1>7 DEF Tick, Mapped
  <2>2. FullStays'
    <3> SUFFICES ASSUME evictor.pc = "full", evictor.key \in Keys, Full(evictor.key)
                 PROVE  Full(evictor.key)'
      BY <1>1, <1>7 DEF Tick, FullStays
    <3>1. limiters[evictor.key] \in 1..Len(objects)
      BY <1>1 DEF Full, TypeOK, None
    <3>2. objects'[limiters[evictor.key]] = Refill(objects[limiters[evictor.key]])
      BY <1>1, <1>7, <3>1 DEF Tick, TypeOK
    <3>3. objects[limiters[evictor.key]] \in 0..Burst
      BY <1>1, <3>1, TokensType
    <3> QED
      BY <1>7, <3>2, <3>3, RefillFull DEF Tick, Full
  <2> QED
    BY <2>1, <2>2
<1>8. CASE BeginSweep \/ EndSweep \/ UNCHANGED vars
  BY <1>1, <1>8 DEF BeginSweep, EndSweep, vars, Idle, Mapped, FullStays, Full
<1> QED
  BY <1>2, <1>3, <1>4, <1>5, <1>6, <1>7, <1>8 DEF Next

(* Until there is a race, a step takes a token from the bucket of its key,  *)
(* refills the buckets, or leaves them alone.                               *)
LEMMA TokensStep ==
  ASSUME IInv, Quiet, [Next]_vars, ~raced'
  PROVE  [Bucket!Next]_Tokens
<1>1. Mapped /\ FullStays /\ TypeOK
  BY RacedStays DEF Quiet, IInv
<1>2. ASSUME UNCHANGED <<limiters, objects>>
      PROVE  Tokens' = Tokens
  BY <1>2 DEF Tokens
<1>3. ASSUME NEW c \in Callers, LoadOrStore(c)
      PROVE  Tokens' = Tokens
  <2>1. PICK k \in Keys, o \in 1..Len(objects') :
          /\ limiters' = [limiters EXCEPT ![k] = o]
          /\ \/ limiters[k] = o /\ objects' = objects
             \/ limiters[k] = None /\ objects' = Append(objects, Burst) /\ o = Len(objects) + 1
    BY <1>3, StoreIs
  <2>2. CASE limiters[k] = o /\ objects' = objects
    <3>1. limiters' = limiters
      BY <1>1, <2>1, <2>2 DEF TypeOK
    <3> QED
      BY <1>2, <2>2, <3>1
  <2>3. CASE limiters[k] = None /\ objects' = Append(objects, Burst) /\ o = Len(objects) + 1
    <3>1. o # None /\ objects'[o] = Burst
      BY <1>1, <2>3, AppendKeeps DEF TypeOK, None
    <3>2. \A l \in Keys \ {k} : limiters'[l] = limiters[l]
      BY <1>1, <2>1 DEF TypeOK
    <3>3. limiters'[k] = o
      BY <1>1, <2>1 DEF TypeOK
    <3>4. \A l \in Keys \ {k} : limiters[l] # None => objects'[limiters[l]] = objects[limiters[l]]
      BY <1>1, <2>3, AppendKeeps DEF TypeOK, None
    <3> QED
      BY <2>3, <3>1, <3>2, <3>3, <3>4 DEF Tokens
  <2> QED
    BY <2>1, <2>2, <2>3
<1>4. ASSUME NEW c \in Callers, Take(c)
      PROVE  Tokens' = Tokens \/ Bucket!Next
  <2>1. PICK k \in Keys, o \in 1..Len(objects) :
          /\ k = caller[c].key /\ o = caller[c].object /\ limiters[k] = o
          /\ \A l \in Keys \ {k} : limiters[l] # o
          /\ \/ objects' = objects
             \/ objects[o] > 0 /\ objects' = [objects EXCEPT ![o] = @ - 1]
                /\ ~(evictor.pc = "full" /\ evictor.key = k)
    BY <1>4, TakeIs
  <2>2. limiters' = limiters
    BY <1>4 DEF Take
  <2>3. CASE objects' = objects
    BY <1>2, <2>2, <2>3
  <2>4. CASE objects[o] > 0 /\ objects' = [objects EXCEPT ![o] = @ - 1]
    <3>1. Tokens[k] = objects[o]
      BY <2>1 DEF Tokens, None
    <3>2. objects'[o] = objects[o] - 1
      BY <1>1, <2>4 DEF TypeOK
    <3>3. \A l \in Keys \ {k} : limiters[l] # None => objects'[limiters[l]] = objects[limiters[l]]
      BY <1>1, <2>1, <2>4 DEF TypeOK, None
    <3>4. Tokens' = [Tokens EXCEPT ![k] = @ - 1]
      BY <2>1, <2>2, <3>1, <3>2, <3>3 DEF Tokens, None
    <3> QED
      BY <2>4, <3>1, <3>4 DEF Bucket!Next, Bucket!Take
  <2> QED
    BY <2>1, <2>3, <2>4
<1>5. CASE Evict
  <2>1. PICK k \in Keys : k = evictor.key /\ Full(k)
    BY <1>1, <1>5 DEF Evict, FullStays
  <2>2. limiters' = [limiters EXCEPT ![k] = None] /\ objects' = objects
    BY <1>5, <2>1 DEF Evict
  <2>3. limiters[k] \in 1..Len(objects) /\ objects[limiters[k]] >= Burst
    BY <1>1, <2>1 DEF Full, TypeOK, None
  <2>4. objects[limiters[k]] = Burst
    BY <1>1, <2>3, TokensType, LimiterAssumption
  <2>5. limiters'[k] = None /\ \A l \in Keys \ {k} : limiters'[l] = limiters[l]
    BY <1>1, <2>2 DEF TypeOK
  <2>6. Tokens' = Tokens
    BY <2>1, <2>2, <2>3, <2>4, <2>5 DEF Tokens
  <2> QED
    BY <2>6
<1>6. CASE Tick
  <2>1. \A k \in Keys : Tokens'[k] = Bucket!Refill(Tokens[k])
    <3> TAKE k \in Keys
    <3>1. CASE limiters[k] = None
      BY <1>6, <3>1, LimiterAssumption DEF Tick, Tokens, Bucket!Refill
    <3>2. CASE limiters[k] # None
      <4>1. limiters[k] \in 1..Len(objects)
        BY <1>1, <3>2 DEF TypeOK, None
      <4>2. objects'[limiters[k]] = Refill(objects[limiters[k]])
        BY <1>1, <1>6, <4>1 DEF Tick, TypeOK
      <4> QED
        BY <1>6, <3>2, <4>2 DEF Tick, Tokens, Refill, Bucket!Refill
    <3> QED
      BY <3>1, <3>2
  <2>2. Tokens' = [k \in Keys |-> Bucket!Refill(Tokens[k])]
    BY <2>1 DEF Tokens
  <2> QED
    BY <2>2 DEF Bucket!Next, Bucket!Tick
<1>7. ASSUME NEW c \in Callers, NEW k \in Keys, Load(c, k)
      PROVE  Tokens' = Tokens
  BY <1>2, <1>7 DEF Load
<1>8. ASSUME NEW k \in Keys, Visit(k)
      PROVE  Tokens' = Tokens
  BY <1>2, <1>8 DEF Visit
<1>9. CASE BeginSweep \/ EndSweep \/ UNCHANGED vars
  BY <1>2, <1>9 DEF BeginSweep, EndSweep, vars
<1> QED
  BY <1>3, <1>4, <1>5, <1>6, <1>7, <1>8, <1>9 DEF Next

(* Until an eviction races with a request, the map of limiters implements   *)
(* one bucket per key: creating and evicting entries changes nothing.       *)
THEOREM LimitersAreBuckets == Spec => EvictionIsInvisible
<1>1. Init => Quiet /\ Bucket!Init
  BY DEF Init, Quiet, Mapped, FullStays, Idle, Bucket!Init, Tokens
<1>2. IInv /\ Quiet /\ [Next]_vars => [raced' \/ Bucket!Next]_Tokens
  BY TokensStep
<1>3. IInv /\ Quiet /\ [Next]_vars => Quiet'
  BY QuietStep
<1> QED
  BY <1>1, <1>2, <1>3, Initially, Inductive, PTL DEF Spec, EvictionIsInvisible

----------------------------------------------------------------------------
(* With races.                                                              *)

(* Every object in use for a key was made for it, and for nothing else.     *)
MadeForIts ==
  \A k \in Keys : \A o \in 1..Len(objects) :
    InUse(o, k) => \E i \in 1..Len(made[k]) : made[k][i] = o

MadeOnce ==
  \A k, l \in Keys : \A i \in 1..Len(made[k]) : \A j \in 1..Len(made[l]) :
    made[k][i] = made[l][j] => k = l /\ i = j

MadeBounded ==
  /\ Len(objects) <= MaxObjects
  /\ \A k \in Keys : /\ Len(made[k]) <= Len(objects)
                     /\ \A i \in 1..Len(made[k]) : made[k][i] \in 1..Len(objects)

MInv == MadeForIts /\ MadeOnce /\ MadeBounded

LEMMA MadeType ==
  ASSUME TypeOK
  PROVE  /\ Len(objects) \in Nat
         /\ \A k \in Keys : Len(made[k]) \in Nat /\ \A i \in 1..Len(made[k]) : made[k][i] \in Nat
BY LimiterAssumption DEF TypeOK

LEMMA MadeStays ==
  ASSUME MInv, UNCHANGED made, Len(objects') = Len(objects),
         \A k \in Keys : \A o \in 1..Len(objects) : InUse(o, k)' => InUse(o, k)
  PROVE  MInv'
BY DEF MInv, MadeForIts, MadeOnce, MadeBounded

(* A new object is made for the key that missed.                            *)
LEMMA MakeIs ==
  ASSUME IInv, NEW c \in Callers, LoadOrStore(c)
  PROVE  \E k \in Keys :
           \/ /\ UNCHANGED <<objects, made, limiters>> /\ limiters[k] # None
              /\ caller' = [caller EXCEPT ![c] = [pc |-> "found", key |-> k, object |-> limiters[k]]]
           \/ /\ Len(objects) < MaxObjects /\ objects' = Append(objects, Burst)
              /\ limiters' = [limiters EXCEPT ![k] = Len(objects) + 1]
              /\ made' = [made EXCEPT ![k] = Append(@, Len(objects) + 1)]
              /\ caller' = [caller EXCEPT ![c] = [pc |-> "found", key |-> k, object |-> Len(objects) + 1]]
<1>1. PICK k \in Keys : k = caller[c].key
  BY MissedType DEF LoadOrStore, IInv
<1> QED
  BY <1>1 DEF LoadOrStore, FullBucket

LEMMA MadeStep ==
  ASSUME IInv, MInv, [Next]_vars
  PROVE  MInv'
<1> USE DEF IInv
<1>1. ASSUME NEW c \in Callers, NEW k \in Keys, Load(c, k)
      PROVE  MInv'
  <2>1. \A l \in Keys : \A o \in 1..Len(objects) : InUse(o, l)' => InUse(o, l)
    BY <1>1 DEF Load, InUse, TypeOK
  <2> QED
    BY <1>1, <2>1, MadeStays DEF Load
<1>2. ASSUME NEW c \in Callers, LoadOrStore(c)
      PROVE  MInv'
  <2>1. PICK k \in Keys :
           \/ /\ UNCHANGED <<objects, made, limiters>> /\ limiters[k] # None
              /\ caller' = [caller EXCEPT ![c] = [pc |-> "found", key |-> k, object |-> limiters[k]]]
           \/ /\ Len(objects) < MaxObjects /\ objects' = Append(objects, Burst)
              /\ limiters' = [limiters EXCEPT ![k] = Len(objects) + 1]
              /\ made' = [made EXCEPT ![k] = Append(@, Len(objects) + 1)]
              /\ caller' = [caller EXCEPT ![c] = [pc |-> "found", key |-> k, object |-> Len(objects) + 1]]
    BY <1>2, MakeIs
  <2>2. CASE /\ UNCHANGED <<objects, made, limiters>> /\ limiters[k] # None
             /\ caller' = [caller EXCEPT ![c] = [pc |-> "found", key |-> k, object |-> limiters[k]]]
    <3>1. \A l \in Keys : \A o \in 1..Len(objects) : InUse(o, l)' => InUse(o, l)
      BY <2>2 DEF InUse, TypeOK
    <3> QED
      BY <2>2, <3>1, MadeStays
  <2>3. CASE /\ Len(objects) < MaxObjects /\ objects' = Append(objects, Burst)
             /\ limiters' = [limiters EXCEPT ![k] = Len(objects) + 1]
             /\ made' = [made EXCEPT ![k] = Append(@, Len(objects) + 1)]
             /\ caller' = [caller EXCEPT ![c] = [pc |-> "found", key |-> k, object |-> Len(objects) + 1]]
    <3>1. /\ Len(objects) \in Nat /\ Len(objects') = Len(objects) + 1
          /\ Len(made[k]) \in Nat /\ Len(made'[k]) = Len(made[k]) + 1
          /\ made'[k][Len(made[k]) + 1] = Len(objects) + 1
          /\ \A i \in 1..Len(made[k]) : made'[k][i] = made[k][i]
          /\ \A l \in Keys \ {k} : made'[l] = made[l]
      <4>1. made[k] \in Seq(1..MaxObjects) /\ made'[k] = Append(made[k], Len(objects) + 1)
        BY <2>3 DEF TypeOK
      <4>2. \A l \in Keys \ {k} : made'[l] = made[l]
        BY <2>3 DEF TypeOK
      <4>3. Len(objects) \in Nat /\ Len(objects') = Len(objects) + 1
        BY <2>3, LimiterAssumption DEF TypeOK
      <4> QED
        BY <4>1, <4>2, <4>3
    <3>2. ASSUME NEW l \in Keys, NEW o \in 1..Len(objects'), InUse(o, l)'
          PROVE  (l = k /\ o = Len(objects) + 1) \/ (o \in 1..Len(objects) /\ InUse(o, l))
      <4>1. CASE limiters'[l] # None /\ o = limiters'[l]
        <5>1. CASE l = k
          BY <2>3, <4>1, <5>1 DEF TypeOK
        <5>2. CASE l # k
          <6>1. InUse(o, l)
            BY <2>3, <4>1, <5>2 DEF InUse, TypeOK
          <6> QED
            BY <6>1, UsedExists
        <5> QED
          BY <5>1, <5>2
      <4>2. ASSUME NEW d \in Callers, caller'[d].pc = "found" /\ caller'[d].key = l /\ caller'[d].object = o
            PROVE  (l = k /\ o = Len(objects) + 1) \/ (o \in 1..Len(objects) /\ InUse(o, l))
        <5>1. CASE d = c
          <6>1. caller'[d] = [pc |-> "found", key |-> k, object |-> Len(objects) + 1]
            BY <2>3, <5>1 DEF TypeOK
          <6>2. l = k /\ o = Len(objects) + 1
            BY <4>2, <6>1
          <6> QED
            BY <6>2
        <5>2. CASE d # c
          <6>1. caller'[d] = caller[d]
            BY <2>3, <5>2 DEF TypeOK
          <6>2. InUse(o, l)
            BY <4>2, <6>1 DEF InUse
          <6> QED
            BY <6>2, UsedExists
        <5> QED
          BY <5>1, <5>2
      <4> QED
        BY <3>2, <4>1, <4>2 DEF InUse
    <3>3. MadeForIts'
      <4> SUFFICES ASSUME NEW l \in Keys, NEW o \in 1..Len(objects'), InUse(o, l)'
                   PROVE  \E i \in 1..Len(made'[l]) : made'[l][i] = o
        BY DEF MadeForIts
      <4>1. CASE l = k /\ o = Len(objects) + 1
        <5>1. Len(made[k]) + 1 \in 1..Len(made'[k])
          BY <3>1
        <5> QED
          BY <3>1, <4>1, <5>1
      <4>2. CASE o \in 1..Len(objects) /\ InUse(o, l)
        <5>1. PICK i \in 1..Len(made[l]) : made[l][i] = o
          BY <4>2 DEF MInv, MadeForIts
        <5>2. i \in 1..Len(made'[l]) /\ made'[l][i] = made[l][i]
          BY <3>1, <5>1
        <5> QED
          BY <5>1, <5>2
      <4> QED
        BY <3>2, <4>1, <4>2
    <3>4. ASSUME NEW l \in Keys, NEW i \in 1..Len(made'[l])
          PROVE  \/ l = k /\ i = Len(made[k]) + 1 /\ made'[l][i] = Len(objects) + 1
                 \/ i \in 1..Len(made[l]) /\ made'[l][i] = made[l][i] /\ made[l][i] \in 1..Len(objects)
      <4>1. CASE l = k
        <5>1. i = Len(made[k]) + 1 \/ i \in 1..Len(made[k])
          BY <3>1, <4>1
        <5> QED
          BY <3>1, <4>1, <5>1 DEF MInv, MadeBounded
      <4>2. CASE l # k
        BY <3>1, <4>2 DEF MInv, MadeBounded
      <4> QED
        BY <4>1, <4>2
    <3>5. MadeOnce'
      <4> SUFFICES ASSUME NEW l \in Keys, NEW m \in Keys, NEW i \in 1..Len(made'[l]), NEW j \in 1..Len(made'[m]),
                          made'[l][i] = made'[m][j]
                   PROVE  l = m /\ i = j
        BY DEF MadeOnce
      <4>1. \/ l = k /\ i = Len(made[k]) + 1 /\ made'[l][i] = Len(objects) + 1
            \/ i \in 1..Len(made[l]) /\ made'[l][i] = made[l][i] /\ made[l][i] \in 1..Len(objects)
        BY <3>4
      <4>2. \/ m = k /\ j = Len(made[k]) + 1 /\ made'[m][j] = Len(objects) + 1
            \/ j \in 1..Len(made[m]) /\ made'[m][j] = made[m][j] /\ made[m][j] \in 1..Len(objects)
        BY <3>4
      <4>3. Len(objects) + 1 \notin 1..Len(objects)
        BY <3>1
      <4> QED
        BY <4>1, <4>2, <4>3 DEF MInv, MadeOnce
    <3>6. MadeBounded'
      <4>1. Len(objects') <= MaxObjects
        BY <2>3, <3>1, LimiterAssumption
      <4>2. ASSUME NEW l \in Keys
            PROVE  Len(made'[l]) <= Len(objects')
        <5>1. Len(made[l]) \in Nat /\ Len(made[l]) <= Len(objects)
          BY MadeType DEF MInv, MadeBounded
        <5> QED
          BY <3>1, <5>1
      <4>3. ASSUME NEW l \in Keys, NEW i \in 1..Len(made'[l])
            PROVE  made'[l][i] \in 1..Len(objects')
        <5>1. Len(objects') = Len(objects) + 1 /\ Len(objects) \in Nat
          BY <3>1
        <5>2. 1..Len(objects) \subseteq 1..Len(objects') /\ Len(objects) + 1 \in 1..Len(objects')
          BY <5>1
        <5>3. \/ l = k /\ i = Len(made[k]) + 1 /\ made'[l][i] = Len(objects) + 1
              \/ i \in 1..Len(made[l]) /\ made'[l][i] = made[l][i] /\ made[l][i] \in 1..Len(objects)
          BY <3>4
        <5> QED
          BY <5>2, <5>3
      <4> QED
        BY <4>1, <4>2, <4>3 DEF MadeBounded
    <3> QED
      BY <3>3, <3>5, <3>6 DEF MInv
  <2> QED
    BY <2>1, <2>2, <2>3
<1>3. ASSUME NEW c \in Callers, Take(c)
      PROVE  MInv'
  <2>1. PICK v \in {"allowed", "denied"} : caller' = [caller EXCEPT ![c] = [pc |-> v, key |-> caller[c].key]]
    BY <1>3 DEF Take
  <2>2. caller'[c].pc # "found" /\ \A d \in Callers \ {c} : caller'[d] = caller[d]
    BY <2>1 DEF TypeOK
  <2>3. UNCHANGED <<limiters, made>> /\ Len(objects') = Len(objects)
    <3>1. caller[c].object \in 1..Len(objects)
      BY <1>3, FoundType DEF Take, Found
    <3> QED
      BY <1>3, <3>1 DEF Take, TypeOK
  <2>4. \A l \in Keys : \A o \in 1..Len(objects) : InUse(o, l)' => InUse(o, l)
    BY <2>2, <2>3 DEF InUse
  <2> QED
    BY <2>3, <2>4, MadeStays
<1>4. CASE Evict
  <2>1. \A k \in Keys : \A o \in 1..Len(objects) : InUse(o, k)' => InUse(o, k)
    BY <1>4 DEF Evict, InUse, TypeOK
  <2> QED
    BY <1>4, <2>1, MadeStays DEF Evict
<1>5. CASE Tick
  <2>1. Len(objects') = Len(objects)
    BY <1>5, LimiterAssumption DEF Tick, TypeOK
  <2>2. \A k \in Keys : \A o \in 1..Len(objects) : InUse(o, k)' => InUse(o, k)
    BY <1>5 DEF Tick, InUse
  <2> QED
    BY <1>5, <2>1, <2>2, MadeStays DEF Tick
<1>6. CASE BeginSweep \/ EndSweep \/ (\E k \in Keys : Visit(k)) \/ UNCHANGED vars
  <2>1. UNCHANGED <<limiters, objects, caller, made>>
    BY <1>6 DEF BeginSweep, EndSweep, Visit, vars
  <2> QED
    BY <2>1, MadeStays DEF InUse
<1> QED
  BY <1>1, <1>2, <1>3, <1>4, <1>5, <1>6 DEF Next

(* The tokens of the limiters, one by one.                                  *)
LEMMA LimiterIs ==
  ASSUME TypeOK, NEW k \in Keys, NEW g \in 0..MaxObjects - 1
  PROVE  /\ <<k, g>> \in Limiters
         /\ g < Len(made[k]) => g + 1 \in 1..Len(made[k]) /\ LimiterTokens[<<k, g>>] = objects[made[k][g + 1]]
         /\ ~(g < Len(made[k])) => LimiterTokens[<<k, g>>] = Burst
BY MadeType DEF Limiters, LimiterTokens

LEMMA SameTokens ==
  ASSUME TypeOK, TypeOK',
         \A k \in Keys : \A g \in 0..MaxObjects - 1 : LimiterTokens'[<<k, g>>] = LimiterTokens[<<k, g>>]
  PROVE  UNCHANGED LimiterTokens
<1>1. \A l \in Limiters : LimiterTokens'[l] = LimiterTokens[l]
  BY DEF Limiters
<1>2. LimiterTokens = [l \in Limiters |-> LimiterTokens[l]] /\ LimiterTokens' = [l \in Limiters |-> LimiterTokens'[l]]
  BY DEF LimiterTokens, Limiters
<1> QED
  BY <1>1, <1>2

(* A step that asks no limiter leaves the buckets alone or refills them.    *)
Idles == (\A c \in Callers : ~Allows(c) /\ ~Refuses(c)) /\ (UNCHANGED LimiterTokens \/ LimiterBucket!Tick)

LEMMA QuietCallers ==
  ASSUME IInv, [Next]_vars, \A c \in Callers : ~Take(c)
  PROVE  \A c \in Callers : ~Allows(c) /\ ~Refuses(c)
<1> SUFFICES ASSUME NEW c \in Callers, Allows(c) \/ Refuses(c) PROVE FALSE
  OBVIOUS
<1> QED
  BY DEF Allows, Refuses, IInv, TypeOK, Next, Load, LoadOrStore, BeginSweep, Visit, Evict,
         EndSweep, Tick, vars

LEMMA MakeIdles ==
  ASSUME IInv, MInv, IInv', NEW c \in Callers, LoadOrStore(c)
  PROVE  UNCHANGED LimiterTokens
<1>1. PICK k \in Keys :
         \/ UNCHANGED <<objects, made>>
         \/ objects' = Append(objects, Burst) /\ made' = [made EXCEPT ![k] = Append(@, Len(objects) + 1)]
  BY MakeIs
<1>2. CASE UNCHANGED <<objects, made>>
  BY <1>2 DEF LimiterTokens
<1>3. CASE objects' = Append(objects, Burst) /\ made' = [made EXCEPT ![k] = Append(@, Len(objects) + 1)]
  <2>1. /\ objects'[Len(objects) + 1] = Burst
        /\ \A o \in 1..Len(objects) : objects'[o] = objects[o]
    BY <1>3, AppendKeeps DEF IInv
  <2>2. made[k] \in Seq(1..MaxObjects) /\ made'[k] = Append(made[k], Len(objects) + 1)
    BY <1>3 DEF IInv, TypeOK
  <2>3. /\ Len(made[k]) \in Nat /\ Len(made'[k]) = Len(made[k]) + 1
        /\ made'[k][Len(made[k]) + 1] = Len(objects) + 1
        /\ \A i \in 1..Len(made[k]) : made'[k][i] = made[k][i]
    BY <2>2
  <2>4. \A l \in Keys \ {k} : made'[l] = made[l]
    BY <1>3 DEF IInv, TypeOK
  <2>5. ASSUME NEW l \in Keys, NEW g \in 0..MaxObjects - 1
        PROVE  LimiterTokens'[<<l, g>>] = LimiterTokens[<<l, g>>]
    <3>1. g \in Nat /\ Len(made[l]) \in Nat
      BY MadeType DEF IInv
    <3>2. LimiterTokens'[<<l, g>>] = IF g < Len(made'[l]) THEN objects'[made'[l][g + 1]] ELSE Burst
      BY DEF LimiterTokens, Limiters
    <3>3. LimiterTokens[<<l, g>>] = IF g < Len(made[l]) THEN objects[made[l][g + 1]] ELSE Burst
      BY DEF LimiterTokens, Limiters
    <3>4. CASE g < Len(made[l])
      <4>1. g + 1 \in 1..Len(made[l])
        BY <3>1, <3>4
      <4>2. made[l][g + 1] \in 1..Len(objects)
        BY <4>1 DEF MInv, MadeBounded
      <4>3. made'[l][g + 1] = made[l][g + 1] /\ g < Len(made'[l])
        BY <2>3, <2>4, <3>1, <3>4, <4>1
      <4> QED
        BY <2>1, <3>2, <3>3, <3>4, <4>2, <4>3
    <3>5. CASE ~(g < Len(made[l])) /\ l = k /\ g = Len(made[k])
      BY <2>1, <2>3, <3>2, <3>3, <3>5
    <3>6. CASE ~(g < Len(made[l])) /\ ~(l = k /\ g = Len(made[k]))
      <4>1. ~(g < Len(made'[l]))
        BY <2>3, <2>4, <3>1, <3>6
      <4> QED
        BY <3>2, <3>3, <3>6, <4>1
    <3> QED
      BY <3>4, <3>5, <3>6
  <2> QED
    BY <2>5, SameTokens DEF IInv
<1> QED
  BY <1>1, <1>2, <1>3

LEMMA TickRefills ==
  ASSUME IInv, MInv, Tick
  PROVE  LimiterBucket!Tick
<1>1. ASSUME NEW l \in Limiters
      PROVE  LimiterTokens'[l] = LimiterBucket!Refill(LimiterTokens[l])
  <2>1. PICK k \in Keys, g \in 0..MaxObjects - 1 : l = <<k, g>>
    BY DEF Limiters
  <2>2. LimiterTokens'[l] = IF g < Len(made[k]) THEN objects'[made[k][g + 1]] ELSE Burst
    BY <2>1 DEF LimiterTokens, Tick
  <2>3. LimiterTokens[l] = IF g < Len(made[k]) THEN objects[made[k][g + 1]] ELSE Burst
    BY <2>1 DEF LimiterTokens
  <2>4. CASE g < Len(made[k])
    <3>1. g + 1 \in 1..Len(made[k])
      BY <2>4, MadeType DEF IInv
    <3>2. made[k][g + 1] \in 1..Len(objects)
      BY <3>1 DEF MInv, MadeBounded
    <3>3. objects'[made[k][g + 1]] = Refill(objects[made[k][g + 1]])
      BY <3>2 DEF Tick, IInv, TypeOK
    <3> QED
      BY <2>2, <2>3, <2>4, <3>3 DEF Refill, LimiterBucket!Refill
  <2>5. CASE ~(g < Len(made[k]))
    BY <2>2, <2>3, <2>5, LimiterAssumption DEF LimiterBucket!Refill
  <2> QED
    BY <2>4, <2>5
<1>2. LimiterTokens' = [l \in Limiters |-> LimiterTokens'[l]]
  BY DEF LimiterTokens, Limiters
<1> QED
  BY <1>1, <1>2 DEF LimiterBucket!Tick

(* A request takes the token of an object made for its key, and of no       *)
(* other limiter.                                                           *)
LEMMA TakeAsks ==
  ASSUME IInv, MInv, NEW c \in Callers, Take(c)
  PROVE  \E l \in Limiters : Asks(c, l)
<1> USE DEF IInv
<1>1. caller[c].pc = "found"
  BY DEF Take
<1>2. PICK k \in Keys, o \in 1..Len(objects) : k = caller[c].key /\ o = caller[c].object
  BY <1>1, FoundType DEF Found
<1>3. PICK i \in 1..Len(made[k]) : made[k][i] = o
  <2>1. InUse(o, k)
    BY <1>1, <1>2 DEF InUse
  <2> QED
    BY <2>1 DEF MInv, MadeForIts
<1>4. PICK g \in 0..MaxObjects - 1 : i = g + 1 /\ g < Len(made[k])
  <2>1. Len(made[k]) \in Nat /\ Len(made[k]) <= Len(objects) /\ Len(objects) <= MaxObjects /\ Len(objects) \in Nat
    BY MadeType DEF MInv, MadeBounded
  <2>2. i - 1 \in 0..MaxObjects - 1 /\ i = (i - 1) + 1 /\ i - 1 < Len(made[k])
    BY <2>1, LimiterAssumption
  <2> QED
    BY <2>2
<1> DEFINE at == <<k, g>>
<1>5. at \in Limiters /\ LimiterTokens[at] = objects[o] /\ at[1] = k /\ at[2] = g
  BY <1>3, <1>4 DEF LimiterTokens, Limiters
<1>6. caller[c].pc = "found" /\ caller[c].key = at[1] /\ at[2] < Len(made[at[1]])
  BY <1>1, <1>2, <1>4
<1>7. UNCHANGED made
  BY DEF Take
<1>8. CASE HasToken(o)
  <2>1. /\ objects' = [objects EXCEPT ![o] = @ - 1]
        /\ caller' = [caller EXCEPT ![c] = [pc |-> "allowed", key |-> k]]
    BY <1>2, <1>8 DEF Take
  <2>2. Allows(c)
    BY <1>1, <2>1 DEF Allows, TypeOK
  <2>3. ASSUME NEW l \in Limiters, l # at
        PROVE  LimiterTokens'[l] = LimiterTokens[l]
    <3>1. PICK m \in Keys, h \in 0..MaxObjects - 1 : l = <<m, h>>
      BY DEF Limiters
    <3>2. LimiterTokens'[l] = IF h < Len(made[m]) THEN objects'[made[m][h + 1]] ELSE Burst
      BY <1>7, <3>1 DEF LimiterTokens
    <3>3. LimiterTokens[l] = IF h < Len(made[m]) THEN objects[made[m][h + 1]] ELSE Burst
      BY <3>1 DEF LimiterTokens
    <3>4. ASSUME h < Len(made[m])
          PROVE  objects'[made[m][h + 1]] = objects[made[m][h + 1]]
      <4>1. h + 1 \in 1..Len(made[m])
        BY <3>4, MadeType
      <4>2. made[m][h + 1] # o
        <5> SUFFICES ASSUME made[m][h + 1] = o PROVE FALSE
          OBVIOUS
        <5>1. m = k /\ h + 1 = i
          BY <1>3, <4>1 DEF MInv, MadeOnce
        <5>2. h = g
          BY <1>4, <5>1
        <5> QED
          BY <2>3, <3>1, <5>1, <5>2
      <4>3. made[m][h + 1] \in 1..Len(objects)
        BY <4>1 DEF MInv, MadeBounded
      <4> QED
        BY <2>1, <4>2, <4>3 DEF TypeOK
    <3> QED
      BY <3>2, <3>3, <3>4
  <2>4. LimiterTokens'[at] = LimiterTokens[at] - 1
    <3>1. LimiterTokens'[at] = objects'[o]
      BY <1>3, <1>4, <1>5, <1>7 DEF LimiterTokens
    <3>2. objects'[o] = objects[o] - 1
      BY <2>1 DEF TypeOK
    <3> QED
      BY <1>5, <3>1, <3>2
  <2>5. LimiterTokens' = [LimiterTokens EXCEPT ![at] = @ - 1]
    <3>1. /\ LimiterTokens' = [l \in Limiters |-> LimiterTokens'[l]]
          /\ LimiterTokens = [l \in Limiters |-> LimiterTokens[l]]
      BY DEF LimiterTokens, Limiters
    <3> HIDE DEF at
    <3> QED
      BY <1>5, <2>3, <2>4, <3>1
  <2>6. LimiterBucket!Take(at)
    BY <1>5, <1>8, <2>5 DEF HasToken, LimiterBucket!Take
  <2>7. Asks(c, at)
    BY <1>6, <2>2, <2>6 DEF Asks
  <2> QED
    BY <1>5, <2>7
<1>9. CASE ~HasToken(o)
  <2>1. /\ UNCHANGED objects
        /\ caller' = [caller EXCEPT ![c] = [pc |-> "denied", key |-> k]]
    BY <1>2, <1>9 DEF Take
  <2>2. Refuses(c)
    BY <1>1, <2>1 DEF Refuses, TypeOK
  <2>3. UNCHANGED LimiterTokens
    BY <1>7, <2>1 DEF LimiterTokens
  <2>4. LimiterTokens[at] = 0
    BY <1>5, <1>9, TokensType, LimiterAssumption DEF HasToken
  <2>5. Asks(c, at)
    BY <1>6, <2>2, <2>3, <2>4 DEF Asks
  <2> QED
    BY <1>5, <2>5
<1> QED
  BY <1>8, <1>9

(* With races too: a request asks a bucket of those made for its key, and   *)
(* whatever else happens touches no bucket but to refill all.               *)
THEOREM GenerationsAreBuckets == Spec => EachLimiterIsABucket
<1>1. Init => MInv /\ LimiterBucket!Init
  <2> SUFFICES ASSUME Init PROVE MInv /\ LimiterBucket!Init
    OBVIOUS
  <2>1. /\ Len(objects) = 0 /\ \A k \in Keys : Len(made[k]) = 0
    BY DEF Init
  <2>2. MInv
    BY <2>1, LimiterAssumption DEF MInv, MadeForIts, MadeOnce, MadeBounded
  <2>3. \A l \in Limiters : ~(l[2] < Len(made[l[1]]))
    BY <2>1, LimiterAssumption DEF Limiters
  <2>4. LimiterTokens = [l \in Limiters |-> Burst]
    BY <2>3 DEF LimiterTokens
  <2> QED
    BY <2>2, <2>4 DEF LimiterBucket!Init
<1>2. IInv /\ MInv /\ [Next]_vars => MInv'
  BY MadeStep
<1>3. IInv /\ MInv /\ IInv' /\ [Next]_vars =>
        [\/ \E c \in Callers : \E l \in Limiters : Asks(c, l)
         \/ /\ \A c \in Callers : ~Allows(c) /\ ~Refuses(c)
            /\ UNCHANGED LimiterTokens \/ LimiterBucket!Tick]_vars
  <2> SUFFICES ASSUME IInv, MInv, IInv', Next
               PROVE  (\E c \in Callers : \E l \in Limiters : Asks(c, l)) \/ Idles
    BY DEF Idles
  <2>1. CASE \E c \in Callers : Take(c)
    BY <2>1, TakeAsks
  <2>2. CASE ~\E c \in Callers : Take(c)
    <3>1. \A c \in Callers : ~Allows(c) /\ ~Refuses(c)
      BY <2>2, QuietCallers
    <3>2. CASE UNCHANGED <<objects, made>>
      BY <3>1, <3>2 DEF Idles, LimiterTokens
    <3>3. CASE \E c \in Callers : LoadOrStore(c)
      BY <3>1, <3>3, MakeIdles DEF Idles
    <3>4. CASE Tick
      BY <3>1, <3>4, TickRefills DEF Idles
    <3> QED
      BY <2>2, <3>2, <3>3, <3>4 DEF Next, Load, BeginSweep, Visit, Evict, EndSweep
  <2> QED
    BY <2>1, <2>2
<1> QED
  BY <1>1, <1>2, <1>3, Initially, Inductive, PTL DEF Spec, EachLimiterIsABucket
=============================================================================
