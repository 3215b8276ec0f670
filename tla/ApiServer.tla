----------------------------- MODULE ApiServer -----------------------------
(***************************************************************************)
(* The API process around the handlers (cmd/api main and buildV1Handler):  *)
(* which middleware a request passes and in which order, what it is        *)
(* charged for, how it is answered, and how the process starts, drains and *)
(* dies.  The statements on api_keys are those of ApiKeys; a step of a     *)
(* handler is a step of ApiKeys joined with a step of its request.         *)
(*                                                                         *)
(* The three rate limiters are maps of limiter objects in memory: a        *)
(* restarted process has full ones.  Requests that carry no key            *)
(* (registrations and reads) pay from the limiter of their client's        *)
(* address, requests that need one from that of the key they show.         *)
(*                                                                         *)
(* Allow looks the limiter up and then asks it, and a sweep may delete the *)
(* entry in between: that request has the old limiter, the next one gets a *)
(* new one, which is full.  RateLimiter has these steps; here a limiter is *)
(* a key (or address) and a generation, each a token bucket of its own, a  *)
(* sweep may begin a generation, and a request asks the limiter of any     *)
(* generation so far, which it may have looked up that long ago.           *)
(***************************************************************************)
EXTENDS ApiKeys, Naturals

CONSTANTS
  Reads,       \* GET requests
  Addresses,   \* client IPs
  AddressOf,   \* the client of each request without a key
  KeyBurst, ReadBurst, RegBurst,  \* sizes of the buckets
  MaxTimers,   \* bound: refills and sweeps in the life of a process
  MaxLives     \* bound: how often the process is started

Anonymous == Registrations \cup Reads
Requests == Anonymous \cup Calls

ASSUME ServerAssumption ==
  /\ Anonymous \cap Calls = {} /\ Registrations \cap Reads = {}
  /\ AddressOf \in [Anonymous -> Addresses]
  /\ KeyBurst \in Nat /\ ReadBurst \in Nat /\ RegBurst \in Nat
  /\ MaxTimers \in Nat /\ MaxLives \in Nat \ {0}

VARIABLES
  server,    \* what the process is doing
  lives,     \* how often it was started
  refills,   \* ticks in this life
  sweeps,    \* sweeps in this life
  path,      \* how far each request has come, or the status it is answered with
  delivered, \* registrations whose client has received the key
  paid, regPaid,  \* history: the generation that let a request in, and a registration
  keyTokens, readTokens, regTokens  \* keyLimiter, readLimiter, regLimiter

requests == <<path, delivered>>
buckets == <<paid, regPaid, keyTokens, readTokens, regTokens>>
process == <<server, lives, refills, sweeps>>
serverVars == <<vars, requests, buckets, process>>

Statuses == {"ok", "refused", "limited", "error"}  \* 2xx; 400, 401, 409; 429; 500
Ends == {"served", "turned away", "past"}           \* in this life; in an earlier one

Generations == 0..MaxTimers
KeyLimiters == Registrations \X Generations
AddressLimiters == Addresses \X Generations

KeyBucket == INSTANCE TokenBucket WITH Keys <- KeyLimiters, Burst <- KeyBurst, tokens <- keyTokens
ReadBucket == INSTANCE TokenBucket WITH Keys <- AddressLimiters, Burst <- ReadBurst, tokens <- readTokens
RegBucket == INSTANCE TokenBucket WITH Keys <- AddressLimiters, Burst <- RegBurst, tokens <- regTokens

ServerTypeOK ==
  /\ TypeOK
  /\ server \in {"up", "draining", "stopped"}
  /\ lives \in 1..MaxLives /\ refills \in 0..MaxTimers /\ sweeps \in Generations
  /\ path \in [Requests -> {"unsent", "handling"} \cup Statuses \cup Ends]
  /\ delivered \subseteq Registrations
  /\ paid \in [Requests -> Generations] /\ regPaid \in [Registrations -> Generations]
  /\ keyTokens \in [KeyLimiters -> 0..KeyBurst]
  /\ readTokens \in [AddressLimiters -> 0..ReadBurst]
  /\ regTokens \in [AddressLimiters -> 0..RegBurst]

ServerInit ==
  /\ Init
  /\ server = "up" /\ lives = 1 /\ refills = 0 /\ sweeps = 0
  /\ path = [r \in Requests |-> "unsent"]
  /\ delivered = {}
  /\ paid = [r \in Requests |-> 0] /\ regPaid = [k \in Registrations |-> 0]
  /\ KeyBucket!Init /\ ReadBucket!Init /\ RegBucket!Init

InFlight(r) == path[r] = "handling" \/ path[r] \in Statuses
Ended(r) == IF path[r] \in {"ok", "error"} THEN "served" ELSE "turned away"

To(r, p) == path' = [path EXCEPT ![r] = p] /\ UNCHANGED delivered

----------------------------------------------------------------------------
(* Before the handler.  What a request passes until a limiter is asked      *)
(* concerns nobody else and is one step with it.                            *)

Arrives(r) == server = "up" /\ path[r] = "unsent"

(* The validator refuses a request without the key it needs, or with        *)
(* parameters or a body the specification does not allow.  Nothing is       *)
(* charged for that, but a body is looked at after the key was.             *)
Reject(r) ==
  /\ Arrives(r) \/ (r \in Calls /\ path[r] = "handling")
  /\ To(r, "refused")
  /\ UNCHANGED <<vars, buckets, process>>

(* Mistake: the key is looked up first and charged if it is known.          *)
ChargeKnown(l) == IF Active(l[1]) THEN KeyBucket!Take(l) ELSE UNCHANGED keyTokens

ChargeKey(l) == KeyBucket!Take(l)

(* The limiters of k that requests may have: of the entry, or evicted.      *)
Limiters(k) == {k} \X (0..sweeps)
Pays(r, l) == paid' = [paid EXCEPT ![r] = l[2]]

(* authenticate: charge the key shown, then look it up.  With its key in    *)
(* the context the request passes PublicRateLimit.                          *)
Authorize(c, k) ==
  /\ Arrives(c)
  /\ k \in delivered
  /\ \E l \in Limiters(k) :
       \/ /\ ChargeKey(l) /\ Pays(c, l)
          /\ Authenticate(c, k)
          /\ To(c, IF call'[c].pc = "authenticated" THEN "handling" ELSE "refused")
       \/ /\ keyTokens[l] = 0
          /\ To(c, "limited")
          /\ UNCHANGED <<vars, paid, keyTokens>>
  /\ UNCHANGED <<regPaid, readTokens, regTokens, process>>

(* Mistake: X-Forwarded-For is believed.                                    *)
ForwardedFor(r) == CHOOSE a \in Addresses : a # AddressOf[r]

ClientIP(r) == AddressOf[r]

PublicRateLimit(r) ==
  /\ Arrives(r)
  /\ \E l \in Limiters(ClientIP(r)) :
       \/ ReadBucket!Take(l) /\ Pays(r, l) /\ To(r, "handling")
       \/ readTokens[l] = 0 /\ To(r, "limited") /\ UNCHANGED <<paid, readTokens>>
  /\ UNCHANGED <<vars, regPaid, keyTokens, regTokens, process>>

----------------------------------------------------------------------------
(* The handlers.  A statement that fails is answered 500; one that commits  *)
(* may be reported as failed, its acknowledgement being lost.               *)

(* Mistake: an insert that may have committed is tried again, and refused.  *)
AcknowledgeRetried(r) == To(r, "ok") \/ (Faults /\ To(r, "refused"))

Acknowledge(r) == To(r, "ok") \/ (Faults /\ To(r, "error"))

(* Register: the limiter, the format of the address, the look-up.           *)
StartRegister(k) ==
  /\ path[k] = "handling" /\ registration[k] = New
  /\ \E l \in Limiters(ClientIP(k)) :
       \/ /\ RegBucket!Take(l) /\ regPaid' = [regPaid EXCEPT ![k] = l[2]]
          /\ \/ \E e \in Emails :
                  Lookup(k, e) /\ To(k, IF FindActiveKey(e) THEN "refused" ELSE "handling")
             \/ To(k, "refused") /\ UNCHANGED vars
       \/ /\ regTokens[l] = 0
          /\ To(k, "limited") /\ UNCHANGED <<vars, regPaid, regTokens>>
  /\ UNCHANGED <<paid, keyTokens, readTokens, process>>

FinishRegister(k) ==
  /\ path[k] = "handling"
  /\ \/ /\ Insert(k)
        /\ IF UniqueIndexRefuses(registration[k].email) THEN To(k, "refused") ELSE Acknowledge(k)
     \/ RegisterFails(k) /\ To(k, "error")
  /\ UNCHANGED <<buckets, process>>

HandleCall(c) ==
  /\ path[c] = "handling"
  /\ \/ /\ RevokeKey(c)
        /\ IF Revocable(call[c].key) THEN Acknowledge(c) ELSE To(c, "refused")
     \/ Write(c) /\ Acknowledge(c)
     \/ CallFails(c) /\ To(c, "error")
  /\ UNCHANGED <<buckets, process>>

(* A read changes nothing: whether its queries fail and its response is     *)
(* lost or not, it was served.                                              *)
HandleRead(r) ==
  /\ path[r] = "handling"
  /\ To(r, "served")
  /\ UNCHANGED <<vars, buckets, process>>

(* The response is written.  The raw key exists in it only: when it is lost *)
(* (the client gone, the write timeout over) the row stays, and nobody has  *)
(* its key.                                                                 *)
Answer(r) ==
  /\ path[r] \in Statuses
  /\ path' = [path EXCEPT ![r] = Ended(r)]
  /\ \/ delivered' = delivered \cup ({r} \cap {k \in Registrations : path[k] = "ok"})
     \/ Faults /\ UNCHANGED delivered
  /\ UNCHANGED <<vars, buckets, process>>

----------------------------------------------------------------------------
(* The process.                                                             *)

Signal ==
  /\ server = "up"
  /\ server' = "draining"
  /\ UNCHANGED <<vars, requests, buckets, lives, refills, sweeps>>

(* Shutdown returns when no request is left.                                *)
Exit ==
  /\ server = "draining"
  /\ \A r \in Requests : ~InFlight(r)
  /\ server' = "stopped"
  /\ UNCHANGED <<vars, requests, buckets, lives, refills, sweeps>>

(* The process ends and cuts off the requests it has.                       *)
Die ==
  /\ server' = "stopped"
  /\ path' = [r \in Requests |-> IF InFlight(r) THEN Ended(r) ELSE path[r]]
  /\ UNCHANGED <<vars, delivered, buckets, lives, refills, sweeps>>

(* Shutdown's 30 seconds are over.                                          *)
DrainTimeout ==
  /\ server = "draining"
  /\ \E r \in Requests : InFlight(r)
  /\ Die

(* A second signal, a panic, the machine.                                   *)
Crash == Faults /\ server \in {"up", "draining"} /\ Die

Restart ==
  /\ server = "stopped"
  /\ lives < MaxLives
  /\ server' = "up" /\ lives' = lives + 1 /\ refills' = 0 /\ sweeps' = 0
  /\ path' = [r \in Requests |-> IF path[r] = "unsent" THEN "unsent" ELSE "past"]
  /\ paid' = [r \in Requests |-> 0] /\ regPaid' = [k \in Registrations |-> 0]
  /\ keyTokens' = [l \in KeyLimiters |-> KeyBurst]
  /\ readTokens' = [l \in AddressLimiters |-> ReadBurst]
  /\ regTokens' = [l \in AddressLimiters |-> RegBurst]
  /\ UNCHANGED <<vars, delivered>>

Tick ==
  /\ server \in {"up", "draining"}
  /\ refills + sweeps < MaxTimers
  /\ refills' = refills + 1
  /\ \/ KeyBucket!Tick /\ UNCHANGED <<readTokens, regTokens>>
     \/ ReadBucket!Tick /\ UNCHANGED <<keyTokens, regTokens>>
     \/ RegBucket!Tick /\ UNCHANGED <<keyTokens, readTokens>>
  /\ UNCHANGED <<vars, requests, paid, regPaid, server, lives, sweeps>>
  /\ buckets' # buckets

(* evictIdle wakes.  It deletes an entry it has seen full, as each is when  *)
(* it is made and may no longer be, and at most once each.                  *)
Sweep ==
  /\ server \in {"up", "draining"}
  /\ refills + sweeps < MaxTimers
  /\ sweeps' = sweeps + 1
  /\ UNCHANGED <<vars, requests, buckets, server, lives, refills>>

ServerNext ==
  \/ \E r \in Requests : Reject(r) \/ Answer(r)
  \/ \E r \in Anonymous : PublicRateLimit(r)
  \/ \E k \in Registrations : StartRegister(k) \/ FinishRegister(k)
  \/ \E c \in Calls : (\E k \in Registrations : Authorize(c, k)) \/ HandleCall(c)
  \/ \E r \in Reads : HandleRead(r)
  \/ Signal \/ Exit \/ DrainTimeout \/ Crash \/ Restart \/ Tick \/ Sweep

ServerSpec == ServerInit /\ [][ServerNext]_serverVars

----------------------------------------------------------------------------
(* Properties.                                                              *)

ThisLife(r) == path[r] \notin {"unsent", "past"}
Shown(l) == {c \in Calls : ThisLife(c) /\ call[c] # New /\ <<call[c].key, paid[c]>> = l}
From(l) == {r \in Anonymous : ThisLife(r) /\ <<AddressOf[r], paid[r]>> = l}

(* Requests without a key that came to the database, and the registrations  *)
(* of an address.                                                           *)
Served(l) == {r \in From(l) : IF r \in Reads THEN path[r] \in {"ok", "error", "served"}
                                             ELSE registration[r] # New}
Registering(l) == {k \in Registrations : ThisLife(k) /\ <<AddressOf[k], regPaid[k]>> = l}
Registered(l) == {k \in Registering(l) : registration[k] # New}

(* No limiter lets anybody make the database work for more than its burst   *)
(* and the refills since the process started, however many requests use it, *)
(* still have it when it is evicted, fail or end: no key, active or         *)
(* revoked, is looked up more often through it, no address has more         *)
(* requests served or registrations looked up.  And a key or an address has *)
(* one limiter, and after each sweep at most one more: what evictions can   *)
(* add to a burst is one burst (and the refills) each, and nothing without. *)
LimitsHold ==
  /\ \A l \in KeyLimiters :
       /\ Cardinality(Shown(l)) <= KeyBurst + refills
       /\ l[2] > sweeps => Shown(l) = {}
  /\ \A l \in AddressLimiters :
       /\ Cardinality(Served(l)) <= ReadBurst + refills
       /\ Cardinality(Registered(l)) <= RegBurst + refills
       /\ l[2] > sweeps => Served(l) = {} /\ Registered(l) = {}

(* And nobody is refused for what others did: the calls that show a key     *)
(* cost its limiters alone and leave their address's alone, the requests of *)
(* an address cost the address alone; and an eviction costs nobody a token. *)
OthersCostNothing ==
  /\ \A l \in KeyLimiters : keyTokens[l] + Cardinality(Shown(l)) >= KeyBurst
  /\ \A l \in AddressLimiters :
       /\ readTokens[l] + Cardinality(From(l)) >= ReadBurst
       /\ regTokens[l] + Cardinality(Registering(l)) >= RegBurst

(* What a client is told is so: a request answered with success has taken   *)
(* effect, one that was refused has changed nothing, whichever layer, race  *)
(* or failing statement the answer came from.  (Of a 500 neither is known.) *)
StatusIsTrue ==
  /\ \A k \in Registrations :
       /\ path[k] = "ok" => keys[k] # NoRow
       /\ path[k] \in {"refused", "limited"} => keys[k] = NoRow
  /\ \A c \in Calls :
       /\ path[c] = "ok" => call[c].pc \in {"revoked", "written"}
       /\ path[c] \in {"refused", "limited"} => call[c].pc \notin {"revoked", "written"}
=============================================================================
