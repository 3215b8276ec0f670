-------------------------- MODULE ApiServerProofs --------------------------
(***************************************************************************)
(* The server implements ApiKeys: whatever the middleware lets pass, cuts  *)
(* off or charges for, and however often the process is restarted, the     *)
(* table of keys is written by the steps of ApiKeys alone, whose theorems  *)
(* therefore hold of the server.  Then: the answers clients are given are  *)
(* true of the table, and the limits hold and cost nobody else.            *)
(***************************************************************************)
EXTENDS ApiServer, ApiKeysProofs, FiniteSetTheorems

(* A step of a request is a step of ApiKeys, or leaves its variables alone. *)
LEMMA StepsAreKeySteps == [ServerNext]_serverVars => [Next]_vars
<1> SUFFICES ASSUME [ServerNext]_serverVars PROVE [Next]_vars
  OBVIOUS
<1>1. ASSUME NEW k \in Registrations, StartRegister(k)
      PROVE  [Next]_vars
  BY <1>1 DEF StartRegister, Next
<1>2. ASSUME NEW k \in Registrations, FinishRegister(k)
      PROVE  [Next]_vars
  BY <1>2 DEF FinishRegister, Next
<1>3. ASSUME NEW c \in Calls, NEW k \in Registrations, Authorize(c, k)
      PROVE  [Next]_vars
  BY <1>3 DEF Authorize, Next
<1>4. ASSUME NEW c \in Calls, HandleCall(c)
      PROVE  [Next]_vars
  BY <1>4 DEF HandleCall, Next
<1>5. ASSUME NEW r \in Requests, Reject(r) \/ Answer(r)
      PROVE  UNCHANGED vars
  BY <1>5 DEF Reject, Answer
<1>6. ASSUME NEW r \in Anonymous, PublicRateLimit(r)
      PROVE  UNCHANGED vars
  BY <1>6 DEF PublicRateLimit
<1>7. ASSUME NEW r \in Reads, HandleRead(r)
      PROVE  UNCHANGED vars
  BY <1>7 DEF HandleRead
<1>8. CASE Signal \/ Exit \/ DrainTimeout \/ Crash \/ Restart \/ Tick \/ Sweep
  BY <1>8 DEF Signal, Exit, DrainTimeout, Crash, Die, Restart, Tick, Sweep
<1>9. CASE UNCHANGED serverVars
  BY <1>9 DEF serverVars
<1> QED
  BY <1>1, <1>2, <1>3, <1>4, <1>5, <1>6, <1>7, <1>8, <1>9 DEF ServerNext

(* The server around the handlers adds nothing to what happens to the keys. *)
THEOREM ServerImplementsKeys == ServerSpec => Spec
<1>1. ServerInit => Init
  BY DEF ServerInit
<1> QED
  BY <1>1, StepsAreKeySteps, PTL DEF ServerSpec, Spec

(* So it is in the server that an address has one active key, that a key is *)
(* revoked once, and that a key works until it is.                          *)
THEOREM ServerKeepsKeys ==
  ServerSpec => [](OneActiveKeyPerEmail /\ RevokedOnce /\ KeyWorksUntilRevoked)
BY ServerImplementsKeys, OneActiveKey, KeyIsRevokedOnce, KeyStaysActive, PTL

----------------------------------------------------------------------------
(* Types.  Those of the key table come with ApiKeys; what is left are the   *)
(* process, the paths of requests and the buckets.                          *)

Tokens ==
  /\ paid \in [Requests -> Generations] /\ regPaid \in [Registrations -> Generations]
  /\ keyTokens \in [KeyLimiters -> 0..KeyBurst]
  /\ readTokens \in [AddressLimiters -> 0..ReadBurst]
  /\ regTokens \in [AddressLimiters -> 0..RegBurst]

(* The limiters a request may have are limiters of its own key or address.  *)
LEMMA LimiterTypes ==
  ASSUME ServerTypeOK
  PROVE  /\ \A k \in Registrations : \A l \in Limiters(k) : l \in KeyLimiters
         /\ \A a \in Addresses : \A l \in Limiters(a) : l \in AddressLimiters
         /\ \A k : \A l \in Limiters(k) : l[1] = k /\ l[2] \in Generations /\ l[2] <= sweeps
         /\ \A r, l : Pays(r, l) /\ l[2] \in Generations => paid' \in [Requests -> Generations]
<1>1. 0..sweeps \subseteq Generations /\ \A g \in 0..sweeps : g <= sweeps
  BY ServerAssumption DEF ServerTypeOK, Generations
<1> QED
  BY <1>1 DEF Limiters, KeyLimiters, AddressLimiters, Pays, ServerTypeOK

LEMMA TakeStep ==
  ASSUME ServerTypeOK
  PROVE  /\ \A k : KeyBucket!Take(k) => keyTokens' \in [KeyLimiters -> 0..KeyBurst]
         /\ \A a : ReadBucket!Take(a) => readTokens' \in [AddressLimiters -> 0..ReadBurst]
         /\ \A a : RegBucket!Take(a) => regTokens' \in [AddressLimiters -> 0..RegBurst]
BY ServerAssumption DEF ServerTypeOK, KeyBucket!Take, ReadBucket!Take, RegBucket!Take

LEMMA TickStep ==
  ASSUME ServerTypeOK
  PROVE  /\ KeyBucket!Tick => keyTokens' \in [KeyLimiters -> 0..KeyBurst]
         /\ ReadBucket!Tick => readTokens' \in [AddressLimiters -> 0..ReadBurst]
         /\ RegBucket!Tick => regTokens' \in [AddressLimiters -> 0..RegBurst]
BY ServerAssumption DEF ServerTypeOK, KeyBucket!Tick, KeyBucket!Refill,
     ReadBucket!Tick, ReadBucket!Refill, RegBucket!Tick, RegBucket!Refill

Paths == {"unsent", "handling"} \cup Statuses \cup Ends

(* A step of a request moves that request, and leaves the process alone.    *)
LEMMA RequestTypeStep ==
  ASSUME ServerTypeOK, TypeOK', Tokens', NEW r \in Requests, NEW p \in Paths,
         path' = [path EXCEPT ![r] = p], delivered' \subseteq Registrations, UNCHANGED process
  PROVE  ServerTypeOK'
BY DEF ServerTypeOK, Tokens, Paths, process

LEMMA ServerTypeStep ==
  ASSUME ServerTypeOK, [ServerNext]_serverVars
  PROVE  ServerTypeOK'
<1>1. TypeOK'
  BY StepsAreKeySteps, TypeStep DEF ServerTypeOK
<1>2. Registrations \subseteq Requests /\ Calls \subseteq Requests /\ Reads \subseteq Requests
      /\ Anonymous \subseteq Requests
  BY DEF Requests, Anonymous
<1>3. ASSUME NEW r \in Requests, Reject(r)
      PROVE  ServerTypeOK'
  BY <1>1, <1>3, RequestTypeStep DEF Reject, To, buckets, Tokens, ServerTypeOK, Paths, Statuses
<1>4. ASSUME NEW r \in Requests, Answer(r)
      PROVE  ServerTypeOK'
  <2>1. Ended(r) \in Paths
    BY DEF Ended, Paths, Ends
  <2>2. delivered' \subseteq Registrations
    BY <1>4 DEF Answer, ServerTypeOK
  <2> QED
    BY <1>1, <1>4, <2>1, <2>2, RequestTypeStep DEF Answer, buckets, Tokens, ServerTypeOK
<1>5. ASSUME NEW r \in Anonymous, PublicRateLimit(r)
      PROVE  ServerTypeOK'
  <2>1. Tokens'
    <3>1. PICK l \in Limiters(ClientIP(r)) :
                 \/ ReadBucket!Take(l) /\ Pays(r, l)
                 \/ UNCHANGED <<paid, readTokens>>
      BY <1>5 DEF PublicRateLimit
    <3> QED
      BY <1>5, <3>1, TakeStep, LimiterTypes DEF PublicRateLimit, Tokens, ServerTypeOK
  <2> QED
    BY <1>1, <1>2, <1>5, <2>1, RequestTypeStep DEF PublicRateLimit, To, Paths, Statuses, ServerTypeOK
<1>6. ASSUME NEW k \in Registrations, StartRegister(k)
      PROVE  ServerTypeOK'
  <2>1. Tokens'
    <3>1. PICK l \in Limiters(ClientIP(k)) :
                 \/ RegBucket!Take(l) /\ regPaid' = [regPaid EXCEPT ![k] = l[2]]
                 \/ UNCHANGED <<regPaid, regTokens>>
      BY <1>6 DEF StartRegister
    <3>2. regPaid' \in [Registrations -> Generations]
      BY <3>1, LimiterTypes DEF ServerTypeOK
    <3> QED
      BY <1>6, <3>1, <3>2, TakeStep DEF StartRegister, Tokens, ServerTypeOK
  <2>2. PICK p \in {"refused", "handling", "limited"} : To(k, p)
    BY <1>6 DEF StartRegister
  <2> QED
    BY <1>1, <1>2, <1>6, <2>1, <2>2, RequestTypeStep DEF StartRegister, To, Paths, Statuses, ServerTypeOK
<1>7. ASSUME NEW k \in Registrations, FinishRegister(k)
      PROVE  ServerTypeOK'
  <2>1. PICK p \in {"refused", "ok", "error"} : To(k, p)
    BY <1>7 DEF FinishRegister, Acknowledge
  <2> QED
    BY <1>1, <1>2, <1>7, <2>1, RequestTypeStep DEF FinishRegister, To, Paths, Statuses, buckets, Tokens, ServerTypeOK
<1>8. ASSUME NEW c \in Calls, NEW k \in Registrations, Authorize(c, k)
      PROVE  ServerTypeOK'
  <2>1. Tokens'
    <3>1. PICK l \in Limiters(k) :
                 \/ ChargeKey(l) /\ Pays(c, l)
                 \/ UNCHANGED <<paid, keyTokens>>
      BY <1>8 DEF Authorize
    <3> QED
      BY <1>8, <3>1, TakeStep, LimiterTypes DEF Authorize, ChargeKey, Tokens, ServerTypeOK
  <2>2. PICK p \in {"refused", "handling", "limited"} : To(c, p)
    BY <1>8 DEF Authorize
  <2> QED
    BY <1>1, <1>2, <1>8, <2>1, <2>2, RequestTypeStep DEF Authorize, To, Paths, Statuses, ServerTypeOK
<1>9. ASSUME NEW c \in Calls, HandleCall(c)
      PROVE  ServerTypeOK'
  <2>1. PICK p \in {"refused", "ok", "error"} : To(c, p)
    BY <1>9 DEF HandleCall, Acknowledge
  <2> QED
    BY <1>1, <1>2, <1>9, <2>1, RequestTypeStep DEF HandleCall, To, Paths, Statuses, buckets, Tokens, ServerTypeOK
<1>10. ASSUME NEW r \in Reads, HandleRead(r)
       PROVE  ServerTypeOK'
  BY <1>1, <1>2, <1>10, RequestTypeStep DEF HandleRead, To, Paths, Ends, buckets, Tokens, ServerTypeOK
<1>11. CASE Signal \/ Exit
  BY <1>1, <1>11 DEF Signal, Exit, requests, buckets, ServerTypeOK
<1>12. CASE DrainTimeout \/ Crash
  <2>1. \A r \in Requests : Ended(r) \in Ends
    BY DEF Ended, Ends
  <2>2. path' \in [Requests -> Paths]
    BY <1>12, <2>1 DEF DrainTimeout, Crash, Die, ServerTypeOK, Paths
  <2> QED
    BY <1>1, <1>12, <2>2 DEF DrainTimeout, Crash, Die, buckets, ServerTypeOK, Paths
<1>13. CASE Restart
  <2>1. path' \in [Requests -> Paths]
    BY <1>13 DEF Restart, Paths, Ends
  <2>2. Tokens'
    BY <1>13, ServerAssumption DEF Restart, Tokens, Generations
  <2>3. lives' \in 1..MaxLives /\ refills' \in 0..MaxTimers /\ sweeps' \in Generations
    BY <1>13, ServerAssumption DEF Restart, ServerTypeOK, Generations
  <2> QED
    BY <1>1, <1>13, <2>1, <2>2, <2>3 DEF Restart, ServerTypeOK, Tokens, Paths
<1>14. CASE Tick
  <2>1. Tokens'
    BY <1>14, TickStep DEF Tick, Tokens, ServerTypeOK
  <2>2. refills' \in 0..MaxTimers
    BY <1>14, ServerAssumption DEF Tick, ServerTypeOK, Generations
  <2> QED
    BY <1>1, <1>14, <2>1, <2>2 DEF Tick, requests, ServerTypeOK, Tokens
<1>15. CASE Sweep
  <2>1. sweeps' \in Generations
    BY <1>15, ServerAssumption DEF Sweep, ServerTypeOK, Generations
  <2> QED
    BY <1>1, <1>15, <2>1 DEF Sweep, requests, buckets, ServerTypeOK
<1>16. CASE UNCHANGED serverVars
  BY <1>1, <1>16 DEF serverVars, requests, buckets, process, ServerTypeOK
<1> QED
  BY <1>3, <1>4, <1>5, <1>6, <1>7, <1>8, <1>9, <1>10, <1>11, <1>12, <1>13, <1>14, <1>15, <1>16
     DEF ServerNext

LEMMA TypesInitially == ServerInit => ServerTypeOK
<1> SUFFICES ASSUME ServerInit PROVE ServerTypeOK
  OBVIOUS
<1>1. TypeOK
  BY Initially DEF ServerInit, IInv
<1>2. Tokens
  BY ServerAssumption
     DEF ServerInit, Tokens, Generations, KeyBucket!Init, ReadBucket!Init, RegBucket!Init
<1> QED
  BY <1>1, <1>2, ServerAssumption DEF ServerInit, ServerTypeOK, Tokens, Generations

(* The variables of the server keep their types: no bucket ever holds more  *)
(* than its burst, and a request is at one place of its path.               *)
THEOREM ServerTypeCorrect == ServerSpec => []ServerTypeOK
BY TypesInitially, ServerTypeStep, PTL DEF ServerSpec

----------------------------------------------------------------------------
(* Answers.  A status says what the statements of a request have come to,   *)
(* so the invariant ties the path of each request to its local state, and   *)
(* the local state of a registration to its row.                            *)

RowsMatch == \A k \in Registrations : keys[k] = NoRow <=> registration[k].pc # "created"

RegistrationAt(k) ==
  /\ path[k] = "unsent" => registration[k].pc = "new"
  /\ path[k] = "handling" => registration[k].pc \in {"new", "looked"}
  /\ path[k] = "ok" => registration[k].pc = "created"
  /\ path[k] \in {"refused", "limited"} => registration[k].pc # "created"

CallAt(c) ==
  /\ path[c] = "unsent" => call[c].pc = "new"
  /\ path[c] = "handling" => call[c].pc = "authenticated"
  /\ path[c] = "ok" => call[c].pc \in {"revoked", "written"}
  /\ path[c] \in {"refused", "limited"} => call[c].pc \notin {"revoked", "written"}

SInv ==
  /\ ServerTypeOK
  /\ RowsMatch
  /\ \A k \in Registrations : RegistrationAt(k)
  /\ \A c \in Calls : CallAt(c)

(* No statement deletes a row, and only a successful insert makes one.      *)
LEMMA RowsStep ==
  ASSUME TypeOK, RowsMatch, [Next]_vars
  PROVE  RowsMatch'
<1>1. ASSUME NEW k \in Registrations, NEW e \in Emails, Lookup(k, e)
      PROVE  RowsMatch'
  BY <1>1 DEF Lookup, TypeOK, RowsMatch, New
<1>2. ASSUME NEW k \in Registrations, Insert(k)
      PROVE  RowsMatch'
  <2>1. registration[k] \in [pc : {"looked", "created", "conflict", "failed"}, email : Emails]
    BY <1>2, LookedType DEF Insert
  <2>2. /\ \A l \in Registrations \ {k} : keys'[l] = keys[l] /\ registration'[l] = registration[l]
        /\ \/ keys'[k] = keys[k] /\ registration'[k].pc = "conflict"
           \/ keys'[k] = NewKey(registration[k].email) /\ registration'[k].pc = "created"
    BY <1>2, <2>1 DEF Insert, TypeOK
  <2>3. \A e : NewKey(e) # NoRow
    BY DEF NewKey, NoRow
  <2>4. keys[k] = NoRow
    BY <1>2 DEF Insert, RowsMatch
  <2> QED
    BY <2>2, <2>3, <2>4 DEF RowsMatch
<1>3. ASSUME NEW k \in Registrations, RegisterFails(k)
      PROVE  RowsMatch'
  BY <1>3, LookedType DEF RegisterFails, TypeOK, RowsMatch
<1>4. ASSUME NEW c \in Calls, RevokeKey(c)
      PROVE  RowsMatch'
  <2>1. CASE keys' = keys
    BY <1>4, <2>1 DEF RevokeKey, RowsMatch
  <2>2. CASE Revocable(call[c].key) /\ keys' = Revoked(call[c].key)
    <3>1. call[c].key \in Registrations
      BY <1>4, CallType DEF RevokeKey
    <3>2. keys[call[c].key] \in KeyRow
      BY <2>2, <3>1 DEF Revocable, Active, TypeOK
    <3>3. /\ \A l \in Registrations \ {call[c].key} : keys'[l] = keys[l]
          /\ keys'[call[c].key] \in KeyRow
      BY <2>2, <3>1, <3>2 DEF Revoked, KeyRow, TypeOK
    <3>4. \A row \in KeyRow : row # NoRow
      BY DEF KeyRow, NoRow
    <3> QED
      BY <1>4, <3>1, <3>2, <3>3, <3>4 DEF RevokeKey, RowsMatch
  <2> QED
    BY <1>4, <2>1, <2>2 DEF RevokeKey
<1>5. ASSUME NEW c \in Calls, (\E k \in Registrations : Authenticate(c, k)) \/ Write(c) \/ CallFails(c)
      PROVE  RowsMatch'
  BY <1>5 DEF Authenticate, Write, CallFails, RowsMatch
<1>6. CASE UNCHANGED vars
  BY <1>6 DEF vars, RowsMatch
<1> QED
  BY <1>1, <1>2, <1>3, <1>4, <1>5, <1>6 DEF Next

(* A step that moves one request, and leaves the local states of the others *)
(* alone, need keep only its own part.                                      *)
LEMMA PathStep ==
  ASSUME SInv, NEW r \in Requests, NEW p, To(r, p) \/ path' = [path EXCEPT ![r] = p],
         \A k \in Registrations \ {r} : registration'[k] = registration[k],
         \A c \in Calls \ {r} : call'[c] = call[c]
  PROVE  /\ \A k \in Registrations \ {r} : RegistrationAt(k)'
         /\ \A c \in Calls \ {r} : CallAt(c)'
         /\ path'[r] = p
<1>1. path' = [path EXCEPT ![r] = p] /\ path \in [Requests -> Paths]
  BY DEF To, SInv, ServerTypeOK, Paths
<1>2. \A q \in Requests \ {r} : path'[q] = path[q]
  BY <1>1
<1>3. Registrations \subseteq Requests /\ Calls \subseteq Requests
  BY DEF Requests, Anonymous
<1>4. \A k \in Registrations \ {r} : RegistrationAt(k)'
  BY <1>2, <1>3 DEF SInv, RegistrationAt
<1>5. \A c \in Calls \ {r} : CallAt(c)'
  BY <1>2, <1>3 DEF SInv, CallAt
<1> QED
  BY <1>1, <1>4, <1>5

(* A process that ends or starts answers nobody.                            *)
LEMMA ProcessStep ==
  ASSUME SInv, UNCHANGED vars,
         \A r \in Requests : path'[r] = path[r] \/ path'[r] \in Ends
  PROVE  (\A k \in Registrations : RegistrationAt(k)') /\ (\A c \in Calls : CallAt(c)')
<1>1. Registrations \subseteq Requests /\ Calls \subseteq Requests
  BY DEF Requests, Anonymous
<1> QED
  BY <1>1 DEF SInv, RegistrationAt, CallAt, vars, Ends

LEMMA StatusStep ==
  ASSUME SInv, [ServerNext]_serverVars
  PROVE  SInv'
<1> USE DEF SInv
<1>1. ServerTypeOK' /\ RowsMatch'
  BY ServerTypeStep, RowsStep, StepsAreKeySteps DEF ServerTypeOK
<1> DEFINE Kept == (\A k \in Registrations : RegistrationAt(k)') /\ (\A c \in Calls : CallAt(c)')
<1>2. /\ Registrations \subseteq Requests /\ Calls \subseteq Requests /\ Reads \subseteq Requests
      /\ Anonymous = Registrations \cup Reads
      /\ Registrations \cap Calls = {} /\ Reads \cap Calls = {} /\ Registrations \cap Reads = {}
  BY ServerAssumption DEF Requests, Anonymous
<1>3. registration \in [Registrations -> {New} \cup
         [pc : {"looked", "created", "conflict", "failed"}, email : Emails]]
      /\ call \in [Calls -> {New} \cup
           [pc : {"authenticated", "revoked", "written", "unauthorized", "failed"},
            key : Registrations]]
  BY DEF ServerTypeOK, TypeOK
<1>4. ASSUME NEW r \in Requests, Reject(r)
      PROVE  Kept
  <2>1. To(r, "refused") /\ UNCHANGED vars
    BY <1>4 DEF Reject
  <2>2. (r \in Registrations => path[r] = "unsent") /\ (r \in Calls => path[r] \in {"unsent", "handling"})
    BY <1>2, <1>4 DEF Reject, Arrives
  <2> QED
    BY <2>1, <2>2, PathStep DEF RegistrationAt, CallAt, vars
<1>5. ASSUME NEW r \in Requests, Answer(r)
      PROVE  Kept
  <2>1. path' = [path EXCEPT ![r] = Ended(r)] /\ UNCHANGED vars /\ Ended(r) \in Ends
    BY <1>5 DEF Answer, Ended, Ends
  <2>2. path'[r] \notin {"unsent", "handling", "ok", "refused", "limited"}
    <3>1. path'[r] = Ended(r)
      BY <2>1, PathStep DEF vars
    <3> QED
      BY <2>1, <3>1 DEF Ends
  <2>3. /\ \A k \in Registrations \ {r} : RegistrationAt(k)'
        /\ \A c \in Calls \ {r} : CallAt(c)'
    BY <2>1, PathStep DEF vars
  <2> QED
    BY <2>2, <2>3 DEF RegistrationAt, CallAt
<1>6. ASSUME NEW r \in Anonymous, PublicRateLimit(r)
      PROVE  Kept
  <2>1. PICK p \in {"handling", "limited"} : To(r, p)
    BY <1>6 DEF PublicRateLimit
  <2>2. UNCHANGED vars /\ path[r] = "unsent" /\ r \in Requests /\ r \notin Calls
    BY <1>2, <1>6 DEF PublicRateLimit, Arrives
  <2> QED
    BY <2>1, <2>2, PathStep DEF RegistrationAt, CallAt, vars
<1>7. ASSUME NEW k \in Registrations, StartRegister(k)
      PROVE  Kept
  <2>1. PICK p : To(k, p)
    BY <1>7 DEF StartRegister
  <2>2. /\ UNCHANGED call
        /\ \A l \in Registrations \ {k} : registration'[l] = registration[l]
    BY <1>3, <1>7 DEF StartRegister, Lookup, vars
  <2>3. \/ p \in {"refused", "limited"} /\ registration'[k].pc \in {"new", "conflict"}
        \/ p = "handling" /\ registration'[k].pc = "looked"
    <3>1. path'[k] = p
      BY <1>2, <2>1, <2>2, PathStep
    <3>2. CASE \E e \in Emails : Lookup(k, e) /\ To(k, IF FindActiveKey(e) THEN "refused" ELSE "handling")
      <4>1. PICK e \in Emails : Lookup(k, e) /\ To(k, IF FindActiveKey(e) THEN "refused" ELSE "handling")
        BY <3>2
      <4>2. path'[k] = IF FindActiveKey(e) THEN "refused" ELSE "handling"
        BY <4>1, <1>2, <2>2, PathStep
      <4>3. registration'[k].pc = IF FindActiveKey(e) THEN "conflict" ELSE "looked"
        BY <4>1, <1>3 DEF Lookup
      <4> QED
        BY <3>1, <4>2, <4>3
    <3>3. CASE UNCHANGED vars /\ (To(k, "refused") \/ To(k, "limited"))
      BY <1>2, <1>7, <2>2, <3>1, <3>3, PathStep DEF StartRegister, vars, New
    <3> QED
      BY <1>7, <3>2, <3>3 DEF StartRegister
  <2> QED
    BY <1>2, <2>1, <2>2, <2>3, PathStep DEF RegistrationAt
<1>8. ASSUME NEW k \in Registrations, FinishRegister(k)
      PROVE  Kept
  <2>1. PICK p : To(k, p)
    BY <1>8 DEF FinishRegister, Acknowledge
  <2>2. /\ UNCHANGED call
        /\ \A l \in Registrations \ {k} : registration'[l] = registration[l]
    BY <1>3, <1>8 DEF FinishRegister, Insert, RegisterFails
  <2>3. path'[k] = p
    BY <1>2, <2>1, <2>2, PathStep
  <2>4. p = "error" \/ (p = "ok" /\ registration'[k].pc = "created")
                    \/ (p = "refused" /\ registration'[k].pc = "conflict")
    <3>1. CASE RegisterFails(k) /\ To(k, "error")
      BY <1>2, <2>2, <2>3, <3>1, PathStep
    <3>2. CASE Insert(k) /\ UniqueIndexRefuses(registration[k].email) /\ To(k, "refused")
      <4>1. path'[k] = "refused"
        BY <1>2, <2>2, <3>2, PathStep
      <4>2. registration'[k].pc = "conflict"
        BY <1>3, <3>2 DEF Insert, New
      <4> QED
        BY <2>3, <4>1, <4>2
    <3>3. CASE Insert(k) /\ ~UniqueIndexRefuses(registration[k].email) /\ Acknowledge(k)
      <4>1. path'[k] \in {"ok", "error"}
        BY <1>2, <2>2, <3>3, PathStep DEF Acknowledge
      <4>2. registration'[k].pc = "created"
        BY <1>3, <3>3 DEF Insert, New
      <4> QED
        BY <2>3, <4>1, <4>2
    <3> QED
      BY <1>8, <3>1, <3>2, <3>3 DEF FinishRegister
  <2> QED
    BY <1>2, <2>1, <2>2, <2>3, <2>4, PathStep DEF RegistrationAt
<1>9. ASSUME NEW c \in Calls, NEW k \in Registrations, Authorize(c, k)
      PROVE  Kept
  <2>1. PICK p : To(c, p)
    BY <1>9 DEF Authorize
  <2>2. /\ UNCHANGED registration
        /\ \A d \in Calls \ {c} : call'[d] = call[d]
    BY <1>3, <1>9 DEF Authorize, Authenticate, vars
  <2>3. path'[c] = p
    BY <1>2, <2>1, <2>2, PathStep
  <2>4. \/ p = "handling" /\ call'[c].pc = "authenticated"
        \/ p \in {"refused", "limited"} /\ call'[c].pc \notin {"revoked", "written"}
    <3>1. CASE Authenticate(c, k) /\ To(c, IF call'[c].pc = "authenticated" THEN "handling" ELSE "refused")
      <4>1. path'[c] = IF call'[c].pc = "authenticated" THEN "handling" ELSE "refused"
        BY <1>2, <2>2, <3>1, PathStep
      <4>2. call'[c].pc \in {"authenticated", "unauthorized", "failed"}
        BY <1>3, <3>1 DEF Authenticate
      <4> QED
        BY <2>3, <4>1, <4>2
    <3>2. CASE To(c, "limited") /\ UNCHANGED vars
      <4>1. path'[c] = "limited"
        BY <1>2, <2>2, <3>2, PathStep
      <4>2. call[c].pc = "new"
        BY <1>9 DEF Authorize, Arrives, CallAt
      <4> QED
        BY <2>3, <3>2, <4>1, <4>2 DEF vars
    <3> QED
      BY <1>9, <3>1, <3>2 DEF Authorize
  <2> QED
    BY <1>2, <2>1, <2>2, <2>3, <2>4, PathStep DEF CallAt
<1>10. ASSUME NEW c \in Calls, HandleCall(c)
       PROVE  Kept
  <2>1. PICK p : To(c, p)
    BY <1>10 DEF HandleCall, Acknowledge
  <2>2. /\ UNCHANGED registration
        /\ \A d \in Calls \ {c} : call'[d] = call[d]
    BY <1>3, <1>10 DEF HandleCall, RevokeKey, Write, CallFails
  <2>3. path'[c] = p
    BY <1>2, <2>1, <2>2, PathStep
  <2>4. \/ p \in {"ok", "error"} /\ call'[c].pc \in {"revoked", "written"}
        \/ p = "refused" /\ call'[c].pc = "unauthorized"
        \/ p = "error"
    <3>1. CASE RevokeKey(c) /\ Revocable(call[c].key) /\ Acknowledge(c)
      <4>1. path'[c] \in {"ok", "error"}
        BY <1>2, <2>2, <3>1, PathStep DEF Acknowledge
      <4>2. call'[c].pc = "revoked"
        BY <1>3, <3>1 DEF RevokeKey, New
      <4> QED
        BY <2>3, <4>1, <4>2
    <3>2. CASE RevokeKey(c) /\ ~Revocable(call[c].key) /\ To(c, "refused")
      <4>1. path'[c] = "refused"
        BY <1>2, <2>2, <3>2, PathStep
      <4>2. call'[c].pc = "unauthorized"
        BY <1>3, <3>2 DEF RevokeKey, New
      <4> QED
        BY <2>3, <4>1, <4>2
    <3>3. CASE Write(c) /\ Acknowledge(c)
      <4>1. path'[c] \in {"ok", "error"}
        BY <1>2, <2>2, <3>3, PathStep DEF Acknowledge
      <4>2. call'[c].pc = "written"
        BY <1>3, <3>3 DEF Write, New
      <4> QED
        BY <2>3, <4>1, <4>2
    <3>4. CASE CallFails(c) /\ To(c, "error")
      BY <1>2, <2>2, <2>3, <3>4, PathStep
    <3> QED
      BY <1>10, <3>1, <3>2, <3>3, <3>4 DEF HandleCall
  <2> QED
    BY <1>2, <2>1, <2>2, <2>3, <2>4, PathStep DEF CallAt
<1>11. ASSUME NEW r \in Reads, HandleRead(r)
       PROVE  Kept
  <2>1. PICK p : To(r, p)
    BY <1>11 DEF HandleRead, Acknowledge
  <2>2. UNCHANGED vars /\ r \in Requests /\ r \notin Registrations /\ r \notin Calls
    BY <1>2, <1>11 DEF HandleRead
  <2> QED
    BY <2>1, <2>2, PathStep DEF vars
<1>12. ASSUME Signal \/ Exit \/ Tick \/ Sweep
       PROVE  Kept
  <2>1. UNCHANGED <<vars, path>>
    BY <1>12 DEF Signal, Exit, Tick, Sweep, requests
  <2> QED
    BY <2>1, ProcessStep
<1>13. ASSUME DrainTimeout \/ Crash
       PROVE  Kept
  <2>1. \A r \in Requests : path'[r] = path[r] \/ path'[r] \in Ends
    BY <1>13 DEF DrainTimeout, Crash, Die, Ended, Ends
  <2>2. UNCHANGED vars
    BY <1>13 DEF DrainTimeout, Crash, Die
  <2> QED
    BY <2>1, <2>2, ProcessStep
<1>14. ASSUME Restart
       PROVE  Kept
  <2>1. \A r \in Requests : path'[r] = path[r] \/ path'[r] \in Ends
    BY <1>14 DEF Restart, Ends
  <2>2. UNCHANGED vars
    BY <1>14 DEF Restart
  <2> QED
    BY <2>1, <2>2, ProcessStep
<1>15. ASSUME UNCHANGED serverVars
       PROVE  Kept
  <2>1. UNCHANGED <<vars, path>>
    BY <1>15 DEF serverVars, requests
  <2> QED
    BY <2>1, ProcessStep
<1>16. Kept
  BY <1>4, <1>5, <1>6, <1>7, <1>8, <1>9, <1>10, <1>11, <1>12, <1>13, <1>14, <1>15 DEF ServerNext
<1> QED
  BY <1>1, <1>16

LEMMA AnswersInitially == ServerInit => SInv
<1> SUFFICES ASSUME ServerInit PROVE SInv
  OBVIOUS
<1>1. ServerTypeOK
  BY TypesInitially
<1>2. RowsMatch
  BY DEF ServerInit, Init, RowsMatch, New
<1>3. Registrations \subseteq Requests /\ Calls \subseteq Requests
  BY DEF Requests, Anonymous
<1>4. \A k \in Registrations : RegistrationAt(k)
  BY <1>3 DEF ServerInit, Init, RegistrationAt, New
<1>5. \A c \in Calls : CallAt(c)
  BY <1>3 DEF ServerInit, Init, CallAt, New
<1> QED
  BY <1>1, <1>2, <1>4, <1>5 DEF SInv

(* What a client is told is so, for any number of requests and whatever     *)
(* fails or races (Register, RevokeKey and the layers that answer for them).*)
THEOREM AnswersAreTrue == ServerSpec => []StatusIsTrue
<1>1. SInv => StatusIsTrue
  BY DEF SInv, RowsMatch, RegistrationAt, CallAt, StatusIsTrue
<1> QED
  BY <1>1, AnswersInitially, StatusStep, PTL DEF ServerSpec

----------------------------------------------------------------------------
(* Limits.  Each bucket is tied to the requests it knows: what it lacks of  *)
(* a burst was taken by requests that came from its own address (or showed  *)
(* its own key), and those that were let in have each taken a token of the  *)
(* burst and the refills.                                                   *)

Handled(l) == {r \in From(l) : path[r] = "handling" \/ r \in Served(l)}
Started(l) == {k \in Registering(l) : path[k] # "handling" \/ registration[k] # New}

AtLeast(tokens, S, n) == IsFiniteSet(S) /\ tokens + Cardinality(S) >= n
AtMost(tokens, S, n) == IsFiniteSet(S) /\ tokens + Cardinality(S) <= n

KeysCounted ==
  \A l \in KeyLimiters : /\ AtLeast(keyTokens[l], Shown(l), KeyBurst)
                         /\ AtMost(keyTokens[l], Shown(l), KeyBurst + refills)
ReadsCounted ==
  \A l \in AddressLimiters : /\ AtLeast(readTokens[l], From(l), ReadBurst)
                             /\ AtMost(readTokens[l], Handled(l), ReadBurst + refills)
RegsCounted ==
  \A l \in AddressLimiters : /\ IsFiniteSet(Registering(l))
                             /\ AtLeast(regTokens[l], Started(l), RegBurst)
                             /\ AtMost(regTokens[l], Registered(l), RegBurst + refills)

(* Nobody has a limiter of a generation that has not begun.                 *)
PaidKnown ==
  (\A r \in Requests : paid[r] <= sweeps) /\ (\A k \in Registrations : regPaid[k] <= sweeps)

CInv == SInv /\ KeysCounted /\ ReadsCounted /\ RegsCounted

(* Paying takes a token and adds a request; a refill adds a token.          *)
LEMMA AtLeastStep ==
  ASSUME NEW t \in Nat, NEW u \in Nat, NEW n \in Nat, NEW S, NEW T,
         AtLeast(t, S, n), IsFiniteSet(T), S \subseteq T,
         u >= t \/ (u + 1 >= t /\ S # T)
  PROVE  AtLeast(u, T, n)
<1>1. /\ Cardinality(S) \in Nat /\ Cardinality(T) \in Nat
      /\ Cardinality(S) <= Cardinality(T) /\ (S # T => Cardinality(S) < Cardinality(T))
  BY FS_Subset, FS_CardinalityType DEF AtLeast
<1> QED
  BY <1>1 DEF AtLeast

LEMMA AtMostStep ==
  ASSUME NEW t \in Nat, NEW u \in Nat, NEW n \in Nat, NEW f \in Nat, NEW g \in Nat, NEW S, NEW T,
         AtMost(t, S, n + f), T \subseteq S, u + f <= t + g
  PROVE  AtMost(u, T, n + g)
<1>1. /\ IsFiniteSet(T) /\ Cardinality(T) \in Nat /\ Cardinality(S) \in Nat
      /\ Cardinality(T) <= Cardinality(S)
  BY FS_Subset, FS_CardinalityType DEF AtMost
<1> QED
  BY <1>1 DEF AtMost

LEMMA AtMostPaid ==
  ASSUME NEW t \in Nat, NEW u \in Nat, NEW n \in Nat, NEW S, NEW T, NEW r,
         AtMost(t, S, n), T \subseteq S \cup {r}, u + 1 <= t
  PROVE  AtMost(u, T, n)
<1>1. IsFiniteSet(S) /\ Cardinality(S) \in Nat
  BY FS_CardinalityType DEF AtMost
<1>2. IsFiniteSet(S \cup {r}) /\ Cardinality(S \cup {r}) <= Cardinality(S) + 1
  BY <1>1, FS_AddElement
<1>3. /\ IsFiniteSet(T) /\ Cardinality(T) \in Nat /\ Cardinality(S \cup {r}) \in Nat
      /\ Cardinality(T) <= Cardinality(S \cup {r})
  BY <1>2, FS_Subset, FS_CardinalityType
<1> QED
  BY <1>1, <1>2, <1>3 DEF AtMost

(* What a step does to the sets when nobody pays.                           *)
KeysSteady == \A l \in KeyLimiters : Shown(l)' = Shown(l)
ReadsSteady(r) ==
  \A l \in AddressLimiters : /\ From(l) \subseteq From(l)' /\ From(l)' \subseteq From(l) \cup {r}
                             /\ Handled(l)' \subseteq Handled(l)
RegsSteady(r) ==
  \A l \in AddressLimiters : /\ Registering(l)' \subseteq Registering(l) \cup {r}
                             /\ Started(l) \subseteq Started(l)'
                             /\ Registered(l)' \subseteq Registered(l)

LEMMA BucketTypes ==
  ASSUME ServerTypeOK
  PROVE  /\ \A l \in KeyLimiters : keyTokens[l] \in Nat
         /\ \A l \in AddressLimiters : readTokens[l] \in Nat /\ regTokens[l] \in Nat
         /\ refills \in Nat /\ KeyBurst \in Nat /\ ReadBurst \in Nat /\ RegBurst \in Nat
BY ServerAssumption DEF ServerTypeOK

LEMMA KeysKept ==
  ASSUME CInv, ServerTypeOK', KeysSteady,
         \/ keyTokens' = keyTokens /\ refills' = refills
         \/ keyTokens' = keyTokens /\ refills' = refills + 1
         \/ KeyBucket!Tick /\ refills' = refills + 1
  PROVE  KeysCounted'
<1> SUFFICES ASSUME NEW l \in KeyLimiters
             PROVE  /\ AtLeast(keyTokens'[l], Shown(l)', KeyBurst)
                    /\ AtMost(keyTokens'[l], Shown(l)', KeyBurst + refills')
  BY DEF KeysCounted
<1>1. keyTokens[l] \in Nat /\ keyTokens'[l] \in Nat /\ refills \in Nat /\ refills' \in Nat /\ KeyBurst \in Nat
  BY BucketTypes DEF CInv, SInv, ServerTypeOK
<1>2. Shown(l)' = Shown(l)
  BY DEF KeysSteady
<1>3. keyTokens'[l] >= keyTokens[l] /\ keyTokens'[l] + refills <= keyTokens[l] + refills'
  BY <1>1, ServerAssumption DEF KeyBucket!Tick, KeyBucket!Refill, CInv, SInv, ServerTypeOK
<1>4. AtLeast(keyTokens[l], Shown(l), KeyBurst) /\ AtMost(keyTokens[l], Shown(l), KeyBurst + refills)
  BY DEF CInv, KeysCounted
<1>5. AtLeast(keyTokens'[l], Shown(l), KeyBurst)
  BY <1>1, <1>3, <1>4, AtLeastStep DEF AtLeast
<1>6. AtMost(keyTokens'[l], Shown(l), KeyBurst + refills')
  BY <1>1, <1>2, <1>3, <1>4, AtMostStep
<1> QED
  BY <1>2, <1>5, <1>6

LEMMA ReadsKept ==
  ASSUME CInv, ServerTypeOK', NEW r, ReadsSteady(r),
         \/ readTokens' = readTokens /\ refills' = refills
         \/ readTokens' = readTokens /\ refills' = refills + 1
         \/ ReadBucket!Tick /\ refills' = refills + 1
  PROVE  ReadsCounted'
<1> SUFFICES ASSUME NEW l \in AddressLimiters
             PROVE  /\ AtLeast(readTokens'[l], From(l)', ReadBurst)
                    /\ AtMost(readTokens'[l], Handled(l)', ReadBurst + refills')
  BY DEF ReadsCounted
<1>1. readTokens[l] \in Nat /\ readTokens'[l] \in Nat /\ refills \in Nat /\ refills' \in Nat /\ ReadBurst \in Nat
  BY BucketTypes DEF CInv, SInv, ServerTypeOK
<1>2. From(l) \subseteq From(l)' /\ From(l)' \subseteq From(l) \cup {r} /\ Handled(l)' \subseteq Handled(l)
  BY DEF ReadsSteady
<1>3. readTokens'[l] >= readTokens[l] /\ readTokens'[l] + refills <= readTokens[l] + refills'
  BY <1>1, ServerAssumption DEF ReadBucket!Tick, ReadBucket!Refill, CInv, SInv, ServerTypeOK
<1>4. AtLeast(readTokens[l], From(l), ReadBurst) /\ AtMost(readTokens[l], Handled(l), ReadBurst + refills)
  BY DEF CInv, ReadsCounted
<1>5. IsFiniteSet(From(l)')
  BY <1>2, <1>4, FS_AddElement, FS_Subset DEF AtLeast
<1>6. AtLeast(readTokens'[l], From(l)', ReadBurst)
  BY <1>1, <1>2, <1>3, <1>4, <1>5, AtLeastStep
<1>7. AtMost(readTokens'[l], Handled(l)', ReadBurst + refills')
  BY <1>1, <1>2, <1>3, <1>4, AtMostStep
<1> QED
  BY <1>6, <1>7

LEMMA RegsKept ==
  ASSUME CInv, ServerTypeOK', NEW r, RegsSteady(r),
         \/ regTokens' = regTokens /\ refills' = refills
         \/ regTokens' = regTokens /\ refills' = refills + 1
         \/ RegBucket!Tick /\ refills' = refills + 1
  PROVE  RegsCounted'
<1> SUFFICES ASSUME NEW l \in AddressLimiters
             PROVE  /\ IsFiniteSet(Registering(l)')
                    /\ AtLeast(regTokens'[l], Started(l)', RegBurst)
                    /\ AtMost(regTokens'[l], Registered(l)', RegBurst + refills')
  BY DEF RegsCounted
<1>1. regTokens[l] \in Nat /\ regTokens'[l] \in Nat /\ refills \in Nat /\ refills' \in Nat /\ RegBurst \in Nat
  BY BucketTypes DEF CInv, SInv, ServerTypeOK
<1>2. /\ Registering(l)' \subseteq Registering(l) \cup {r}
      /\ Started(l) \subseteq Started(l)' /\ Registered(l)' \subseteq Registered(l)
  BY DEF RegsSteady
<1>3. regTokens'[l] >= regTokens[l] /\ regTokens'[l] + refills <= regTokens[l] + refills'
  BY <1>1, ServerAssumption DEF RegBucket!Tick, RegBucket!Refill, CInv, SInv, ServerTypeOK
<1>4. AtLeast(regTokens[l], Started(l), RegBurst) /\ AtMost(regTokens[l], Registered(l), RegBurst + refills)
  BY DEF CInv, RegsCounted
<1>5. IsFiniteSet(Registering(l)') /\ IsFiniteSet(Started(l)')
  <2>1. IsFiniteSet(Registering(l))
    BY DEF CInv, RegsCounted
  <2>2. IsFiniteSet(Registering(l)')
    BY <1>2, <2>1, FS_AddElement, FS_Subset
  <2>3. Started(l)' \subseteq Registering(l)'
    BY DEF Started
  <2> QED
    BY <2>2, <2>3, FS_Subset
<1>6. AtLeast(regTokens'[l], Started(l)', RegBurst)
  BY <1>1, <1>2, <1>3, <1>4, <1>5, AtLeastStep
<1>7. AtMost(regTokens'[l], Registered(l)', RegBurst + refills')
  BY <1>1, <1>2, <1>3, <1>4, AtMostStep
<1> QED
  BY <1>5, <1>6, <1>7

(* A step that moves one request: the others are counted as before.         *)
OnlyMoves(r) ==
  /\ \A q \in Requests \ {r} : path'[q] = path[q] /\ paid'[q] = paid[q]
  /\ \A k \in Registrations \ {r} : registration'[k] = registration[k] /\ regPaid'[k] = regPaid[k]
  /\ \A c \in Calls \ {r} : call'[c] = call[c]

LEMMA RequestSets ==
  /\ Registrations \subseteq Anonymous /\ Reads \subseteq Anonymous /\ Anonymous \subseteq Requests
  /\ Calls \subseteq Requests /\ Anonymous \cap Calls = {} /\ Registrations \cap Reads = {}
BY ServerAssumption DEF Anonymous, Requests

LEMMA OthersCounted ==
  ASSUME NEW r \in Requests, OnlyMoves(r)
  PROVE  /\ \A l \in AddressLimiters : /\ From(l)' \ {r} = From(l) \ {r}
                                       /\ Handled(l)' \ {r} = Handled(l) \ {r}
                                       /\ Registering(l)' \ {r} = Registering(l) \ {r}
                                       /\ Started(l)' \ {r} = Started(l) \ {r}
                                       /\ Registered(l)' \ {r} = Registered(l) \ {r}
         /\ \A l \in KeyLimiters : Shown(l)' \ {r} = Shown(l) \ {r}
<1> SUFFICES ASSUME NEW q, q # r
    PROVE  /\ \A l \in AddressLimiters : /\ q \in From(l)' <=> q \in From(l)
                                         /\ q \in Handled(l)' <=> q \in Handled(l)
                                         /\ q \in Registering(l)' <=> q \in Registering(l)
                                         /\ q \in Started(l)' <=> q \in Started(l)
                                         /\ q \in Registered(l)' <=> q \in Registered(l)
           /\ \A l \in KeyLimiters : q \in Shown(l)' <=> q \in Shown(l)
  OBVIOUS
<1>1. CASE q \in Anonymous
  <2>1. /\ path'[q] = path[q] /\ paid'[q] = paid[q] /\ q \notin Calls
        /\ q \in Registrations => registration'[q] = registration[q] /\ regPaid'[q] = regPaid[q]
    BY <1>1, RequestSets DEF OnlyMoves
  <2>2. \A l \in AddressLimiters : q \in From(l)' <=> q \in From(l)
    BY <2>1 DEF From, ThisLife
  <2>3. \A l \in AddressLimiters : q \in Served(l)' <=> q \in Served(l)
    BY <1>1, <2>1, <2>2 DEF Served, Anonymous
  <2>4. \A l \in AddressLimiters : q \in Registering(l)' <=> q \in Registering(l)
    BY <2>1 DEF Registering, ThisLife
  <2>5. \A l \in AddressLimiters : q \in Started(l)' <=> q \in Started(l)
    BY <2>1, <2>4 DEF Started, Registering
  <2>6. \A l \in AddressLimiters : q \in Registered(l)' <=> q \in Registered(l)
    BY <2>1, <2>4 DEF Registered, Registering
  <2> QED
    BY <2>1, <2>2, <2>3, <2>4, <2>5, <2>6 DEF Handled, Shown
<1>2. CASE q \in Calls
  <2>1. path'[q] = path[q] /\ call'[q] = call[q] /\ paid'[q] = paid[q] /\ q \notin Anonymous
    BY <1>2, RequestSets DEF OnlyMoves
  <2>2. \A l \in AddressLimiters : /\ q \notin From(l) /\ q \notin From(l)'
                                   /\ q \notin Registering(l) /\ q \notin Registering(l)'
    BY <2>1, RequestSets DEF From, Registering
  <2> QED
    BY <2>1, <2>2 DEF Handled, Started, Registered, Shown, ThisLife
<1>3. CASE q \notin Anonymous /\ q \notin Calls
  BY <1>3, RequestSets DEF From, Registering, Handled, Started, Registered, Shown
<1> QED
  BY <1>1, <1>2, <1>3

(* A call is nobody's read or registration, and the other way round.        *)
LEMMA CallMoves ==
  ASSUME NEW c \in Calls, OnlyMoves(c)
  PROVE  ReadsSteady(c) /\ RegsSteady(c)
<1>1. c \in Requests /\ c \notin Anonymous /\ c \notin Registrations
  BY RequestSets
<1>2. \A l \in AddressLimiters : /\ c \notin From(l) /\ c \notin From(l)'
                                 /\ c \notin Registering(l) /\ c \notin Registering(l)'
  BY <1>1 DEF From, Registering
<1>3. \A l \in AddressLimiters : /\ c \notin Handled(l)' /\ c \notin Started(l) /\ c \notin Registered(l)'
  BY <1>2 DEF Handled, Started, Registered
<1> QED
  BY <1>1, <1>2, <1>3, OthersCounted DEF ReadsSteady, RegsSteady

LEMMA AnonymousMoves ==
  ASSUME NEW r \in Anonymous, OnlyMoves(r)
  PROVE  KeysSteady
<1>1. r \in Requests /\ r \notin Calls
  BY RequestSets
<1>2. \A l \in KeyLimiters : r \notin Shown(l) /\ r \notin Shown(l)'
  BY <1>1 DEF Shown
<1>3. \A l \in KeyLimiters : Shown(l)' = Shown(l)
  <2> TAKE l \in KeyLimiters
  <2>1. Shown(l)' \ {r} = Shown(l) \ {r}
    BY <1>1, OthersCounted
  <2> QED
    BY <1>2, <2>1
<1> QED
  BY <1>3 DEF KeysSteady

(* A read or registration that is not let in and not looked up: it counts   *)
(* as one that came, if anything.                                           *)
LEMMA AnonymousPaysNothing ==
  ASSUME NEW r \in Anonymous, OnlyMoves(r), UNCHANGED <<paid, regPaid>>,
         path[r] # "past", path'[r] \notin {"unsent", "past"},
         r \in Registrations => (registration'[r] = New <=> registration[r] = New),
         r \in Registrations /\ registration[r] # New => path[r] # "unsent",
         path'[r] = "handling" => path[r] = "handling",
         r \in Reads /\ path'[r] \in {"ok", "error", "served"} => path[r] \in {"handling", "ok", "error", "served"}
  PROVE  ReadsSteady(r) /\ RegsSteady(r)
<1>1. r \in Requests /\ r \notin Calls /\ (r \in Reads <=> r \notin Registrations)
  BY RequestSets DEF Anonymous
<1>2. \A l \in AddressLimiters : /\ r \in From(l) => r \in From(l)'
                                 /\ r \in Registering(l) => r \in Registering(l)'
  BY DEF From, Registering, ThisLife
<1>3. \A l \in AddressLimiters : r \in Registered(l)' => r \in Registered(l)
  BY <1>1 DEF Registered, Registering, ThisLife
<1>4. \A l \in AddressLimiters : r \in Handled(l)' => r \in Handled(l)
  BY <1>1 DEF Handled, Served, From, ThisLife
<1>5. \A l \in AddressLimiters : r \in Started(l) => r \in Started(l)'
  BY <1>2 DEF Started, Registering, ThisLife
<1>6. \A l \in AddressLimiters : /\ From(l) \subseteq From(l)' /\ From(l)' \subseteq From(l) \cup {r}
                                 /\ Handled(l)' \subseteq Handled(l)
  <2> TAKE l \in AddressLimiters
  <2>1. From(l)' \ {r} = From(l) \ {r} /\ Handled(l)' \ {r} = Handled(l) \ {r}
    BY <1>1, OthersCounted
  <2> QED
    BY <1>2, <1>4, <2>1
<1>7. \A l \in AddressLimiters : /\ Registering(l)' \subseteq Registering(l) \cup {r}
                                 /\ Started(l) \subseteq Started(l)'
                                 /\ Registered(l)' \subseteq Registered(l)
  <2> TAKE l \in AddressLimiters
  <2>1. /\ Registering(l)' \ {r} = Registering(l) \ {r}
        /\ Started(l)' \ {r} = Started(l) \ {r} /\ Registered(l)' \ {r} = Registered(l) \ {r}
    BY <1>1, OthersCounted
  <2> QED
    BY <1>3, <1>5, <2>1
<1> QED
  BY <1>6, <1>7 DEF ReadsSteady, RegsSteady

(* A call whose key has been charged before, or is not yet.                 *)
LEMMA CallPaysNothing ==
  ASSUME NEW c \in Calls, OnlyMoves(c), UNCHANGED paid,
         \/ call[c] = New /\ call'[c] = New
         \/ /\ call[c] # New /\ call'[c] # New /\ call'[c].key = call[c].key
            /\ path[c] \notin {"unsent", "past"} /\ path'[c] \notin {"unsent", "past"}
  PROVE  KeysSteady
<1>1. c \in Requests
  BY RequestSets
<1>2. \A l \in KeyLimiters : c \in Shown(l)' <=> c \in Shown(l)
  BY DEF Shown, ThisLife
<1>3. \A l \in KeyLimiters : Shown(l)' = Shown(l)
  <2> TAKE l \in KeyLimiters
  <2>1. Shown(l)' \ {c} = Shown(l) \ {c}
    BY <1>1, OthersCounted
  <2> QED
    BY <1>2, <2>1
<1> QED
  BY <1>3 DEF KeysSteady

Counted == KeysCounted /\ ReadsCounted /\ RegsCounted

LEMMA NobodyPays ==
  ASSUME CInv, ServerTypeOK', NEW r, KeysSteady, ReadsSteady(r), RegsSteady(r), UNCHANGED <<buckets, refills>>
  PROVE  Counted'
BY KeysKept, ReadsKept, RegsKept DEF buckets, Counted

(* What the invariant of the answers knows of a request that comes or is in *)
(* the hands of its handler.                                                *)
LEMMA PathKnows ==
  ASSUME CInv
  PROVE  /\ \A k \in Registrations : /\ path[k] = "unsent" => registration[k] = New
                                     /\ registration[k] = New <=> registration[k].pc = "new"
         /\ \A c \in Calls : /\ path[c] = "unsent" => call[c] = New
                             /\ path[c] = "handling" => call[c] # New
                             /\ call[c] = New <=> call[c].pc = "new"
<1>1. registration \in [Registrations -> {New} \cup
         [pc : {"looked", "created", "conflict", "failed"}, email : Emails]]
      /\ call \in [Calls -> {New} \cup
           [pc : {"authenticated", "revoked", "written", "unauthorized", "failed"},
            key : Registrations]]
  BY DEF CInv, SInv, ServerTypeOK, TypeOK
<1>2. /\ \A k \in Registrations : registration[k] = New <=> registration[k].pc = "new"
      /\ \A c \in Calls : call[c] = New <=> call[c].pc = "new"
  BY <1>1 DEF New
<1> QED
  BY <1>2 DEF CInv, SInv, RegistrationAt, CallAt

LEMMA RejectCounted ==
  ASSUME CInv, ServerTypeOK', NEW r \in Requests, Reject(r)
  PROVE  Counted'
<1>1. /\ path' = [path EXCEPT ![r] = "refused"] /\ UNCHANGED <<vars, buckets, refills>>
      /\ path \in [Requests -> Paths]
  BY DEF Reject, To, process, CInv, SInv, ServerTypeOK, Paths
<1>2. OnlyMoves(r) /\ path'[r] = "refused" /\ UNCHANGED <<paid, regPaid>>
  BY <1>1 DEF OnlyMoves, vars, buckets
<1>3. CASE r \in Anonymous
  <2>1. path[r] = "unsent" /\ (r \in Registrations => registration[r] = New /\ registration'[r] = New)
    BY <1>1, <1>3, PathKnows, RequestSets DEF Reject, Arrives, vars
  <2>2. KeysSteady
    BY <1>2, <1>3, AnonymousMoves
  <2>3. ReadsSteady(r) /\ RegsSteady(r)
    BY <1>2, <1>3, <2>1, AnonymousPaysNothing
  <2> QED
    BY <1>1, <2>2, <2>3, NobodyPays
<1>4. CASE r \in Calls
  <2>1. /\ call'[r] = call[r] /\ path[r] \in {"unsent", "handling"}
        /\ path[r] = "unsent" => call[r] = New
        /\ path[r] = "handling" => call[r] # New
    BY <1>1, <1>4, PathKnows DEF Reject, Arrives, vars
  <2>2. KeysSteady
    BY <1>2, <1>4, <2>1, CallPaysNothing
  <2>3. ReadsSteady(r) /\ RegsSteady(r)
    BY <1>2, <1>4, CallMoves
  <2> QED
    BY <1>1, <2>2, <2>3, NobodyPays
<1> QED
  BY <1>3, <1>4 DEF Requests

LEMMA AnswerCounted ==
  ASSUME CInv, ServerTypeOK', NEW r \in Requests, Answer(r)
  PROVE  Counted'
<1>1. /\ path' = [path EXCEPT ![r] = Ended(r)] /\ UNCHANGED <<vars, buckets, refills>>
      /\ path \in [Requests -> Paths]
  BY DEF Answer, process, CInv, SInv, ServerTypeOK, Paths
<1>2. OnlyMoves(r) /\ path'[r] = Ended(r) /\ UNCHANGED <<paid, regPaid>>
  BY <1>1 DEF OnlyMoves, vars, buckets
<1>3. path[r] \in Statuses /\ Ended(r) \in {"served", "turned away"}
      /\ (Ended(r) = "served" => path[r] \in {"ok", "error"})
  BY DEF Answer, Ended
<1>4. CASE r \in Anonymous
  <2>1. KeysSteady
    BY <1>2, <1>4, AnonymousMoves
  <2>2. ReadsSteady(r) /\ RegsSteady(r)
    BY <1>1, <1>2, <1>3, <1>4, AnonymousPaysNothing DEF Statuses, vars
  <2> QED
    BY <1>1, <2>1, <2>2, NobodyPays
<1>5. CASE r \in Calls
  <2>1. KeysSteady
    BY <1>1, <1>2, <1>3, <1>5, CallPaysNothing DEF Statuses, vars
  <2>2. ReadsSteady(r) /\ RegsSteady(r)
    BY <1>2, <1>5, CallMoves
  <2> QED
    BY <1>1, <2>1, <2>2, NobodyPays
<1> QED
  BY <1>4, <1>5 DEF Requests

LEMMA FinishCounted ==
  ASSUME CInv, ServerTypeOK', NEW k \in Registrations, FinishRegister(k)
  PROVE  Counted'
<1>1. PICK p \in {"refused", "ok", "error"} : path' = [path EXCEPT ![k] = p]
  BY DEF FinishRegister, Acknowledge, To
<1>2. /\ path \in [Requests -> Paths] /\ UNCHANGED <<buckets, refills, call>>
      /\ path[k] = "handling" /\ k \in Anonymous /\ k \in Requests
  BY RequestSets DEF FinishRegister, Insert, RegisterFails, process, CInv, SInv, ServerTypeOK, Paths
<1>3. /\ registration[k].pc = "looked" /\ registration'[k].pc \in {"created", "conflict", "failed"}
      /\ \A l \in Registrations \ {k} : registration'[l] = registration[l]
  <2>1. registration \in [Registrations -> {New} \cup
         [pc : {"looked", "created", "conflict", "failed"}, email : Emails]]
    BY DEF CInv, SInv, ServerTypeOK, TypeOK
  <2> QED
    BY <2>1 DEF FinishRegister, Insert, RegisterFails, New
<1>4. OnlyMoves(k) /\ path'[k] = p /\ UNCHANGED <<paid, regPaid>>
  BY <1>1, <1>2, <1>3 DEF OnlyMoves, buckets
<1>5. registration[k] # New /\ registration'[k] # New
  BY <1>3 DEF New
<1>6. KeysSteady
  BY <1>2, <1>4, AnonymousMoves
<1>7. ReadsSteady(k) /\ RegsSteady(k)
  BY <1>2, <1>4, <1>5, AnonymousPaysNothing, RequestSets
<1> QED
  BY <1>2, <1>6, <1>7, NobodyPays

LEMMA CallCounted ==
  ASSUME CInv, ServerTypeOK', NEW c \in Calls, HandleCall(c)
  PROVE  Counted'
<1>1. PICK p \in {"refused", "ok", "error"} : path' = [path EXCEPT ![c] = p]
  BY DEF HandleCall, Acknowledge, To
<1>2. /\ path \in [Requests -> Paths] /\ UNCHANGED <<buckets, refills, registration>>
      /\ path[c] = "handling" /\ c \in Requests
  BY RequestSets DEF HandleCall, RevokeKey, Write, CallFails, process, CInv, SInv, ServerTypeOK, Paths
<1>3. /\ call[c].pc = "authenticated" /\ call'[c].pc \in {"revoked", "unauthorized", "written", "failed"}
      /\ call'[c].key = call[c].key
      /\ \A d \in Calls \ {c} : call'[d] = call[d]
  <2>1. call \in [Calls -> {New} \cup
           [pc : {"authenticated", "revoked", "written", "unauthorized", "failed"},
            key : Registrations]]
    BY DEF CInv, SInv, ServerTypeOK, TypeOK
  <2> QED
    BY <2>1 DEF HandleCall, RevokeKey, Write, CallFails, New
<1>4. OnlyMoves(c) /\ path'[c] = p /\ UNCHANGED paid
  BY <1>1, <1>2, <1>3 DEF OnlyMoves, buckets
<1>5. call[c] # New /\ call'[c] # New
  BY <1>3 DEF New
<1>6. KeysSteady
  BY <1>2, <1>3, <1>4, <1>5, CallPaysNothing
<1>7. ReadsSteady(c) /\ RegsSteady(c)
  BY <1>4, CallMoves
<1> QED
  BY <1>2, <1>6, <1>7, NobodyPays

LEMMA ReadCounted ==
  ASSUME CInv, ServerTypeOK', NEW r \in Reads, HandleRead(r)
  PROVE  Counted'
<1>1. path' = [path EXCEPT ![r] = "served"]
  BY DEF HandleRead, To
<1>2. /\ path \in [Requests -> Paths] /\ UNCHANGED <<vars, buckets, refills>>
      /\ path[r] = "handling" /\ r \in Requests /\ r \in Anonymous /\ r \notin Registrations
  BY RequestSets DEF HandleRead, process, CInv, SInv, ServerTypeOK, Paths
<1>3. OnlyMoves(r) /\ path'[r] = "served" /\ UNCHANGED <<paid, regPaid>>
  BY <1>1, <1>2 DEF OnlyMoves, vars, buckets
<1>4. KeysSteady
  BY <1>2, <1>3, AnonymousMoves
<1>5. ReadsSteady(r) /\ RegsSteady(r)
  BY <1>2, <1>3, AnonymousPaysNothing
<1> QED
  BY <1>2, <1>4, <1>5, NobodyPays

(* authenticate: the key that is shown pays, and no other.                  *)
LEMMA AuthorizeCounted ==
  ASSUME CInv, ServerTypeOK', NEW c \in Calls, NEW k \in Registrations, Authorize(c, k)
  PROVE  Counted'
<1>1. PICK p \in {"refused", "handling", "limited"} : path' = [path EXCEPT ![c] = p]
  BY DEF Authorize, To
<1>2. /\ path \in [Requests -> Paths] /\ UNCHANGED <<regPaid, readTokens, regTokens, refills, registration>>
      /\ path[c] = "unsent" /\ call[c] = New /\ c \in Requests
      /\ \A d \in Calls \ {c} : call'[d] = call[d]
      /\ \A q \in Requests \ {c} : paid'[q] = paid[q]
  BY RequestSets, PathKnows
     DEF Authorize, Arrives, Authenticate, Pays, process, vars, CInv, SInv, ServerTypeOK, TypeOK, Paths
<1>3. OnlyMoves(c) /\ path'[c] = p
  BY <1>1, <1>2 DEF OnlyMoves
<1>4. ReadsSteady(c) /\ RegsSteady(c)
  BY <1>3, CallMoves
<1>5. ReadsCounted' /\ RegsCounted'
  BY <1>2, <1>4, ReadsKept, RegsKept
<1>6. CASE UNCHANGED <<vars, paid, keyTokens>>
  <2>1. KeysSteady
    BY <1>2, <1>3, <1>6, CallPaysNothing DEF vars
  <2> QED
    BY <1>2, <1>5, <1>6, <2>1, KeysKept DEF Counted
<1>7. ASSUME NEW at \in Limiters(k), ChargeKey(at), Pays(c, at), Authenticate(c, k)
      PROVE  Counted'
  <2>1. call'[c] # New /\ call'[c].key = k
    BY <1>7 DEF Authenticate, CInv, SInv, ServerTypeOK, TypeOK, New
  <2>2. /\ at \in KeyLimiters /\ at = <<k, paid'[c]>>
        /\ keyTokens[at] > 0 /\ keyTokens'[at] = keyTokens[at] - 1
        /\ \A l \in KeyLimiters \ {at} : keyTokens'[l] = keyTokens[l]
    <3>1. at \in KeyLimiters
      BY <1>7, LimiterTypes DEF CInv, SInv
    <3>2. at = <<k, at[2]>> /\ paid'[c] = at[2]
      BY <1>2, <1>7 DEF Limiters, Pays, CInv, SInv, ServerTypeOK
    <3> QED
      BY <1>7, <3>1, <3>2 DEF ChargeKey, KeyBucket!Take, CInv, SInv, ServerTypeOK
  <2>3. \A l \in KeyLimiters : /\ Shown(l)' \ {c} = Shown(l) \ {c}
                               /\ c \notin Shown(l) /\ (c \in Shown(l)' <=> l = at)
    BY <1>1, <1>2, <1>3, <2>1, <2>2, OthersCounted DEF Shown, ThisLife
  <2>4. \A l \in KeyLimiters : /\ l # at => Shown(l)' = Shown(l)
                               /\ l = at => Shown(l)' = Shown(l) \cup {c} /\ Shown(l)' # Shown(l)
    <3> TAKE l \in KeyLimiters
    <3>1. /\ Shown(l)' \ {c} = Shown(l) \ {c}
          /\ c \notin Shown(l) /\ (c \in Shown(l)' <=> l = at)
      BY <2>3
    <3> QED
      BY <3>1
  <2>5. ASSUME NEW l \in KeyLimiters
        PROVE  /\ AtLeast(keyTokens'[l], Shown(l)', KeyBurst)
               /\ AtMost(keyTokens'[l], Shown(l)', KeyBurst + refills')
    <3>1. AtLeast(keyTokens[l], Shown(l), KeyBurst) /\ AtMost(keyTokens[l], Shown(l), KeyBurst + refills)
      BY DEF CInv, KeysCounted
    <3>2. /\ keyTokens[l] \in Nat /\ keyTokens'[l] \in Nat
          /\ KeyBurst \in Nat /\ refills \in Nat /\ KeyBurst + refills \in Nat
      BY BucketTypes DEF CInv, SInv, ServerTypeOK
    <3>3. CASE l # at
      <4>1. Shown(l)' = Shown(l) /\ keyTokens'[l] = keyTokens[l] /\ refills' = refills
        BY <1>2, <2>2, <2>4, <3>3
      <4> QED
        BY <3>1, <4>1
    <3>4. CASE l = at
      <4>1. Shown(l)' = Shown(l) \cup {c} /\ Shown(l)' # Shown(l) /\ IsFiniteSet(Shown(l)')
        BY <2>4, <3>1, <3>4, FS_AddElement DEF AtLeast
      <4>2. keyTokens'[l] + 1 = keyTokens[l]
        BY <2>2, <3>2, <3>4
      <4>3. AtLeast(keyTokens'[l], Shown(l)', KeyBurst)
        BY <3>1, <3>2, <4>1, <4>2, AtLeastStep
      <4>4. AtMost(keyTokens'[l], Shown(l)', KeyBurst + refills)
        <5>1. Shown(l)' \subseteq Shown(l) \cup {c} /\ keyTokens'[l] + 1 <= keyTokens[l]
          BY <3>2, <4>1, <4>2
        <5> QED
          BY <3>1, <3>2, <5>1, AtMostPaid
      <4> QED
        BY <1>2, <4>3, <4>4
    <3> QED
      BY <3>3, <3>4
  <2> QED
    BY <1>5, <2>5 DEF KeysCounted, Counted
<1> QED
  BY <1>6, <1>7 DEF Authorize

(* PublicRateLimit: the address a request comes from pays, and no other.    *)
LEMMA PublicCounted ==
  ASSUME CInv, ServerTypeOK', NEW r \in Anonymous, PublicRateLimit(r)
  PROVE  Counted'
<1>1. PICK p \in {"handling", "limited"} : path' = [path EXCEPT ![r] = p]
  BY DEF PublicRateLimit, To
<1>2. /\ path \in [Requests -> Paths] /\ UNCHANGED <<vars, regPaid, keyTokens, regTokens, refills>>
      /\ path[r] = "unsent" /\ r \in Requests /\ (r \in Registrations => registration[r] = New)
      /\ \A q \in Requests \ {r} : paid'[q] = paid[q]
  BY RequestSets, PathKnows DEF PublicRateLimit, Arrives, Pays, process, CInv, SInv, ServerTypeOK, Paths
<1>3. OnlyMoves(r) /\ path'[r] = p
  BY <1>1, <1>2 DEF OnlyMoves, vars
<1>4. KeysCounted'
  BY <1>2, <1>3, AnonymousMoves, KeysKept
<1>5. CASE To(r, "limited") /\ UNCHANGED <<paid, readTokens>>
  <2>1. path'[r] = "limited"
    BY <1>2, <1>5 DEF To
  <2>2. ReadsSteady(r) /\ RegsSteady(r)
    BY <1>2, <1>3, <1>5, <2>1, AnonymousPaysNothing DEF vars
  <2> QED
    BY <1>2, <1>4, <1>5, <2>2, ReadsKept, RegsKept DEF Counted
<1>6. ASSUME NEW at \in Limiters(AddressOf[r]), ReadBucket!Take(at), Pays(r, at), To(r, "handling")
      PROVE  Counted'
  <2>1. path'[r] = "handling" /\ at \in AddressLimiters /\ at = <<AddressOf[r], paid'[r]>>
    <3>1. at \in AddressLimiters
      BY <1>6, LimiterTypes, ServerAssumption DEF CInv, SInv
    <3>2. at = <<AddressOf[r], at[2]>> /\ paid'[r] = at[2]
      BY <1>2, <1>6 DEF Limiters, Pays, CInv, SInv, ServerTypeOK
    <3> QED
      BY <1>2, <1>6, <3>1, <3>2 DEF To
  <2>2. /\ readTokens[at] > 0 /\ readTokens'[at] = readTokens[at] - 1
        /\ \A l \in AddressLimiters \ {at} : readTokens'[l] = readTokens[l]
    BY <1>6, <2>1 DEF ReadBucket!Take, CInv, SInv, ServerTypeOK
  <2>3. \A l \in AddressLimiters : /\ From(l)' \ {r} = From(l) \ {r} /\ Handled(l)' \ {r} = Handled(l) \ {r}
                             /\ Registering(l)' \ {r} = Registering(l) \ {r}
                             /\ Started(l)' \ {r} = Started(l) \ {r}
                             /\ Registered(l)' \ {r} = Registered(l) \ {r}
    BY <1>2, <1>3, OthersCounted
  <2>4. \A l \in AddressLimiters : r \notin From(l) /\ (r \in From(l)' <=> l = at)
    BY <1>2, <2>1 DEF From, ThisLife
  <2>5. \A l \in AddressLimiters : /\ r \notin Handled(l) /\ (r \in Handled(l)' => l = at)
                             /\ r \notin Started(l) /\ r \notin Registered(l)'
    <3>1. r \in Registrations => registration'[r] = New
      BY <1>2 DEF vars
    <3>2. \A l \in AddressLimiters : r \notin Registering(l)
      BY <1>2 DEF Registering, ThisLife
    <3> QED
      BY <2>4, <3>1, <3>2, RequestSets DEF Handled, Started, Registered, Registering, Served, From
  <2>6. RegsSteady(r)
    <3>1. ASSUME NEW l \in AddressLimiters
          PROVE  /\ Registering(l)' \subseteq Registering(l) \cup {r}
                 /\ Started(l) \subseteq Started(l)' /\ Registered(l)' \subseteq Registered(l)
      <4>1. /\ Registering(l)' \ {r} = Registering(l) \ {r}
            /\ Started(l)' \ {r} = Started(l) \ {r} /\ Registered(l)' \ {r} = Registered(l) \ {r}
            /\ r \notin Started(l) /\ r \notin Registered(l)'
        BY <2>3, <2>5
      <4> QED
        BY <4>1
    <3> QED
      BY <3>1 DEF RegsSteady
  <2>7. ASSUME NEW l \in AddressLimiters
        PROVE  /\ AtLeast(readTokens'[l], From(l)', ReadBurst)
               /\ AtMost(readTokens'[l], Handled(l)', ReadBurst + refills')
    <3>1. AtLeast(readTokens[l], From(l), ReadBurst) /\ AtMost(readTokens[l], Handled(l), ReadBurst + refills)
      BY DEF CInv, ReadsCounted
    <3>2. /\ readTokens[l] \in Nat /\ readTokens'[l] \in Nat
          /\ ReadBurst \in Nat /\ refills \in Nat /\ ReadBurst + refills \in Nat
      BY BucketTypes DEF CInv, SInv, ServerTypeOK
    <3>3. /\ From(l)' \ {r} = From(l) \ {r} /\ Handled(l)' \ {r} = Handled(l) \ {r}
          /\ r \notin From(l) /\ (r \in From(l)' <=> l = at)
          /\ r \notin Handled(l) /\ (r \in Handled(l)' => l = at)
      BY <2>3, <2>4, <2>5
    <3>4. CASE l # at
      <4>1. From(l)' = From(l) /\ Handled(l)' = Handled(l)
        BY <3>3, <3>4
      <4> QED
        BY <1>2, <2>2, <3>1, <3>4, <4>1
    <3>5. CASE l = at
      <4>1. /\ From(l)' = From(l) \cup {r} /\ From(l)' # From(l)
            /\ Handled(l)' \subseteq Handled(l) \cup {r}
        BY <3>3, <3>5
      <4>2. IsFiniteSet(From(l)')
        BY <3>1, <4>1, FS_AddElement DEF AtLeast
      <4>3. readTokens'[l] + 1 = readTokens[l]
        BY <2>2, <3>2, <3>5
      <4>4. AtLeast(readTokens'[l], From(l)', ReadBurst)
        BY <3>1, <3>2, <4>1, <4>2, <4>3, AtLeastStep
      <4>5. AtMost(readTokens'[l], Handled(l)', ReadBurst + refills)
        <5>1. readTokens'[l] + 1 <= readTokens[l]
          BY <3>2, <4>3
        <5> QED
          BY <3>1, <3>2, <4>1, <5>1, AtMostPaid
      <4> QED
        BY <1>2, <4>4, <4>5
    <3> QED
      BY <3>4, <3>5
  <2>8. ReadsCounted'
    BY <2>7 DEF ReadsCounted
  <2> QED
    BY <1>2, <1>4, <2>6, <2>8, RegsKept DEF Counted
<1> QED
  BY <1>5, <1>6 DEF PublicRateLimit, ClientIP

(* Register: the address pays for the look-up.                              *)
LEMMA RegisterCounted ==
  ASSUME CInv, ServerTypeOK', NEW k \in Registrations, StartRegister(k)
  PROVE  Counted'
<1>1. PICK p \in {"refused", "handling", "limited"} : path' = [path EXCEPT ![k] = p]
  BY DEF StartRegister, To
<1>2. /\ path \in [Requests -> Paths] /\ UNCHANGED <<call, paid, keyTokens, readTokens, refills>>
      /\ path[k] = "handling" /\ registration[k] = New /\ k \in Requests /\ k \in Anonymous
      /\ k \notin Reads /\ AddressOf[k] \in Addresses
      /\ \A q \in Registrations \ {k} : registration'[q] = registration[q] /\ regPaid'[q] = regPaid[q]
  BY RequestSets, ServerAssumption
     DEF StartRegister, Lookup, vars, process, CInv, SInv, ServerTypeOK, TypeOK, Paths
<1>3. OnlyMoves(k) /\ path'[k] = p
  BY <1>1, <1>2 DEF OnlyMoves
<1>4. KeysCounted'
  BY <1>2, <1>3, AnonymousMoves, KeysKept
<1>5. CASE path'[k] = "limited" /\ UNCHANGED <<vars, regPaid, regTokens>>
  <2>1. ReadsSteady(k) /\ RegsSteady(k)
    BY <1>2, <1>3, <1>5, AnonymousPaysNothing DEF vars
  <2> QED
    BY <1>2, <1>4, <1>5, <2>1, ReadsKept, RegsKept DEF Counted
<1>6. ASSUME NEW at \in Limiters(AddressOf[k]), RegBucket!Take(at),
             regPaid' = [regPaid EXCEPT ![k] = at[2]],
             path'[k] = "handling" => registration'[k] # New
      PROVE  Counted'
  <2>0. at \in AddressLimiters /\ at = <<AddressOf[k], regPaid'[k]>>
    <3>1. at \in AddressLimiters
      BY <1>2, <1>6, LimiterTypes DEF CInv, SInv
    <3>2. at = <<AddressOf[k], at[2]>> /\ regPaid'[k] = at[2]
      BY <1>2, <1>6 DEF Limiters, CInv, SInv, ServerTypeOK
    <3> QED
      BY <3>1, <3>2
  <2>1. \A l \in AddressLimiters : /\ From(l)' \ {k} = From(l) \ {k} /\ Handled(l)' \ {k} = Handled(l) \ {k}
                                   /\ Registering(l)' \ {k} = Registering(l) \ {k}
                                   /\ Started(l)' \ {k} = Started(l) \ {k}
                                   /\ Registered(l)' \ {k} = Registered(l) \ {k}
    BY <1>2, <1>3, OthersCounted
  <2>2. \A l \in AddressLimiters : /\ k \in From(l)' <=> k \in From(l)
                                   /\ k \in From(l) => k \in Handled(l)
    BY <1>1, <1>2, <1>3 DEF From, ThisLife, Handled
  <2>3. \A l \in AddressLimiters : /\ k \in Handled(l)' => k \in From(l)
                                   /\ k \in Registering(l)' <=> l = at
                                   /\ k \notin Started(l) /\ (k \in Started(l)' <=> l = at)
                                   /\ k \in Registered(l)' => l = at
    <3>1. \A l \in AddressLimiters : k \in Registering(l)' <=> l = at
      BY <1>1, <1>2, <1>3, <2>0 DEF Registering, ThisLife
    <3> QED
      BY <1>2, <1>6, <2>2, <3>1 DEF Handled, Started, Registered
  <2>4. ReadsSteady(k)
    <3>1. ASSUME NEW l \in AddressLimiters
          PROVE  /\ From(l) \subseteq From(l)' /\ From(l)' \subseteq From(l) \cup {k}
                 /\ Handled(l)' \subseteq Handled(l)
      <4>1. From(l)' \ {k} = From(l) \ {k} /\ Handled(l)' \ {k} = Handled(l) \ {k}
        BY <2>1
      <4>2. /\ k \in From(l)' <=> k \in From(l)
            /\ k \in From(l) => k \in Handled(l)
            /\ k \in Handled(l)' => k \in From(l)
        BY <2>2, <2>3
      <4> QED
        BY <4>1, <4>2
    <3> QED
      BY <3>1 DEF ReadsSteady
  <2>5. ReadsCounted'
    BY <1>2, <2>4, ReadsKept
  <2>6. /\ regTokens[at] > 0 /\ regTokens'[at] = regTokens[at] - 1
        /\ \A l \in AddressLimiters \ {at} : regTokens'[l] = regTokens[l]
    BY <1>6, <2>0 DEF RegBucket!Take, CInv, SInv, ServerTypeOK
  <2>7. ASSUME NEW l \in AddressLimiters
        PROVE  /\ IsFiniteSet(Registering(l)')
               /\ AtLeast(regTokens'[l], Started(l)', RegBurst)
               /\ AtMost(regTokens'[l], Registered(l)', RegBurst + refills')
    <3>0. IsFiniteSet(Registering(l)')
      <4>1. IsFiniteSet(Registering(l)) /\ Registering(l)' \ {k} = Registering(l) \ {k}
        BY <2>1 DEF CInv, RegsCounted
      <4>2. Registering(l)' \subseteq Registering(l) \cup {k}
        BY <4>1
      <4> QED
        BY <4>1, <4>2, FS_AddElement, FS_Subset
    <3>1. AtLeast(regTokens[l], Started(l), RegBurst) /\ AtMost(regTokens[l], Registered(l), RegBurst + refills)
      BY DEF CInv, RegsCounted
    <3>2. /\ regTokens[l] \in Nat /\ regTokens'[l] \in Nat
          /\ RegBurst \in Nat /\ refills \in Nat /\ RegBurst + refills \in Nat
      BY BucketTypes DEF CInv, SInv, ServerTypeOK
    <3>3. /\ Started(l)' \ {k} = Started(l) \ {k} /\ Registered(l)' \ {k} = Registered(l) \ {k}
          /\ k \notin Started(l) /\ (k \in Started(l)' <=> l = at)
          /\ (k \in Registered(l)' => l = at)
      <4>1. Started(l)' \ {k} = Started(l) \ {k} /\ Registered(l)' \ {k} = Registered(l) \ {k}
        BY <2>1
      <4> QED
        BY <2>3, <4>1
    <3>4. CASE l # at
      <4>1. Started(l)' = Started(l) /\ Registered(l)' \subseteq Registered(l)
        BY <3>3, <3>4
      <4>2. regTokens'[l] = regTokens[l] /\ refills' = refills
        BY <1>2, <2>6, <3>4
      <4>3. AtMost(regTokens'[l], Registered(l)', RegBurst + refills')
        BY <3>1, <3>2, <4>1, <4>2, AtMostStep
      <4> QED
        BY <3>0, <3>1, <4>1, <4>2, <4>3
    <3>5. CASE l = at
      <4>1. /\ Started(l)' = Started(l) \cup {k} /\ Started(l)' # Started(l)
            /\ Registered(l)' \subseteq Registered(l) \cup {k}
        BY <3>3, <3>5
      <4>2. IsFiniteSet(Started(l)')
        BY <3>1, <4>1, FS_AddElement DEF AtLeast
      <4>3. regTokens'[l] + 1 = regTokens[l]
        BY <2>6, <3>2, <3>5
      <4>4. AtLeast(regTokens'[l], Started(l)', RegBurst)
        BY <3>1, <3>2, <4>1, <4>2, <4>3, AtLeastStep
      <4>5. AtMost(regTokens'[l], Registered(l)', RegBurst + refills)
        <5>1. regTokens'[l] + 1 <= regTokens[l]
          BY <3>2, <4>3
        <5> QED
          BY <3>1, <3>2, <4>1, <5>1, AtMostPaid
      <4> QED
        BY <1>2, <3>0, <4>4, <4>5
    <3> QED
      BY <3>0, <3>4, <3>5
  <2>8. RegsCounted'
    BY <2>7 DEF RegsCounted
  <2> QED
    BY <1>4, <2>5, <2>8 DEF Counted
<1>7. ASSUME NEW e \in Emails, Lookup(k, e)
      PROVE  registration'[k] # New
  BY <1>7 DEF Lookup, New, CInv, SInv, ServerTypeOK, TypeOK
<1>8. \A s : To(k, s) => path'[k] = s
  BY <1>2 DEF To
<1> QED
  <2>1. PICK at \in Limiters(AddressOf[k]) :
          \/ /\ RegBucket!Take(at) /\ regPaid' = [regPaid EXCEPT ![k] = at[2]]
             /\ \/ \E e \in Emails :
                     Lookup(k, e) /\ To(k, IF FindActiveKey(e) THEN "refused" ELSE "handling")
                \/ To(k, "refused") /\ UNCHANGED vars
          \/ To(k, "limited") /\ UNCHANGED <<vars, regPaid, regTokens>>
    BY DEF StartRegister, ClientIP
  <2> QED
    BY <1>5, <1>6, <1>7, <1>8, <2>1

(* The end of a process takes no token back.                                *)
LEMMA DeathCounted ==
  ASSUME CInv, ServerTypeOK', NEW r, Die
  PROVE  Counted'
<1>1. UNCHANGED <<vars, buckets, refills>>
  BY DEF Die
<1>2. ASSUME NEW q \in Requests
      PROVE  \/ path'[q] = path[q]
             \/ path[q] = "handling" /\ path'[q] = "turned away"
             \/ path[q] \in {"ok", "error"} /\ path'[q] = "served"
             \/ path[q] \in {"refused", "limited"} /\ path'[q] = "turned away"
  BY <1>2 DEF Die, InFlight, Ended, Statuses
<1>3. \A q \in Requests : (path'[q] \in {"unsent", "past"}) <=> (path[q] \in {"unsent", "past"})
  BY <1>2
<1>4. KeysSteady
  BY <1>1, <1>3, RequestSets DEF KeysSteady, Shown, ThisLife, vars, buckets
<1>5. \A l \in AddressLimiters : From(l)' = From(l) /\ Registering(l)' = Registering(l)
  BY <1>1, <1>3, RequestSets DEF From, Registering, ThisLife, buckets
<1>6. \A l \in AddressLimiters : Handled(l)' \subseteq Handled(l)
  BY <1>1, <1>2, <1>5, RequestSets DEF Handled, Served, From, vars
<1>7. ReadsSteady(r)
  BY <1>5, <1>6 DEF ReadsSteady
<1>8. \A l \in AddressLimiters : Started(l) \subseteq Started(l)'
  BY <1>1, <1>2, <1>5, RequestSets DEF Started, Registering, vars
<1>9. \A l \in AddressLimiters : Registered(l)' \subseteq Registered(l)
  BY <1>1, <1>5, RequestSets DEF Registered, vars
<1> QED
  BY <1>1, <1>4, <1>5, <1>7, <1>8, <1>9, NobodyPays DEF RegsSteady

(* A process that starts has full buckets and owes nobody.                  *)
LEMMA FullBucket ==
  ASSUME NEW n \in Nat
  PROVE  AtLeast(n, {}, n) /\ AtMost(n, {}, n + 0)
<1>1. IsFiniteSet({}) /\ Cardinality({}) = 0
  BY FS_EmptySet
<1> QED
  BY <1>1 DEF AtLeast, AtMost

LEMMA FreshCounted ==
  ASSUME ServerTypeOK, refills = 0, \A r \in Requests : path[r] \in {"unsent", "past"},
         keyTokens = [l \in KeyLimiters |-> KeyBurst],
         readTokens = [l \in AddressLimiters |-> ReadBurst],
         regTokens = [l \in AddressLimiters |-> RegBurst]
  PROVE  Counted
<1>1. /\ \A l \in KeyLimiters : Shown(l) = {}
      /\ \A l \in AddressLimiters : From(l) = {} /\ Registering(l) = {}
  BY RequestSets DEF Shown, From, Registering, ThisLife
<1>2. \A l \in AddressLimiters : Handled(l) = {} /\ Started(l) = {} /\ Registered(l) = {}
  BY <1>1 DEF Handled, Started, Registered
<1> QED
  BY <1>1, <1>2, FullBucket, FS_EmptySet, ServerAssumption DEF Counted, KeysCounted, ReadsCounted, RegsCounted

LEMMA RestartCounted ==
  ASSUME CInv, ServerTypeOK', Restart
  PROVE  Counted'
<1>1. /\ refills' = 0 /\ \A r \in Requests : path'[r] \in {"unsent", "past"}
      /\ keyTokens' = [l \in KeyLimiters |-> KeyBurst]
      /\ readTokens' = [l \in AddressLimiters |-> ReadBurst]
      /\ regTokens' = [l \in AddressLimiters |-> RegBurst]
  BY DEF Restart
<1>2. /\ \A l \in KeyLimiters : Shown(l)' = {}
      /\ \A l \in AddressLimiters : From(l)' = {} /\ Registering(l)' = {}
  BY <1>1, RequestSets DEF Shown, From, Registering, ThisLife
<1>3. \A l \in AddressLimiters : Handled(l)' = {} /\ Started(l)' = {} /\ Registered(l)' = {}
  BY <1>2 DEF Handled, Started, Registered
<1> QED
  BY <1>1, <1>2, <1>3, FullBucket, FS_EmptySet, ServerAssumption
     DEF Counted, KeysCounted, ReadsCounted, RegsCounted

LEMMA NobodyMoves ==
  ASSUME CInv, NEW r, UNCHANGED <<vars, path, paid, regPaid>>
  PROVE  KeysSteady /\ ReadsSteady(r) /\ RegsSteady(r)
<1>1. /\ \A l \in KeyLimiters : Shown(l)' = Shown(l)
      /\ \A l \in AddressLimiters : From(l)' = From(l) /\ Registering(l)' = Registering(l)
  BY DEF Shown, From, Registering, ThisLife, vars
<1>2. \A l \in AddressLimiters : Served(l)' = Served(l)
  BY <1>1 DEF Served, vars
<1>3. \A l \in AddressLimiters : /\ Handled(l)' = Handled(l) /\ Started(l)' = Started(l)
                                 /\ Registered(l)' = Registered(l)
  BY <1>1, <1>2 DEF Handled, Started, Registered, vars
<1> QED
  BY <1>1, <1>3 DEF KeysSteady, ReadsSteady, RegsSteady

LEMMA CountStep ==
  ASSUME CInv, [ServerNext]_serverVars
  PROVE  CInv'
<1>1. SInv' /\ ServerTypeOK'
  BY StatusStep DEF CInv, SInv
<1> SUFFICES Counted'
  BY <1>1 DEF CInv, Counted
<1>2. CASE \E r \in Requests : Reject(r) \/ Answer(r)
  BY <1>1, <1>2, RejectCounted, AnswerCounted
<1>3. CASE \E r \in Anonymous : PublicRateLimit(r)
  BY <1>1, <1>3, PublicCounted
<1>4. CASE \E k \in Registrations : StartRegister(k) \/ FinishRegister(k)
  BY <1>1, <1>4, RegisterCounted, FinishCounted
<1>5. CASE \E c \in Calls : (\E k \in Registrations : Authorize(c, k)) \/ HandleCall(c)
  BY <1>1, <1>5, AuthorizeCounted, CallCounted
<1>6. CASE \E r \in Reads : HandleRead(r)
  BY <1>1, <1>6, ReadCounted
<1>7. CASE Signal \/ Exit \/ Sweep \/ UNCHANGED serverVars
  <2>1. UNCHANGED <<vars, path, paid, regPaid, buckets, refills>>
    BY <1>7 DEF Signal, Exit, Sweep, serverVars, requests, process, buckets
  <2> QED
    BY <1>1, <2>1, NobodyMoves, NobodyPays
<1>8. CASE DrainTimeout \/ Crash
  BY <1>1, <1>8, DeathCounted DEF DrainTimeout, Crash
<1>9. CASE Restart
  BY <1>1, <1>9, RestartCounted
<1>10. CASE Tick
  <2>1. /\ UNCHANGED <<vars, path, paid, regPaid>> /\ refills' = refills + 1
        /\ keyTokens' = keyTokens \/ KeyBucket!Tick
        /\ readTokens' = readTokens \/ ReadBucket!Tick
        /\ regTokens' = regTokens \/ RegBucket!Tick
    BY <1>10 DEF Tick, requests
  <2>2. KeysSteady /\ ReadsSteady(0) /\ RegsSteady(0)
    BY <2>1, NobodyMoves
  <2>3. KeysCounted'
    BY <1>1, <2>1, <2>2, KeysKept
  <2>4. ReadsCounted'
    BY <1>1, <2>1, <2>2, ReadsKept
  <2>5. RegsCounted'
    BY <1>1, <2>1, <2>2, RegsKept
  <2> QED
    BY <2>3, <2>4, <2>5 DEF Counted
<1> QED
  BY <1>2, <1>3, <1>4, <1>5, <1>6, <1>7, <1>8, <1>9, <1>10 DEF ServerNext

LEMMA CountsInitially == ServerInit => CInv
<1> SUFFICES ASSUME ServerInit PROVE CInv
  OBVIOUS
<1>1. SInv /\ ServerTypeOK
  BY AnswersInitially DEF SInv
<1>2. Counted
  BY <1>1, FreshCounted DEF ServerInit, KeyBucket!Init, ReadBucket!Init, RegBucket!Init
<1> QED
  BY <1>1, <1>2 DEF CInv, Counted

(* The generations: a request is let in by one that has begun.              *)
LEMMA PaidStep ==
  ASSUME ServerTypeOK, PaidKnown, [ServerNext]_serverVars
  PROVE  PaidKnown'
<1>1. /\ sweeps \in Nat /\ paid \in [Requests -> Generations] /\ regPaid \in [Registrations -> Generations]
  BY ServerAssumption DEF ServerTypeOK, Generations
<1>2. ASSUME NEW r \in Requests, NEW k, NEW l \in Limiters(k), Pays(r, l), UNCHANGED <<regPaid, sweeps>>
      PROVE  PaidKnown'
  BY <1>1, <1>2, LimiterTypes DEF Pays, PaidKnown
<1>3. CASE UNCHANGED <<paid, regPaid, sweeps>>
  BY <1>3 DEF PaidKnown
<1>4. ASSUME NEW r \in Anonymous, PublicRateLimit(r)
      PROVE  PaidKnown'
  BY <1>2, <1>3, <1>4, RequestSets DEF PublicRateLimit, process
<1>5. ASSUME NEW c \in Calls, NEW k \in Registrations, Authorize(c, k)
      PROVE  PaidKnown'
  BY <1>2, <1>3, <1>5, RequestSets DEF Authorize, process
<1>6. ASSUME NEW k \in Registrations, StartRegister(k)
      PROVE  PaidKnown'
  <2>1. CASE UNCHANGED regPaid
    BY <1>3, <1>6, <2>1 DEF StartRegister, process
  <2>2. ASSUME NEW l \in Limiters(ClientIP(k)), regPaid' = [regPaid EXCEPT ![k] = l[2]]
        PROVE  PaidKnown'
    BY <1>1, <1>6, <2>2, LimiterTypes DEF StartRegister, process, PaidKnown
  <2> QED
    BY <1>6, <2>1, <2>2 DEF StartRegister
<1>7. CASE \/ \E r \in Requests : Reject(r) \/ Answer(r)
           \/ \E k \in Registrations : FinishRegister(k)
           \/ \E c \in Calls : HandleCall(c)
           \/ \E r \in Reads : HandleRead(r)
           \/ Signal \/ Exit \/ DrainTimeout \/ Crash \/ Tick \/ UNCHANGED serverVars
  BY <1>3, <1>7 DEF Reject, Answer, FinishRegister, HandleCall, HandleRead, Signal, Exit,
       DrainTimeout, Crash, Die, Tick, serverVars, buckets, process
<1>8. CASE Restart
  BY <1>8 DEF Restart, PaidKnown
<1>9. CASE Sweep
  BY <1>1, <1>9 DEF Sweep, PaidKnown, buckets, Generations
<1> QED
  BY <1>4, <1>5, <1>6, <1>7, <1>8, <1>9 DEF ServerNext

(* No limiter lets anybody make the database work for more than a burst and *)
(* the refills of this life of the process, and a key or address has one    *)
(* more after each sweep, however many clients and requests there are.      *)
THEOREM LimitsAreKept == ServerSpec => []LimitsHold
<1>1. CInv /\ PaidKnown => LimitsHold
  <2> SUFFICES ASSUME CInv, PaidKnown PROVE LimitsHold
    OBVIOUS
  <2>1. ASSUME NEW l \in KeyLimiters
        PROVE  Cardinality(Shown(l)) <= KeyBurst + refills
    <3>1. IsFiniteSet(Shown(l)) /\ keyTokens[l] + Cardinality(Shown(l)) <= KeyBurst + refills
      BY DEF CInv, KeysCounted, AtMost
    <3>2. Cardinality(Shown(l)) \in Nat
      BY <3>1, FS_CardinalityType
    <3> QED
      BY <3>1, <3>2, BucketTypes DEF CInv, SInv
  <2>2. ASSUME NEW l \in AddressLimiters
        PROVE  Cardinality(Served(l)) <= ReadBurst + refills
    <3>1. IsFiniteSet(Handled(l)) /\ readTokens[l] + Cardinality(Handled(l)) <= ReadBurst + refills
      BY DEF CInv, ReadsCounted, AtMost
    <3>2. Served(l) \subseteq Handled(l)
      BY DEF Served, Handled
    <3>3. /\ Cardinality(Handled(l)) \in Nat /\ Cardinality(Served(l)) \in Nat
          /\ Cardinality(Served(l)) <= Cardinality(Handled(l))
      BY <3>1, <3>2, FS_CardinalityType, FS_Subset
    <3> QED
      BY <3>1, <3>3, BucketTypes DEF CInv, SInv
  <2>3. ASSUME NEW l \in AddressLimiters
        PROVE  Cardinality(Registered(l)) <= RegBurst + refills
    <3>1. IsFiniteSet(Registered(l)) /\ regTokens[l] + Cardinality(Registered(l)) <= RegBurst + refills
      BY DEF CInv, RegsCounted, AtMost
    <3>2. Cardinality(Registered(l)) \in Nat
      BY <3>1, FS_CardinalityType
    <3> QED
      BY <3>1, <3>2, BucketTypes DEF CInv, SInv
  <2>4. /\ sweeps \in Nat /\ \A r \in Requests : paid[r] \in Nat /\ paid[r] <= sweeps
        /\ \A k \in Registrations : regPaid[k] \in Nat /\ regPaid[k] <= sweeps
    BY ServerAssumption DEF PaidKnown, CInv, SInv, ServerTypeOK, Generations
  <2>5. ASSUME NEW l \in KeyLimiters, l[2] > sweeps
        PROVE  Shown(l) = {}
    BY <2>4, <2>5, RequestSets DEF Shown
  <2>6. ASSUME NEW l \in AddressLimiters, l[2] > sweeps
        PROVE  Served(l) = {} /\ Registered(l) = {}
    BY <2>4, <2>6, RequestSets DEF Served, From, Registered, Registering
  <2> QED
    BY <2>1, <2>2, <2>3, <2>5, <2>6 DEF LimitsHold
<1>2. ServerInit => PaidKnown
  BY DEF ServerInit, PaidKnown
<1>3. CInv /\ PaidKnown /\ [ServerNext]_serverVars => CInv' /\ PaidKnown'
  BY CountStep, PaidStep DEF CInv, SInv
<1> QED
  BY <1>1, <1>2, <1>3, CountsInitially, PTL DEF ServerSpec

(* And nobody pays for what others did: a bucket is short of a burst by the *)
(* requests of its own key or address at most, evicted or not.              *)
THEOREM NobodyPaysForOthers == ServerSpec => []OthersCostNothing
<1>1. CInv => OthersCostNothing
  <2> SUFFICES ASSUME CInv PROVE OthersCostNothing
    OBVIOUS
  <2>1. \A l \in KeyLimiters : keyTokens[l] + Cardinality(Shown(l)) >= KeyBurst
    BY DEF CInv, KeysCounted, AtLeast
  <2>2. \A l \in AddressLimiters : readTokens[l] + Cardinality(From(l)) >= ReadBurst
    BY DEF CInv, ReadsCounted, AtLeast
  <2>3. ASSUME NEW l \in AddressLimiters
        PROVE  regTokens[l] + Cardinality(Registering(l)) >= RegBurst
    <3>1. /\ IsFiniteSet(Started(l)) /\ regTokens[l] + Cardinality(Started(l)) >= RegBurst
          /\ IsFiniteSet(Registering(l))
      BY DEF CInv, RegsCounted, AtLeast
    <3>2. Started(l) \subseteq Registering(l)
      BY DEF Started
    <3>3. /\ Cardinality(Started(l)) \in Nat /\ Cardinality(Registering(l)) \in Nat
          /\ Cardinality(Started(l)) <= Cardinality(Registering(l))
      BY <3>1, <3>2, FS_CardinalityType, FS_Subset
    <3> QED
      BY <3>1, <3>3, BucketTypes DEF CInv, SInv
  <2> QED
    BY <2>1, <2>2, <2>3 DEF OthersCostNothing
<1> QED
  BY <1>1, CountStep, CountsInitially, PTL DEF ServerSpec
=============================================================================
