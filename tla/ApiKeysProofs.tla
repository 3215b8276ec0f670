--------------------------- MODULE ApiKeysProofs ---------------------------
(***************************************************************************)
(* Proofs about ApiKeys, for every set of addresses, registrations and     *)
(* calls: an address has one active key at most, a key is revoked once,    *)
(* and a key that was inserted works until it is revoked.                  *)
(***************************************************************************)
EXTENDS ApiKeys, TLAPS

(* Only a key that was handed out is used, and only by an UPDATE that found *)
(* it active does a call come to be answered with its revocation.           *)
CallsAreBacked ==
  \A c \in Calls :
    /\ call[c].pc \in {"authenticated", "revoked"} => registration[call[c].key].pc = "created"
    /\ call[c].pc = "revoked" => ~Active(call[c].key)

(* A registration that has not inserted its key has no row.                 *)
RowsAreInserted ==
  \A k \in Registrations : registration[k].pc \in {"new", "looked"} => keys[k] = NoRow

IInv ==
  /\ TypeOK
  /\ CallsAreBacked
  /\ RowsAreInserted
  /\ OneActiveKeyPerEmail
  /\ RevokedOnce
  /\ KeyWorksUntilRevoked

(* The types the steps rely on.                                             *)
LEMMA LookedType ==
  ASSUME TypeOK, NEW k \in Registrations, registration[k].pc = "looked"
  PROVE  registration[k] \in
           [pc : {"looked", "created", "conflict", "failed"}, email : Emails]
BY DEF TypeOK, New

LEMMA CallType ==
  ASSUME TypeOK, NEW c \in Calls, call[c].pc # "new"
  PROVE  call[c] \in [pc : {"authenticated", "revoked", "written", "unauthorized", "failed"},
                      key : Registrations]
BY DEF TypeOK, New

LEMMA TypeStep ==
  ASSUME TypeOK, [Next]_vars
  PROVE  TypeOK'
<1>1. ASSUME NEW k \in Registrations, NEW e \in Emails, Lookup(k, e)
      PROVE  TypeOK'
  BY <1>1 DEF Lookup, TypeOK
<1>2. ASSUME NEW k \in Registrations, Insert(k) \/ RegisterFails(k)
      PROVE  TypeOK'
  <2>1. registration[k].pc = "looked"
    BY <1>2 DEF Insert, UniqueIndexRefuses, NewKey, RegisterFails
  <2>2. registration[k].email \in Emails
    BY <2>1, LookedType
  <2>3. \A pc \in {"created", "conflict", "failed"} :
          [registration[k] EXCEPT !.pc = pc] \in
            [pc : {"looked", "created", "conflict", "failed"}, email : Emails]
    BY <2>1, LookedType
  <2>4. registration' \in [Registrations ->
          {New} \cup [pc : {"looked", "created", "conflict", "failed"}, email : Emails]]
    BY <1>2, <2>3 DEF Insert, UniqueIndexRefuses, NewKey, RegisterFails, TypeOK
  <2>5. keys' \in [Registrations -> KeyRow \cup {NoRow}]
    <3>1. [email |-> registration[k].email, revoked |-> FALSE] \in KeyRow
      BY <2>2 DEF KeyRow
    <3> QED
      BY <1>2, <3>1 DEF Insert, UniqueIndexRefuses, NewKey, RegisterFails, TypeOK
  <2> QED
    BY <1>2, <2>4, <2>5 DEF Insert, UniqueIndexRefuses, NewKey, RegisterFails, TypeOK
<1>3. ASSUME NEW c \in Calls, NEW k \in Registrations, Authenticate(c, k)
      PROVE  TypeOK'
  BY <1>3 DEF Authenticate, TypeOK
<1>4. ASSUME NEW c \in Calls, RevokeKey(c)
      PROVE  TypeOK'
  <2>1. call[c].pc = "authenticated"
    BY <1>4 DEF RevokeKey, Revocable, Revoked
  <2>2. PICK k \in Registrations : k = call[c].key
    BY <2>1, CallType
  <2>3. call' \in [Calls -> {New} \cup [pc : {"authenticated", "revoked", "written",
                                              "unauthorized", "failed"}, key : Registrations]]
    BY <1>4, <2>1, CallType DEF RevokeKey, Revocable, Revoked, TypeOK
  <2>4. CASE Active(k) /\ keys' = [keys EXCEPT ![k].revoked = TRUE]
    <3>1. keys[k] \in KeyRow
      BY <2>4 DEF Active, TypeOK
    <3>2. [keys[k] EXCEPT !.revoked = TRUE] \in KeyRow
      BY <3>1 DEF KeyRow
    <3> QED
      BY <1>4, <2>3, <2>4, <3>2 DEF RevokeKey, Revocable, Revoked, TypeOK
  <2>5. CASE keys' = keys
    BY <1>4, <2>3, <2>5 DEF RevokeKey, Revocable, Revoked, TypeOK
  <2> QED
    BY <1>4, <2>2, <2>4, <2>5 DEF RevokeKey, Revocable, Revoked
<1>5. ASSUME NEW c \in Calls, Write(c) \/ CallFails(c)
      PROVE  TypeOK'
  BY <1>5, CallType DEF Write, CallFails, TypeOK
<1>6. CASE UNCHANGED vars
  BY <1>6 DEF vars, TypeOK
<1> QED
  BY <1>1, <1>2, <1>3, <1>4, <1>5, <1>6 DEF Next

----------------------------------------------------------------------------
(* The steps that change the invariant's other parts.                       *)

LEMMA InsertStep ==
  ASSUME IInv, NEW k \in Registrations, Insert(k)
  PROVE  /\ CallsAreBacked' /\ RowsAreInserted' /\ OneActiveKeyPerEmail'
         /\ RevokedOnce' /\ KeyWorksUntilRevoked'
<1> USE DEF IInv
<1>1. /\ registration[k].pc = "looked" /\ keys[k] = NoRow
      /\ call' = call
      /\ \A l \in Registrations : l # k => keys'[l] = keys[l] /\ registration'[l] = registration[l]
      /\ registration'[k].pc \in {"created", "conflict"}
  BY LookedType DEF Insert, UniqueIndexRefuses, NewKey, TypeOK, RowsAreInserted
<1>2. \A c \in Calls : call[c].pc \in {"authenticated", "revoked"} =>
        call[c].key \in Registrations /\ call[c].key # k
  BY <1>1, CallType DEF CallsAreBacked
<1>3. CallsAreBacked'
  BY <1>1, <1>2 DEF CallsAreBacked, Active
<1>4. RowsAreInserted'
  BY <1>1 DEF RowsAreInserted
<1>5. RevokedOnce'
  BY <1>1 DEF RevokedOnce
<1>6. CASE keys' = keys /\ registration'[k].pc = "conflict"
  BY <1>1, <1>3, <1>4, <1>5, <1>6 DEF OneActiveKeyPerEmail, KeyWorksUntilRevoked, Active
<1>7. CASE /\ ActiveFor(registration[k].email) = {}
           /\ keys'[k] = [email |-> registration[k].email, revoked |-> FALSE]
  <2>1. \A l \in Registrations : Active(l) => keys[l].email # registration[k].email
    BY <1>7 DEF ActiveFor
  <2>2. OneActiveKeyPerEmail'
    BY <1>1, <1>7, <2>1 DEF OneActiveKeyPerEmail, Active
  <2>3. keys'[k] # NoRow /\ ~keys'[k].revoked
    BY <1>7 DEF NoRow
  <2>4. KeyWorksUntilRevoked'
    BY <1>1, <2>3 DEF KeyWorksUntilRevoked, Active
  <2> QED
    BY <1>3, <1>4, <1>5, <2>2, <2>4
<1>8. \/ keys' = keys /\ registration'[k].pc = "conflict"
      \/ /\ ActiveFor(registration[k].email) = {}
         /\ keys'[k] = [email |-> registration[k].email, revoked |-> FALSE]
  <2>1. keys \in [Registrations -> KeyRow \cup {NoRow}]
    BY DEF TypeOK
  <2>2. registration \in [Registrations -> {New} \cup
          [pc : {"looked", "created", "conflict", "failed"}, email : Emails]]
    BY DEF TypeOK
  <2>3. [registration[k] EXCEPT !.pc = "conflict"].pc = "conflict"
    BY <1>1, LookedType
  <2>4. CASE keys' = keys /\ registration' = [registration EXCEPT ![k].pc = "conflict"]
    BY <2>2, <2>3, <2>4
  <2>5. CASE /\ ActiveFor(registration[k].email) = {}
             /\ keys' = [keys EXCEPT ![k] = [email |-> registration[k].email, revoked |-> FALSE]]
    BY <2>1, <2>5
  <2> QED
    BY <2>4, <2>5 DEF Insert, UniqueIndexRefuses, NewKey
<1> QED
  BY <1>6, <1>7, <1>8

LEMMA RevokeStep ==
  ASSUME IInv, NEW c \in Calls, RevokeKey(c)
  PROVE  /\ CallsAreBacked' /\ RowsAreInserted' /\ OneActiveKeyPerEmail'
         /\ RevokedOnce' /\ KeyWorksUntilRevoked'
<1> USE DEF IInv
<1>1. PICK k \in Registrations : k = call[c].key
  BY CallType DEF RevokeKey, Revocable, Revoked
<1>2. /\ call[c].pc = "authenticated" /\ registration[k].pc = "created"
      /\ registration' = registration
      /\ \A d \in Calls : d # c => call'[d] = call[d]
      /\ call'[c].key = k
  BY <1>1, CallType DEF RevokeKey, Revocable, Revoked, CallsAreBacked, TypeOK
<1>3. CASE ~Active(k) /\ keys' = keys /\ call'[c].pc = "unauthorized"
  BY <1>1, <1>2, <1>3
  DEF CallsAreBacked, RowsAreInserted, OneActiveKeyPerEmail, RevokedOnce, KeyWorksUntilRevoked, Active
<1>4. CASE Active(k) /\ keys' = [keys EXCEPT ![k].revoked = TRUE] /\ call'[c].pc = "revoked"
  <2>1. keys[k] \in KeyRow
    BY <1>4 DEF Active, TypeOK
  <2>2. /\ keys'[k].revoked
        /\ \A l \in Registrations : l # k => keys'[l] = keys[l]
    BY <1>4, <2>1 DEF KeyRow, TypeOK
  <2>3. CallsAreBacked'
    BY <1>2, <1>4, <2>2, CallType DEF CallsAreBacked, Active
  <2>4. RowsAreInserted'
    BY <1>2, <2>2 DEF RowsAreInserted
  <2>5. OneActiveKeyPerEmail'
    BY <2>2 DEF OneActiveKeyPerEmail, Active
  <2>6. RevokedOnce'
    BY <1>2, <1>4 DEF RevokedOnce, CallsAreBacked
  <2>7. KeyWorksUntilRevoked'
    BY <1>2, <1>4, <2>2 DEF KeyWorksUntilRevoked, Active
  <2> QED
    BY <2>3, <2>4, <2>5, <2>6, <2>7
<1>5. \/ ~Active(k) /\ keys' = keys /\ call'[c].pc = "unauthorized"
      \/ Active(k) /\ keys' = [keys EXCEPT ![k].revoked = TRUE] /\ call'[c].pc = "revoked"
  BY <1>1, <1>2, CallType DEF RevokeKey, Revocable, Revoked, TypeOK
<1> QED
  BY <1>3, <1>4, <1>5

LEMMA OtherStep ==
  ASSUME IInv, UNCHANGED keys,
         \/ \E k \in Registrations : (\E e \in Emails : Lookup(k, e)) \/ RegisterFails(k)
         \/ \E c \in Calls : \/ \E k \in Registrations : Authenticate(c, k)
                             \/ Write(c) \/ CallFails(c)
         \/ UNCHANGED vars
  PROVE  /\ CallsAreBacked' /\ RowsAreInserted' /\ OneActiveKeyPerEmail'
         /\ RevokedOnce' /\ KeyWorksUntilRevoked'
<1> USE DEF IInv
<1>1. OneActiveKeyPerEmail'
  BY DEF OneActiveKeyPerEmail, Active
<1>2. ASSUME NEW k \in Registrations, UNCHANGED call,
             registration[k].pc \in {"new", "looked"},
             registration'[k].pc \in {"looked", "conflict", "failed"},
             registration[k].pc = "looked" => registration'[k].pc = "failed",
             \A l \in Registrations : l # k => registration'[l] = registration[l]
      PROVE  CallsAreBacked' /\ RowsAreInserted' /\ RevokedOnce' /\ KeyWorksUntilRevoked'
  BY <1>2, CallType DEF CallsAreBacked, RowsAreInserted, RevokedOnce, KeyWorksUntilRevoked, Active
<1>3. ASSUME NEW c \in Calls, UNCHANGED registration,
             call[c].pc \in {"new", "authenticated"},
             call'[c].pc \in {"authenticated", "unauthorized", "written", "failed"},
             call'[c].pc = "authenticated" => registration[call'[c].key].pc = "created",
             \A d \in Calls : d # c => call'[d] = call[d]
      PROVE  CallsAreBacked' /\ RowsAreInserted' /\ RevokedOnce' /\ KeyWorksUntilRevoked'
  BY <1>3 DEF CallsAreBacked, RowsAreInserted, RevokedOnce, KeyWorksUntilRevoked, Active
<1>4. ASSUME NEW k \in Registrations, NEW e \in Emails, Lookup(k, e)
      PROVE  CallsAreBacked' /\ RowsAreInserted' /\ RevokedOnce' /\ KeyWorksUntilRevoked'
  BY <1>2, <1>4 DEF Lookup, TypeOK, New
<1>5. ASSUME NEW k \in Registrations, RegisterFails(k)
      PROVE  CallsAreBacked' /\ RowsAreInserted' /\ RevokedOnce' /\ KeyWorksUntilRevoked'
  BY <1>2, <1>5, LookedType DEF RegisterFails, TypeOK
<1>6. ASSUME NEW c \in Calls, NEW k \in Registrations, Authenticate(c, k)
      PROVE  CallsAreBacked' /\ RowsAreInserted' /\ RevokedOnce' /\ KeyWorksUntilRevoked'
  BY <1>3, <1>6 DEF Authenticate, TypeOK, New
<1>7. ASSUME NEW c \in Calls, Write(c) \/ CallFails(c)
      PROVE  CallsAreBacked' /\ RowsAreInserted' /\ RevokedOnce' /\ KeyWorksUntilRevoked'
  BY <1>3, <1>7, CallType DEF Write, CallFails, TypeOK
<1>8. CASE UNCHANGED vars
  <2>1. UNCHANGED <<registration, call>>
    BY <1>8 DEF vars
  <2>2. CallsAreBacked' /\ RowsAreInserted' /\ RevokedOnce'
    BY <2>1 DEF CallsAreBacked, RowsAreInserted, RevokedOnce, Active
  <2>3. KeyWorksUntilRevoked'
    BY <2>1 DEF KeyWorksUntilRevoked, Active
  <2> QED
    BY <1>1, <2>2, <2>3
<1> QED
  BY <1>1, <1>4, <1>5, <1>6, <1>7, <1>8

LEMMA Inductive == IInv /\ [Next]_vars => IInv'
<1> SUFFICES ASSUME IInv, [Next]_vars PROVE IInv'
  OBVIOUS
<1>1. TypeOK'
  BY TypeStep DEF IInv
<1>2. ASSUME NEW k \in Registrations, Insert(k)
      PROVE  IInv'
  BY <1>1, <1>2, InsertStep DEF IInv
<1>3. ASSUME NEW c \in Calls, RevokeKey(c)
      PROVE  IInv'
  BY <1>1, <1>3, RevokeStep DEF IInv
<1>4. ASSUME \/ \E k \in Registrations : (\E e \in Emails : Lookup(k, e)) \/ RegisterFails(k)
             \/ \E c \in Calls : \/ \E k \in Registrations : Authenticate(c, k)
                                 \/ Write(c) \/ CallFails(c)
             \/ UNCHANGED vars
      PROVE  IInv'
  <2>1. UNCHANGED keys
    BY <1>4 DEF Lookup, RegisterFails, Authenticate, Write, CallFails, vars
  <2> QED
    BY <1>1, <1>4, <2>1, OtherStep DEF IInv
<1> QED
  BY <1>2, <1>3, <1>4 DEF Next

LEMMA Initially == Init => IInv
BY DEF Init, IInv, TypeOK, CallsAreBacked, RowsAreInserted, OneActiveKeyPerEmail, RevokedOnce,
       KeyWorksUntilRevoked, Active, New

(* Rows, registrations and calls keep their types.                          *)
THEOREM TypeCorrect == Spec => []TypeOK
<1>1. IInv => TypeOK
  BY DEF IInv
<1> QED
  BY <1>1, Initially, Inductive, PTL DEF Spec

(* Whatever the interleaving of the registrations of an address, it has one *)
(* active key at most.                                                      *)
THEOREM OneActiveKey == Spec => []OneActiveKeyPerEmail
<1>1. IInv => OneActiveKeyPerEmail
  BY DEF IInv
<1> QED
  BY <1>1, Initially, Inductive, PTL DEF Spec

(* Of the revocations of one key, one succeeds at most.                     *)
THEOREM KeyIsRevokedOnce == Spec => []RevokedOnce
<1>1. IInv => RevokedOnce
  BY DEF IInv
<1> QED
  BY <1>1, Initially, Inductive, PTL DEF Spec

(* A key handed out is active until a revocation of it succeeds.            *)
THEOREM KeyStaysActive == Spec => []KeyWorksUntilRevoked
<1>1. IInv => KeyWorksUntilRevoked
  BY DEF IInv
<1> QED
  BY <1>1, Initially, Inductive, PTL DEF Spec
=============================================================================
