------------------------------ MODULE ApiKeys ------------------------------
(***************************************************************************)
(* The life of API keys (cmd/api Register, RevokeKey, authenticate) over   *)
(* the api_keys table; the server around the handlers is ApiServer.  Each  *)
(* handler is a sequence of statements with no transaction around them;    *)
(* the handlers of all clients interleave.  The table's partial unique     *)
(* index admits one row per e-mail address whose revoked_at is null.       *)
(*                                                                         *)
(* A registration and the key it generates share a name; two registrations *)
(* never generate the same key (32 random bytes).                          *)
(***************************************************************************)
EXTENDS FiniteSets

CONSTANTS
  Emails,
  Registrations,  \* POST requests, and the key each generates
  Calls,          \* authenticated requests: revocations and writes
  Faults          \* whether a statement or a response may fail

VARIABLES
  keys,          \* api_keys, by key
  registration,  \* local state of each registration
  call           \* local state of each authenticated request

vars == <<keys, registration, call>>

NoRow == [absent |-> TRUE]
New == [pc |-> "new"]

KeyRow == [email : Emails, revoked : BOOLEAN]

TypeOK ==
  /\ keys \in [Registrations -> KeyRow \cup {NoRow}]
  /\ registration \in [Registrations ->
       {New} \cup [pc : {"looked", "created", "conflict", "failed"}, email : Emails]]
  /\ call \in [Calls ->
       {New} \cup [pc : {"authenticated", "revoked", "written", "unauthorized", "failed"},
                   key : Registrations]]

Init ==
  /\ keys = [k \in Registrations |-> NoRow]
  /\ registration = [k \in Registrations |-> New]
  /\ call = [c \in Calls |-> New]

Active(k) == keys[k] # NoRow /\ ~keys[k].revoked
ActiveFor(e) == {k \in Registrations : Active(k) /\ keys[k].email = e}

----------------------------------------------------------------------------
(* Register: look for an active key, generate one, insert it.               *)

(* Mistake: the table has no index.                                         *)
NoIndex(e) == FALSE

FindActiveKey(e) == ActiveFor(e) # {}
UniqueIndexRefuses(e) == ActiveFor(e) # {}
NewKey(e) == [email |-> e, revoked |-> FALSE]

Lookup(k, e) ==
  /\ registration[k] = New
  /\ registration' = [registration EXCEPT ![k] =
       [pc |-> IF FindActiveKey(e) THEN "conflict" ELSE "looked", email |-> e]]
  /\ UNCHANGED <<keys, call>>

(* Mistake: an upsert, the new key taking the place of the active one.      *)
InsertTakesOver(k) ==
  LET e == registration[k].email
  IN /\ registration[k].pc = "looked"
     /\ keys' = [l \in Registrations |->
          IF l = k THEN NewKey(e)
          ELSE IF l \in ActiveFor(e) THEN [keys[l] EXCEPT !.revoked = TRUE] ELSE keys[l]]
     /\ registration' = [registration EXCEPT ![k].pc = "created"]
     /\ UNCHANGED call

(* The index refuses a second active row: answered like a key found.        *)
Insert(k) ==
  LET e == registration[k].email
  IN /\ registration[k].pc = "looked"
     /\ \/ /\ UniqueIndexRefuses(e)
           /\ registration' = [registration EXCEPT ![k].pc = "conflict"]
           /\ keys' = keys
        \/ /\ ~UniqueIndexRefuses(e)
           /\ keys' = [keys EXCEPT ![k] = NewKey(e)]
           /\ registration' = [registration EXCEPT ![k].pc = "created"]
     /\ UNCHANGED call

RegisterFails(k) ==
  /\ Faults
  /\ registration[k].pc = "looked"
  /\ registration' = [registration EXCEPT ![k].pc = "failed"]
  /\ UNCHANGED <<keys, call>>

----------------------------------------------------------------------------
(* authenticate, with a key its owner was given; any error of the look-up   *)
(* is answered 401, as an unknown key is.                                   *)
Authenticate(c, k) ==
  /\ call[c] = New
  /\ registration[k].pc = "created"
  /\ \E pc \in {IF Active(k) THEN "authenticated" ELSE "unauthorized"}
                \cup (IF Faults THEN {"failed"} ELSE {}) :
       call' = [call EXCEPT ![c] = [pc |-> pc, key |-> k]]
  /\ UNCHANGED <<keys, registration>>

(* Mistake: the UPDATE does not ask whether the key is revoked already.     *)
RevocableAgain(k) == keys[k] # NoRow

Revocable(k) == Active(k)
Revoked(k) == [keys EXCEPT ![k].revoked = TRUE]

(* RevokeKey: UPDATE ... WHERE key_hash = ? AND revoked_at IS NULL.  No row *)
(* affected, someone else has revoked it since the key was authenticated.   *)
RevokeKey(c) ==
  LET k == call[c].key
  IN /\ call[c].pc = "authenticated"
     /\ IF Revocable(k)
        THEN /\ keys' = Revoked(k)
             /\ call' = [call EXCEPT ![c].pc = "revoked"]
        ELSE /\ keys' = keys
             /\ call' = [call EXCEPT ![c].pc = "unauthorized"]
     /\ UNCHANGED registration

(* Any other handler: the key is not looked at again.                       *)
Write(c) ==
  /\ call[c].pc = "authenticated"
  /\ call' = [call EXCEPT ![c].pc = "written"]
  /\ UNCHANGED <<keys, registration>>

CallFails(c) ==
  /\ Faults
  /\ call[c].pc = "authenticated"
  /\ call' = [call EXCEPT ![c].pc = "failed"]
  /\ UNCHANGED <<keys, registration>>

Next ==
  \/ \E k \in Registrations : (\E e \in Emails : Lookup(k, e)) \/ Insert(k) \/ RegisterFails(k)
  \/ \E c \in Calls : \/ \E k \in Registrations : Authenticate(c, k)
                      \/ RevokeKey(c) \/ Write(c) \/ CallFails(c)

Spec == Init /\ [][Next]_vars

----------------------------------------------------------------------------
(* Properties.                                                              *)

(* However registrations of one address interleave, the address has one     *)
(* active key at most.                                                      *)
OneActiveKeyPerEmail ==
  \A k, l \in Registrations :
    Active(k) /\ Active(l) /\ keys[k].email = keys[l].email => k = l

(* A key is revoked once: of several revocations that were authenticated    *)
(* while it was active, one is answered with success.                       *)
RevokedOnce ==
  \A c, d \in Calls :
    call[c].pc = "revoked" /\ call[d].pc = "revoked" /\ call[c].key = call[d].key => c = d

(* A key that was inserted works until its owner revokes it: neither        *)
(* another registration nor a failure nor a restart takes it away.          *)
KeyWorksUntilRevoked ==
  \A k \in Registrations :
    registration[k].pc = "created" =>
      Active(k) \/ \E c \in Calls : call[c].pc = "revoked" /\ call[c].key = k
=============================================================================
