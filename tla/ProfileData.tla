---------------------------- MODULE ProfileData ----------------------------
(***************************************************************************)
(* The accessibility profile of a place, reduced to its properties (the    *)
(* ratings of all components side by side), the audit flags computed from  *)
(* them, user_verified and submitted_by; and the merge a PATCH performs.   *)
(***************************************************************************)
CONSTANTS
  Fields,   \* the properties of a profile, over all its components
  Values,   \* the ratings a property may have
  Bad,      \* the rating that raises an audit flag
  Requests  \* write requests of the API; each is its own submitter

Null == [null |-> TRUE]      \* a property that is not set, a submitter not known
Keep == [omitted |-> TRUE]   \* a member a merge patch does not mention
NoRow == [absent |-> TRUE]

Vals == [Fields -> Values \cup {Null}]
Patches == [Fields -> Values \cup {Null, Keep}]

Row == [val : Vals, flags : SUBSET Fields, verified : BOOLEAN, by : Requests \cup {Null}]

(* RFC 7396 merge: an omitted member stays, null clears it.                 *)
MergePatch(val, patch) == [f \in Fields |-> IF patch[f] = Keep THEN val[f] ELSE patch[f]]

Empty == [f \in Fields |-> Null]

ValOf(r) == IF r = NoRow THEN Empty ELSE r.val

(* Engine.WithAuditFlags: the flags are a function of the ratings alone.    *)
AuditFlags(val) == {f \in Fields : val[f] = Bad}

Profile(val, verified, by) ==
  [val |-> val, flags |-> AuditFlags(val), verified |-> verified, by |-> by]

(* What a place may have at the start: nothing, or what an import has left. *)
Earlier(exists) ==
  {NoRow} \cup (IF exists THEN {Profile(val, FALSE, Null) : val \in Vals} ELSE {})
=============================================================================
