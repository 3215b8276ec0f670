---------------------------- MODULE MCApiServer ----------------------------
(***************************************************************************)
(* ApiServer with two registrations for one e-mail address and a read, all *)
(* from one client address beside another, and two calls.  The two         *)
(* registrations (and their keys) differ in name only, and so do the       *)
(* calls: the states are explored up to their permutations.                *)
(***************************************************************************)
EXTENDS ApiServer, TLC

CONSTANTS a1

MCAddressOf == [r \in Registrations \cup Reads |-> a1]

Symmetry == Permutations(Registrations) \cup Permutations(Calls)
=============================================================================
