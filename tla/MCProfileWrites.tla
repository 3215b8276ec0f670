-------------------------- MODULE MCProfileWrites --------------------------
(***************************************************************************)
(* ProfileWrites on a small set of writers, which meet in every order.     *)
(***************************************************************************)
EXTENDS ProfileWrites
=============================================================================
