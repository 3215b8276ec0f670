---------------------------- MODULE MCReconcile ----------------------------
(***************************************************************************)
(* Reconcile on a street corner: a place that is or is not where the       *)
(* records say, and records that match it or are merely near it.           *)
(***************************************************************************)
EXTENDS Reconcile, TLC

CONSTANTS o1, o2, a1, w1, w2, wheelmap

MCToken == {"rosso", "nero"}
MCFold == [t \in MCToken |-> t]
MCBusinessSuffixes == {}

Row(pos, name) ==
  [pos |-> pos, name |-> <<name>>, street |-> << >>, house |-> << >>, cat |-> "cafe", active |-> TRUE]

MCPlaceRows == {Row(0, "rosso"), Row(100, "rosso")}
MCPlaceRow == {Row(0, "rosso")}

(* The first matches the place at 0; the second is near it and matches none. *)
MCRecordRows ==
  {[pos |-> pos[1], name |-> <<pos[2]>>, street |-> << >>, house |-> << >>, cat |-> "cafe"] :
     pos \in {<<10, "rosso">>, <<30, "nero">>}}

MCSourceOf == [r \in Records |-> wheelmap]

Symmetry == Permutations(Records) \cup Permutations(Importers)
=============================================================================
