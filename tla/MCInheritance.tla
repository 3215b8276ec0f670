---------------------------- MODULE MCInheritance ----------------------------
(***************************************************************************)
(* Inheritance with the entrance and the parking of a mall and of a shop   *)
(* in it: members that raise flags, alone and together, are set and        *)
(* cleared, and components are cleared.                                    *)
(***************************************************************************)
EXTENDS Inheritance

Set(members) == [null |-> FALSE, set |-> members]

MCPatches ==
  {[entrance |-> Set([is_level |-> "false"])],
   [entrance |-> Set([has_fixed_ramp |-> "true"])],
   [entrance |-> Set([has_fixed_ramp |-> "null"])],
   [entrance |-> Set([width |-> "no"]), parking |-> Set([has_disabled_spaces |-> "false"])],
   [parking |-> [null |-> TRUE]],
   [entrance |-> [null |-> TRUE], parking |-> Set([has_disabled_spaces |-> "true"])]}

Bare(members) == [members |-> members, flags |-> {}]

MCImported ==
  {[entrance |-> Bare([is_level |-> "false", has_fixed_ramp |-> "false"])],
   [parking |-> Bare([has_disabled_spaces |-> "false"])]}
=============================================================================
