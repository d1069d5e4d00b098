---------------------------- MODULE MCGrantTable ----------------------------
(***************************************************************************)
(* Bounded instance of GrantTable: two drivers and the dump driver compete *)
(* for three references.                                                   *)
(***************************************************************************)
EXTENDS GrantTable, TLC

Symmetry == Permutations(Pages) \cup Permutations(Users) \cup Permutations(Refs)
=============================================================================
