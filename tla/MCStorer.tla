------------------------------ MODULE MCStorer ------------------------------
(***************************************************************************)
(* Instance of Storer for TLC.                                             *)
(***************************************************************************)
EXTENDS Storer, TLC

Symmetry == Permutations(Clients)

=============================================================================
