--------------------------- MODULE MCHouseholds ---------------------------
(* Instances of Households for TLC. *)
EXTENDS Households, TLC

Symmetry == Permutations(Requests) \union Permutations(Invitations)
============================================================================
