------------------------- MODULE MCConsentScreens -------------------------
(* Instances of ConsentScreens for TLC. *)
EXTENDS ConsentScreens, TLC

Symmetry ==
  Permutations(WorkerPages) \union Permutations(FamilyPages)
  \union Permutations(Drafts) \union Permutations(Schedules)
============================================================================
