----------------------------- MODULE MCProfiles -----------------------------
(* Instances of ProfileConsents for TLC. *)
EXTENDS ProfileConsents
=============================================================================
