----------------------------- MODULE Households -----------------------------
(***************************************************************************)
(* The household that the invitations of Invitations are for.  Archiving   *)
(* it is refused while it has relationships and revokes its pending        *)
(* invitations; a create looks at the household before anything else.      *)
(*                                                                         *)
(* The count of relationships and the look at the household are outside    *)
(* the transactions that act on them.                                      *)
(***************************************************************************)
EXTENDS Invitations

VARIABLES
  archived,   \* Household.archivedAt is set
  counted,    \* archive requests that have found no relationship
  raced       \* a create or an acceptance overlapped the archive

householdVars == <<archived, counted, raced>>
onboardingVars == <<vars, householdVars>>

HouseholdInit == Init /\ archived = FALSE /\ counted = {} /\ raced = FALSE

NoRelationship == \A i \in Invitations : relationships[i] = 0
Creating == \E r \in Requests : At(r, "found", {"create"})

\* findOwnedOrFail for an archive, an update and a create
Owned == ~archived

CreateAtHousehold(r) ==
  /\ r \notin counted
  /\ Owned
  /\ FindDuplicate(r)
  /\ UNCHANGED householdVars

\* archive reads the household and counts its relationships.
CountRelationships(r) ==
  /\ phase[r] = "idle" /\ r \notin counted
  /\ Owned /\ NoRelationship
  /\ counted' = counted \union {r}
  /\ UNCHANGED <<vars, archived, raced>>

KeepsInvitations == status
RevokesPending == [i \in Invitations |-> IF status[i] = "PENDING" THEN "REVOKED" ELSE status[i]]

Archive(r) ==
  /\ r \in counted
  /\ archived' = TRUE
  /\ status' = RevokesPending
  /\ counted' = counted \ {r}
  /\ raced' = (raced \/ Creating \/ ~NoRelationship)
  /\ UNCHANGED <<expiresAt, linked, relationships, now, requestVars, historyVars>>

ArchiveFails(r) ==
  /\ r \in counted
  /\ counted' = counted \ {r}
  /\ UNCHANGED <<vars, archived, raced>>

\* Everything else is blind to the household: resending, accepting and the rest.
AtInvitations(r) ==
  /\ \/ Create(r)
     \/ \E i \in Invitations : r \notin counted /\ (FindByToken(r, i) \/ FindOwned(r, i))
     \/ Expire(r) \/ Usable(r) \/ Answered(r)
     \/ Accept(r) \/ Reject(r) \/ AlreadyUsed(r)
     \/ Revoke(r) \/ Resend(r) \/ Abort(r)
  /\ UNCHANGED householdVars

HouseholdNext ==
  \/ Tick /\ UNCHANGED householdVars
  \/ \E r \in Requests : \/ CreateAtHousehold(r) \/ CountRelationships(r)
                         \/ Archive(r) \/ ArchiveFails(r) \/ AtInvitations(r)

HouseholdSpec == HouseholdInit /\ [][HouseholdNext]_onboardingVars

----------------------------------------------------------------------------
(* Properties *)

\* An archived household has no relationship and no invitation that could still
\* lead to one, unless its archive overlapped a create or an acceptance that
\* committed after the count: an answer, a resend or an expiry under way during
\* the archive brings none back.
ArchivedIsEmpty ==
  archived /\ ~raced =>
    /\ NoRelationship
    /\ \A i \in Invitations : status[i] # "PENDING"

HouseholdInv ==
  /\ archived \in BOOLEAN /\ counted \subseteq Requests /\ raced \in BOOLEAN
  /\ \A r \in counted : phase[r] = "idle"
  /\ archived /\ ~raced => ~Creating
  /\ ArchivedIsEmpty
============================================================================
