---------------------------- MODULE Invitations ----------------------------
(***************************************************************************)
(* The invitations of one family to one worker's e-mail at one household,  *)
(* from create to the answer that brings a relationship into being.        *)
(*                                                                         *)
(* accept and reject find the row by the hash of the link's token, so that *)
(* only the last link sent finds it; revoke and resend find it by id.  All *)
(* four decide from that copy.  accept, reject and the lazy expiry compare *)
(* the status when they write, revoke and resend do not.                   *)
(***************************************************************************)
EXTENDS Integers

CONSTANTS
  Invitations,  \* ids of rows
  Requests,     \* concurrent requests
  Validity,     \* days from sending a link to its expiresAt
  LastDay       \* of a behaviour (bound)

ASSUME TimeAssumption == Validity \in Nat \ {0} /\ LastDay \in Nat

VARIABLES
  status,         \* WorkerInvitation.status, "NONE" while there is no row
  expiresAt,      \* WorkerInvitation.expiresAt
  linked,         \* employmentRelationshipId is set
  relationships,  \* how many relationships acceptances of a row have created
  now,
  phase, arg,     \* of each request: how far it is, its copy of the row
  overlap,        \* two creates were in flight at once
  overtaken       \* rows written from a copy they had moved on from

rowVars == <<status, expiresAt, linked, relationships>>
requestVars == <<phase, arg>>
historyVars == <<overlap, overtaken>>
vars == <<rowVars, now, requestVars, historyVars>>

Statuses == {"NONE", "PENDING", "ACCEPTED", "REJECTED", "REVOKED", "EXPIRED"}
Answers == {"accept", "reject"}
ByToken == Answers \union {"resolve"}
ById == {"revoke", "resend"}
Request ==
       [op: {"create"}]
  \union [op: ByToken \union ById, id: Invitations, status: Statuses, expiresAt: Nat]
NoRequest == [op |-> "none"]

Init ==
  /\ status = [i \in Invitations |-> "NONE"]
  /\ expiresAt = [i \in Invitations |-> 0]
  /\ linked = [i \in Invitations |-> FALSE]
  /\ relationships = [i \in Invitations |-> 0]
  /\ now = 0
  /\ phase = [r \in Requests |-> "idle"]
  /\ arg = [r \in Requests |-> NoRequest]
  /\ overlap = FALSE
  /\ overtaken = {}

----------------------------------------------------------------------------
(* Steps that requests share *)

Begin(r, request) ==
  /\ phase[r] = "idle"
  /\ phase' = [phase EXCEPT ![r] = "found"]
  /\ arg' = [arg EXCEPT ![r] = request]

Done(r) ==
  /\ phase' = [phase EXCEPT ![r] = "idle"]
  /\ arg' = [arg EXCEPT ![r] = NoRequest]

At(r, p, ops) == phase[r] = p /\ arg[r].op \in ops

\* Time passes, by a day.
Tick ==
  /\ now < LastDay
  /\ now' = now + 1
  /\ UNCHANGED <<rowVars, requestVars, historyVars>>

\* The process dies, or the transaction fails: it leaves no trace.
Abort(r) ==
  /\ phase[r] # "idle"
  /\ Done(r)
  /\ UNCHANGED <<rowVars, now, historyVars>>

----------------------------------------------------------------------------
(* create *)

NoneIsPending == \A i \in Invitations : status[i] # "PENDING"
NotChecked == TRUE
NoDuplicate == NoneIsPending

\* The look for a pending duplicate is outside the transaction.
FindDuplicate(r) ==
  /\ NoDuplicate
  /\ Begin(r, [op |-> "create"])
  /\ overlap' = (overlap \/ \E q \in Requests : At(q, "found", {"create"}))
  /\ UNCHANGED <<rowVars, now, overtaken>>

Create(r) ==
  /\ At(r, "found", {"create"})
  /\ \E i \in Invitations :
       /\ status[i] = "NONE"
       /\ status' = [status EXCEPT ![i] = "PENDING"]
       /\ expiresAt' = [expiresAt EXCEPT ![i] = now + Validity]
  /\ Done(r)
  /\ UNCHANGED <<linked, relationships, now, historyVars>>

----------------------------------------------------------------------------
(* By token: resolveByToken, accept and reject *)

Find(r, op, i) ==
  /\ status[i] # "NONE"
  /\ Begin(r, [op |-> op, id |-> i, status |-> status[i], expiresAt |-> expiresAt[i]])
  /\ UNCHANGED <<rowVars, now, historyVars>>

FindByToken(r, i) == \E op \in ByToken : Find(r, op, i)

IsDue(t) == t <= now
IsOver(t) == t < now

\* expireIfNeeded: from the copy, but only a row that is still PENDING.
Expire(r) ==
  LET i == arg[r].id IN
  /\ At(r, "found", ByToken) /\ arg[r].status = "PENDING" /\ IsOver(arg[r].expiresAt)
  /\ status' = [status EXCEPT ![i] = IF @ = "PENDING" THEN "EXPIRED" ELSE @]
  /\ overtaken' = IF status[i] = "PENDING" /\ expiresAt[i] # arg[r].expiresAt
                  THEN overtaken \union {i} ELSE overtaken
  /\ Done(r)
  /\ UNCHANGED <<expiresAt, linked, relationships, now, overlap>>

\* assertUsable, when it does not throw
Usable(r) ==
  /\ At(r, "found", Answers) /\ arg[r].status = "PENDING" /\ ~IsOver(arg[r].expiresAt)
  /\ phase' = [phase EXCEPT ![r] = "usable"]
  /\ UNCHANGED <<rowVars, now, arg, historyVars>>

\* The view of resolveByToken, or one of the refusals of assertUsable
Answered(r) ==
  /\ \/ At(r, "found", {"resolve"}) /\ ~(arg[r].status = "PENDING" /\ IsOver(arg[r].expiresAt))
     \/ At(r, "found", Answers) /\ arg[r].status # "PENDING"
  /\ Done(r)
  /\ UNCHANGED <<rowVars, now, historyVars>>

\* updateMany where status is PENDING
FoundAnyway(i) == status[i] # "NONE"
StillPending(i) == status[i] = "PENDING"

\* The relationship, and the invitation that leads to it, in one transaction.
Accept(r) ==
  LET i == arg[r].id IN
  /\ At(r, "usable", {"accept"}) /\ StillPending(i)
  /\ status' = [status EXCEPT ![i] = "ACCEPTED"]
  /\ linked' = [linked EXCEPT ![i] = TRUE]
  /\ relationships' = [relationships EXCEPT ![i] = @ + 1]
  /\ Done(r)
  /\ UNCHANGED <<expiresAt, now, historyVars>>

Reject(r) ==
  LET i == arg[r].id IN
  /\ At(r, "usable", {"reject"}) /\ StillPending(i)
  /\ status' = [status EXCEPT ![i] = "REJECTED"]
  /\ Done(r)
  /\ UNCHANGED <<expiresAt, linked, relationships, now, historyVars>>

\* INVITATION_ALREADY_USED: the relationship is rolled back.
AlreadyUsed(r) ==
  /\ At(r, "usable", Answers) /\ ~StillPending(arg[r].id)
  /\ Done(r)
  /\ UNCHANGED <<rowVars, now, historyVars>>

----------------------------------------------------------------------------
(* By id: revoke and resend *)

AnyStatus(i) == status[i] # "NONE"
IsPending(i) == status[i] = "PENDING"

FindOwned(r, i) ==
  /\ IsPending(i)
  /\ \E op \in ById : Find(r, op, i)

Overtaken(r) ==
  IF status[arg[r].id] # arg[r].status THEN overtaken \union {arg[r].id} ELSE overtaken

\* update by id, whatever became of the row
Revoke(r) ==
  /\ At(r, "found", {"revoke"})
  /\ status' = [status EXCEPT ![arg[r].id] = "REVOKED"]
  /\ overtaken' = Overtaken(r)
  /\ Done(r)
  /\ UNCHANGED <<expiresAt, linked, relationships, now, overlap>>

\* The link sent before no longer finds the row.
Resend(r) ==
  /\ At(r, "found", {"resend"})
  /\ expiresAt' = [expiresAt EXCEPT ![arg[r].id] = now + Validity]
  /\ overtaken' = Overtaken(r)
  /\ Done(r)
  /\ UNCHANGED <<status, linked, relationships, now, overlap>>

----------------------------------------------------------------------------
(* The specification *)

Next ==
  \/ Tick
  \/ \E r \in Requests :
       \/ FindDuplicate(r) \/ Create(r)
       \/ \E i \in Invitations : FindByToken(r, i) \/ FindOwned(r, i)
       \/ Expire(r) \/ Usable(r) \/ Answered(r)
       \/ Accept(r) \/ Reject(r) \/ AlreadyUsed(r)
       \/ Revoke(r) \/ Resend(r) \/ Abort(r)

Spec == Init /\ [][Next]_vars

----------------------------------------------------------------------------
(* Properties *)

TypeOK ==
  /\ status \in [Invitations -> Statuses]
  /\ expiresAt \in [Invitations -> Nat]
  /\ linked \in [Invitations -> BOOLEAN]
  /\ relationships \in [Invitations -> Nat]
  /\ now \in Nat
  /\ phase \in [Requests -> {"idle", "found", "usable"}]
  /\ arg \in [Requests -> Request \union {NoRequest}]
  /\ overlap \in BOOLEAN
  /\ overtaken \subseteq Invitations

\* An invitation brings at most one relationship into being, and has it exactly
\* when it was accepted, however many answers, revocations and expiries were
\* under way at once.  Only a revocation that was overtaken by the acceptance
\* leaves a relationship to an invitation that is not ACCEPTED.
OneRelationshipEach ==
  \A i \in Invitations :
    /\ relationships[i] = (IF linked[i] THEN 1 ELSE 0)
    /\ status[i] = "ACCEPTED" => linked[i]
    /\ linked[i] => status[i] = "ACCEPTED" \/ i \in overtaken

\* An answered, revoked or expired invitation stays so, unless a revocation had
\* read it before.
AnswersAreFinal ==
  [][\A i \in Invitations :
       status[i] \notin {"NONE", "PENDING"} /\ i \notin overtaken' =>
         status'[i] = status[i]]_vars

\* An invitation is EXPIRED only when its last link is past its date, unless
\* it was sent again between the look at its date and the mark.
ExpiredIsOver ==
  \A i \in Invitations : status[i] = "EXPIRED" /\ i \notin overtaken => expiresAt[i] < now

\* One invitation is pending at a time unless two creates overlapped: resending,
\* expiring and answering never revive one beside another.
OnePending ==
  ~overlap => \A i, j \in Invitations :
    status[i] = "PENDING" /\ status[j] = "PENDING" => i = j

\* Why they hold: what has not been answered has no relationship, a request by
\* id has read PENDING, and a create that is alone has seen that none is pending.
UnansweredIsUnlinked ==
  \A i \in Invitations : status[i] \in {"NONE", "PENDING"} => ~linked[i]
CopiesHold ==
  \A r \in Requests :
    /\ phase[r] = "idle" <=> arg[r].op = "none"
    /\ phase[r] = "usable" => arg[r].op \in Answers
    /\ arg[r].op \in ById => arg[r].status = "PENDING"
    /\ arg[r].op \in ByToken \union ById => status[arg[r].id] # "NONE"
CreateIsAlone ==
  ~overlap => \A r \in Requests : arg[r].op = "create" =>
    /\ NoneIsPending
    /\ \A q \in Requests : arg[q].op = "create" => q = r

InvitationsInv ==
  /\ TypeOK
  /\ OneRelationshipEach
  /\ ExpiredIsOver
  /\ OnePending
  /\ UnansweredIsUnlinked
  /\ CopiesHold
  /\ CreateIsAlone
============================================================================
