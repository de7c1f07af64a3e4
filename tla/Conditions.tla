----------------------------- MODULE Conditions -----------------------------
(***************************************************************************)
(* One employment relationship between the acceptance of its invitation    *)
(* and ACTIVE.  The family saves and submits conditions and puts the weekly *)
(* schedule, the worker accepts or rejects.                                *)
(*                                                                         *)
(* Every handler reads the relationship, with its terms and its published  *)
(* schedules, before its transaction.  The four of RelationshipsService    *)
(* compare version and status in it, so that all their writes take effect  *)
(* at that comparison or not at all.  WorkSchedulesService.put compares    *)
(* nothing.                                                                *)
(***************************************************************************)
EXTENDS Integers

CONSTANTS
  Requests,    \* concurrent requests; a process is used again when it is done
  Drafts,      \* contents of the conditions, start date included
  Schedules,   \* the ids of the schedules that put creates
  NoTerms, NoSchedule, NoEvidence,
  MaxVersion   \* of the relationship, in a behaviour (bound)

ASSUME DataAssumption ==
  NoTerms \notin Drafts /\ NoSchedule \notin Schedules /\ MaxVersion \in Nat
ASSUME EvidenceAssumption ==
  NoEvidence \notin [version: Nat, terms: Drafts, schedule: Schedules \union {NoSchedule}]

VARIABLES
  status,      \* EmploymentRelationship.status
  version,     \* EmploymentRelationship.version
  terms,       \* the RelationshipTerms whose effectiveTo is null
  accepted,    \* RelationshipTerms.acceptedByWorkerAt is set
  published,   \* the schedules whose status is PUBLISHED
  superseded,  \* those whose status is SUPERSEDED
  evidence,    \* EmploymentRelationship.workerAcceptanceEvidence
  phase,       \* of each request
  arg,         \* what a request asks for and what it read
  stalePut     \* some put wrote although what it had read had changed

rowVars == <<status, version, terms, accepted, published, superseded, evidence>>
requestVars == <<phase, arg>>
vars == <<rowVars, requestVars, stalePut>>

Statuses == {"DRAFT", "PENDING_CONFIGURATION", "PENDING_WORKER_ACCEPTANCE",
             "ACTIVE", "SUSPENDED", "TERMINATED", "ARCHIVED"}

Arc(from, to, roles) == [from |-> from, to |-> to, roles |-> roles]
RelationshipArcs ==
  {Arc("DRAFT", "PENDING_CONFIGURATION", {"FAMILY_EMPLOYER", "SYSTEM"}),
   Arc("PENDING_CONFIGURATION", "PENDING_WORKER_ACCEPTANCE", {"FAMILY_EMPLOYER"}),
   Arc("PENDING_WORKER_ACCEPTANCE", "ACTIVE", {"WORKER"}),
   Arc("PENDING_WORKER_ACCEPTANCE", "PENDING_CONFIGURATION", {"WORKER", "FAMILY_EMPLOYER"}),
   Arc("ACTIVE", "SUSPENDED", {"FAMILY_EMPLOYER"}),
   Arc("SUSPENDED", "ACTIVE", {"FAMILY_EMPLOYER"}),
   Arc("ACTIVE", "TERMINATED", {"FAMILY_EMPLOYER"}),
   Arc("SUSPENDED", "TERMINATED", {"FAMILY_EMPLOYER"}),
   Arc("TERMINATED", "ARCHIVED", {"PLATFORM_ADMIN", "SYSTEM"}),
   Arc("DRAFT", "ARCHIVED", {"FAMILY_EMPLOYER"})}

CanTransition(from, to, role) ==
  \E a \in RelationshipArcs : a.from = from /\ a.to = to /\ role \in a.roles

Evidence == [version: Nat, terms: Drafts, schedule: Schedules \union {NoSchedule}]
Copy == [status: Statuses, version: Nat, terms: Drafts \union {NoTerms},
         published: SUBSET Schedules]
Request ==
       [op: {"save"}, read: Copy, draft: Drafts]
  \union [op: {"submit", "accept", "reject"}, read: Copy]
  \union [op: {"put"}, read: Copy, schedule: Schedules, old: SUBSET Schedules]
NoRequest == [op |-> "none"]

Init ==
  /\ status = "PENDING_CONFIGURATION"
  /\ version = 0
  /\ terms = NoTerms
  /\ accepted = FALSE
  /\ published = {}
  /\ superseded = {}
  /\ evidence = NoEvidence
  /\ phase = [r \in Requests |-> "idle"]
  /\ arg = [r \in Requests |-> NoRequest]
  /\ stalePut = FALSE

----------------------------------------------------------------------------
(* Reading, and the early returns *)

\* findParticipatingOrFail.  The rows are read one after the other; a change of
\* the relationship in between is one that the comparison will notice.
Read == [status |-> status, version |-> version, terms |-> terms, published |-> published]

Load(r, request) ==
  /\ phase[r] = "idle"
  /\ version < MaxVersion
  /\ phase' = [phase EXCEPT ![r] = "loaded"]
  /\ arg' = [arg EXCEPT ![r] = request]
  /\ UNCHANGED <<rowVars, stalePut>>

EditableAlways == {"PENDING_CONFIGURATION", "PENDING_WORKER_ACCEPTANCE", "ACTIVE"}
Editable == {"PENDING_CONFIGURATION", "PENDING_WORKER_ACCEPTANCE"}

LoadSave(r) ==
  /\ status \in Editable
  /\ \E d \in Drafts : Load(r, [op |-> "save", read |-> Read, draft |-> d])

\* hasEffectiveTerms and hasPublishedSchedule
WithoutSchedule == terms # NoTerms
Complete == terms # NoTerms /\ published # {}

LoadSubmit(r) ==
  /\ CanTransition(status, "PENDING_WORKER_ACCEPTANCE", "FAMILY_EMPLOYER")
  /\ Complete
  /\ Load(r, [op |-> "submit", read |-> Read])

LoadAccept(r) ==
  /\ CanTransition(status, "ACTIVE", "WORKER")
  /\ terms # NoTerms
  /\ Load(r, [op |-> "accept", read |-> Read])

LoadReject(r) ==
  /\ CanTransition(status, "PENDING_CONFIGURATION", "WORKER")
  /\ Load(r, [op |-> "reject", read |-> Read])

Unused == Schedules \ (published \union superseded
                       \union {arg[r].schedule : r \in {q \in Requests : arg[q].op = "put"}})

LoadPut(r) ==
  /\ status \in Editable
  /\ \E s \in Unused :
       Load(r, [op |-> "put", read |-> Read, schedule |-> s, old |-> {}])

----------------------------------------------------------------------------
(* The transactions of RelationshipsService *)

IgnoringVersion(r) == status = arg[r].read.status
Unmoved(r) == version = arg[r].read.version /\ status = arg[r].read.status

Done(r) ==
  /\ phase' = [phase EXCEPT ![r] = "idle"]
  /\ arg' = [arg EXCEPT ![r] = NoRequest]

\* updateMany where version and status are as read
Commit(r, op) == phase[r] = "loaded" /\ arg[r].op = op /\ Unmoved(r) /\ Done(r)

Unversioned == version' = version
NextVersion == version' = version + 1

\* The terms are a draft until they are accepted: the row is updated in place.
CommitSave(r) ==
  /\ Commit(r, "save")
  /\ terms' = arg[r].draft
  /\ NextVersion
  /\ status' = "PENDING_CONFIGURATION"
  /\ UNCHANGED <<accepted, published, superseded, evidence, stalePut>>

CommitSubmit(r) ==
  /\ Commit(r, "submit")
  /\ status' = "PENDING_WORKER_ACCEPTANCE"
  /\ NextVersion
  /\ UNCHANGED <<terms, accepted, published, superseded, evidence, stalePut>>

\* schedules[0], of a list without an order
FirstOf(S) == IF S = {} THEN {NoSchedule} ELSE S

CommitAccept(r) ==
  /\ Commit(r, "accept")
  /\ accepted' = TRUE
  /\ status' = "ACTIVE"
  /\ NextVersion
  /\ \E s \in FirstOf(arg[r].read.published) :
       evidence' = [version |-> arg[r].read.version, terms |-> arg[r].read.terms, schedule |-> s]
  /\ UNCHANGED <<terms, published, superseded, stalePut>>

CommitReject(r) ==
  /\ Commit(r, "reject")
  /\ status' = "PENDING_CONFIGURATION"
  /\ NextVersion
  /\ UNCHANGED <<terms, accepted, published, superseded, evidence, stalePut>>

\* ResourceVersionConflictError
Conflict(r) ==
  /\ phase[r] = "loaded" /\ arg[r].op # "put" /\ ~Unmoved(r)
  /\ Done(r)
  /\ UNCHANGED <<rowVars, stalePut>>

----------------------------------------------------------------------------
(* The transaction of WorkSchedulesService.put *)

\* The first statement sees what is committed when it starts.
Supersede(r) ==
  /\ phase[r] = "loaded" /\ arg[r].op = "put"
  /\ phase' = [phase EXCEPT ![r] = "superseding"]
  /\ arg' = [arg EXCEPT ![r].old = published]
  /\ UNCHANGED <<rowVars, stalePut>>

KeepingStatus(r) == status
StatusAfterPut(r) ==
  IF arg[r].read.status = "PENDING_WORKER_ACCEPTANCE" THEN "PENDING_CONFIGURATION" ELSE status

\* The new schedule and the status, whatever it is by now, and the commit.
Publish(r) ==
  /\ phase[r] = "superseding"
  /\ published' = (published \ arg[r].old) \union {arg[r].schedule}
  /\ superseded' = superseded \union (published \intersect arg[r].old)
  /\ status' = StatusAfterPut(r)
  /\ stalePut' = (stalePut \/ ~Unmoved(r) \/ published # arg[r].read.published)
  /\ Done(r)
  /\ UNCHANGED <<version, terms, accepted, evidence>>

\* The process dies, or the transaction fails: it leaves no trace.
Abort(r) ==
  /\ phase[r] # "idle"
  /\ Done(r)
  /\ UNCHANGED <<rowVars, stalePut>>

----------------------------------------------------------------------------
(* The specification *)

Next ==
  \E r \in Requests :
    \/ LoadSave(r) \/ LoadSubmit(r) \/ LoadAccept(r) \/ LoadReject(r) \/ LoadPut(r)
    \/ CommitSave(r) \/ CommitSubmit(r) \/ CommitAccept(r) \/ CommitReject(r)
    \/ Conflict(r) \/ Supersede(r) \/ Publish(r) \/ Abort(r)

Spec == Init /\ [][Next]_vars

----------------------------------------------------------------------------
(* Properties *)

TypeOK ==
  /\ status \in Editable \union {"ACTIVE"}
  /\ version \in Nat
  /\ terms \in Drafts \union {NoTerms}
  /\ accepted \in BOOLEAN
  /\ published \in SUBSET Schedules
  /\ superseded \in SUBSET Schedules
  /\ evidence \in Evidence \union {NoEvidence}
  /\ phase \in [Requests -> {"idle", "loaded", "superseding"}]
  /\ arg \in [Requests -> Request \union {NoRequest}]
  /\ stalePut \in BOOLEAN

\* A relationship is active only with the worker's evidence of exactly the
\* terms it has, although she accepted them from a copy and the family may have
\* saved others meanwhile (ADR 0002).
ConsentCoversTerms ==
  status = "ACTIVE" =>
    /\ accepted
    /\ evidence # NoEvidence
    /\ evidence.terms = terms
    /\ version = evidence.version + 1

\* What was sent, or accepted, has terms and a published schedule (INV-REL-04),
\* although submitConditions looked for them before its transaction.
SentIsComplete ==
  status \in {"PENDING_WORKER_ACCEPTANCE", "ACTIVE"} => Complete

\* What a request knows by what it read.  As long as the version is the one it
\* read, so are the terms; and a request that was let through knows the status
\* that let it through.
ReadingsHold ==
  \A r \in Requests :
    /\ phase[r] = "idle" <=> arg[r] = NoRequest
    /\ phase[r] = "superseding" => arg[r].op = "put"
    /\ phase[r] # "idle" =>
         /\ arg[r].read.version <= version
         /\ arg[r].read.version = version => arg[r].read.terms = terms
         /\ arg[r].read.published # {} => published # {}
         /\ arg[r].read.status \in Editable
         /\ arg[r].op = "submit" =>
              /\ arg[r].read.status = "PENDING_CONFIGURATION"
              /\ arg[r].read.terms # NoTerms
              /\ arg[r].read.published # {}
         /\ arg[r].op \in {"accept", "reject"} =>
              arg[r].read.status = "PENDING_WORKER_ACCEPTANCE"

\* The version alone tells the terms, and within one version the status can
\* only go back to configuration: no reading comes true again.
VersionWitnessesTerms ==
  [][version' = version =>
       /\ terms' = terms
       /\ status' \in {status, "PENDING_CONFIGURATION"}]_vars

\* But for a put that overlapped another change, at most one schedule is in
\* force and, once active, it is the one the evidence names.
ScheduleIsConsented ==
  ~stalePut =>
    /\ \A s, t \in published : s = t
    /\ status = "ACTIVE" => published = {evidence.schedule}

\* With the same exception the status moves along the arcs of the domain's
\* machine (ADR 0002): what is active stays active.
FollowsTheMachine ==
  [][~stalePut' /\ status' # status =>
       \E a \in RelationshipArcs : a.from = status /\ a.to = status']_vars

\* Why ScheduleIsConsented holds: no schedule is published twice, and what an
\* acceptance read is in force as long as its comparison would succeed.
SchedulesAreFresh ==
  \A r \in Requests :
    /\ phase[r] # "idle" => arg[r].read.published \subseteq published \union superseded
    /\ phase[r] = "superseding" =>
         (arg[r].read.published \intersect published) \subseteq arg[r].old
    /\ arg[r].op = "put" =>
         /\ arg[r].schedule \notin published \union superseded
         /\ \A q \in Requests :
              /\ q # r /\ arg[q].op = "put" => arg[q].schedule # arg[r].schedule
              /\ phase[q] # "idle" => arg[r].schedule \notin arg[q].read.published
AcceptanceSeesTheSchedule ==
  ~stalePut => \A r \in Requests :
    phase[r] # "idle" /\ arg[r].op = "accept" /\ Unmoved(r) =>
      arg[r].read.published = published

ConditionsInv ==
  /\ TypeOK
  /\ ConsentCoversTerms
  /\ SentIsComplete
  /\ ReadingsHold
  /\ ScheduleIsConsented
  /\ SchedulesAreFresh
  /\ AcceptanceSeesTheSchedule

\* "The worker accepts what she actually sees" (WorkSchedulesService.put)
AcceptedIsInForce == status = "ACTIVE" => published = {evidence.schedule}
============================================================================
