-------------------------- MODULE ConditionsProofs --------------------------
(***************************************************************************)
(* Proofs about Conditions, for every number of requests, drafts and       *)
(* schedules.  Each action changes the request of one process; what the    *)
(* other requests know survives because the version only grows and no      *)
(* schedule is published twice.                                            *)
(***************************************************************************)
EXTENDS Conditions, TLAPS

LEMMA RequestShape ==
  ASSUME TypeOK, NEW r \in Requests, arg[r] # NoRequest
  PROVE  /\ arg[r] \in Request
         /\ arg[r].read \in Copy
         /\ arg[r].op \in {"save", "submit", "accept", "reject", "put"}
         /\ arg[r].op = "save" => arg[r].draft \in Drafts
         /\ arg[r].op = "put" => arg[r].schedule \in Schedules /\ arg[r].old \subseteq Schedules
BY DEF TypeOK, Request, NoRequest

LEMMA InitInv == Init => ConditionsInv
<1> SUFFICES ASSUME Init PROVE ConditionsInv
  OBVIOUS
<1>1. TypeOK
  <2>1. phase \in [Requests -> {"idle", "loaded", "superseding"}]
    BY DEF Init
  <2>2. arg \in [Requests -> Request \union {NoRequest}]
    BY DEF Init
  <2>3. /\ status \in Editable \union {"ACTIVE"} /\ version \in Nat
        /\ terms \in Drafts \union {NoTerms} /\ evidence \in Evidence \union {NoEvidence}
        /\ published \in SUBSET Schedules /\ superseded \in SUBSET Schedules
        /\ stalePut \in BOOLEAN /\ accepted \in BOOLEAN
    BY DEF Init, Editable
  <2> QED
    BY <2>1, <2>2, <2>3 DEF TypeOK
<1>2. \A r \in Requests : phase[r] = "idle" /\ arg[r] = NoRequest
  BY DEF Init
<1>3. ReadingsHold
  BY <1>2 DEF ReadingsHold
<1>4. SchedulesAreFresh
  <2>1. NoRequest.op = "none"
    BY DEF NoRequest
  <2> QED
    BY <1>2, <2>1 DEF SchedulesAreFresh
<1>5. AcceptanceSeesTheSchedule
  BY <1>2 DEF AcceptanceSeesTheSchedule
<1>6. ConsentCoversTerms /\ SentIsComplete /\ ScheduleIsConsented
  BY DEF Init, ConsentCoversTerms, SentIsComplete, ScheduleIsConsented
<1> QED
  BY <1>1, <1>3, <1>4, <1>5, <1>6 DEF ConditionsInv

----------------------------------------------------------------------------
(* Requests that are let in *)

LEMMA LoadPreserves ==
  ASSUME ConditionsInv, NEW r \in Requests, NEW rq \in Request, Load(r, rq),
         rq.read = Read,
         status \in Editable,
         rq.op = "submit" => Complete /\ status = "PENDING_CONFIGURATION",
         rq.op \in {"accept", "reject"} => status = "PENDING_WORKER_ACCEPTANCE",
         rq.op = "put" => rq.schedule \in Unused
  PROVE  ConditionsInv'
<1>1. /\ phase[r] = "idle"
      /\ \A q \in Requests : phase'[q] = IF q = r THEN "loaded" ELSE phase[q]
      /\ \A q \in Requests : arg'[q] = IF q = r THEN rq ELSE arg[q]
  BY DEF Load, ConditionsInv, TypeOK
<1>2. UNCHANGED <<status, version, terms, accepted, published, superseded, evidence, stalePut>>
  BY DEF Load, rowVars
<1>3. rq # NoRequest /\ rq.op \in {"save", "submit", "accept", "reject", "put"}
  BY DEF Request, NoRequest
<1>4. TypeOK'
  BY <1>2 DEF Load, ConditionsInv, TypeOK
<1>5. ConsentCoversTerms' /\ SentIsComplete' /\ ScheduleIsConsented'
  BY <1>2 DEF ConditionsInv, ConsentCoversTerms, SentIsComplete, Complete, ScheduleIsConsented
<1>6. ReadingsHold'
  BY <1>1, <1>2, <1>3 DEF ConditionsInv, ReadingsHold, TypeOK, Read, Complete
<1>7. SchedulesAreFresh'
  <2>1. \A q \in Requests : arg[q].op = "put" =>
          /\ arg[q].schedule \notin published \union superseded
          /\ rq.op = "put" => arg[q].schedule # rq.schedule
    BY DEF ConditionsInv, SchedulesAreFresh, Unused
  <2>2. rq.op = "put" =>
          /\ rq.schedule \notin published \union superseded
          /\ \A q \in Requests : phase[q] # "idle" => rq.schedule \notin arg[q].read.published
    BY DEF ConditionsInv, SchedulesAreFresh, Unused
  <2>3. rq.read.published = published
    BY DEF Read
  <2> QED
    BY <1>1, <1>2, <1>3, <2>1, <2>2, <2>3 DEF ConditionsInv, SchedulesAreFresh
<1>8. AcceptanceSeesTheSchedule'
  BY <1>1, <1>2 DEF ConditionsInv, AcceptanceSeesTheSchedule, Unmoved, Read
<1> QED
  BY <1>4, <1>5, <1>6, <1>7, <1>8 DEF ConditionsInv

LEMMA ReadIsACopy == ConditionsInv => Read \in Copy
BY DEF ConditionsInv, TypeOK, Read, Copy, Statuses, Editable

LEMMA CanTransitionFrom ==
  ASSUME NEW from
  PROVE  /\ CanTransition(from, "PENDING_WORKER_ACCEPTANCE", "FAMILY_EMPLOYER")
              => from = "PENDING_CONFIGURATION"
         /\ CanTransition(from, "ACTIVE", "WORKER") => from = "PENDING_WORKER_ACCEPTANCE"
         /\ CanTransition(from, "PENDING_CONFIGURATION", "WORKER")
              => from = "PENDING_WORKER_ACCEPTANCE"
BY DEF CanTransition, RelationshipArcs, Arc

LEMMA LoadsPreserve ==
  ASSUME ConditionsInv, NEW r \in Requests,
         LoadSave(r) \/ LoadSubmit(r) \/ LoadAccept(r) \/ LoadReject(r) \/ LoadPut(r)
  PROVE  ConditionsInv'
<1>1. Read \in Copy
  BY ReadIsACopy
<1>2. CASE LoadSave(r)
  <2>1. PICK d \in Drafts : Load(r, [op |-> "save", read |-> Read, draft |-> d])
    BY <1>2 DEF LoadSave
  <2>2. [op |-> "save", read |-> Read, draft |-> d] \in Request
    BY <1>1 DEF Request
  <2> QED
    BY <1>2, <2>1, <2>2, LoadPreserves DEF LoadSave
<1>3. CASE LoadSubmit(r)
  <2>1. [op |-> "submit", read |-> Read] \in Request
    BY <1>1 DEF Request
  <2> QED
    BY <1>3, <2>1, LoadPreserves, CanTransitionFrom DEF LoadSubmit, Editable
<1>4. CASE LoadAccept(r)
  <2>1. [op |-> "accept", read |-> Read] \in Request
    BY <1>1 DEF Request
  <2> QED
    BY <1>4, <2>1, LoadPreserves, CanTransitionFrom DEF LoadAccept, Editable
<1>5. CASE LoadReject(r)
  <2>1. [op |-> "reject", read |-> Read] \in Request
    BY <1>1 DEF Request
  <2> QED
    BY <1>5, <2>1, LoadPreserves, CanTransitionFrom DEF LoadReject, Editable
<1>6. CASE LoadPut(r)
  <2>1. PICK s \in Unused :
          Load(r, [op |-> "put", read |-> Read, schedule |-> s, old |-> {}])
    BY <1>6 DEF LoadPut
  <2>2. [op |-> "put", read |-> Read, schedule |-> s, old |-> {}] \in Request
    BY <1>1, <2>1 DEF Request, Unused
  <2> QED
    BY <1>6, <2>1, <2>2, LoadPreserves DEF LoadPut
<1> QED
  BY <1>2, <1>3, <1>4, <1>5, <1>6

----------------------------------------------------------------------------
(* Requests that end *)

\* A request that is done no longer says anything; the others see a version
\* that has not gone back.
LEMMA DoneFrame ==
  ASSUME ConditionsInv, NEW r \in Requests, phase[r] # "idle", Done(r)
  PROVE  /\ arg[r] # NoRequest /\ arg[r] \in Request /\ arg[r].read \in Copy
         /\ \A q \in Requests : phase'[q] = IF q = r THEN "idle" ELSE phase[q]
         /\ \A q \in Requests : arg'[q] = IF q = r THEN NoRequest ELSE arg[q]
         /\ phase' \in [Requests -> {"idle", "loaded", "superseding"}]
         /\ arg' \in [Requests -> Request \union {NoRequest}]
<1>1. arg[r] # NoRequest
  BY DEF ConditionsInv, ReadingsHold
<1> QED
  BY <1>1, RequestShape DEF Done, ConditionsInv, TypeOK

LEMMA GiveUpPreserves ==
  ASSUME ConditionsInv, NEW r \in Requests, phase[r] # "idle", Done(r),
         UNCHANGED <<rowVars, stalePut>>
  PROVE  ConditionsInv'
<1>1. UNCHANGED <<status, version, terms, accepted, published, superseded, evidence, stalePut>>
  BY DEF rowVars
<1>2. TypeOK'
  BY <1>1, DoneFrame DEF ConditionsInv, TypeOK
<1>3. ConsentCoversTerms' /\ SentIsComplete' /\ ScheduleIsConsented'
  BY <1>1 DEF ConditionsInv, ConsentCoversTerms, SentIsComplete, Complete, ScheduleIsConsented
<1>4. ReadingsHold'
  BY <1>1, DoneFrame DEF ConditionsInv, ReadingsHold, NoRequest
<1>5. SchedulesAreFresh'
  BY <1>1, DoneFrame DEF ConditionsInv, SchedulesAreFresh, NoRequest
<1>6. AcceptanceSeesTheSchedule'
  BY <1>1, DoneFrame DEF ConditionsInv, AcceptanceSeesTheSchedule, Unmoved
<1> QED
  BY <1>2, <1>3, <1>4, <1>5, <1>6 DEF ConditionsInv

\* The four transactions that compare: whatever they write, the version moves
\* on and no schedule changes.
LEMMA CommitPreserves ==
  ASSUME ConditionsInv, NEW r \in Requests, phase[r] = "loaded", Done(r), NextVersion,
         UNCHANGED <<published, superseded, stalePut>>,
         status' \in Editable \union {"ACTIVE"},
         terms' \in Drafts \union {NoTerms}, accepted' \in BOOLEAN,
         evidence' \in Evidence \union {NoEvidence},
         ConsentCoversTerms', SentIsComplete', ScheduleIsConsented'
  PROVE  ConditionsInv'
<1>1. version \in Nat /\ version' = version + 1
  BY DEF ConditionsInv, TypeOK, NextVersion
<1>2. TypeOK'
  BY <1>1, DoneFrame DEF ConditionsInv, TypeOK
<1>3. \A q \in Requests : phase[q] # "idle" => arg[q].read.version \in Nat
  BY RequestShape DEF ConditionsInv, ReadingsHold, Copy
<1>4. ReadingsHold'
  BY <1>1, <1>3, DoneFrame DEF ConditionsInv, ReadingsHold, NoRequest
<1>5. SchedulesAreFresh'
  BY DoneFrame DEF ConditionsInv, SchedulesAreFresh, NoRequest
<1>6. \A q \in Requests : phase[q] # "idle" => version' # arg[q].read.version
  BY <1>1, <1>3 DEF ConditionsInv, ReadingsHold
<1>7. AcceptanceSeesTheSchedule'
  BY <1>6, DoneFrame DEF AcceptanceSeesTheSchedule, Unmoved, NoRequest
<1> QED
  BY <1>2, <1>4, <1>5, <1>7 DEF ConditionsInv

LEMMA SaveAndSendPreserve ==
  ASSUME ConditionsInv, NEW r \in Requests,
         CommitSave(r) \/ CommitSubmit(r) \/ CommitReject(r)
  PROVE  ConditionsInv'
<1>1. /\ phase[r] = "loaded" /\ Unmoved(r) /\ Done(r) /\ NextVersion
      /\ UNCHANGED <<accepted, published, superseded, evidence, stalePut>>
  BY DEF CommitSave, CommitSubmit, CommitReject, Commit
<1>2. arg[r] # NoRequest
  BY <1>1 DEF ConditionsInv, ReadingsHold
<1>3. status' \in Editable
  BY DEF CommitSave, CommitSubmit, CommitReject, Editable
<1>4. terms' \in Drafts \union {NoTerms}
  BY <1>2, RequestShape DEF CommitSave, CommitSubmit, CommitReject, Commit, ConditionsInv, TypeOK
<1>5. SentIsComplete'
  <2>1. CASE CommitSubmit(r)
    BY <1>1, <2>1 DEF CommitSubmit, Commit, Unmoved, ConditionsInv, ReadingsHold,
                      SentIsComplete, Complete
  <2>2. CASE CommitSave(r) \/ CommitReject(r)
    BY <2>2 DEF CommitSave, CommitReject, SentIsComplete
  <2> QED
    BY <2>1, <2>2
<1>6. ConsentCoversTerms' /\ ScheduleIsConsented'
  BY <1>1, <1>3 DEF ConditionsInv, ConsentCoversTerms, ScheduleIsConsented, Editable
<1> QED
  BY <1>1, <1>3, <1>4, <1>5, <1>6, CommitPreserves DEF ConditionsInv, TypeOK

LEMMA AcceptPreserves ==
  ASSUME ConditionsInv, NEW r \in Requests, CommitAccept(r)
  PROVE  ConditionsInv'
<1>1. /\ phase[r] = "loaded" /\ arg[r].op = "accept" /\ Unmoved(r) /\ Done(r) /\ NextVersion
      /\ status' = "ACTIVE" /\ accepted' = TRUE
      /\ UNCHANGED <<terms, published, superseded, stalePut>>
  BY DEF CommitAccept, Commit
<1>2. arg[r] # NoRequest /\ arg[r].read \in Copy
  BY <1>1, RequestShape DEF ConditionsInv, ReadingsHold
<1>3. PICK s \in FirstOf(arg[r].read.published) :
        evidence' = [version |-> arg[r].read.version, terms |-> arg[r].read.terms,
                     schedule |-> s]
  BY DEF CommitAccept
<1>4. /\ status = "PENDING_WORKER_ACCEPTANCE" /\ Complete
      /\ arg[r].read.version = version /\ arg[r].read.terms = terms
  BY <1>1 DEF ConditionsInv, ReadingsHold, SentIsComplete, Unmoved
<1>5. evidence' \in Evidence
  BY <1>2, <1>3, <1>4 DEF Evidence, Copy, FirstOf, Complete
<1>6. evidence' # NoEvidence
  BY <1>5, EvidenceAssumption DEF Evidence
<1>7. ConsentCoversTerms'
  BY <1>1, <1>3, <1>4, <1>6 DEF ConsentCoversTerms, NextVersion
<1>8. SentIsComplete'
  BY <1>1, <1>4 DEF SentIsComplete, Complete
<1>9. ScheduleIsConsented'
  <2>1. SUFFICES ASSUME ~stalePut
                 PROVE  /\ \A t, u \in published : t = u
                        /\ published = {s}
    BY <1>1, <1>3 DEF ScheduleIsConsented
  <2>2. arg[r].read.published = published
    BY <1>1, <2>1 DEF ConditionsInv, AcceptanceSeesTheSchedule
  <2>3. s \in published
    BY <1>3, <1>4, <2>2 DEF FirstOf, Complete
  <2> QED
    BY <2>1, <2>3 DEF ConditionsInv, ScheduleIsConsented
<1> QED
  BY <1>1, <1>5, <1>7, <1>8, <1>9, CommitPreserves DEF ConditionsInv, TypeOK

----------------------------------------------------------------------------
(* put *)

LEMMA SupersedePreserves ==
  ASSUME ConditionsInv, NEW r \in Requests, Supersede(r)
  PROVE  ConditionsInv'
<1>1. /\ phase[r] = "loaded" /\ arg[r].op = "put"
      /\ UNCHANGED <<status, version, terms, accepted, published, superseded, evidence, stalePut>>
  BY DEF Supersede, rowVars
<1>2. arg[r] # NoRequest /\ arg[r] \in Request
  BY <1>1, RequestShape DEF ConditionsInv, ReadingsHold
<1>3. arg[r] \in [op: {"put"}, read: Copy, schedule: Schedules, old: SUBSET Schedules]
  BY <1>1, <1>2 DEF Request
<1>4. /\ arg'[r] = [arg[r] EXCEPT !.old = published]
      /\ \A q \in Requests : q # r => arg'[q] = arg[q]
      /\ \A q \in Requests : phase'[q] = IF q = r THEN "superseding" ELSE phase[q]
  BY DEF Supersede, ConditionsInv, TypeOK
<1>5. /\ arg'[r] \in Request /\ arg'[r] # NoRequest
      /\ arg'[r].op = arg[r].op /\ arg'[r].read = arg[r].read
      /\ arg'[r].schedule = arg[r].schedule /\ arg'[r].old = published
  BY <1>1, <1>3, <1>4 DEF ConditionsInv, TypeOK, Request, NoRequest
<1>6. \A q \in Requests :
        /\ arg'[q].op = arg[q].op /\ arg'[q].read = arg[q].read
        /\ arg'[q].schedule = arg[q].schedule
        /\ phase'[q] = "idle" <=> phase[q] = "idle"
        /\ arg'[q] = NoRequest <=> arg[q] = NoRequest
        /\ q # r => arg'[q].old = arg[q].old /\ phase'[q] = phase[q]
  BY <1>1, <1>2, <1>4, <1>5
<1>7. TypeOK' /\ ConsentCoversTerms' /\ SentIsComplete' /\ ScheduleIsConsented'
  <2>1. TypeOK'
    BY <1>1, <1>5 DEF Supersede, ConditionsInv, TypeOK
  <2> QED
    BY <1>1, <2>1 DEF ConditionsInv, ConsentCoversTerms, SentIsComplete, Complete,
                      ScheduleIsConsented
<1>8. ReadingsHold'
  BY <1>1, <1>6 DEF ConditionsInv, ReadingsHold
<1>9. SchedulesAreFresh'
  <2>1. \A q \in Requests : phase'[q] = "superseding" =>
          (arg'[q].read.published \intersect published') \subseteq arg'[q].old
    BY <1>1, <1>5, <1>6 DEF ConditionsInv, SchedulesAreFresh
  <2> QED
    BY <1>1, <1>6, <2>1 DEF ConditionsInv, SchedulesAreFresh
<1>10. AcceptanceSeesTheSchedule'
  BY <1>1, <1>4, <1>5 DEF ConditionsInv, AcceptanceSeesTheSchedule, Unmoved
<1> QED
  BY <1>7, <1>8, <1>9, <1>10 DEF ConditionsInv

LEMMA PublishPreserves ==
  ASSUME ConditionsInv, NEW r \in Requests, Publish(r)
  PROVE  ConditionsInv'
<1>1. /\ phase[r] = "superseding" /\ phase[r] # "idle" /\ arg[r].op = "put" /\ Done(r)
      /\ UNCHANGED <<version, terms, accepted, evidence>>
      /\ published' = (published \ arg[r].old) \union {arg[r].schedule}
      /\ superseded' = superseded \union (published \intersect arg[r].old)
      /\ status' = StatusAfterPut(r)
      /\ stalePut' = (stalePut \/ ~Unmoved(r) \/ published # arg[r].read.published)
  BY DEF Publish, ConditionsInv, ReadingsHold
<1>2. /\ arg[r] # NoRequest /\ arg[r].read.status \in Editable
      /\ arg[r].schedule \in Schedules /\ arg[r].old \subseteq Schedules
  BY <1>1, DoneFrame, RequestShape DEF ConditionsInv, ReadingsHold
<1>3. /\ status' \in {status, "PENDING_CONFIGURATION"}
      /\ published' # {}
  BY <1>1 DEF StatusAfterPut
<1>4. ~stalePut' =>
        /\ ~stalePut /\ Unmoved(r) /\ status \in Editable
        /\ status' = "PENDING_CONFIGURATION"
        /\ published = arg[r].read.published
        /\ published' = {arg[r].schedule}
  <2>1. SUFFICES ASSUME ~stalePut'
                 PROVE  /\ ~stalePut /\ Unmoved(r) /\ status \in Editable
                        /\ status' = "PENDING_CONFIGURATION"
                        /\ published = arg[r].read.published
                        /\ published' = {arg[r].schedule}
    OBVIOUS
  <2>2. ~stalePut /\ Unmoved(r) /\ published = arg[r].read.published
    BY <1>1, <2>1
  <2>3. published \subseteq arg[r].old
    BY <1>1, <2>2 DEF ConditionsInv, SchedulesAreFresh
  <2> QED
    BY <1>1, <1>2, <2>2, <2>3 DEF Unmoved, StatusAfterPut, Editable
<1>5. TypeOK'
  <2>1. stalePut' \in BOOLEAN
    BY <1>1
  <2> QED
    BY <1>1, <1>2, <1>3, <2>1, DoneFrame DEF ConditionsInv, TypeOK, Editable
<1>6. ConsentCoversTerms' /\ SentIsComplete'
  BY <1>1, <1>3 DEF ConditionsInv, ConsentCoversTerms, SentIsComplete, Complete
<1>7. ReadingsHold'
  BY <1>1, <1>3, DoneFrame DEF ConditionsInv, ReadingsHold, NoRequest
<1>8. ScheduleIsConsented'
  BY <1>4 DEF ScheduleIsConsented
<1>9. SchedulesAreFresh'
  <2>1. published' \union superseded' = published \union superseded \union {arg[r].schedule}
    BY <1>1
  <2>2. \A q \in Requests : q # r /\ arg[q].op = "put" => arg[q].schedule # arg[r].schedule
    BY <1>1 DEF ConditionsInv, SchedulesAreFresh
  <2>3. \A q \in Requests : phase[q] # "idle" => arg[r].schedule \notin arg[q].read.published
    BY <1>1 DEF ConditionsInv, SchedulesAreFresh
  <2>4. \A q \in Requests : phase[q] # "idle" =>
          (arg[q].read.published \intersect published') \subseteq published
    BY <1>1, <2>3
  <2> QED
    BY <1>1, <2>1, <2>2, <2>3, <2>4, DoneFrame DEF ConditionsInv, SchedulesAreFresh, NoRequest
<1>10. AcceptanceSeesTheSchedule'
  <2>1. \A q \in Requests : phase[q] # "idle" /\ arg[q].op = "accept" =>
          arg[q].read.status = "PENDING_WORKER_ACCEPTANCE"
    BY DEF ConditionsInv, ReadingsHold
  <2> QED
    BY <1>1, <1>4, <2>1, DoneFrame DEF AcceptanceSeesTheSchedule, Unmoved, NoRequest
<1> QED
  BY <1>5, <1>6, <1>7, <1>8, <1>9, <1>10 DEF ConditionsInv

----------------------------------------------------------------------------
(* The theorems *)

LEMMA NextInv == ConditionsInv /\ [Next]_vars => ConditionsInv'
<1> SUFFICES ASSUME ConditionsInv, [Next]_vars PROVE ConditionsInv'
  OBVIOUS
<1>1. CASE UNCHANGED vars
  BY <1>1 DEF vars, rowVars, requestVars, ConditionsInv, TypeOK, ConsentCoversTerms,
              SentIsComplete, Complete, ReadingsHold, ScheduleIsConsented, SchedulesAreFresh,
              AcceptanceSeesTheSchedule, Unmoved
<1>2. CASE Next
  <2>1. PICK r \in Requests :
          \/ LoadSave(r) \/ LoadSubmit(r) \/ LoadAccept(r) \/ LoadReject(r) \/ LoadPut(r)
          \/ CommitSave(r) \/ CommitSubmit(r) \/ CommitAccept(r) \/ CommitReject(r)
          \/ Conflict(r) \/ Supersede(r) \/ Publish(r) \/ Abort(r)
    BY <1>2 DEF Next
  <2>2. CASE LoadSave(r) \/ LoadSubmit(r) \/ LoadAccept(r) \/ LoadReject(r) \/ LoadPut(r)
    BY <2>2, LoadsPreserve
  <2>3. CASE CommitSave(r) \/ CommitSubmit(r) \/ CommitReject(r)
    BY <2>3, SaveAndSendPreserve
  <2>4. CASE CommitAccept(r)
    BY <2>4, AcceptPreserves
  <2>5. CASE Conflict(r) \/ Abort(r)
    BY <2>5, GiveUpPreserves DEF Conflict, Abort
  <2>6. CASE Supersede(r)
    BY <2>6, SupersedePreserves
  <2>7. CASE Publish(r)
    BY <2>7, PublishPreserves
  <2> QED
    BY <2>1, <2>2, <2>3, <2>4, <2>5, <2>6, <2>7
<1> QED
  BY <1>1, <1>2

\* The inductive invariant: what a request may conclude from what it read, as
\* the handlers of RelationshipsService and put interleave.
THEOREM ConditionsInvariant == Spec => []ConditionsInv
<1>1. Init => ConditionsInv
  BY InitInv
<1>2. ConditionsInv /\ [Next]_vars => ConditionsInv'
  BY NextInv
<1> QED
  BY <1>1, <1>2, PTL DEF Spec

\* acceptConditions: an active relationship has the worker's evidence of its
\* very terms.
THEOREM ConsentIsReal == Spec => []ConsentCoversTerms
<1>1. ConditionsInv => ConsentCoversTerms
  BY DEF ConditionsInv
<1> QED
  BY <1>1, ConditionsInvariant, PTL

\* put: while none overlaps another change, the schedule in force is the one
\* that was accepted.
THEOREM ScheduleIsReal == Spec => []ScheduleIsConsented
<1>1. ConditionsInv => ScheduleIsConsented
  BY DEF ConditionsInv
<1> QED
  BY <1>1, ConditionsInvariant, PTL

\* The status moves along the arcs of employmentRelationshipStateMachine.
THEOREM StatusFollowsTheMachine == Spec => FollowsTheMachine
<1> DEFINE Moves == ~stalePut' /\ status' # status =>
                      \E a \in RelationshipArcs : a.from = status /\ a.to = status'
<1>1. ConditionsInv /\ [Next]_vars => [Moves]_vars
  <2> SUFFICES ASSUME ConditionsInv, Next, ~stalePut', status' # status
               PROVE  \E a \in RelationshipArcs : a.from = status /\ a.to = status'
    OBVIOUS
  <2>1. PICK r \in Requests :
          \/ LoadSave(r) \/ LoadSubmit(r) \/ LoadAccept(r) \/ LoadReject(r) \/ LoadPut(r)
          \/ CommitSave(r) \/ CommitSubmit(r) \/ CommitAccept(r) \/ CommitReject(r)
          \/ Conflict(r) \/ Supersede(r) \/ Publish(r) \/ Abort(r)
    BY DEF Next
  <2>2. \/ status = "PENDING_CONFIGURATION" /\ status' = "PENDING_WORKER_ACCEPTANCE"
        \/ status = "PENDING_WORKER_ACCEPTANCE" /\ status' = "ACTIVE"
        \/ status = "PENDING_WORKER_ACCEPTANCE" /\ status' = "PENDING_CONFIGURATION"
    <3>1. CASE LoadSave(r) \/ LoadSubmit(r) \/ LoadAccept(r) \/ LoadReject(r) \/ LoadPut(r)
      BY <3>1 DEF LoadSave, LoadSubmit, LoadAccept, LoadReject, LoadPut, Load, rowVars
    <3>2. CASE CommitSave(r) \/ CommitSubmit(r) \/ CommitAccept(r) \/ CommitReject(r)
      BY <3>2 DEF CommitSave, CommitSubmit, CommitAccept, CommitReject, Commit, Unmoved,
                  ConditionsInv, ReadingsHold, Editable
    <3>3. CASE Conflict(r) \/ Supersede(r) \/ Abort(r)
      BY <3>3 DEF Conflict, Supersede, Abort, rowVars
    <3>4. CASE Publish(r)
      BY <3>4 DEF Publish, StatusAfterPut, Unmoved, ConditionsInv, ReadingsHold
    <3> QED
      BY <2>1, <3>1, <3>2, <3>3, <3>4
  <2> QED
    BY <2>2 DEF RelationshipArcs, Arc
<1> QED
  BY <1>1, ConditionsInvariant, PTL DEF Spec, FollowsTheMachine

\* The version column: equal versions, equal terms.
THEOREM VersionTellsTheTerms == Spec => VersionWitnessesTerms
<1> DEFINE Keeps == version' = version =>
                      /\ terms' = terms
                      /\ status' \in {status, "PENDING_CONFIGURATION"}
<1>1. ConditionsInv /\ [Next]_vars => [Keeps]_vars
  <2> SUFFICES ASSUME ConditionsInv, Next, version' = version
               PROVE  terms' = terms /\ status' \in {status, "PENDING_CONFIGURATION"}
    OBVIOUS
  <2>1. PICK r \in Requests :
          \/ LoadSave(r) \/ LoadSubmit(r) \/ LoadAccept(r) \/ LoadReject(r) \/ LoadPut(r)
          \/ CommitSave(r) \/ CommitSubmit(r) \/ CommitAccept(r) \/ CommitReject(r)
          \/ Conflict(r) \/ Supersede(r) \/ Publish(r) \/ Abort(r)
    BY DEF Next
  <2>2. ~(CommitSave(r) \/ CommitSubmit(r) \/ CommitAccept(r) \/ CommitReject(r))
    BY DEF CommitSave, CommitSubmit, CommitAccept, CommitReject, NextVersion, ConditionsInv,
           TypeOK
  <2>3. CASE LoadSave(r) \/ LoadSubmit(r) \/ LoadAccept(r) \/ LoadReject(r) \/ LoadPut(r)
    BY <2>3 DEF LoadSave, LoadSubmit, LoadAccept, LoadReject, LoadPut, Load, rowVars
  <2>4. CASE Conflict(r) \/ Supersede(r) \/ Abort(r) \/ Publish(r)
    BY <2>4 DEF Conflict, Supersede, Abort, Publish, StatusAfterPut, rowVars
  <2> QED
    BY <2>1, <2>2, <2>3, <2>4
<1> QED
  BY <1>1, ConditionsInvariant, PTL DEF Spec, VersionWitnessesTerms
============================================================================
