------------------------- MODULE InvitationsProofs -------------------------
(***************************************************************************)
(* Proofs about Invitations, alone and at a household that may be archived, *)
(* for every number of rows, requests and days.                            *)
(***************************************************************************)
EXTENDS Households, TLAPS

LEMMA InitInv == Init => InvitationsInv
<1> SUFFICES ASSUME Init PROVE InvitationsInv
  OBVIOUS
<1>1. NoRequest.op = "none"
  BY DEF NoRequest
<1>2. TypeOK
  <2>1. phase \in [Requests -> {"idle", "found", "usable"}] /\ now \in Nat
    BY DEF Init
  <2>2. arg \in [Requests -> Request \union {NoRequest}]
    BY DEF Init
  <2>3. status \in [Invitations -> Statuses] /\ expiresAt \in [Invitations -> Nat]
    BY DEF Init, Statuses
  <2>4. /\ linked \in [Invitations -> BOOLEAN] /\ relationships \in [Invitations -> Nat]
        /\ overlap \in BOOLEAN /\ overtaken \subseteq Invitations
    BY DEF Init
  <2> QED
    BY <2>1, <2>2, <2>3, <2>4 DEF TypeOK
<1>3. OneRelationshipEach /\ ExpiredIsOver /\ OnePending /\ UnansweredIsUnlinked
  BY DEF Init, OneRelationshipEach, ExpiredIsOver, OnePending, UnansweredIsUnlinked
<1>4. CopiesHold /\ CreateIsAlone
  BY <1>1 DEF Init, CopiesHold, CreateIsAlone, Answers, ByToken, ById
<1> QED
  BY <1>2, <1>3, <1>4 DEF InvitationsInv

LEMMA RequestShape ==
  ASSUME TypeOK, NEW r \in Requests, arg[r].op \in ByToken \union ById
  PROVE  arg[r].id \in Invitations /\ arg[r].expiresAt \in Nat
<1>1. NoRequest.op = "none"
  BY DEF NoRequest
<1> QED
  BY <1>1 DEF TypeOK, Request, ByToken, ById, Answers

----------------------------------------------------------------------------
(* Steps that leave the rows alone *)

\* One request begins, goes on or ends; the rows and the time stay.
LEMMA RequestStepPreserves ==
  ASSUME InvitationsInv, NEW r \in Requests,
         NEW p \in {"idle", "found", "usable"}, NEW rq \in Request \union {NoRequest},
         phase' = [phase EXCEPT ![r] = p], arg' = [arg EXCEPT ![r] = rq],
         UNCHANGED <<rowVars, now, overtaken>>,
         p = "idle" <=> rq.op = "none",
         p = "usable" => rq.op \in Answers,
         rq.op \in ById => rq.status = "PENDING",
         rq.op \in ByToken \union ById => rq.id \in Invitations /\ status[rq.id] # "NONE",
         rq.op = "create" => NoneIsPending,
         overlap' \in BOOLEAN, overlap => overlap',
         ~overlap' /\ rq.op = "create" => \A q \in Requests : arg[q].op # "create"
  PROVE  InvitationsInv'
<1>1. UNCHANGED <<status, expiresAt, linked, relationships, now, overtaken>>
  BY DEF rowVars
<1>2. /\ \A q \in Requests : phase'[q] = IF q = r THEN p ELSE phase[q]
      /\ \A q \in Requests : arg'[q] = IF q = r THEN rq ELSE arg[q]
  BY DEF InvitationsInv, TypeOK
<1>3. TypeOK'
  BY <1>1 DEF InvitationsInv, TypeOK
<1>4. OneRelationshipEach' /\ ExpiredIsOver' /\ OnePending' /\ UnansweredIsUnlinked'
  BY <1>1 DEF InvitationsInv, OneRelationshipEach, ExpiredIsOver, OnePending,
              UnansweredIsUnlinked, IsOver
<1>5. CopiesHold'
  BY <1>1, <1>2 DEF InvitationsInv, CopiesHold
<1>6. CreateIsAlone'
  <2>1. CASE rq.op = "create"
    BY <1>1, <1>2, <2>1 DEF InvitationsInv, CreateIsAlone, NoneIsPending
  <2>2. CASE rq.op # "create"
    BY <1>1, <1>2, <2>2 DEF InvitationsInv, CreateIsAlone, NoneIsPending
  <2> QED
    BY <2>1, <2>2
<1> QED
  BY <1>3, <1>4, <1>5, <1>6 DEF InvitationsInv

LEMMA BeginPreserves ==
  ASSUME InvitationsInv, NEW r \in Requests,
         \/ FindDuplicate(r)
         \/ \E i \in Invitations : FindByToken(r, i) \/ FindOwned(r, i)
  PROVE  InvitationsInv'
<1>1. CASE FindDuplicate(r)
  <2>1. [op |-> "create"] \in Request /\ [op |-> "create"].op = "create"
    BY DEF Request
  <2>2. /\ phase' = [phase EXCEPT ![r] = "found"]
        /\ arg' = [arg EXCEPT ![r] = [op |-> "create"]]
        /\ UNCHANGED <<rowVars, now, overtaken>>
        /\ NoneIsPending
        /\ overlap' = (overlap \/ \E q \in Requests : At(q, "found", {"create"}))
    BY <1>1 DEF FindDuplicate, Begin, NoDuplicate
  <2>3. ~overlap' => \A q \in Requests : arg[q].op # "create"
    BY <2>2 DEF InvitationsInv, CopiesHold, At, Answers, TypeOK
  <2>4. overlap' \in BOOLEAN /\ (overlap => overlap')
    BY <2>2 DEF InvitationsInv, TypeOK
  <2> HIDE DEF Request
  <2> DEFINE rq == [op |-> "create"]
  <2>5. rq.op = "create" /\ rq \in Request \union {NoRequest}
    BY <2>1
  <2>6. arg' = [arg EXCEPT ![r] = rq]
    BY <2>2
  <2> HIDE DEF rq
  <2> QED
    BY <2>2, <2>3, <2>4, <2>5, <2>6, RequestStepPreserves DEF ByToken, ById, Answers
<1>2. ASSUME NEW i \in Invitations, FindByToken(r, i) \/ FindOwned(r, i)
      PROVE  InvitationsInv'
  <2>1. PICK op \in ByToken \union ById :
          Find(r, op, i) /\ (op \in ById => status[i] = "PENDING")
    BY <1>2 DEF FindByToken, FindOwned, IsPending, ByToken, ById, Answers
  <2> DEFINE rq == [op |-> op, id |-> i, status |-> status[i], expiresAt |-> expiresAt[i]]
  <2>2. rq \in Request
    BY DEF Request, InvitationsInv, TypeOK
  <2>3. /\ phase' = [phase EXCEPT ![r] = "found"]
        /\ arg' = [arg EXCEPT ![r] = rq]
        /\ UNCHANGED <<rowVars, now, overtaken, overlap>>
        /\ status[i] # "NONE"
    BY <2>1 DEF Find, Begin, historyVars
  <2>4. rq.op = op /\ rq.id = i /\ rq.status = status[i]
    OBVIOUS
  <2> HIDE DEF rq
  <2>5. overlap' \in BOOLEAN /\ (overlap => overlap')
    BY <2>3 DEF InvitationsInv, TypeOK
  <2> QED
    BY <2>1, <2>2, <2>3, <2>4, <2>5, RequestStepPreserves DEF ByToken, ById, Answers
<1> QED
  BY <1>1, <1>2

LEMMA GoOnPreserves ==
  ASSUME InvitationsInv, NEW r \in Requests,
         Usable(r) \/ Answered(r) \/ AlreadyUsed(r) \/ Abort(r)
  PROVE  InvitationsInv'
<1>1. UNCHANGED <<rowVars, now, overtaken, overlap>>
  BY DEF Usable, Answered, AlreadyUsed, Abort, historyVars
<1>2. overlap' \in BOOLEAN /\ (overlap => overlap')
  BY <1>1 DEF InvitationsInv, TypeOK
<1>3. CASE Usable(r)
  <2>1. /\ phase' = [phase EXCEPT ![r] = "usable"] /\ arg' = arg
        /\ arg[r].op \in Answers
    BY <1>3 DEF Usable, At
  <2>2. arg' = [arg EXCEPT ![r] = arg[r]] /\ arg[r] \in Request \union {NoRequest}
    BY <2>1 DEF InvitationsInv, TypeOK
  <2>3. arg[r].id \in Invitations /\ status[arg[r].id] # "NONE"
    BY <2>1, RequestShape DEF InvitationsInv, CopiesHold, ByToken
  <2> QED
    BY <1>1, <1>2, <2>1, <2>2, <2>3, RequestStepPreserves DEF Answers, ById
<1>4. CASE Answered(r) \/ AlreadyUsed(r) \/ Abort(r)
  <2>1. phase' = [phase EXCEPT ![r] = "idle"] /\ arg' = [arg EXCEPT ![r] = NoRequest]
    BY <1>4 DEF Answered, AlreadyUsed, Abort, Done
  <2>2. NoRequest.op = "none"
    BY DEF NoRequest
  <2> QED
    BY <1>1, <1>2, <2>1, <2>2, RequestStepPreserves DEF Answers, ByToken, ById
<1> QED
  BY <1>3, <1>4

----------------------------------------------------------------------------
(* Steps that write a row *)

\* Writing a row that exists leaves the other requests' copies as they were.
LEMMA WritePreserves ==
  ASSUME InvitationsInv, NEW r \in Requests, phase[r] # "idle", Done(r),
         NEW i \in Invitations, NEW s \in Statuses \ {"NONE"},
         status' = [status EXCEPT ![i] = s],
         s = "PENDING" => status[i] = "PENDING" \/ (NoneIsPending \/ overlap),
         s = "PENDING" /\ status[i] # "PENDING" =>
           \A q \in Requests : overlap \/ (arg[q].op = "create" => q = r),
         expiresAt' \in [Invitations -> Nat],
         linked' \in [Invitations -> BOOLEAN], relationships' \in [Invitations -> Nat],
         UNCHANGED <<now, overlap>>,
         overtaken' \subseteq Invitations,
         OneRelationshipEach', ExpiredIsOver', UnansweredIsUnlinked'
  PROVE  InvitationsInv'
<1>1. NoRequest.op = "none"
  BY DEF NoRequest
<1>2. /\ \A q \in Requests : phase'[q] = IF q = r THEN "idle" ELSE phase[q]
      /\ \A q \in Requests : arg'[q] = IF q = r THEN NoRequest ELSE arg[q]
      /\ \A j \in Invitations : status'[j] = IF j = i THEN s ELSE status[j]
  BY DEF Done, InvitationsInv, TypeOK
<1>3. TypeOK'
  BY DEF Done, InvitationsInv, TypeOK
<1>4. OnePending'
  BY <1>2 DEF InvitationsInv, OnePending, NoneIsPending
<1>5. CopiesHold'
  <2>1. \A q \in Requests : q # r /\ arg[q].op \in ByToken \union ById =>
          status'[arg'[q].id] # "NONE"
    BY <1>2, RequestShape DEF InvitationsInv, CopiesHold
  <2> QED
    BY <1>1, <1>2, <2>1 DEF InvitationsInv, CopiesHold, Answers, ByToken, ById
<1>6. CreateIsAlone'
  BY <1>1, <1>2 DEF InvitationsInv, CreateIsAlone, NoneIsPending
<1> QED
  BY <1>3, <1>4, <1>5, <1>6 DEF InvitationsInv

LEMMA CreatePreserves ==
  ASSUME InvitationsInv, NEW r \in Requests, Create(r)
  PROVE  InvitationsInv'
<1>1. PICK i \in Invitations :
        /\ status[i] = "NONE"
        /\ status' = [status EXCEPT ![i] = "PENDING"]
        /\ expiresAt' = [expiresAt EXCEPT ![i] = now + Validity]
  BY DEF Create
<1>2. /\ phase[r] # "idle" /\ arg[r].op = "create" /\ Done(r)
      /\ UNCHANGED <<linked, relationships, now, overlap, overtaken>>
  BY DEF Create, At, historyVars
<1>3. overlap \/ (NoneIsPending /\ \A q \in Requests : arg[q].op = "create" => q = r)
  BY <1>2 DEF InvitationsInv, CreateIsAlone
<1>4. expiresAt' \in [Invitations -> Nat]
  BY <1>1, TimeAssumption DEF InvitationsInv, TypeOK
<1>5. OneRelationshipEach' /\ UnansweredIsUnlinked' /\ ExpiredIsOver'
  BY <1>1, <1>2 DEF InvitationsInv, OneRelationshipEach, UnansweredIsUnlinked, ExpiredIsOver,
                    IsOver, TypeOK
<1> QED
  BY <1>1, <1>2, <1>3, <1>4, <1>5, WritePreserves DEF InvitationsInv, TypeOK, Statuses

LEMMA AnswerPreserves ==
  ASSUME InvitationsInv, NEW r \in Requests, Accept(r) \/ Reject(r)
  PROVE  InvitationsInv'
<1> DEFINE i == arg[r].id
           s == IF arg[r].op = "accept" THEN "ACCEPTED" ELSE "REJECTED"
<1>1. /\ phase[r] # "idle" /\ arg[r].op \in Answers /\ Done(r)
      /\ status[i] = "PENDING" /\ status' = [status EXCEPT ![i] = s]
      /\ UNCHANGED <<expiresAt, now, overlap, overtaken>>
  BY DEF Accept, Reject, At, StillPending, historyVars, Answers
<1>2. i \in Invitations
  BY <1>1, RequestShape DEF InvitationsInv, ByToken
<1>3. /\ linked' = [linked EXCEPT ![i] = s = "ACCEPTED"]
      /\ relationships' =
           [relationships EXCEPT ![i] = IF s = "ACCEPTED" THEN @ + 1 ELSE @]
  <2>1. CASE Accept(r)
    BY <2>1 DEF Accept, At
  <2>2. CASE Reject(r)
    <3>1. arg[r].op = "reject" /\ UNCHANGED <<linked, relationships>>
      BY <2>2 DEF Reject, At
    <3>2. linked[i] = FALSE
      BY <1>1, <1>2 DEF InvitationsInv, UnansweredIsUnlinked, TypeOK
    <3> QED
      BY <1>2, <3>1, <3>2 DEF InvitationsInv, TypeOK
  <2> QED
    BY <2>1, <2>2
<1>4. /\ ~linked[i] /\ relationships[i] = 0
  BY <1>1, <1>2 DEF InvitationsInv, UnansweredIsUnlinked, OneRelationshipEach
<1>5. s \in Statuses \ {"NONE", "PENDING"}
  BY DEF Statuses
<1> HIDE DEF i, s
<1>6. linked' \in [Invitations -> BOOLEAN] /\ relationships' \in [Invitations -> Nat]
  BY <1>2, <1>3 DEF InvitationsInv, TypeOK
<1>7. \A j \in Invitations :
        /\ status'[j] = IF j = i THEN s ELSE status[j]
        /\ j # i => linked'[j] = linked[j] /\ relationships'[j] = relationships[j]
  BY <1>1, <1>3 DEF InvitationsInv, TypeOK
<1>8. /\ s = "ACCEPTED" => linked'[i] /\ relationships'[i] = 1
      /\ s # "ACCEPTED" => ~linked'[i] /\ relationships'[i] = 0
  <2>1. linked'[i] <=> s = "ACCEPTED"
    BY <1>2, <1>3 DEF InvitationsInv, TypeOK
  <2>2. relationships'[i] = IF s = "ACCEPTED" THEN 1 ELSE 0
    BY <1>2, <1>3, <1>4 DEF InvitationsInv, TypeOK
  <2> QED
    BY <2>1, <2>2
<1>9. OneRelationshipEach' /\ UnansweredIsUnlinked'
  <2>1. OneRelationshipEach'
    <3> SUFFICES ASSUME NEW j \in Invitations
                 PROVE  /\ relationships'[j] = (IF linked'[j] THEN 1 ELSE 0)
                        /\ status'[j] = "ACCEPTED" => linked'[j]
                        /\ linked'[j] => status'[j] = "ACCEPTED" \/ j \in overtaken'
      BY DEF OneRelationshipEach
    <3>1. CASE j = i
      BY <1>7, <1>8, <3>1
    <3>2. CASE j # i
      BY <1>1, <1>7, <3>2 DEF InvitationsInv, OneRelationshipEach
    <3> QED
      BY <3>1, <3>2
  <2>2. UnansweredIsUnlinked'
    <3> SUFFICES ASSUME NEW j \in Invitations, status'[j] \in {"NONE", "PENDING"}
                 PROVE  ~linked'[j]
      BY DEF UnansweredIsUnlinked
    <3> QED
      BY <1>5, <1>7, <1>8 DEF InvitationsInv, UnansweredIsUnlinked
  <2> QED
    BY <2>1, <2>2
<1>10. s # "EXPIRED"
  BY DEF s
<1>11. ExpiredIsOver'
  BY <1>1, <1>7, <1>10 DEF InvitationsInv, ExpiredIsOver, IsOver
<1>12. expiresAt' \in [Invitations -> Nat] /\ overtaken' \subseteq Invitations
  BY <1>1 DEF InvitationsInv, TypeOK
<1> QED
  BY <1>1, <1>2, <1>5, <1>6, <1>9, <1>11, <1>12, WritePreserves

LEMMA ExpirePreserves ==
  ASSUME InvitationsInv, NEW r \in Requests, Expire(r)
  PROVE  InvitationsInv'
<1> DEFINE i == arg[r].id
           s == IF status[i] = "PENDING" THEN "EXPIRED" ELSE status[i]
<1>1. /\ phase[r] # "idle" /\ arg[r].op \in ByToken /\ Done(r)
      /\ IsOver(arg[r].expiresAt)
      /\ UNCHANGED <<expiresAt, linked, relationships, now, overlap>>
      /\ overtaken' = IF status[i] = "PENDING" /\ expiresAt[i] # arg[r].expiresAt
                      THEN overtaken \union {i} ELSE overtaken
  BY DEF Expire, At
<1>2. i \in Invitations
  BY <1>1, RequestShape DEF InvitationsInv
<1>3. status' = [status EXCEPT ![i] = s]
  BY <1>2 DEF Expire, InvitationsInv, TypeOK
<1>4. s \in Statuses \ {"NONE"} /\ s # "PENDING"
  BY <1>1, <1>2 DEF InvitationsInv, TypeOK, CopiesHold, Statuses
<1>5. s = "EXPIRED" /\ i \notin overtaken' => IsOver(expiresAt[i])
  BY <1>1, <1>2 DEF InvitationsInv, ExpiredIsOver, IsOver
<1>6. s = status[i] \/ (status[i] = "PENDING" /\ s = "EXPIRED")
  OBVIOUS
<1> HIDE DEF i, s
<1>7. /\ overtaken \subseteq overtaken' /\ overtaken' \subseteq Invitations
      /\ \A j \in Invitations : j # i /\ j \in overtaken' => j \in overtaken
  BY <1>1, <1>2 DEF InvitationsInv, TypeOK
<1>8. \A j \in Invitations : status'[j] = IF j = i THEN s ELSE status[j]
  BY <1>3 DEF InvitationsInv, TypeOK
<1>9. OneRelationshipEach' /\ UnansweredIsUnlinked'
  BY <1>1, <1>4, <1>6, <1>7, <1>8 DEF InvitationsInv, OneRelationshipEach, UnansweredIsUnlinked
<1>10. ExpiredIsOver'
  BY <1>1, <1>5, <1>7, <1>8 DEF InvitationsInv, ExpiredIsOver, IsOver
<1>11. /\ expiresAt' \in [Invitations -> Nat] /\ linked' \in [Invitations -> BOOLEAN]
       /\ relationships' \in [Invitations -> Nat]
  BY <1>1 DEF InvitationsInv, TypeOK
<1> QED
  BY <1>1, <1>2, <1>3, <1>4, <1>7, <1>9, <1>10, <1>11, WritePreserves

LEMMA ByIdPreserves ==
  ASSUME InvitationsInv, NEW r \in Requests, Revoke(r) \/ Resend(r)
  PROVE  InvitationsInv'
<1> DEFINE i == arg[r].id
           s == IF arg[r].op = "revoke" THEN "REVOKED" ELSE status[i]
<1>1. /\ phase[r] # "idle" /\ arg[r].op \in ById /\ Done(r)
      /\ UNCHANGED <<linked, relationships, now, overlap>>
      /\ overtaken' = IF status[i] # arg[r].status THEN overtaken \union {i} ELSE overtaken
  BY DEF Revoke, Resend, At, ById, Overtaken
<1>2. i \in Invitations /\ arg[r].status = "PENDING" /\ status[i] # "NONE"
  BY <1>1, RequestShape DEF InvitationsInv, CopiesHold
<1>3. status' = [status EXCEPT ![i] = s] /\ expiresAt' \in [Invitations -> Nat]
  BY <1>2, TimeAssumption DEF Revoke, Resend, At, InvitationsInv, TypeOK
<1>4. s \in Statuses \ {"NONE"} /\ (s = status[i] \/ s = "REVOKED")
  BY <1>2 DEF InvitationsInv, TypeOK, Statuses
<1>5. \A j \in Invitations : j # i => expiresAt'[j] = expiresAt[j]
  BY DEF Revoke, Resend, InvitationsInv, TypeOK
<1> HIDE DEF i, s
<1>6. /\ overtaken \subseteq overtaken' /\ overtaken' \subseteq Invitations
      /\ \A j \in Invitations : j # i /\ j \in overtaken' => j \in overtaken
      /\ status[i] = "PENDING" \/ i \in overtaken'
  BY <1>1, <1>2 DEF InvitationsInv, TypeOK
<1>7. \A j \in Invitations : status'[j] = IF j = i THEN s ELSE status[j]
  BY <1>3 DEF InvitationsInv, TypeOK
<1>8. OneRelationshipEach' /\ UnansweredIsUnlinked'
  BY <1>1, <1>2, <1>4, <1>6, <1>7 DEF InvitationsInv, OneRelationshipEach, UnansweredIsUnlinked
<1>9. ExpiredIsOver'
  BY <1>1, <1>4, <1>5, <1>6, <1>7 DEF InvitationsInv, ExpiredIsOver, IsOver
<1>10. linked' \in [Invitations -> BOOLEAN] /\ relationships' \in [Invitations -> Nat]
  BY <1>1 DEF InvitationsInv, TypeOK
<1> QED
  BY <1>1, <1>2, <1>3, <1>4, <1>6, <1>8, <1>9, <1>10, WritePreserves

----------------------------------------------------------------------------
(* The theorems *)

LEMMA NextInv == InvitationsInv /\ [Next]_vars => InvitationsInv'
<1> SUFFICES ASSUME InvitationsInv, [Next]_vars PROVE InvitationsInv'
  OBVIOUS
<1>1. CASE UNCHANGED vars
  BY <1>1 DEF vars, rowVars, requestVars, historyVars, InvitationsInv, TypeOK,
              OneRelationshipEach, ExpiredIsOver, OnePending, UnansweredIsUnlinked,
              CopiesHold, CreateIsAlone, NoneIsPending, IsOver
<1>2. CASE Tick
  <2>1. now \in Nat /\ now' = now + 1
        /\ UNCHANGED <<status, expiresAt, linked, relationships, phase, arg, overlap, overtaken>>
    BY <1>2 DEF Tick, rowVars, requestVars, historyVars, InvitationsInv, TypeOK
  <2>2. ExpiredIsOver'
    BY <2>1 DEF InvitationsInv, ExpiredIsOver, IsOver, TypeOK
  <2> QED
    BY <2>1, <2>2 DEF InvitationsInv, TypeOK, OneRelationshipEach, OnePending,
                      UnansweredIsUnlinked, CopiesHold, CreateIsAlone, NoneIsPending
<1>3. ASSUME NEW r \in Requests,
             \/ FindDuplicate(r) \/ Create(r)
             \/ \E i \in Invitations : FindByToken(r, i) \/ FindOwned(r, i)
             \/ Expire(r) \/ Usable(r) \/ Answered(r)
             \/ Accept(r) \/ Reject(r) \/ AlreadyUsed(r)
             \/ Revoke(r) \/ Resend(r) \/ Abort(r)
      PROVE  InvitationsInv'
  BY <1>3, BeginPreserves, CreatePreserves, ExpirePreserves, GoOnPreserves, AnswerPreserves,
     ByIdPreserves
<1> QED
  BY <1>1, <1>2, <1>3 DEF Next

\* The inductive invariant of the rows and the copies requests hold of them.
THEOREM InvitationsInvariant == Spec => []InvitationsInv
<1>1. Init => InvitationsInv
  BY InitInv
<1>2. InvitationsInv /\ [Next]_vars => InvitationsInv'
  BY NextInv
<1> QED
  BY <1>1, <1>2, PTL DEF Spec

----------------------------------------------------------------------------
(* The household *)

LEMMA ArchivePreserves ==
  ASSUME InvitationsInv, NEW r \in Requests, Archive(r)
  PROVE  InvitationsInv'
<1>1. /\ \A i \in Invitations :
           status'[i] = IF status[i] = "PENDING" THEN "REVOKED" ELSE status[i]
      /\ UNCHANGED <<expiresAt, linked, relationships, now, phase, arg, overlap, overtaken>>
  BY DEF Archive, RevokesPending, requestVars, historyVars
<1>2. TypeOK'
  <2>1. status' \in [Invitations -> Statuses]
    BY DEF Archive, RevokesPending, InvitationsInv, TypeOK, Statuses
  <2> QED
    BY <1>1, <2>1 DEF InvitationsInv, TypeOK
<1>3. OneRelationshipEach' /\ UnansweredIsUnlinked'
  BY <1>1 DEF InvitationsInv, OneRelationshipEach, UnansweredIsUnlinked
<1>4. ExpiredIsOver' /\ OnePending'
  BY <1>1 DEF InvitationsInv, ExpiredIsOver, OnePending
<1>5. CopiesHold'
  <2>1. \A q \in Requests : arg[q].op \in ByToken \union ById => arg[q].id \in Invitations
    BY RequestShape DEF InvitationsInv
  <2> QED
    BY <1>1, <2>1 DEF InvitationsInv, CopiesHold
<1>6. CreateIsAlone'
  BY <1>1 DEF InvitationsInv, CreateIsAlone, NoneIsPending
<1> QED
  BY <1>2, <1>3, <1>4, <1>5, <1>6 DEF InvitationsInv

\* What the requests do to an archived household that is empty: nothing.
LEMMA EmptyStaysEmpty ==
  ASSUME InvitationsInv, NEW r \in Requests, AtInvitations(r),
         ~Creating, NoRelationship, \A i \in Invitations : status[i] # "PENDING"
  PROVE  ~Creating' /\ NoRelationship' /\ \A i \in Invitations : status'[i] # "PENDING"
<1>1. ~Create(r)
  BY DEF Creating, Create
<1>2. ~Accept(r) /\ ~Reject(r)
  <2>1. arg[r].op \in Answers /\ At(r, "usable", {arg[r].op}) => arg[r].id \in Invitations
    BY RequestShape DEF InvitationsInv, ByToken
  <2> QED
    BY <2>1 DEF Accept, Reject, StillPending, At, Answers
<1>3. /\ UNCHANGED relationships
      /\ \A i \in Invitations : status'[i] # "PENDING"
  BY <1>1, <1>2 DEF AtInvitations, FindByToken, FindOwned, Find, Expire, Usable, Answered,
     AlreadyUsed, Revoke, Resend, Abort, rowVars, InvitationsInv, TypeOK
<1>4. \A q \in Requests : arg'[q].op = "create" => arg[q].op = "create"
  <2>1. NoRequest.op # "create"
    BY DEF NoRequest
  <2>2. CASE \E i \in Invitations : FindByToken(r, i) \/ FindOwned(r, i)
    BY <2>2 DEF FindByToken, FindOwned, Find, Begin, ByToken, ById, Answers, InvitationsInv, TypeOK
  <2>3. CASE Usable(r)
    BY <2>3 DEF Usable
  <2>4. CASE \/ Expire(r) \/ Answered(r) \/ AlreadyUsed(r) \/ Revoke(r) \/ Resend(r) \/ Abort(r)
    BY <2>1, <2>4 DEF Expire, Answered, AlreadyUsed, Revoke, Resend, Abort, Done, InvitationsInv,
       TypeOK
  <2> QED
    BY <1>1, <1>2, <2>2, <2>3, <2>4 DEF AtInvitations
<1>5. \A q \in Requests : phase'[q] = "found" => phase[q] = "found" \/ arg'[q].op # "create"
  <2>1. NoRequest.op # "create"
    BY DEF NoRequest
  <2>2. CASE \E i \in Invitations : FindByToken(r, i) \/ FindOwned(r, i)
    BY <2>2 DEF FindByToken, FindOwned, Find, Begin, ByToken, ById, Answers, InvitationsInv, TypeOK
  <2>3. CASE Usable(r)
    BY <2>3 DEF Usable, InvitationsInv, TypeOK
  <2>4. CASE \/ Expire(r) \/ Answered(r) \/ AlreadyUsed(r) \/ Revoke(r) \/ Resend(r) \/ Abort(r)
    BY <2>1, <2>4 DEF Expire, Answered, AlreadyUsed, Revoke, Resend, Abort, Done, InvitationsInv,
       TypeOK
  <2> QED
    BY <1>1, <1>2, <2>2, <2>3, <2>4 DEF AtInvitations
<1> QED
  BY <1>3, <1>4, <1>5 DEF Creating, At, NoRelationship

LEMMA HouseholdInit1 == HouseholdInit => InvitationsInv /\ HouseholdInv
<1> SUFFICES ASSUME HouseholdInit PROVE InvitationsInv /\ HouseholdInv
  OBVIOUS
<1>1. InvitationsInv
  BY InitInv DEF HouseholdInit
<1> QED
  BY <1>1 DEF HouseholdInit, HouseholdInv, ArchivedIsEmpty

LEMMA InvitationsInvStep ==
  InvitationsInv /\ [HouseholdNext]_onboardingVars => InvitationsInv'
<1> SUFFICES ASSUME InvitationsInv, [HouseholdNext]_onboardingVars PROVE InvitationsInv'
  OBVIOUS
<1>1. CASE \E r \in Requests : Archive(r)
  BY <1>1, ArchivePreserves
<1>2. CASE [Next]_vars
  BY <1>2, NextInv
<1>3. \/ \E r \in Requests : Archive(r)
      \/ [Next]_vars
  BY DEF HouseholdNext, onboardingVars, CreateAtHousehold, CountRelationships, ArchiveFails,
         AtInvitations, Next
<1> QED
  BY <1>1, <1>2, <1>3

LEMMA HouseholdInvStep ==
  InvitationsInv /\ HouseholdInv /\ [HouseholdNext]_onboardingVars => HouseholdInv'
<1> SUFFICES ASSUME InvitationsInv, HouseholdInv, [HouseholdNext]_onboardingVars
             PROVE  HouseholdInv'
  OBVIOUS
<1>1. CASE UNCHANGED onboardingVars \/ (Tick /\ UNCHANGED householdVars)
  BY <1>1 DEF onboardingVars, householdVars, vars, rowVars, requestVars, historyVars, Tick,
     HouseholdInv, ArchivedIsEmpty, Creating, At, NoRelationship
<1>2. ASSUME NEW r \in Requests, CreateAtHousehold(r) PROVE HouseholdInv'
  <2>1. ~archived' /\ UNCHANGED <<archived, counted, raced>>
    BY <1>2 DEF CreateAtHousehold, Owned, householdVars
  <2>2. \A q \in counted : phase'[q] = "idle"
    BY <1>2 DEF CreateAtHousehold, FindDuplicate, Begin, HouseholdInv, InvitationsInv, TypeOK
  <2>3. archived' \in BOOLEAN /\ counted' \subseteq Requests /\ raced' \in BOOLEAN
    BY <2>1 DEF HouseholdInv
  <2>4. \A q \in counted' : phase'[q] = "idle"
    BY <2>1, <2>2
  <2> QED
    BY <2>1, <2>3, <2>4 DEF HouseholdInv, ArchivedIsEmpty
<1>3. ASSUME NEW r \in Requests, CountRelationships(r) \/ ArchiveFails(r) PROVE HouseholdInv'
  <2>1. /\ UNCHANGED <<status, phase, arg, relationships, archived, raced>>
        /\ \/ counted' = counted \union {r} /\ phase[r] = "idle"
           \/ counted' = counted \ {r}
    BY <1>3 DEF CountRelationships, ArchiveFails, vars, rowVars, requestVars
  <2> QED
    BY <2>1 DEF HouseholdInv, ArchivedIsEmpty, Creating, At, NoRelationship
<1>4. ASSUME NEW r \in Requests, Archive(r) PROVE HouseholdInv'
  <2>1. /\ UNCHANGED <<phase, arg, relationships>>
        /\ archived' = TRUE /\ counted' = counted \ {r}
        /\ raced' = (raced \/ Creating \/ ~NoRelationship)
        /\ \A i \in Invitations : status'[i] # "PENDING"
    BY <1>4 DEF Archive, RevokesPending, requestVars
  <2> QED
    BY <2>1 DEF HouseholdInv, ArchivedIsEmpty, Creating, At, NoRelationship
<1>5. ASSUME NEW r \in Requests, AtInvitations(r) PROVE HouseholdInv'
  <2>1. UNCHANGED <<archived, counted, raced>>
    BY <1>5 DEF AtInvitations, householdVars
  <2>2. \A q \in counted : phase'[q] = "idle"
    BY <1>5 DEF AtInvitations, HouseholdInv, InvitationsInv, TypeOK, Create, FindByToken,
       FindOwned, Find, Begin, Done, Expire, Usable, Answered, Accept, Reject, AlreadyUsed,
       Revoke, Resend, Abort, At
  <2>3. CASE archived /\ ~raced
    BY <1>5, <2>1, <2>2, <2>3, EmptyStaysEmpty DEF HouseholdInv, ArchivedIsEmpty
  <2>4. CASE ~(archived /\ ~raced)
    BY <2>1, <2>2, <2>4 DEF HouseholdInv, ArchivedIsEmpty
  <2> QED
    BY <2>3, <2>4
<1>6. CASE HouseholdNext
  BY <1>1, <1>2, <1>3, <1>4, <1>5, <1>6 DEF HouseholdNext
<1> QED
  BY <1>1, <1>6

\* The invariant of the rows holds at a household that may be archived, and so
\* does that of the household.
THEOREM HouseholdInvariant == HouseholdSpec => [](InvitationsInv /\ HouseholdInv)
<1>1. InvitationsInv /\ HouseholdInv /\ [HouseholdNext]_onboardingVars
        => (InvitationsInv /\ HouseholdInv)'
  BY InvitationsInvStep, HouseholdInvStep
<1> QED
  BY <1>1, HouseholdInit1, PTL DEF HouseholdSpec

\* HouseholdsService.archive: nothing that was under way fills an archived household.
THEOREM ArchivedStaysEmpty == HouseholdSpec => []ArchivedIsEmpty
<1>1. HouseholdInv => ArchivedIsEmpty
  BY DEF HouseholdInv
<1> QED
  BY <1>1, HouseholdInvariant, PTL

\* accept: at most one relationship of an invitation.
THEOREM RelationshipsAreSingle == HouseholdSpec => []OneRelationshipEach
<1>1. InvitationsInv => OneRelationshipEach
  BY DEF InvitationsInv
<1> QED
  BY <1>1, HouseholdInvariant, PTL

\* create: one pending invitation at a time, unless two creates overlapped.
THEOREM PendingIsSingle == HouseholdSpec => []OnePending
<1>1. InvitationsInv => OnePending
  BY DEF InvitationsInv
<1> QED
  BY <1>1, HouseholdInvariant, PTL

\* accept, reject, revoke and expiry: what is settled stays settled.
THEOREM AnswersStay == HouseholdSpec => AnswersAreFinal
<1> DEFINE Stays == \A i \in Invitations :
              status[i] \notin {"NONE", "PENDING"} /\ i \notin overtaken' =>
                status'[i] = status[i]
<1>1. InvitationsInv /\ [HouseholdNext]_onboardingVars => [Stays]_vars
  <2> SUFFICES ASSUME InvitationsInv, HouseholdNext, ~UNCHANGED vars, NEW i \in Invitations,
                      status[i] \notin {"NONE", "PENDING"}, i \notin overtaken'
               PROVE  status'[i] = status[i]
    BY DEF onboardingVars
  <2>0. ASSUME NEW r \in Requests, Archive(r)
        PROVE  status'[i] = status[i]
    BY <2>0 DEF Archive, RevokesPending
  <2>1. CASE Tick
    BY <2>1 DEF Tick, rowVars
  <2>2. ASSUME NEW r \in Requests,
               \/ FindDuplicate(r)
               \/ \E j \in Invitations : FindByToken(r, j) \/ FindOwned(r, j)
               \/ Usable(r) \/ Answered(r) \/ AlreadyUsed(r) \/ Abort(r) \/ Resend(r)
        PROVE  status'[i] = status[i]
    BY <2>2 DEF FindDuplicate, FindByToken, FindOwned, Find, Usable, Answered, AlreadyUsed,
                Abort, Resend, rowVars
  <2>3. ASSUME NEW r \in Requests, Create(r) \/ Expire(r) \/ Accept(r) \/ Reject(r)
        PROVE  status'[i] = status[i]
    BY <2>3 DEF Create, Expire, Accept, Reject, StillPending, InvitationsInv, TypeOK
  <2>4. ASSUME NEW r \in Requests, Revoke(r)
        PROVE  status'[i] = status[i]
    <3>1. arg[r].status = "PENDING"
      BY <2>4 DEF Revoke, At, ById, InvitationsInv, CopiesHold
    <3>2. arg[r].id # i
      BY <2>4, <3>1 DEF Revoke, Overtaken
    <3> QED
      BY <2>4, <3>2 DEF Revoke, InvitationsInv, TypeOK
  <2> QED
    BY <2>0, <2>1, <2>2, <2>3, <2>4
    DEF HouseholdNext, CreateAtHousehold, CountRelationships, ArchiveFails, AtInvitations
<1> QED
  BY <1>1, HouseholdInvariant, PTL DEF HouseholdSpec, AnswersAreFinal
============================================================================
