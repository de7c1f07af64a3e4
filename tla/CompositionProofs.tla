------------------------- MODULE CompositionProofs -------------------------
(***************************************************************************)
(* The two compositions over Conditions: the pages in front of it and the  *)
(* payroll computed from it.  Neither takes a step of the relationship     *)
(* that Conditions does not allow, so its theorems hold of both.           *)
(*                                                                         *)
(* The pages only make requests that the services check as well; and a     *)
(* copy on a page is as good as a copy in a request: while the version is  *)
(* the one it shows, so are the terms.                                     *)
(***************************************************************************)
EXTENDS ConsentScreens, PayrollCalculation, ConditionsProofs

\* What a page's copy still tells about the rows.
ShownHolds ==
  \A p \in Requests :
    /\ shown[p] \in Copy \union {NoCopy}
    /\ shown[p] # NoCopy =>
         /\ shown[p].version <= version
         /\ shown[p].version = version => shown[p].terms = terms
         /\ shown[p].published # {} => published # {}
         /\ shown[p].published \subseteq published \union superseded
         /\ /\ ~stalePut
            /\ shown[p].version = version
            /\ shown[p].status = "PENDING_WORKER_ACCEPTANCE"
            /\ status = "PENDING_WORKER_ACCEPTANCE"
            => shown[p].published = published

\* A page with a request in flight shows what it was pressed on.
PressedAsOffered ==
  \A p \in Requests :
    /\ p \in loading => phase[p] = "idle"
    /\ phase[p] # "idle" /\ arg[p].op = "accept" =>
         shown[p] # NoCopy /\ shown[p].status = "PENDING_WORKER_ACCEPTANCE"

PagesInv ==
  /\ ConditionsInv
  /\ shown \in [Requests -> Copy \union {NoCopy}]
  /\ loading \subseteq Requests
  /\ ShownHolds
  /\ PressedAsOffered
  /\ SameVersionSameOffer

----------------------------------------------------------------------------
(* The pages take steps of Conditions *)

LEMMA PagesStep == [PagesNext]_screenVars => [Next]_vars
<1> SUFFICES ASSUME PagesNext PROVE [Next]_vars
  BY DEF screenVars
<1>1. PICK p \in Requests :
        \/ Show(p) \/ ShowFails(p) \/ Revisit(p)
        \/ Pressed(p) \/ Underway(p) \/ Succeeds(p) \/ Fails(p)
  BY DEF PagesNext
<1>2. CASE Show(p) \/ ShowFails(p) \/ Revisit(p)
  BY <1>2 DEF Show, ShowFails, Revisit
<1>3. CASE Pressed(p) \/ Underway(p) \/ Succeeds(p) \/ Fails(p)
  BY <1>3 DEF Pressed, Underway, Succeeds, Fails, Next
<1> QED
  BY <1>1, <1>2, <1>3

\* The web pages with the API are an implementation of the API alone: whatever
\* is proved of Conditions holds behind the pages.
THEOREM PagesImplementConditions == PagesSpec => Spec
<1>1. PagesInit => Init
  BY DEF PagesInit
<1> QED
  BY <1>1, PagesStep, PTL DEF PagesSpec, Spec

----------------------------------------------------------------------------
(* The inductive step *)

\* The steps of the pages alone.
LEMMA BrowsingPreserves ==
  ASSUME PagesInv, NEW p \in Requests, Show(p) \/ ShowFails(p) \/ Revisit(p)
  PROVE  ShownHolds' /\ PressedAsOffered' /\ SameVersionSameOffer'
<1>1. UNCHANGED <<status, version, terms, published, superseded, evidence, phase, arg,
                  stalePut, agreed>>
  BY DEF Show, ShowFails, Revisit, vars, rowVars, requestVars
<1>2. SameVersionSameOffer'
  BY <1>1 DEF PagesInv, SameVersionSameOffer
<1>3. phase[p] = "idle" /\ loading' \subseteq loading \union {p}
  BY DEF Show, ShowFails, Revisit, PagesInv, PressedAsOffered
<1>4. \A q \in Requests : shown'[q] \in {shown[q], Read} /\ (q # p => shown'[q] = shown[q])
  BY DEF Show, ShowFails, Revisit, PagesInv
<1>5. PressedAsOffered'
  BY <1>1, <1>3, <1>4 DEF PagesInv, PressedAsOffered
<1>6. /\ Read \in Copy /\ Read.version = version /\ Read.terms = terms
      /\ Read.published = published /\ version \in Nat
  BY ReadIsACopy DEF PagesInv, Read, ConditionsInv, TypeOK
<1>7. ShownHolds'
  BY <1>1, <1>4, <1>6 DEF PagesInv, ShownHolds
<1> QED
  BY <1>2, <1>5, <1>7

\* A step that moves the version on, or keeps it and loses no schedule, keeps what
\* a copy tells.
LEMMA ShownSurvives ==
  ASSUME PagesInv, UNCHANGED shown, version \in Nat,
         \/ version' = version + 1 /\ UNCHANGED <<published, superseded>>
         \/ /\ UNCHANGED <<version, terms>>
            /\ published \union superseded \subseteq published' \union superseded'
            /\ published # {} => published' # {}
            /\ stalePut => stalePut'
            /\ ~stalePut' /\ status' = "PENDING_WORKER_ACCEPTANCE" =>
                 UNCHANGED <<status, published>>
  PROVE  ShownHolds'
<1> SUFFICES ASSUME NEW p \in Requests
             PROVE  /\ shown[p] \in Copy \union {NoCopy}
                    /\ shown[p] # NoCopy =>
                       /\ shown[p].version <= version'
                       /\ shown[p].version = version' => shown[p].terms = terms'
                       /\ shown[p].published # {} => published' # {}
                       /\ shown[p].published \subseteq published' \union superseded'
                       /\ /\ ~stalePut'
                          /\ shown[p].version = version'
                          /\ shown[p].status = "PENDING_WORKER_ACCEPTANCE"
                          /\ status' = "PENDING_WORKER_ACCEPTANCE"
                          => shown[p].published = published'
  BY DEF ShownHolds
<1>1. shown[p] # NoCopy => shown[p].version \in Nat
  BY DEF PagesInv, ShownHolds, Copy
<1> QED
  BY <1>1 DEF PagesInv, ShownHolds

LEMMA QuietSteps ==
  ASSUME NEW r \in Requests,
         \/ LoadSave(r) \/ LoadSubmit(r) \/ LoadAccept(r) \/ LoadReject(r) \/ LoadPut(r)
         \/ Supersede(r) \/ Conflict(r) \/ Abort(r)
  PROVE  UNCHANGED <<rowVars, stalePut>>
BY DEF LoadSave, LoadSubmit, LoadAccept, LoadReject, LoadPut, Load, Supersede, Conflict, Abort

\* A put that overlaps nothing leaves the relationship in configuration.
LEMMA PublishShape ==
  ASSUME ConditionsInv, NEW r \in Requests, Publish(r)
  PROVE  /\ UNCHANGED <<version, terms, accepted, evidence>>
         /\ published \union superseded \subseteq published' \union superseded'
         /\ published' # {}
         /\ stalePut => stalePut'
         /\ status' \in {status, "PENDING_CONFIGURATION"}
         /\ ~stalePut' => status' = "PENDING_CONFIGURATION"
<1>1. phase[r] = "superseding" /\ phase[r] # "idle"
  BY DEF Publish
<1>2. arg[r].read.status \in Editable
  BY <1>1 DEF ConditionsInv, ReadingsHold
<1> QED
  BY <1>2 DEF Publish, StatusAfterPut, Unmoved, Editable

LEMMA RequestsPreserveShown ==
  ASSUME PagesInv, NEW p \in Requests, Pressed(p) \/ Underway(p) \/ Succeeds(p) \/ Fails(p)
  PROVE  ShownHolds'
<1>1. UNCHANGED shown /\ version \in Nat
  BY DEF Pressed, Press, Underway, Succeeds, Fails, Answered, pageVars, PagesInv, ConditionsInv,
         TypeOK
<1>2. CASE Pressed(p) \/ Underway(p) \/ Fails(p)
  <2>1. UNCHANGED <<rowVars, stalePut>>
    BY <1>2, QuietSteps DEF Pressed, Underway, Fails
  <2> QED
    BY <1>1, <2>1, ShownSurvives DEF rowVars
<1>3. CASE CommitSave(p) \/ CommitSubmit(p) \/ CommitAccept(p) \/ CommitReject(p)
  <2>1. version' = version + 1 /\ UNCHANGED <<published, superseded>>
    BY <1>3 DEF CommitSave, CommitSubmit, CommitAccept, CommitReject, NextVersion
  <2> QED
    BY <1>1, <2>1, ShownSurvives
<1>4. CASE Publish(p)
  BY <1>1, <1>4, PublishShape, ShownSurvives DEF PagesInv
<1> QED
  BY <1>2, <1>3, <1>4 DEF Succeeds

LEMMA RequestsPreserveOffers ==
  ASSUME PagesInv, NEW p \in Requests, Pressed(p) \/ Underway(p) \/ Succeeds(p) \/ Fails(p)
  PROVE  PressedAsOffered'
<1>1. UNCHANGED shown
  BY DEF Pressed, Press, Underway, Succeeds, Fails, Answered, pageVars
<1>2. ConditionsInv
  BY DEF PagesInv
<1>3. CASE Pressed(p)
  <2>1. /\ UNCHANGED loading /\ p \notin loading /\ shown[p] # NoCopy
        /\ phase' = [phase EXCEPT ![p] = "loaded"]
        /\ \A q \in Requests : q # p => arg'[q] = arg[q]
        /\ arg'[p].op = "accept" => shown[p].status = "PENDING_WORKER_ACCEPTANCE"
    BY <1>2, <1>3 DEF Pressed, Press, Ready, pageVars, Offers, OffersDecision, LoadSave, LoadPut,
           LoadSubmit, LoadAccept, LoadReject, Load, ConditionsInv, TypeOK
  <2>2. \A q \in Requests : phase'[q] = IF q = p THEN "loaded" ELSE phase[q]
    BY <1>2, <2>1 DEF ConditionsInv, TypeOK
  <2> QED
    BY <1>1, <2>1, <2>2 DEF PagesInv, PressedAsOffered
<1>4. CASE Underway(p)
  <2>1. /\ UNCHANGED loading /\ phase[p] = "loaded" /\ arg[p].op = "put"
        /\ phase' = [phase EXCEPT ![p] = "superseding"]
        /\ arg' = [arg EXCEPT ![p].old = published]
    BY <1>4 DEF Underway, pageVars, Supersede
  <2>2. arg[p] # NoRequest
    BY <2>1 DEF NoRequest
  <2>3. arg'[p].op = "put"
    BY <1>2, <2>1, <2>2 DEF ConditionsInv, TypeOK, Request
  <2>4. \A q \in Requests : /\ phase'[q] = IF q = p THEN "superseding" ELSE phase[q]
                            /\ q # p => arg'[q] = arg[q]
    BY <1>2, <2>1 DEF ConditionsInv, TypeOK
  <2> QED
    BY <1>1, <2>1, <2>3, <2>4 DEF PagesInv, PressedAsOffered
<1>5. CASE Succeeds(p) \/ Fails(p)
  <2>1. Done(p) /\ phase[p] # "idle" /\ loading' \subseteq loading \union {p}
    BY <1>5 DEF Succeeds, Fails, Answered, pageVars, CommitSave, CommitSubmit, CommitAccept,
           CommitReject, Commit, Publish, Conflict, Abort
  <2>2. \A q \in Requests : /\ phase'[q] = IF q = p THEN "idle" ELSE phase[q]
                            /\ q # p => arg'[q] = arg[q]
    BY <1>2, <2>1, DoneFrame
  <2> QED
    BY <1>1, <2>1, <2>2 DEF PagesInv, PressedAsOffered
<1> QED
  BY <1>3, <1>4, <1>5

LEMMA AcceptingPreserves ==
  ASSUME PagesInv, NEW p \in Requests, CommitAccept(p), agreed' = shown[p], UNCHANGED shown
  PROVE  SameVersionSameOffer'
<1>1. /\ phase[p] = "loaded" /\ phase[p] # "idle" /\ arg[p].op = "accept" /\ Unmoved(p)
      /\ UNCHANGED <<terms, published, superseded, stalePut>>
      /\ \E s \in FirstOf(arg[p].read.published) :
           evidence' = [version |-> arg[p].read.version, terms |-> arg[p].read.terms,
                        schedule |-> s]
  BY DEF CommitAccept, Commit
<1>2. PICK s \in FirstOf(arg[p].read.published) :
        evidence' = [version |-> arg[p].read.version, terms |-> arg[p].read.terms,
                     schedule |-> s]
  BY <1>1
<1>3. /\ arg[p].read.version = version /\ arg[p].read.terms = terms
      /\ status = "PENDING_WORKER_ACCEPTANCE"
  BY <1>1 DEF PagesInv, ConditionsInv, ReadingsHold, Unmoved
<1>4. shown[p] # NoCopy /\ shown[p].status = "PENDING_WORKER_ACCEPTANCE"
  BY <1>1 DEF PagesInv, PressedAsOffered
<1>5. evidence'.version = version /\ evidence'.terms = terms /\ evidence'.schedule = s
  BY <1>2, <1>3
<1>6. SUFFICES ASSUME agreed'.version = version
               PROVE  /\ agreed'.terms = terms
                      /\ ~stalePut => agreed'.published = {s}
  BY <1>1, <1>5 DEF SameVersionSameOffer
<1>7. agreed'.terms = terms
  BY <1>4, <1>6 DEF PagesInv, ShownHolds
<1>8. ASSUME ~stalePut PROVE agreed'.published = {s}
  <2>1. agreed'.published = published
    BY <1>3, <1>4, <1>6, <1>8 DEF PagesInv, ShownHolds
  <2>2. arg[p].read.published = published
    BY <1>1, <1>8 DEF PagesInv, ConditionsInv, AcceptanceSeesTheSchedule
  <2>3. published # {}
    BY <1>3 DEF PagesInv, ConditionsInv, SentIsComplete, Complete
  <2>4. s \in published
    BY <1>2, <2>2, <2>3 DEF FirstOf
  <2>5. \A x, y \in published : x = y
    BY <1>8 DEF PagesInv, ConditionsInv, ScheduleIsConsented
  <2> QED
    BY <2>1, <2>4, <2>5
<1> QED
  BY <1>7, <1>8

LEMMA RequestsPreserveOffer ==
  ASSUME PagesInv, NEW p \in Requests, Pressed(p) \/ Underway(p) \/ Succeeds(p) \/ Fails(p)
  PROVE  SameVersionSameOffer'
<1>1. CASE Pressed(p) \/ Underway(p) \/ Fails(p)
  <2>1. UNCHANGED <<rowVars, stalePut, agreed>>
    BY <1>1, QuietSteps DEF Pressed, Press, Underway, Fails, pageVars
  <2> QED
    BY <2>1 DEF PagesInv, SameVersionSameOffer, rowVars
<1>2. CASE CommitSave(p) \/ CommitSubmit(p) \/ CommitReject(p)
  BY <1>2 DEF CommitSave, CommitSubmit, CommitReject, SameVersionSameOffer
<1>3. CASE Publish(p) /\ UNCHANGED agreed
  BY <1>3, PublishShape DEF PagesInv, SameVersionSameOffer
<1>4. CASE CommitAccept(p) /\ Answered(p) /\ agreed' = shown[p]
  BY <1>4, AcceptingPreserves DEF Answered
<1> QED
  BY <1>1, <1>2, <1>3, <1>4 DEF Succeeds

LEMMA PagesInvInductive == PagesInv /\ [PagesNext]_screenVars => PagesInv'
<1> SUFFICES ASSUME PagesInv, [PagesNext]_screenVars PROVE PagesInv'
  OBVIOUS
<1>1. ConditionsInv'
  BY PagesStep, NextInv DEF PagesInv
<1>2. CASE UNCHANGED screenVars
  <2>1. UNCHANGED <<shown, loading, agreed, status, version, terms, published, superseded,
                    evidence, phase, arg, stalePut>>
    BY <1>2 DEF screenVars, vars, pageVars, rowVars, requestVars
  <2> QED
    BY <1>1, <2>1 DEF PagesInv, ShownHolds, PressedAsOffered, SameVersionSameOffer
<1>3. CASE PagesNext
  <2>1. PICK p \in Requests :
          \/ Show(p) \/ ShowFails(p) \/ Revisit(p)
          \/ Pressed(p) \/ Underway(p) \/ Succeeds(p) \/ Fails(p)
    BY <1>3 DEF PagesNext
  <2>2. shown' \in [Requests -> Copy \union {NoCopy}] /\ loading' \subseteq Requests
    BY <2>1, ReadIsACopy DEF PagesInv, Show, ShowFails, Revisit, Pressed, Press, Underway,
           Succeeds, Fails, Answered, pageVars
  <2>3. ShownHolds' /\ PressedAsOffered' /\ SameVersionSameOffer'
    BY <2>1, BrowsingPreserves, RequestsPreserveShown, RequestsPreserveOffers,
       RequestsPreserveOffer
  <2> QED
    BY <1>1, <2>2, <2>3 DEF PagesInv
<1> QED
  BY <1>2, <1>3

LEMMA PagesInvInitially == PagesInit => PagesInv
<1> SUFFICES ASSUME PagesInit PROVE PagesInv
  OBVIOUS
<1>1. ConditionsInv /\ status = "PENDING_CONFIGURATION"
  BY InitInv DEF PagesInit, Init
<1>2. \A p \in Requests : shown[p] = NoCopy /\ phase[p] = "idle"
  BY DEF PagesInit, Init
<1>3. ShownHolds /\ PressedAsOffered /\ SameVersionSameOffer
  BY <1>1, <1>2 DEF ShownHolds, PressedAsOffered, SameVersionSameOffer
<1> QED
  BY <1>1, <1>3 DEF PagesInv, PagesInit

THEOREM PagesInvariant == PagesSpec => []PagesInv
BY PagesInvInitially, PagesInvInductive, PTL DEF PagesSpec

----------------------------------------------------------------------------
(* The theorems *)

\* aceptar of the worker's page and acceptConditions: had the page's version
\* been compared, she would have agreed to what her evidence says.
THEOREM VersionWouldSuffice == PagesSpec => []SameVersionSameOffer
<1>1. PagesInv => SameVersionSameOffer
  BY DEF PagesInv
<1> QED
  BY <1>1, PagesInvariant, PTL

\* puedeDecidir, editable and puedeEnviar ask for all that the services check.
THEOREM ButtonsAreHonest == PagesSpec => []RefusedIsStale
<1>1. PagesInv => RefusedIsStale
  <2> SUFFICES ASSUME PagesInv, NEW p \in Requests, Ready(p),
                      shown[p].version = version, shown[p].status = status
               PROVE  Offers(p) \subseteq Takes
    BY DEF RefusedIsStale
  <2>1. shown[p].terms = terms /\ (shown[p].published # {} => published # {})
    BY DEF PagesInv, ShownHolds, Ready
  <2>2. OffersSubmit(p) => "submit" \in Takes
    BY <2>1 DEF OffersSubmit, Takes, Complete, CanTransition, RelationshipArcs, Arc
  <2>3. OffersDecision(p) => "accept" \in Takes /\ "reject" \in Takes
    BY DEF OffersDecision, Takes, CanTransition, RelationshipArcs, Arc, PagesInv, ConditionsInv,
           SentIsComplete, Complete
  <2>4. OffersConditions(p) => "save" \in Takes /\ "put" \in Takes
    BY DEF OffersConditions, Takes
  <2> QED
    BY <2>2, <2>3, <2>4 DEF Offers, OffersSchedule
<1> QED
  BY <1>1, PagesInvariant, PTL

\* With pages in front of it an active relationship still carries the worker's
\* evidence of exactly its terms (acceptConditions).
COROLLARY ConsentBehindPages == PagesSpec => []ConsentCoversTerms
BY PagesImplementConditions, ConsentIsReal, PTL

----------------------------------------------------------------------------
(***************************************************************************)
(* The payroll, for every number of requests, months and contents.  A step *)
(* of the conditions leaves the payroll alone and the other way round;     *)
(* what has to be shown is that consent, once given, stays put.            *)
(***************************************************************************)

LEMMA PayrollInitInv == PayrollInit => PayrollInv
<1> SUFFICES ASSUME PayrollInit PROVE PayrollInv
  OBVIOUS
<1>1. PayrollTypeOK
  BY DEF PayrollInit, PayrollTypeOK
<1>2. VersionsMatchThePeriod
  <2> SUFFICES ASSUME NEW p \in Periods
               PROVE  /\ periodStatus[p] = "OPEN" /\ versions[p] = {}
                      /\ currentVersionNumber[p] = 0
    BY DEF VersionsMatchThePeriod
  <2> QED
    BY DEF PayrollInit
<1>3. CalculatedFromConsent /\ CalculatorsHold
  BY DEF PayrollInit, CalculatedFromConsent, CalculatorsHold
<1>4. AcceptedIsActive
  BY DEF PayrollInit, Init, AcceptedIsActive
<1> QED
  BY <1>1, <1>2, <1>3, <1>4 DEF PayrollInv

----------------------------------------------------------------------------
(* A step of the conditions *)

LEMMA ConsentStays ==
  ASSUME ConditionsInv, ConditionsInv', AcceptedIsActive, [Next]_vars
  PROVE  /\ AcceptedIsActive'
         /\ accepted => accepted'
         /\ stalePut => stalePut'
         /\ accepted /\ ~stalePut' => evidence' = evidence
<1>1. CASE UNCHANGED vars
  BY <1>1 DEF vars, rowVars, AcceptedIsActive
<1>2. ASSUME NEW r \in Requests,
             \/ LoadSave(r) \/ LoadSubmit(r) \/ LoadAccept(r) \/ LoadReject(r) \/ LoadPut(r)
             \/ Conflict(r) \/ Supersede(r) \/ Abort(r)
      PROVE  UNCHANGED <<rowVars, stalePut>>
  BY <1>2 DEF LoadSave, LoadSubmit, LoadAccept, LoadReject, LoadPut, Load, Conflict,
              Supersede, Abort
<1>3. ASSUME NEW r \in Requests, CommitSave(r) \/ CommitSubmit(r) \/ CommitReject(r)
      PROVE  /\ status \in Editable
             /\ UNCHANGED <<accepted, evidence, stalePut>>
  BY <1>3 DEF CommitSave, CommitSubmit, CommitReject, Commit, Unmoved, ConditionsInv,
              ReadingsHold
<1>4. ASSUME NEW r \in Requests, CommitAccept(r)
      PROVE  /\ status \in Editable /\ status' = "ACTIVE" /\ accepted'
             /\ stalePut' = stalePut /\ evidence' # NoEvidence
  <2>1. status \in Editable /\ status' = "ACTIVE" /\ accepted' /\ stalePut' = stalePut
    BY <1>4 DEF CommitAccept, Commit, Unmoved, ConditionsInv, ReadingsHold
  <2> QED
    BY <2>1 DEF ConditionsInv, ConsentCoversTerms
<1>5. ASSUME NEW r \in Requests, Publish(r)
      PROVE  /\ stalePut => stalePut'
             /\ ~stalePut' => status \in Editable
             /\ UNCHANGED <<accepted, evidence>>
  BY <1>5 DEF Publish, Unmoved, ConditionsInv, ReadingsHold
<1>6. "ACTIVE" \notin Editable
  BY DEF Editable
<1> QED
  <2>1. CASE \E r \in Requests :
               \/ LoadSave(r) \/ LoadSubmit(r) \/ LoadAccept(r) \/ LoadReject(r) \/ LoadPut(r)
               \/ Conflict(r) \/ Supersede(r) \/ Abort(r)
    BY <1>2, <2>1 DEF rowVars, AcceptedIsActive
  <2>2. CASE \E r \in Requests : CommitSave(r) \/ CommitSubmit(r) \/ CommitReject(r)
    BY <1>3, <1>6, <2>2 DEF AcceptedIsActive
  <2>3. CASE \E r \in Requests : CommitAccept(r)
    BY <1>4, <1>6, <2>3 DEF AcceptedIsActive
  <2>4. CASE \E r \in Requests : Publish(r)
    BY <1>5, <1>6, <2>4 DEF AcceptedIsActive
  <2> QED
    BY <1>1, <2>1, <2>2, <2>3, <2>4 DEF Next

LEMMA ConditionsStep ==
  ASSUME ConditionsInv, ConditionsInv', PayrollInv, [Next]_vars, UNCHANGED payrollVars
  PROVE  PayrollInv'
<1>1. /\ AcceptedIsActive'
      /\ accepted => accepted'
      /\ stalePut => stalePut'
      /\ accepted /\ ~stalePut' => evidence' = evidence
  BY ConsentStays DEF PayrollInv
<1>2. UNCHANGED <<periodStatus, periodVersion, currentVersionNumber, snapshot, versions,
                  calcPhase, calcArg>>
  BY DEF payrollVars, periodVars, calcVars
<1>3. PayrollTypeOK' /\ VersionsMatchThePeriod'
  BY <1>2 DEF PayrollInv, PayrollTypeOK, VersionsMatchThePeriod
<1>4. CalculatedFromConsent'
  BY <1>1, <1>2 DEF PayrollInv, CalculatedFromConsent, AcceptedIsActive
<1>5. CalculatorsHold'
  BY <1>1, <1>2 DEF PayrollInv, CalculatorsHold
<1> QED
  BY <1>1, <1>3, <1>4, <1>5 DEF PayrollInv

----------------------------------------------------------------------------
(* A step of the payroll *)

\* What a step leaves of the requests and the rows other than its own.
LEMMA IdlePreserves ==
  ASSUME PayrollInv, NEW c \in Calculators, Idle(c), UNCHANGED <<vars, periodVars>>
  PROVE  PayrollInv'
<1>1. UNCHANGED <<accepted, evidence, status, stalePut, periodStatus, periodVersion,
                  currentVersionNumber, snapshot, versions>>
  BY DEF vars, rowVars, periodVars
<1>2. /\ calcPhase' \in [Calculators -> {"idle", "loaded", "computed"}]
      /\ calcArg' \in [Calculators -> Calculation \union {NoCalculation}]
      /\ calcPhase'[c] = "idle"
      /\ \A d \in Calculators \ {c} : calcPhase'[d] = calcPhase[d] /\ calcArg'[d] = calcArg[d]
  BY DEF Idle, PayrollInv, PayrollTypeOK
<1>3. PayrollTypeOK' /\ VersionsMatchThePeriod' /\ CalculatedFromConsent' /\ AcceptedIsActive'
  BY <1>1, <1>2 DEF PayrollInv, PayrollTypeOK, VersionsMatchThePeriod, CalculatedFromConsent,
                    AcceptedIsActive
<1>4. CalculatorsHold'
  BY <1>1, <1>2 DEF PayrollInv, CalculatorsHold
<1> QED
  BY <1>3, <1>4 DEF PayrollInv

LEMMA ClosePreserves ==
  ASSUME PayrollInv, NEW p \in Periods, CloseAttendance(p)
  PROVE  PayrollInv'
<1>1. UNCHANGED <<accepted, evidence, status, stalePut, currentVersionNumber, versions,
                  calcPhase, calcArg>>
  BY DEF CloseAttendance, vars, rowVars, calcVars
<1>2. PICK min \in Minutes : snapshot' = [snapshot EXCEPT ![p] = min]
  BY DEF CloseAttendance
<1>3. /\ PayrollTypeOK'
      /\ periodStatus[p] = "OPEN" /\ periodStatus'[p] = "READY_FOR_CALCULATION"
      /\ \A q \in Periods \ {p} : periodStatus'[q] = periodStatus[q] /\ snapshot'[q] = snapshot[q]
  BY <1>1, <1>2 DEF CloseAttendance, PayrollInv, PayrollTypeOK
<1>4. VersionsMatchThePeriod'
  BY <1>1, <1>3 DEF PayrollInv, VersionsMatchThePeriod
<1>5. CalculatedFromConsent' /\ AcceptedIsActive'
  BY <1>1 DEF PayrollInv, CalculatedFromConsent, AcceptedIsActive
<1>6. \A c \in Calculators : calcPhase[c] # "idle" =>
        calcArg[c].period \in Periods /\ calcArg[c].period # p
  BY <1>3 DEF PayrollInv, CalculatorsHold, Calculation
<1>7. CalculatorsHold'
  BY <1>1, <1>3, <1>6 DEF PayrollInv, CalculatorsHold
<1> QED
  BY <1>3, <1>4, <1>5, <1>7 DEF PayrollInv

LEMMA LoadPeriodPreserves ==
  ASSUME PayrollInv, NEW c \in Calculators, NEW p \in Periods, LoadPeriod(c, p)
  PROVE  PayrollInv'
<1>1. UNCHANGED <<accepted, evidence, status, stalePut, periodStatus, periodVersion,
                  currentVersionNumber, snapshot, versions>>
  BY DEF LoadPeriod, vars, rowVars, periodVars
<1> DEFINE a == [period |-> p, version |-> periodVersion[p], number |-> currentVersionNumber[p],
                 minutes |-> snapshot[p], terms |-> NoTerms]
<1>2. a \in Calculation
  BY DEF LoadPeriod, Calculation, PayrollInv, PayrollTypeOK
<1>3. /\ a.period = p /\ a.number = currentVersionNumber[p] /\ a.minutes = snapshot[p]
      /\ periodStatus[p] = "READY_FOR_CALCULATION"
  BY DEF LoadPeriod
<1>4. calcArg' = [calcArg EXCEPT ![c] = a] /\ calcPhase' = [calcPhase EXCEPT ![c] = "loaded"]
  BY DEF LoadPeriod
<1> HIDE DEF a
<1>5. /\ PayrollTypeOK'
      /\ calcPhase'[c] = "loaded" /\ calcArg'[c] = a
      /\ \A d \in Calculators \ {c} : calcPhase'[d] = calcPhase[d] /\ calcArg'[d] = calcArg[d]
  BY <1>1, <1>2, <1>4 DEF PayrollInv, PayrollTypeOK
<1>6. VersionsMatchThePeriod' /\ CalculatedFromConsent' /\ AcceptedIsActive'
  BY <1>1 DEF PayrollInv, VersionsMatchThePeriod, CalculatedFromConsent, AcceptedIsActive
<1>7. CalculatorsHold'
  BY <1>1, <1>2, <1>3, <1>5 DEF PayrollInv, CalculatorsHold
<1> QED
  BY <1>5, <1>6, <1>7 DEF PayrollInv

LEMMA ComputePreserves ==
  ASSUME ConditionsInv, PayrollInv, NEW c \in Calculators, Compute(c)
  PROVE  PayrollInv'
<1>1. UNCHANGED <<accepted, evidence, status, stalePut, periodStatus, periodVersion,
                  currentVersionNumber, snapshot, versions>>
  BY DEF Compute, vars, rowVars, periodVars
<1> DEFINE a == [calcArg[c] EXCEPT !.terms = terms]
<1>2. /\ calcArg[c] \in Calculation
      /\ calcPhase[c] = "loaded" /\ accepted
      /\ terms \in Drafts /\ terms # NoTerms
  BY DataAssumption, PeriodsAssumption
     DEF Compute, TermsForPeriod, PayrollInv, CalculatorsHold, Calculation
<1>3. /\ a \in Calculation /\ a.terms = terms
      /\ a.period = calcArg[c].period /\ a.number = calcArg[c].number
      /\ a.minutes = calcArg[c].minutes
  BY <1>2 DEF Calculation
<1>4. calcArg' = [calcArg EXCEPT ![c] = a] /\ calcPhase' = [calcPhase EXCEPT ![c] = "computed"]
  BY DEF Compute
<1> HIDE DEF a
<1>5. /\ PayrollTypeOK'
      /\ calcPhase'[c] = "computed" /\ calcArg'[c] = a
      /\ \A d \in Calculators \ {c} : calcPhase'[d] = calcPhase[d] /\ calcArg'[d] = calcArg[d]
  BY <1>1, <1>3, <1>4 DEF PayrollInv, PayrollTypeOK
<1>6. VersionsMatchThePeriod' /\ CalculatedFromConsent' /\ AcceptedIsActive'
  BY <1>1 DEF PayrollInv, VersionsMatchThePeriod, CalculatedFromConsent, AcceptedIsActive
<1>7. ~stalePut => terms = evidence.terms
  BY <1>2 DEF ConditionsInv, ConsentCoversTerms, PayrollInv, AcceptedIsActive
<1>8. CalculatorsHold'
  BY <1>1, <1>2, <1>3, <1>5, <1>7 DEF PayrollInv, CalculatorsHold
<1> QED
  BY <1>5, <1>6, <1>8 DEF PayrollInv

LEMMA PersistPreserves ==
  ASSUME PayrollInv, NEW c \in Calculators, Persist(c)
  PROVE  PayrollInv'
<1> DEFINE p == calcArg[c].period
           n == calcArg[c].number + 1
           new == [number |-> n, isCurrent |-> TRUE, minutes |-> calcArg[c].minutes,
                   terms |-> calcArg[c].terms]
<1>1. /\ calcArg[c] \in Calculation /\ calcPhase[c] = "computed"
      /\ p \in Periods /\ calcArg[c].minutes \in Minutes /\ calcArg[c].minutes = snapshot[p]
      /\ calcArg[c].terms \in Drafts
      /\ accepted /\ (~stalePut => calcArg[c].terms = evidence.terms)
      /\ periodStatus[p] = "READY_FOR_CALCULATION"
      /\ calcArg[c].number = currentVersionNumber[p]
  BY DEF Persist, Unclaimed, PayrollInv, CalculatorsHold, Calculation
\* A month that is ready has no version yet.
<1>2. versions[p] = {} /\ currentVersionNumber[p] = 0
  <2>1. versions[p] = {}
    BY <1>1 DEF PayrollInv, VersionsMatchThePeriod
  <2>2. 1..currentVersionNumber[p] = {} /\ currentVersionNumber[p] \in Nat
    BY <1>1, <2>1 DEF PayrollInv, PayrollTypeOK, VersionsMatchThePeriod
  <2> QED
    BY <2>1, <2>2
<1>3. n = 1 /\ new \in Version /\ new.number = 1 /\ new.isCurrent
      /\ new.minutes = snapshot[p] /\ new.terms = calcArg[c].terms
  BY <1>1, <1>2 DEF Version
<1>4. /\ versions' = [versions EXCEPT ![p] = {new}]
      /\ periodStatus' = [periodStatus EXCEPT ![p] = "CALCULATED"]
      /\ currentVersionNumber' = [currentVersionNumber EXCEPT ![p] = 1]
      /\ periodVersion' = [periodVersion EXCEPT ![p] = @ + 1]
      /\ snapshot' = snapshot /\ Idle(c)
      /\ UNCHANGED <<accepted, evidence, status, stalePut>>
  <2>1. versions' = [versions EXCEPT ![p] = Demoted(versions[p]) \union {new}]
    BY <1>1 DEF Persist, PayrollInv, PayrollTypeOK
  <2>2. Demoted(versions[p]) = {}
    BY <1>2 DEF Demoted
  <2> QED
    BY <1>3, <2>1, <2>2 DEF Persist, AfterCalculation, vars, rowVars
<1> HIDE DEF p, n, new
<1>5. /\ calcPhase' \in [Calculators -> {"idle", "loaded", "computed"}]
      /\ calcArg' \in [Calculators -> Calculation \union {NoCalculation}]
      /\ calcPhase'[c] = "idle"
      /\ \A d \in Calculators \ {c} : calcPhase'[d] = calcPhase[d] /\ calcArg'[d] = calcArg[d]
  BY <1>4 DEF Idle, PayrollInv, PayrollTypeOK
<1>6. /\ versions'[p] = {new} /\ periodStatus'[p] = "CALCULATED" /\ currentVersionNumber'[p] = 1
      /\ \A q \in Periods \ {p} :
           /\ versions'[q] = versions[q] /\ periodStatus'[q] = periodStatus[q]
           /\ currentVersionNumber'[q] = currentVersionNumber[q]
  BY <1>1, <1>4 DEF PayrollInv, PayrollTypeOK
<1>7. PayrollTypeOK'
  BY <1>1, <1>3, <1>4, <1>5 DEF PayrollInv, PayrollTypeOK
<1>8. VersionsMatchThePeriod'
  <2> SUFFICES ASSUME NEW q \in Periods
               PROVE  /\ periodStatus'[q] = "CALCULATED" <=> versions'[q] # {}
                      /\ {v.number : v \in versions'[q]} = 1..currentVersionNumber'[q]
                      /\ \A v, w \in versions'[q] : v.number = w.number => v = w
                      /\ \A v \in versions'[q] :
                           /\ v.isCurrent <=> v.number = currentVersionNumber'[q]
                           /\ v.minutes = snapshot'[q]
    BY DEF VersionsMatchThePeriod
  <2>1. CASE q = p
    <3>1. {v.number : v \in versions'[p]} = 1..1
      BY <1>3, <1>6
    <3> QED
      BY <1>3, <1>4, <1>6, <2>1, <3>1
  <2>2. CASE q # p
    BY <1>4, <1>6, <2>2 DEF PayrollInv, VersionsMatchThePeriod
  <2> QED
    BY <2>1, <2>2
<1>9. CalculatedFromConsent' /\ AcceptedIsActive'
  BY <1>1, <1>3, <1>4, <1>6 DEF PayrollInv, CalculatedFromConsent, AcceptedIsActive
<1>10. CalculatorsHold'
  BY <1>4, <1>5, <1>6 DEF PayrollInv, CalculatorsHold, Calculation
<1> QED
  BY <1>7, <1>8, <1>9, <1>10 DEF PayrollInv

LEMMA PayrollStep ==
  ASSUME ConditionsInv, PayrollInv, PayrollNext
  PROVE  PayrollInv'
<1>1. CASE \E p \in Periods : CloseAttendance(p)
  BY <1>1, ClosePreserves
<1>2. CASE \E c \in Calculators, p \in Periods : LoadPeriod(c, p)
  BY <1>2, LoadPeriodPreserves
<1>3. CASE \E c \in Calculators : Compute(c)
  BY <1>3, ComputePreserves
<1>4. CASE \E c \in Calculators : Persist(c)
  BY <1>4, PersistPreserves
<1>5. CASE \E c \in Calculators : Refuse(c) \/ Lose(c) \/ AbortCalculation(c)
  BY <1>5, IdlePreserves DEF Refuse, Lose, AbortCalculation
<1> QED
  BY <1>1, <1>2, <1>3, <1>4, <1>5 DEF PayrollNext

----------------------------------------------------------------------------

\* calculate beside saveConditions, acceptConditions and put: seen from the
\* conditions it changes nothing, so whatever Conditions promises still holds.
THEOREM PayrollKeepsConditions == PayrollSpec => Spec
<1>1. PayrollInit => Init
  BY DEF PayrollInit
<1>2. [ConditionsNext \/ PayrollNext]_allVars => [Next]_vars
  <2>1. PayrollNext => UNCHANGED vars
    BY DEF PayrollNext, CloseAttendance, LoadPeriod, Compute, Refuse, Persist, Lose,
           AbortCalculation
  <2> QED
    BY <2>1 DEF ConditionsNext, allVars
<1> QED
  BY <1>1, <1>2, PTL DEF PayrollSpec, Spec

\* The inductive invariant of calculate: how its copies, the month and the
\* consent relate.
THEOREM PayrollInvariant == PayrollSpec => []PayrollInv
<1>1. PayrollInit => PayrollInv
  BY PayrollInitInv
<1>2. ConditionsInv /\ ConditionsInv' /\ PayrollInv /\ [ConditionsNext \/ PayrollNext]_allVars
      => PayrollInv'
  <2> SUFFICES ASSUME ConditionsInv, ConditionsInv', PayrollInv,
                      [ConditionsNext \/ PayrollNext]_allVars
               PROVE  PayrollInv'
    OBVIOUS
  <2>1. CASE UNCHANGED allVars \/ ConditionsNext
    BY <2>1, ConditionsStep DEF allVars, ConditionsNext
  <2>2. CASE PayrollNext
    BY <2>2, PayrollStep
  <2> QED
    BY <2>1, <2>2
<1> QED
  BY <1>1, <1>2, PayrollKeepsConditions, ConditionsInvariant, PTL DEF PayrollSpec

\* persist: concurrent calculations leave one current version per month,
\* computed from the minutes that were closed.
THEOREM OneCalculation == PayrollSpec => []VersionsMatchThePeriod
<1>1. PayrollInv => VersionsMatchThePeriod
  BY DEF PayrollInv
<1> QED
  BY <1>1, PayrollInvariant, PTL

\* resolveTermsForPeriod: what is calculated was accepted, with the exception
\* of a put that overlapped another change.
THEOREM CalculationHasConsent == PayrollSpec => []CalculatedFromConsent
<1>1. PayrollInv => CalculatedFromConsent
  BY DEF PayrollInv
<1> QED
  BY <1>1, PayrollInvariant, PTL
============================================================================
