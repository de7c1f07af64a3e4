--------------------------- MODULE ConsentScreens ---------------------------
(***************************************************************************)
(* The two web pages of one relationship before it is active: the worker's *)
(* review (app/trabajadora/relaciones/[id]) and the family's configuration *)
(* (app/familia/relaciones/[id]), over the API of Conditions.              *)
(*                                                                         *)
(* A page shows the copy its last load brought and offers buttons by it.   *)
(* The request behind a button carries no version: the server reads anew.  *)
(* A page disables its buttons until its request is answered, so that page *)
(* and request are one process.  It loads again after a success, not after *)
(* a failure.                                                              *)
(***************************************************************************)
EXTENDS Conditions

CONSTANTS
  WorkerPages,   \* the pages of the worker; the other requests are the family's
  NoCopy         \* a page that has shown nothing yet

ASSUME PagesAssumption == WorkerPages \subseteq Requests /\ NoCopy \notin Copy

VARIABLES
  shown,      \* relacion: the copy each page shows
  loading,    \* the pages whose cargar has not ended
  agreed      \* what the page showed on which the acceptance was pressed

pageVars == <<shown, loading, agreed>>
screenVars == <<vars, pageVars>>

FamilyPages == Requests \ WorkerPages

PagesInit ==
  /\ Init
  /\ shown = [p \in Requests |-> NoCopy]
  /\ loading = Requests
  /\ agreed = NoCopy

----------------------------------------------------------------------------
(* What a page offers, and what the server takes *)

Ready(p) == p \notin loading /\ shown[p] # NoCopy

\* puedeDecidir
OffersDecision(p) == shown[p].status = "PENDING_WORKER_ACCEPTANCE"

\* editable, the schedule only under conditions, and puedeEnviar
OffersConditions(p) == shown[p].status \in Editable
OffersSchedule(p) == OffersConditions(p) /\ shown[p].terms # NoTerms
OffersSubmitEarly(p) == shown[p].status = "PENDING_CONFIGURATION" /\ shown[p].terms # NoTerms
OffersSubmit(p) ==
  /\ shown[p].status = "PENDING_CONFIGURATION"
  /\ shown[p].terms # NoTerms
  /\ shown[p].published # {}

Offers(p) ==
  IF p \in WorkerPages
  THEN {op \in {"accept", "reject"} : OffersDecision(p)}
  ELSE {op \in {"save"} : OffersConditions(p)}
       \union {op \in {"put"} : OffersSchedule(p)}
       \union {op \in {"submit"} : OffersSubmit(p)}

\* The checks of the services before their transactions.
Takes ==
  {op \in {"save", "put"} : status \in Editable}
  \union {op \in {"submit"} :
            CanTransition(status, "PENDING_WORKER_ACCEPTANCE", "FAMILY_EMPLOYER") /\ Complete}
  \union {op \in {"accept"} : CanTransition(status, "ACTIVE", "WORKER") /\ terms # NoTerms}
  \union {op \in {"reject"} : CanTransition(status, "PENDING_CONFIGURATION", "WORKER")}

----------------------------------------------------------------------------
(* Loading a page *)

\* cargar, on arrival or after a success
Show(p) ==
  /\ p \in loading
  /\ loading' = loading \ {p}
  /\ shown' = [shown EXCEPT ![p] = Read]
  /\ UNCHANGED <<vars, agreed>>

\* cargar catches its own failure: the page stays as it was, buttons included.
ShowFails(p) ==
  /\ p \in loading /\ shown[p] # NoCopy
  /\ loading' = loading \ {p}
  /\ UNCHANGED <<vars, shown, agreed>>

Revisit(p) ==
  /\ Ready(p) /\ phase[p] = "idle"
  /\ loading' = loading \union {p}
  /\ UNCHANGED <<vars, shown, agreed>>

----------------------------------------------------------------------------
(* Pressing a button.  A press the server refuses leaves both sides as they *)
(* were: the page shows the message and does not load again.               *)

Press(p, op) == Ready(p) /\ op \in Offers(p) /\ UNCHANGED pageVars

Pressed(p) ==
  \/ Press(p, "save") /\ LoadSave(p)
  \/ Press(p, "put") /\ LoadPut(p)
  \/ Press(p, "submit") /\ LoadSubmit(p)
  \/ Press(p, "accept") /\ LoadAccept(p)
  \/ Press(p, "reject") /\ LoadReject(p)

\* The answer reaches the page, which loads again, or is lost on the way.
Answered(p) ==
  /\ loading' \in {loading, loading \union {p}}
  /\ UNCHANGED shown

Succeeds(p) ==
  \/ (CommitSave(p) \/ CommitSubmit(p) \/ CommitReject(p) \/ Publish(p))
     /\ Answered(p) /\ UNCHANGED agreed
  \/ CommitAccept(p) /\ Answered(p) /\ agreed' = shown[p]

Fails(p) == (Conflict(p) \/ Abort(p)) /\ UNCHANGED pageVars

Underway(p) == Supersede(p) /\ UNCHANGED pageVars

----------------------------------------------------------------------------
(* The specification *)

PagesNext ==
  \E p \in Requests :
    \/ Show(p) \/ ShowFails(p) \/ Revisit(p)
    \/ Pressed(p) \/ Underway(p) \/ Succeeds(p) \/ Fails(p)

PagesSpec == PagesInit /\ [][PagesNext]_screenVars

----------------------------------------------------------------------------
(* Properties *)

PagesTypeOK ==
  /\ TypeOK
  /\ shown \in [Requests -> Copy \union {NoCopy}]
  /\ loading \in SUBSET Requests
  /\ agreed \in Copy \union {NoCopy}

\* A button is refused only to a page whose copy has an older version or
\* another status: as long as both are current, the conditions of the pages
\* ask for everything the services check (RelationshipsService and
\* WorkSchedulesService against puedeDecidir, editable and puedeEnviar).
RefusedIsStale ==
  \A p \in Requests :
    Ready(p) /\ shown[p].version = version /\ shown[p].status = status =>
      Offers(p) \subseteq Takes

\* If the page of the acceptance showed the version that was accepted, she
\* agreed to exactly the terms and the schedule in her evidence, but for a put
\* that overlapped another change.  A version sent with the acceptance would
\* thus be enough to hold her to what she saw.
SameVersionSameOffer ==
  status = "ACTIVE" /\ agreed.version = evidence.version =>
    /\ agreed.terms = evidence.terms
    /\ ~stalePut => agreed.published = {evidence.schedule}

\* "The worker accepts what she sees, not what she saw before"
\* (app/familia/relaciones/[id]/page.tsx).
AcceptedAsShown ==
  status = "ACTIVE" => agreed.terms = evidence.terms /\ agreed.published = published
============================================================================
