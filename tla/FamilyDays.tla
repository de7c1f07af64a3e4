----------------------------- MODULE FamilyDays -----------------------------
(***************************************************************************)
(* The family's panel of work days (components/jornadas-familia.tsx): the  *)
(* list of days, the detail of the selected one and its buttons.           *)
(*                                                                         *)
(* cargarJornadas closes over the selected day, and is an effect of it: an *)
(* answer refreshes the detail, which makes a new cargarJornadas, which    *)
(* the effect calls.  An open detail thus polls the API, for as long as    *)
(* its day is among those of the list.                                     *)
(***************************************************************************)
EXTENDS AttendancePage

CONSTANT FamilyLimit   \* the days the panel asks for, 30 in the code
ASSUME FamilyLimitAssumption == FamilyLimit \in Nat \ {0}

VARIABLES
  jornadas,       \* the list: day -> row, None before the first answer
  seleccionada,   \* jornadaSeleccionada: a copy of a day, or None
  proponiendo     \* whether the proposal form is open

familyVars == <<jornadas, seleccionada, proponiendo>>

FamilyInit ==
  /\ jornadas = None /\ seleccionada = None /\ proponiendo = FALSE
  /\ loads = [s \in Slots |-> IF s = 1 THEN Waiting(None) ELSE None]

Listed == IF jornadas = None THEN {} ELSE DOMAIN jornadas
Carried == IF seleccionada = None THEN None ELSE seleccionada.day

----------------------------------------------------------------------------
(* Loading *)

\* The detail after an answer: the row of the day its load carried, no matter
\* which one is selected by now; and the load that the new detail starts.  A day
\* that fell out of the list is not refreshed, and starts no load.
Refreshed(ask, rows) ==
  IF ask \in DOMAIN rows THEN Copy(ask, rows[ask]) ELSE seleccionada
NotRenewed(ask, rows) == None
Renewed(ask, rows) == IF ask \in DOMAIN rows THEN Waiting(ask) ELSE None

ArriveFamily(s) ==
  /\ Answered(s)
  /\ jornadas' = loads[s].answer
  /\ seleccionada' = Refreshed(loads[s].ask, loads[s].answer)
  /\ loads' = [loads EXCEPT ![s] = Renewed(loads[s].ask, loads[s].answer)]
  /\ busy' = Released(s)
  /\ UNCHANGED <<server, error, asShown, proponiendo>>

Select(d) ==
  /\ d \in Listed /\ seleccionada # Copy(d, jornadas[d])
  /\ seleccionada' = Copy(d, jornadas[d])
  /\ Start(d)
  /\ UNCHANGED <<server, busy, error, asShown, jornadas, proponiendo>>

CloseDetail ==
  /\ seleccionada # None
  /\ seleccionada' = None
  /\ Start(None)
  /\ UNCHANGED <<server, busy, error, asShown, jornadas, proponiendo>>

----------------------------------------------------------------------------
(* The buttons *)

OffersApprove(c) == c.row.status = "PENDING_APPROVAL"
OffersResolve(c) == c = seleccionada /\ c.row.proposal # {}
OffersProposal(c) == c = seleccionada /\ ~proponiendo /\ c.row.status # "APPROVED"
OffersSend(c) == c = seleccionada /\ proponiendo

InList == {Copy(d, jornadas[d]) : d \in Listed}
Copies == InList \union (IF seleccionada = None THEN {} ELSE {seleccionada})
Current(c) == c.row = Row(c.day)

\* Every handler loads again, after a success and after a failure.
Press(c, served) ==
  /\ Send(served, Current(c))
  /\ ThenLoad(Carried)
  /\ UNCHANGED <<jornadas, seleccionada>>

PressApprove(c) ==
  OffersApprove(c) /\ Press(c, ServeApprove(c.day, c.row.version)) /\ UNCHANGED proponiendo

\* aprobarCorreccion, and rechazarCorreccion once its reason is given.
PressResolve(c) ==
  /\ OffersResolve(c)
  /\ Press(c, ServeAccept(c.day, c.row.version) \/ ServeReject(c.day, c.row.version))
  /\ UNCHANGED proponiendo

\* The form stays open over a change of the selected day, until it is sent.
PressProposal(c) ==
  OffersSend(c) /\ Press(c, ServeRequest(c.day, c.row.version)) /\ proponiendo' = error'

OpenProposal(c) ==
  /\ OffersProposal(c)
  /\ proponiendo' = TRUE
  /\ UNCHANGED <<page, jornadas, seleccionada>>

CancelProposal ==
  proponiendo /\ seleccionada # None /\ proponiendo' = FALSE
  /\ UNCHANGED <<page, jornadas, seleccionada>>

FamilyNext ==
  \/ \E s \in Slots : ArriveFamily(s)
  \/ \E s \in Slots : (Read(s, Rows(FamilyLimit)) \/ LoadFails(s)) /\ UNCHANGED familyVars
  \/ \E d \in Days : Select(d)
  \/ CloseDetail \/ CancelProposal
  \/ \E c \in Copies : PressApprove(c) \/ PressResolve(c) \/ PressProposal(c) \/ OpenProposal(c)
  \/ Elsewhere /\ UNCHANGED familyVars

----------------------------------------------------------------------------
(* Properties *)

\* With a current copy the API takes what a button sends, with two exceptions:
\* a rejection that would open the day again while another one is open, and a
\* proposal for a day in dispute or approved, whose month may be closed.
FamilyFresh ==
  \A c \in {k \in Copies : Current(k)} :
    /\ OffersApprove(c) => CanApprove(c.day)
    /\ OffersResolve(c) =>
         /\ \E p \in c.row.proposal : CanCorrect(c.day, p.in, p.out)
         /\ NoneOpen \/ c.row.span.out # {} => CanDismiss(c.day)
    /\ OffersSend(c) /\ c.row.status \notin {"DISPUTED", "APPROVED"} => CanDispute(c.day)

\* Once the days stop changing, an open detail becomes current, or the panel
\* shows that a load failed.  The detail of a day older than the list is the
\* exception: it stays as it was.
DetailBecomesCurrent ==
  []<>(error \/ seleccionada = None \/ Current(seleccionada)
       \/ seleccionada.day \notin NewestDays(FamilyLimit))
============================================================================
