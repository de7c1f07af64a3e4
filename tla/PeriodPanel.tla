----------------------------- MODULE PeriodPanel -----------------------------
(***************************************************************************)
(* The monthly panel of the family (components/periodos-asistencia.tsx):   *)
(* the month of its header, the period of its last answer, and the dialog  *)
(* that closes the period shown.                                           *)
(*                                                                         *)
(* The answers of two months may arrive in either order: the period shown  *)
(* need not be the month of the header.  The close sends the version of    *)
(* the period, which no change of a day increments.  Whether the month is  *)
(* over the panel asks of the clock and the zone of the browser, and the   *)
(* API of its own clock and the zone of the household.                     *)
(***************************************************************************)
EXTENDS AttendancePage

CONSTANT Skew   \* days the browser's date may be away from the household's
ASSUME SkewAssumption == Skew \in Nat

VARIABLES
  mes,        \* the month of the header
  periodo,    \* the totals shown, or None
  confirma,   \* mostrarModalCierre
  fecha       \* hoy: the browser's date when the panel was last rendered

periodVars == <<mes, periodo, confirma, fecha>>

Nearby == {d \in Days : d - today <= Skew /\ today - d <= Skew}
Rendered == fecha' \in Nearby

PeriodPanelInit ==
  /\ fecha \in Nearby
  /\ mes = MonthOf[fecha] /\ periodo = None /\ confirma = FALSE
  /\ loads = [s \in Slots |-> IF s = 1 THEN Waiting(mes) ELSE None]

----------------------------------------------------------------------------

ArrivePeriod(s) ==
  /\ Answered(s)
  /\ periodo' = loads[s].answer
  /\ loads' = [loads EXCEPT ![s] = None]
  /\ busy' = Released(s)
  /\ Rendered
  /\ UNCHANGED <<server, error, asShown, mes, confirma>>

PeriodLoadFails(s) == LoadFails(s) /\ Rendered /\ UNCHANGED <<mes, periodo, confirma>>

\* cambiarPeriodo, and the load its effect starts: that one clears the error.
ChangeMonth(m) ==
  /\ m # mes
  /\ mes' = m
  /\ Start(m)
  /\ error' = FALSE
  /\ Rendered
  /\ UNCHANGED <<server, busy, asShown, periodo, confirma>>

\* The button looks at the month of the header and the browser's date for whether
\* it is over (mesFinalizado), and at the period shown for the rest.
OffersClose ==
  /\ periodo # None
  /\ MonthOf[fecha] > mes
  /\ ~periodo.closed /\ ~periodo.pending /\ periodo.approved # {}

OpenDialog ==
  OffersClose /\ ~confirma /\ confirma' = TRUE /\ Rendered /\ UNCHANGED <<page, mes, periodo>>
CancelDialog ==
  confirma /\ busy = None /\ confirma' = FALSE /\ Rendered /\ UNCHANGED <<page, mes, periodo>>

\* confirmarCierre closes the period shown, whichever it is by now.  A closed
\* one answers its view, and the version of an open one has not changed.
ServeConfirm ==
  IF periodo.closed THEN UNCHANGED server
                    ELSE ServeClose(periodo.month)

\* It loads again in every case, and the dialog stays open after a failure.
PressConfirm ==
  /\ confirma /\ periodo # None
  /\ Send(ServeConfirm, TRUE)
  /\ ThenLoad(mes)
  /\ confirma' = error'
  /\ Rendered
  /\ UNCHANGED <<mes, periodo>>

PeriodPanelNext ==
  \/ \E s \in Slots : ArrivePeriod(s)
  \/ \E s \in Slots : /\ loads[s] # None
                      /\ Read(s, Totals(loads[s].ask))
                      /\ UNCHANGED periodVars
  \/ \E s \in Slots : PeriodLoadFails(s)
  \/ \E m \in Months : ChangeMonth(m)
  \/ OpenDialog \/ CancelDialog \/ PressConfirm
  \/ Elsewhere /\ UNCHANGED periodVars

----------------------------------------------------------------------------
(* Properties *)

\* With current totals of whichever month is shown, the API takes the close that
\* the button starts, with two exceptions: a late answer brought a month after
\* the one of the header, or the browser is in a month the household is not in yet.
PeriodFresh ==
  OffersClose /\ periodo = Totals(periodo.month) =>
    /\ CanSeal(periodo.month)
    /\ \/ MonthOver(periodo.month)
       \/ periodo.month > mes
       \/ MonthOf[fecha] > MonthOf[today]
============================================================================
