----------------------------- MODULE WorkerClock -----------------------------
(***************************************************************************)
(* The worker's panel (components/fichaje-trabajadora.tsx): the clock of   *)
(* today, the days before, and the form that asks for a correction.  The   *)
(* form keeps the copy it was opened on.                                   *)
(***************************************************************************)
EXTENDS AttendancePage

CONSTANT WorkerLimit   \* the days the panel asks for, 15 in the code
ASSUME WorkerLimitAssumption == WorkerLimit \in Nat \ {0}

VARIABLES
  historial,     \* jornadas: day -> row, None before the first answer
  corrigiendo,   \* corrigiendoJornada: the copy under the form, or None
  hoy            \* hoyLocal: the date when the panel was last rendered

workerVars == <<historial, corrigiendo, hoy>>

WorkerInit ==
  /\ historial = None /\ corrigiendo = None /\ hoy = today
  /\ loads = [s \in Slots |-> IF s = 1 THEN Waiting(None) ELSE None]

\* The days of the list.  An older one is not there, and may be open.
Past == IF historial = None THEN {} ELSE DOMAIN historial
OpenOnes == {d \in Past : historial[d].status = "OPEN"}

\* jornadaActual: the open day of any date, or else today's.
Actual == IF OpenOnes # {} THEN OpenOnes ELSE Past \intersect {hoy}

----------------------------------------------------------------------------
(* The buttons *)

OffersClockInAlways == historial # None
OffersClockIn == historial # None /\ Actual = {}
OffersClockOut == Actual \intersect OpenOnes
\* Solicitar corrección for the current day, Corregir for those in the list.
OffersForm ==
  {d \in Past : historial[d].status = "PENDING_APPROVAL" /\ (d \in Actual \/ corrigiendo = None)}

ArriveWorker(s) ==
  /\ Answered(s)
  /\ historial' = loads[s].answer
  /\ loads' = [loads EXCEPT ![s] = None]
  /\ busy' = Released(s)
  /\ hoy' = today
  /\ UNCHANGED <<server, error, asShown, corrigiendo>>

\* A first error renders the panel, as the end of procesando does; the same error
\* again need not.
WorkerLoadFails(s) ==
  /\ LoadFails(s)
  /\ hoy' \in {today} \union (IF error /\ busy # s THEN {hoy} ELSE {})
  /\ UNCHANGED <<historial, corrigiendo>>

\* ficharEntrada and ficharSalida load again only after a success.
Clock(served) ==
  /\ Send(served, TRUE)
  /\ IF error' THEN UNCHANGED <<loads, busy>> ELSE ThenLoad(None)
  /\ hoy' = today
  /\ UNCHANGED <<historial, corrigiendo>>

PressClockIn == OffersClockIn /\ Clock(ServeClockIn)
PressClockOut == \E d \in OffersClockOut : Clock(ServeClockOut(d))

OpenForm(d) ==
  /\ d \in OffersForm
  /\ corrigiendo' = Copy(d, historial[d])
  /\ hoy' = today
  /\ UNCHANGED <<page, historial>>

\* Cerrar, which a request under way does not disable.
CloseForm ==
  /\ corrigiendo # None
  /\ corrigiendo' = None
  /\ hoy' = today
  /\ UNCHANGED <<page, historial>>

\* enviarCorreccion: the form closes on success, and the load follows either way.
PressSend ==
  /\ corrigiendo # None
  /\ Send(ServeRequest(corrigiendo.day, corrigiendo.row.version),
          corrigiendo.row = Row(corrigiendo.day))
  /\ ThenLoad(None)
  /\ corrigiendo' = (IF error' THEN corrigiendo ELSE None)
  /\ hoy' = today
  /\ UNCHANGED historial

WorkerNext ==
  \/ \E s \in Slots : ArriveWorker(s)
  \/ \E s \in Slots : Read(s, Rows(WorkerLimit)) /\ UNCHANGED workerVars
  \/ \E s \in Slots : WorkerLoadFails(s)
  \/ PressClockIn \/ PressClockOut \/ PressSend \/ CloseForm
  \/ \E d \in Days : OpenForm(d)
  \/ Elsewhere /\ UNCHANGED workerVars

----------------------------------------------------------------------------
(* Properties *)

\* With a current list, rendered today, the API takes what a button sends, with
\* one exception: a day older than the list was opened again, by the rejection of
\* its correction, and no clock-in is taken until the family settles it.
WorkerFresh ==
  historial = Rows(WorkerLimit) /\ hoy = today =>
    /\ OffersClockIn =>
         CanClockIn(today) \/ \E d \in Days \ Past : status[d] = "OPEN"
    /\ \A d \in OffersClockOut : CanClockOut(d)
    /\ \A d \in OffersForm : CanDispute(d)
============================================================================
