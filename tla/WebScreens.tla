----------------------------- MODULE WebScreens -----------------------------
(***************************************************************************)
(* Four screens of the web client, each over the API and among clients it  *)
(* does not see: the three attendance panels, and the form of a profile    *)
(* with the session it leaves behind.  They share no state: a behaviour is *)
(* of one of them.                                                         *)
(***************************************************************************)
EXTENDS FamilyDays, WorkerClock, PeriodPanel, Profiles

CONSTANT MaxChanges   \* screen -> the days are changed this many times together (bound)

VARIABLE panel        \* the screen of this behaviour

screens == <<page, panel, familyVars, workerVars, periodVars, profileVars>>

NoFamily == jornadas = None /\ seleccionada = None /\ proponiendo = FALSE
NoWorker == historial = None /\ corrigiendo = None /\ hoy = None
NoPeriod == mes = None /\ periodo = None /\ confirma = FALSE /\ fecha = None

NoLoad == loads = [s \in Slots |-> None]

ScreensInit ==
  /\ PageInit
  /\ ProfilesInit
  /\ \/ panel = "family" /\ FamilyInit /\ NoWorker /\ NoPeriod
     \/ panel = "worker" /\ WorkerInit /\ NoFamily /\ NoPeriod
     \/ panel = "period" /\ PeriodPanelInit /\ NoFamily /\ NoWorker
     \/ panel = "profile" /\ NoLoad /\ NoFamily /\ NoWorker /\ NoPeriod

But(others) == UNCHANGED <<panel, others>>

Changes == FoldFunction(+, 0, version)

ScreensNext ==
  /\ \/ panel = "family" /\ FamilyNext /\ But(<<workerVars, periodVars, profileVars>>)
     \/ panel = "worker" /\ WorkerNext /\ But(<<familyVars, periodVars, profileVars>>)
     \/ panel = "period" /\ PeriodPanelNext /\ But(<<familyVars, workerVars, profileVars>>)
     \/ panel = "profile" /\ ProfilesNext /\ But(<<page, familyVars, workerVars, periodVars>>)
  /\ Changes' <= MaxChanges[panel]

ScreensSpec == ScreensInit /\ [][ScreensNext]_screens

\* A read of the family's days is served and its answer arrives.  Nothing else is
\* fair: a user need not press, and the network may fail a read.
FairScreens ==
  /\ ScreensSpec
  /\ \A s \in Slots :
       /\ WF_screens(/\ panel = "family" /\ Read(s, Rows(FamilyLimit))
                     /\ But(<<familyVars, workerVars, periodVars, profileVars>>))
       /\ WF_screens(/\ panel = "family" /\ ArriveFamily(s)
                     /\ But(<<workerVars, periodVars, profileVars>>))

----------------------------------------------------------------------------
(* Properties *)

\* An approval, a correction requested or resolved that the API takes was
\* pressed on a copy equal, in everything it shows, to the day it acts on.
ActsOnWhatItShows == asShown

\* A button pressed with a current copy is not refused (FamilyFresh,
\* WorkerFresh and PeriodFresh name the exceptions).
FreshButtonsWork ==
  /\ panel = "family" => FamilyFresh
  /\ panel = "worker" => WorkerFresh
  /\ panel = "period" => PeriodFresh
============================================================================
