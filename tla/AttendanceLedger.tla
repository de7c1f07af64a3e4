-------------------------- MODULE AttendanceLedger --------------------------
(***************************************************************************)
(* What attendance promises to the worker and the family, with no request, *)
(* lock, version or copy in sight: each operation happens at once on the   *)
(* day as it is, and a month is sealed with exactly its approved days.     *)
(***************************************************************************)
EXTENDS Integers

CONSTANTS Days, Months, MonthOf, Instants

VARIABLES
  status,    \* day -> status
  span,      \* day -> the clock-in and clock-out in force, as sets
  minutes,   \* day -> approved minutes, -1 when never approved
  sealed     \* month -> the days it was closed with, {} while it is open

ledger == <<status, span, minutes, sealed>>

Span(ins, outs) == [in |-> ins, out |-> outs]
Duration(in, out) == IF out >= in THEN out - in ELSE 0

Open(m) == sealed[m] = {}
DaysOf(m) == {d \in Days : MonthOf[d] = m /\ status[d] # "NONE"}
SealedDay(d) == [day |-> d, minutes |-> minutes[d], span |-> span[d]]

Init ==
  /\ status = [d \in Days |-> "NONE"]
  /\ span = [d \in Days |-> Span({}, {})]
  /\ minutes = [d \in Days |-> -1]
  /\ sealed = [m \in Months |-> {}]

Becomes(d, to) == status' = [status EXCEPT ![d] = to]
NoneOpen == \A d \in Days : status[d] # "OPEN"

\* When each operation may happen.
CanClockIn(d) == NoneOpen /\ Open(MonthOf[d]) /\ status[d] = "NONE"
CanClockOut(d) == Open(MonthOf[d]) /\ status[d] = "OPEN"
CanApprove(d) ==
  /\ Open(MonthOf[d]) /\ status[d] = "PENDING_APPROVAL"
  /\ span[d].in # {} /\ span[d].out # {}
CanDispute(d) == Open(MonthOf[d]) /\ status[d] \in {"OPEN", "PENDING_APPROVAL", "APPROVED"}
CanCorrect(d, in, out) == in < out /\ Open(MonthOf[d]) /\ status[d] = "DISPUTED"
CanDismiss(d) ==
  /\ Open(MonthOf[d]) /\ status[d] = "DISPUTED"
  /\ span[d].out = {} => NoneOpen
CanSeal(m) == Open(m) /\ DaysOf(m) # {} /\ \A d \in DaysOf(m) : status[d] = "APPROVED"

ClockIn(d, t) ==
  /\ CanClockIn(d)
  /\ Becomes(d, "OPEN")
  /\ span' = [span EXCEPT ![d] = Span({t}, {})]
  /\ UNCHANGED <<minutes, sealed>>

ClockOut(d, t) ==
  /\ CanClockOut(d)
  /\ Becomes(d, "PENDING_APPROVAL")
  /\ span' = [span EXCEPT ![d].out = {t}]
  /\ UNCHANGED <<minutes, sealed>>

Approve(d) ==
  /\ CanApprove(d)
  /\ Becomes(d, "APPROVED")
  /\ \E i \in span[d].in, o \in span[d].out :
       minutes' = [minutes EXCEPT ![d] = Duration(i, o)]
  /\ UNCHANGED <<span, sealed>>

\* Either party may object to a day in any state but while it is objected to.
Dispute(d) ==
  /\ CanDispute(d)
  /\ Becomes(d, "DISPUTED")
  /\ UNCHANGED <<span, minutes, sealed>>

\* The family accepts the correction: a new span, approved as it is.
Correct(d, in, out) ==
  /\ CanCorrect(d, in, out)
  /\ Becomes(d, "APPROVED")
  /\ span' = [span EXCEPT ![d] = Span({in}, {out})]
  /\ minutes' = [minutes EXCEPT ![d] = out - in]
  /\ UNCHANGED sealed

\* The family rejects it: the day waits for what it lacked.
Dismiss(d) ==
  /\ CanDismiss(d)
  /\ Becomes(d, IF span[d].out = {} THEN "OPEN" ELSE "PENDING_APPROVAL")
  /\ UNCHANGED <<span, minutes, sealed>>

Seal(m) ==
  /\ CanSeal(m)
  /\ sealed' = [sealed EXCEPT ![m] = {SealedDay(d) : d \in DaysOf(m)}]
  /\ UNCHANGED <<status, span, minutes>>

Next ==
  \/ \E d \in Days : \/ \E t \in Instants : ClockIn(d, t) \/ ClockOut(d, t)
                     \/ Approve(d) \/ Dispute(d) \/ Dismiss(d)
                     \/ \E i, o \in Instants : Correct(d, i, o)
  \/ \E m \in Months : Seal(m)

Spec == Init /\ [][Next]_ledger
============================================================================
