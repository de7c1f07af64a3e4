------------------------ MODULE AttendanceRefinement ------------------------
(* The handlers of Attendance implement AttendanceLedger: however stale the *)
(* copies they decided from, what they commit is what the operation would   *)
(* have done at once on the current rows.                                   *)
EXTENDS Attendance

LedgerSpan(d) ==
  [in |-> {e.at : e \in Active(d, "CLOCK_IN")},
   out |-> {e.at : e \in Active(d, "CLOCK_OUT")}]

Ledger == INSTANCE AttendanceLedger WITH
  status <- dayStatus,
  span <- [d \in Days |-> LedgerSpan(d)],
  minutes <- approvedMinutes,
  sealed <- [m \in Months |->
    {[day |-> row.day, minutes |-> row.minutes,
      span |-> [in |-> row.in, out |-> row.out]] : row \in snapshot[m]}]

\* Every step of the handlers is one ledger operation on the rows as they are
\* or leaves the ledger as it was.
ImplementsLedger == Ledger!Spec
============================================================================
