--------------------------- MODULE MCAttendance ---------------------------
(* Instances of Attendance for TLC.                                        *)
EXTENDS AttendanceRefinement, TLC

Symmetry == Permutations(Requests)

\* One work day: two instants of it, and one of the next month to close at.
DayDateOf == (0 :> 0) @@ (1 :> 0) @@ (2 :> 1)
DayMonthOf == (0 :> 0) @@ (1 :> 1)
DayProposals == {<<0, 1>>, <<1, 0>>}

\* Two days of a month and one of the next, one instant each.
MonthDateOf == (0 :> 0) @@ (1 :> 1) @@ (2 :> 2)
MonthMonthOf == (0 :> 0) @@ (1 :> 0) @@ (2 :> 1)
MonthProposals == {<<0, 2>>}
============================================================================
