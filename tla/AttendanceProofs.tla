-------------------------- MODULE AttendanceProofs --------------------------
(***************************************************************************)
(* What Attendance guarantees for every set of requests, days, months and  *)
(* keys, every calendar and every bound.                                   *)
(***************************************************************************)
EXTENDS AttendanceRefinement, TLAPS

(***************************************************************************)
(* The shape of what a request carries follows from its operation.         *)
(***************************************************************************)
LEMMA ArgShapes ==
  ASSUME NEW a \in Args
  PROVE  /\ a.op \in {"clockIn", "clockOut"} => a \in ClockArg
         /\ a.op \in {"approve", "requestCorrection"} => a \in SpanArg
         /\ a.op = "approveCorrection" => a \in AcceptArg
         /\ a.op = "rejectCorrection" => a \in RejectArg
         /\ a.op = "closeAttendance" => a \in CloseArg
         /\ a # NoArg => a.month \in Months
BY DEF Args, ClockArg, SpanArg, AcceptArg, RejectArg, CloseArg, NoArg

LEMMA RowType ==
  ASSUME TypeOK, NEW m \in Months
  PROVE  SnapshotOf(m) \subseteq SnapshotDay
<1>1. ASSUME NEW d \in Days PROVE RowOf(d) \in SnapshotDay
  <2>1. \A k \in Kinds : {e.at : e \in Active(d, k)} \subseteq Instants
    BY DEF TypeOK, Active, Entry
  <2>2. approvedMinutes[d] \in Int /\ dayVersion[d] \in Nat
    BY DEF TypeOK, NoMinutes
  <2>. QED BY <2>1, <2>2 DEF RowOf, SnapshotDay, Kinds
<1>. QED BY <1>1 DEF SnapshotOf, DaysIn

LEMMA MinutesType ==
  ASSUME NEW i \in Instants, NEW o \in Instants
  PROVE  Minutes(i, o) \in Nat
BY CalendarAssumption DEF Minutes, Instants

(***************************************************************************)
(* Steps that many actions share keep the types.                           *)
(***************************************************************************)
ControlOK ==
  /\ lock' \in [Months -> Requests \union {NoRequest}]
  /\ pc' \in [Requests -> Phases]
  /\ arg' \in [Requests -> Args]

LEMMA FinishType ==
  ASSUME TypeOK, NEW r \in Requests, Finish(r)
  PROVE  ControlOK /\ now' \in Instants
BY DEF TypeOK, Finish, Free, ControlOK, Phases, Args

LEMMA AbortType ==
  ASSUME TypeOK, NEW r \in Requests, Abort(r)
  PROVE  TypeOK'
<1>1. ControlOK /\ now' \in Instants
  <2>1. CASE arg[r].op \in ClockOps
    BY <2>1 DEF TypeOK, Abort, Free, ControlOK, Phases
  <2>2. CASE arg[r].op \notin ClockOps
    BY <2>2, FinishType DEF Abort
  <2>. QED BY <2>1, <2>2
<1>. QED BY <1>1 DEF TypeOK, Abort, ControlOK, dbVars, dayVars, periodVars, PeriodClosed

LEMMA LoadType ==
  ASSUME TypeOK, NEW r \in Requests, NEW a \in Args, Load(r, a)
  PROVE  TypeOK'
BY DEF TypeOK, Load, Phases, dbVars, dayVars, periodVars

(***************************************************************************)
(* A submission either answers a known key at once or loads a request whose *)
(* month is the month of its day.                                           *)
(***************************************************************************)
WellFormed(a) ==
  a # NoArg /\ (a.op # "closeAttendance" => a.month = MonthOf[a.day])

LoadsOne(r) == \E a \in Args : WellFormed(a) /\ Load(r, a)
AnswersOne(r) == \E k \in ClockInKeys \union ClockOutKeys : AnswerKnownKey(r, k)

LEMMA SubmitShape ==
  ASSUME TypeOK, NEW r \in Requests, Submit(r)
  PROVE  LoadsOne(r) \/ AnswersOne(r)
<1>2. ASSUME NEW k \in ClockInKeys, LoadClockIn(r, k) PROVE LoadsOne(r) \/ AnswersOne(r)
  <2>1. DateOf[now] \in Days /\ MonthOf[DateOf[now]] \in Months
    BY CalendarAssumption DEF TypeOK
  <2>2. [op |-> "clockIn", day |-> DateOf[now], month |-> MonthOf[DateOf[now]],
         key |-> k, at |-> now] \in Args
    BY <2>1 DEF TypeOK, Args, ClockArg
  <2>. QED BY <1>2, <2>2 DEF LoadClockIn, LoadsOne, AnswersOne, WellFormed, NoArg
<1>3. ASSUME NEW d \in Days, NEW k \in ClockOutKeys, LoadClockOut(r, d, k) PROVE LoadsOne(r) \/ AnswersOne(r)
  <2>1. [op |-> "clockOut", day |-> d, month |-> MonthOf[d], key |-> k, at |-> now] \in Args
    BY CalendarAssumption DEF TypeOK, Args, ClockArg
  <2>. QED BY <1>3, <2>1 DEF LoadClockOut, LoadsOne, AnswersOne, WellFormed, NoArg
<1>4. ASSUME NEW d \in Days, LoadApprove(r, d) PROVE LoadsOne(r) \/ AnswersOne(r)
  <2>1. PICK i \in Active(d, "CLOCK_IN"), o \in Active(d, "CLOCK_OUT") :
          Load(r, [op |-> "approve", day |-> d, month |-> MonthOf[d],
                   version |-> dayVersion[d], in |-> i.at, out |-> o.at])
    BY <1>4 DEF LoadApprove
  <2>2. i.at \in Instants /\ o.at \in Instants
    BY DEF TypeOK, Active, Entry
  <2>3. [op |-> "approve", day |-> d, month |-> MonthOf[d],
         version |-> dayVersion[d], in |-> i.at, out |-> o.at] \in Args
    BY <2>2, CalendarAssumption DEF TypeOK, Args, SpanArg
  <2>. QED BY <2>1, <2>3 DEF LoadsOne, WellFormed, NoArg
<1>5. ASSUME NEW d \in Days, NEW p \in Proposals, LoadRequestCorrection(r, d, p) PROVE LoadsOne(r) \/ AnswersOne(r)
  <2>1. [op |-> "requestCorrection", day |-> d, month |-> MonthOf[d],
         version |-> dayVersion[d], in |-> p[1], out |-> p[2]] \in Args
    BY CalendarAssumption, ProposalsAssumption DEF TypeOK, Args, SpanArg
  <2>. QED BY <1>5, <2>1 DEF LoadRequestCorrection, LoadsOne, WellFormed, NoArg
<1>6. ASSUME NEW d \in Days, LoadApproveCorrection(r, d) PROVE LoadsOne(r) \/ AnswersOne(r)
  <2>1. PICK c \in Pending(d) :
          Load(r, [op |-> "approveCorrection", day |-> d, month |-> MonthOf[d],
                   version |-> dayVersion[d], corr |-> c.id, in |-> c.in, out |-> c.out])
    BY <1>6 DEF LoadApproveCorrection
  <2>2. c.id \in Nat /\ c.in \in Instants /\ c.out \in Instants
    BY DEF TypeOK, Pending, Correction
  <2>3. [op |-> "approveCorrection", day |-> d, month |-> MonthOf[d],
         version |-> dayVersion[d], corr |-> c.id, in |-> c.in, out |-> c.out] \in Args
    BY <2>2, CalendarAssumption DEF TypeOK, Args, AcceptArg
  <2>. QED BY <2>1, <2>3 DEF LoadsOne, WellFormed, NoArg
<1>7. ASSUME NEW d \in Days, LoadRejectCorrection(r, d) PROVE LoadsOne(r) \/ AnswersOne(r)
  <2>1. PICK c \in Pending(d) :
          Load(r, [op |-> "rejectCorrection", day |-> d, month |-> MonthOf[d],
                   version |-> dayVersion[d], corr |-> c.id, target |-> TargetStatus(d)])
    BY <1>7 DEF LoadRejectCorrection
  <2>2. c.id \in Nat /\ TargetStatus(d) \in {"OPEN", "PENDING_APPROVAL"}
    BY DEF TypeOK, Pending, Correction, TargetStatus
  <2>3. [op |-> "rejectCorrection", day |-> d, month |-> MonthOf[d],
         version |-> dayVersion[d], corr |-> c.id, target |-> TargetStatus(d)] \in Args
    BY <2>2, CalendarAssumption DEF TypeOK, Args, RejectArg
  <2>. QED BY <2>1, <2>3 DEF LoadsOne, WellFormed, NoArg
<1>8. ASSUME NEW m \in Months, LoadClose(r, m) PROVE LoadsOne(r) \/ AnswersOne(r)
  <2>1. [op |-> "closeAttendance", month |-> m, version |-> periodVersion[m],
         view |-> {}] \in Args
    BY DEF TypeOK, Args, CloseArg
  <2>. QED BY <1>8, <2>1 DEF LoadClose, LoadsOne, WellFormed, NoArg
<1>. QED BY <1>2, <1>3, <1>4, <1>5, <1>6, <1>7, <1>8 DEF Submit

LEMMA SubmitType ==
  ASSUME TypeOK, NEW r \in Requests, Submit(r)
  PROVE  TypeOK'
<1>1. ASSUME AnswersOne(r) PROVE TypeOK'
  BY <1>1 DEF TypeOK, AnswersOne, AnswerKnownKey, dbVars, dayVars, periodVars
<1>2. ASSUME LoadsOne(r) PROVE TypeOK'
  BY <1>2, LoadType DEF LoadsOne
<1>. QED BY <1>1, <1>2, SubmitShape

LEMMA SetDayType ==
  ASSUME TypeOK, NEW d \in Days, NEW s \in DayStatuses, SetDay(d, s)
  PROVE  dayStatus' \in [Days -> DayStatuses] /\ dayVersion' \in [Days -> Nat]
<1>. DEFINE v == dayVersion[d] + 1
<1>1. v \in Nat
  BY DEF TypeOK
<1>2. dayVersion' = [dayVersion EXCEPT ![d] = v]
  BY DEF SetDay
<1>. HIDE DEF v
<1>. QED BY <1>1, <1>2 DEF TypeOK, SetDay

LEMMA CommitType ==
  ASSUME TypeOK, NEW r \in Requests, Commit(r)
  PROVE  TypeOK'
<1>. DEFINE a == arg[r]
<1>1. a \in Args
  BY DEF TypeOK
<1>2. Finish(r) => ControlOK /\ now' \in Instants
  BY FinishType
<1>3. CASE CommitClockIn(r)
  <2>1. a \in ClockArg
    BY <1>1, <1>3, ArgShapes DEF CommitClockIn, Commits
  <2>2. [day |-> a.day, kind |-> "CLOCK_IN", status |-> "RECORDED",
         at |-> a.at, key |-> a.key] \in Entry
    BY <2>1 DEF ClockArg, Entry, Kinds, EntryStatuses, EntryKeys
  <2>3. entries' \subseteq Entry /\ acked' \subseteq ClockInKeys \union ClockOutKeys
    BY <1>3, <2>1, <2>2 DEF TypeOK, CommitClockIn, ClockArg
  <2>4. dayStatus' \in [Days -> DayStatuses]
    BY <1>3 DEF TypeOK, CommitClockIn, DayStatuses
  <2>. QED BY <1>2, <1>3, <2>3, <2>4 DEF TypeOK, CommitClockIn, ControlOK, periodVars
<1>4. CASE CommitClockOut(r)
  <2>1. a \in ClockArg
    BY <1>1, <1>4, ArgShapes DEF CommitClockOut, Commits
  <2>2. [day |-> a.day, kind |-> "CLOCK_OUT", status |-> "RECORDED",
         at |-> a.at, key |-> a.key] \in Entry
    BY <2>1 DEF ClockArg, Entry, Kinds, EntryStatuses, EntryKeys
  <2>3. entries' \subseteq Entry /\ acked' \subseteq ClockInKeys \union ClockOutKeys
    BY <1>4, <2>1, <2>2 DEF TypeOK, CommitClockOut, ClockArg
  <2>4. dayStatus' \in [Days -> DayStatuses] /\ dayVersion' \in [Days -> Nat]
    BY <1>4, <2>1, SetDayType DEF CommitClockOut, DayStatuses, ClockArg
  <2>. QED BY <1>2, <1>4, <2>3, <2>4 DEF TypeOK, CommitClockOut, ControlOK, periodVars
<1>5. CASE CommitApprove(r)
  <2>1. a \in SpanArg
    BY <1>1, <1>5, ArgShapes DEF CommitApprove, Commits
  <2>2. Minutes(a.in, a.out) \in Nat
    BY <2>1, MinutesType DEF SpanArg
  <2>3. approvedMinutes' \in [Days -> Nat \union {NoMinutes}]
    BY <1>5, <2>2 DEF TypeOK, CommitApprove
  <2>4. dayStatus' \in [Days -> DayStatuses] /\ dayVersion' \in [Days -> Nat]
    BY <1>5, <2>1, SetDayType DEF CommitApprove, DayStatuses, SpanArg
  <2>5. entries' \subseteq Entry
    BY <1>5 DEF TypeOK, CommitApprove, EntriesWith, Entry, EntryStatuses
  <2>. QED BY <1>2, <1>5, <2>3, <2>4, <2>5 DEF TypeOK, CommitApprove, ControlOK, periodVars
<1>6. CASE CommitRequestCorrection(r)
  <2>1. a \in SpanArg
    BY <1>1, <1>6, ArgShapes DEF CommitRequestCorrection, Commits
  <2>2. corrections' \subseteq Correction
    BY <1>6, <2>1 DEF TypeOK, CommitRequestCorrection, SpanArg, Correction
  <2>3. dayStatus' \in [Days -> DayStatuses] /\ dayVersion' \in [Days -> Nat]
    BY <1>6, <2>1, SetDayType DEF CommitRequestCorrection, DayStatuses, SpanArg
  <2>. QED BY <1>2, <1>6, <2>2, <2>3 DEF TypeOK, CommitRequestCorrection, ControlOK, periodVars
<1>7. CASE CommitApproveCorrection(r)
  <2>1. a \in AcceptArg
    BY <1>1, <1>7, ArgShapes DEF CommitApproveCorrection, Commits
  <2>2. Minutes(a.in, a.out) \in Nat
    BY <2>1, MinutesType DEF AcceptArg
  <2>3. approvedMinutes' \in [Days -> Nat \union {NoMinutes}]
    BY <1>7, <2>2 DEF TypeOK, CommitApproveCorrection
  <2>4. dayStatus' \in [Days -> DayStatuses] /\ dayVersion' \in [Days -> Nat]
    BY <1>7, <2>1, SetDayType DEF CommitApproveCorrection, DayStatuses, AcceptArg
  <2>5. corrections' \subseteq Correction
    BY <1>7 DEF TypeOK, CommitApproveCorrection, ResolvedAs, Correction
  <2>6. ASSUME NEW kind \in Kinds, NEW at \in Instants
        PROVE  [day |-> a.day, kind |-> kind, status |-> "APPROVED", at |-> at,
                key |-> <<a.day, a.corr, kind>>] \in Entry
    <3>1. <<a.day, a.corr, kind>> \in EntryKeys
      BY <2>1 DEF AcceptArg, EntryKeys, FreshKeys
    <3>. QED BY <2>1, <3>1 DEF AcceptArg, Entry, EntryStatuses
  <2>7. EntriesWith(a.day, {"RECORDED", "APPROVED"}, "CORRECTED") \subseteq Entry
    BY DEF TypeOK, EntriesWith, Entry, EntryStatuses
  <2>8. entries' \subseteq Entry
    BY <1>7, <2>1, <2>6, <2>7 DEF CommitApproveCorrection, AcceptArg, Kinds
  <2>. QED BY <1>2, <1>7, <2>3, <2>4, <2>5, <2>8
           DEF TypeOK, CommitApproveCorrection, ControlOK, periodVars
<1>8. CASE CommitRejectCorrection(r)
  <2>1. a \in RejectArg
    BY <1>1, <1>8, ArgShapes DEF CommitRejectCorrection, Commits
  <2>2. dayStatus' \in [Days -> DayStatuses] /\ dayVersion' \in [Days -> Nat]
    BY <1>8, <2>1, SetDayType DEF CommitRejectCorrection, DayStatuses, RejectArg
  <2>3. corrections' \subseteq Correction
    BY <1>8 DEF TypeOK, CommitRejectCorrection, ResolvedAs, Correction
  <2>. QED BY <1>2, <1>8, <2>2, <2>3 DEF TypeOK, CommitRejectCorrection, ControlOK, periodVars
<1>9. CASE CommitClose(r)
  <2>1. a \in CloseArg
    BY <1>1, <1>9, ArgShapes DEF CommitClose, Commits
  <2>2. /\ periodStatus' \in [Months -> PeriodStatuses]
        /\ periodVersion' \in [Months -> Nat]
        /\ attendanceApproved' \in [Months -> BOOLEAN]
        /\ linked' \in [Days -> BOOLEAN]
    <3>1. a.month \in Months /\ periodVersion[a.month] + 1 \in Nat
      BY <2>1 DEF TypeOK, CloseArg
    <3>. QED BY <1>9, <3>1 DEF TypeOK, CommitClose, PeriodStatuses
  <2>3. snapshot' \in [Months -> SUBSET SnapshotDay]
    BY <1>9, <2>1 DEF TypeOK, CommitClose, CloseArg
  <2>. QED BY <1>2, <1>9, <2>2, <2>3 DEF TypeOK, CommitClose, ControlOK
<1>. QED BY <1>3, <1>4, <1>5, <1>6, <1>7, <1>8, <1>9 DEF Commit

LEMMA ServeType ==
  ASSUME TypeOK, PhaseFits, NEW r \in Requests, Serve(r)
  PROVE  TypeOK'
<1>. arg[r] \in Args
  BY DEF TypeOK
<1>1. CASE ReplayInTransaction(r)
  <2>1. arg[r].key \in ClockInKeys \union ClockOutKeys
    BY <1>1, ArgShapes DEF ReplayInTransaction, ClockArg
  <2>. QED BY <1>1, <2>1, FinishType
           DEF TypeOK, ReplayInTransaction, ControlOK, dbVars, dayVars, periodVars
<1>2. CASE Check(r)
  <2>1. arg[r].op = "closeAttendance" =>
          [arg[r] EXCEPT !.view = SnapshotOf(arg[r].month)] \in Args
    BY ArgShapes, RowType DEF CloseArg, Args
  <2>2. arg' \in [Requests -> Args] /\ pc' \in [Requests -> Phases]
    BY <1>2, <2>1 DEF TypeOK, Check, Phases
  <2>. QED BY <1>2, <2>2 DEF TypeOK, Check, dbVars, dayVars, periodVars
<1>3. CASE Refuse(r)
  BY <1>3, AbortType DEF Refuse
<1>4. CASE Commit(r)
  BY <1>4, CommitType
<1>5. CASE Conflict(r)
  BY <1>5, AbortType DEF Conflict
<1>6. CASE AnswerAfterFailure(r)
  <2>1. arg[r].key \in ClockInKeys \union ClockOutKeys
    BY <1>6, ArgShapes DEF AnswerAfterFailure, PhaseFits, ClockOps, ClockArg
  <2>. QED BY <1>6, <2>1, FinishType
           DEF TypeOK, AnswerAfterFailure, ControlOK, dbVars, dayVars, periodVars
<1>. QED BY <1>1, <1>2, <1>3, <1>4, <1>5, <1>6 DEF Serve

LEMMA NextType ==
  ASSUME TypeOK, PhaseFits, Next
  PROVE  TypeOK'
<1>1. ASSUME NEW r \in Requests, Lock(r) PROVE TypeOK'
  <2>1. arg[r].month \in Months
    BY <1>1, ArgShapes DEF Lock, PhaseFits, TypeOK
  <2>. QED BY <1>1, <2>1 DEF TypeOK, Lock, Phases, dbVars, dayVars, periodVars
<1>2. ASSUME NEW r \in Requests, Interrupt(r) PROVE TypeOK'
  <2>1. CASE TimeOut(r)
    BY <2>1, AbortType DEF TimeOut
  <2>2. CASE Crash(r)
    BY <2>2, FinishType DEF TypeOK, Crash, ControlOK, dbVars, dayVars, periodVars
  <2>. QED BY <1>2, <2>1, <2>2 DEF Interrupt
<1>3. ASSUME NEW m \in Months, CreatePeriod(m) PROVE TypeOK'
  BY <1>3 DEF TypeOK, CreatePeriod, PeriodStatuses, dayVars
<1>4. ASSUME Tick PROVE TypeOK'
  BY <1>4, CalendarAssumption DEF TypeOK, Tick, Instants, dbVars, dayVars, periodVars
<1>. QED BY <1>1, <1>2, <1>3, <1>4, SubmitType, ServeType DEF Next

(***************************************************************************)
(* The phase of a request and what it carries go together.                 *)
(***************************************************************************)
LEMMA FinishPhase ==
  ASSUME TypeOK, PhaseFits, NEW r \in Requests, Finish(r)
  PROVE  PhaseFits'
BY DEF TypeOK, PhaseFits, Finish, NoArg

LEMMA AbortPhase ==
  ASSUME TypeOK, PhaseFits, NEW r \in Requests, pc[r] # "idle", Abort(r)
  PROVE  PhaseFits'
BY FinishPhase DEF TypeOK, PhaseFits, Abort

LEMMA NextPhase ==
  ASSUME TypeOK, PhaseFits, Next
  PROVE  PhaseFits'
<1>1. ASSUME NEW r \in Requests, Submit(r) PROVE PhaseFits'
  <2>1. CASE LoadsOne(r)
    BY <2>1 DEF TypeOK, PhaseFits, LoadsOne, Load, WellFormed
  <2>2. CASE AnswersOne(r)
    BY <2>2 DEF PhaseFits, AnswersOne, AnswerKnownKey
  <2>. QED BY <1>1, <2>1, <2>2, SubmitShape
<1>2. ASSUME NEW r \in Requests, Lock(r) PROVE PhaseFits'
  BY <1>2 DEF TypeOK, PhaseFits, Lock
<1>3. ASSUME NEW r \in Requests, Interrupt(r) PROVE PhaseFits'
  BY <1>3, AbortPhase, FinishPhase DEF Interrupt, TimeOut, Crash
<1>4. ASSUME NEW r \in Requests, Serve(r) PROVE PhaseFits'
  <2>1. CASE Check(r)
    <3>1. arg[r].op = "closeAttendance" =>
            [arg[r] EXCEPT !.view = SnapshotOf(arg[r].month)].op = "closeAttendance"
      BY ArgShapes DEF TypeOK, CloseArg
    <3>. QED BY <2>1, <3>1 DEF TypeOK, PhaseFits, Check, NoArg
  <2>2. CASE Refuse(r) \/ Conflict(r)
    BY <2>2, AbortPhase DEF Refuse, Conflict
  <2>3. CASE ReplayInTransaction(r) \/ AnswerAfterFailure(r)
    BY <2>3, FinishPhase DEF ReplayInTransaction, AnswerAfterFailure
  <2>4. CASE Commit(r)
    BY <2>4, FinishPhase DEF Commit, CommitClockIn, CommitClockOut, CommitApprove,
       CommitRequestCorrection, CommitApproveCorrection, CommitRejectCorrection, CommitClose
  <2>. QED BY <1>4, <2>1, <2>2, <2>3, <2>4 DEF Serve
<1>5. ASSUME NEW m \in Months, CreatePeriod(m) PROVE PhaseFits'
  BY <1>5 DEF PhaseFits, CreatePeriod
<1>6. ASSUME Tick PROVE PhaseFits'
  BY <1>6 DEF PhaseFits, Tick
<1>. QED BY <1>1, <1>2, <1>3, <1>4, <1>5, <1>6 DEF Next

(***************************************************************************)
(* Type correctness.                                                       *)
(***************************************************************************)
LEMMA InitType == Init => TypeOK /\ PhaseFits
BY CalendarAssumption, RequestsAssumption
   DEF Init, TypeOK, PhaseFits, DayStatuses, NoMinutes, PeriodStatuses, Phases,
       Args, NoArg, Instants, SnapshotDay

\* Every variable of the attendance tables, and what every request carries,
\* keeps its type: the stale copy a handler holds is always the copy of its
\* own operation.
THEOREM TypeCorrect == Spec => []TypeOK
<1>1. Init => TypeOK /\ PhaseFits
  BY InitType
<1>2. TypeOK /\ PhaseFits /\ [Next]_vars => (TypeOK /\ PhaseFits)'
  <2>1. CASE Next
    BY <2>1, NextType, NextPhase
  <2>2. CASE UNCHANGED vars
    BY <2>2 DEF vars, dbVars, dayVars, periodVars, TypeOK, PhaseFits
  <2>. QED BY <2>1, <2>2
<1>. QED BY <1>1, <1>2, PTL DEF Spec

(***************************************************************************)
(* How a step moves the requests.                                          *)
(***************************************************************************)
Outside == {"idle", "loaded", "failed"}

\* r leaves its transaction and gives its lock back; nobody else moves.
Ends(r) ==
  /\ lock' = Free(r)
  /\ pc'[r] \in Outside
  /\ arg'[r] \in {arg[r], NoArg}
  /\ \A s \in Requests \ {r} : pc'[s] = pc[s] /\ arg'[s] = arg[s]

LEMMA FinishEnds ==
  ASSUME TypeOK, NEW r \in Requests, Finish(r)
  PROVE  Ends(r)
BY DEF TypeOK, Finish, Ends, Outside

LEMMA AbortEnds ==
  ASSUME TypeOK, NEW r \in Requests, Abort(r)
  PROVE  Ends(r)
BY FinishEnds DEF TypeOK, Abort, Ends, Outside

LEMMA CommitEnds ==
  ASSUME TypeOK, NEW r \in Requests, Commit(r)
  PROVE  Ends(r) /\ pc[r] = "checked"
BY FinishEnds
   DEF Commit, Commits, CommitClockIn, CommitClockOut, CommitApprove, CommitRequestCorrection,
       CommitApproveCorrection, CommitRejectCorrection, CommitClose

\* A request that comes to a step with the rows as they were.
Idles(r) ==
  /\ UNCHANGED <<dbVars, lock>>
  /\ pc'[r] \in Outside
  /\ arg'[r] = arg[r] \/ WellFormed(arg'[r])
  /\ \A s \in Requests \ {r} : pc'[s] = pc[s] /\ arg'[s] = arg[s]

LEMMA SubmitIdles ==
  ASSUME TypeOK, NEW r \in Requests, Submit(r)
  PROVE  Idles(r)
<1>1. CASE LoadsOne(r)
  BY <1>1 DEF TypeOK, LoadsOne, Load, Idles, Outside
<1>2. CASE AnswersOne(r)
  BY <1>2 DEF AnswersOne, AnswerKnownKey, Idles, Outside
<1>. QED BY <1>1, <1>2, SubmitShape

\* The cases every invariant of the month is proved over.
LEMMA StepCases ==
  ASSUME TypeOK, [Next]_vars
  PROVE  \/ \E r \in Requests : \/ Idles(r)
                                \/ Lock(r)
                                \/ Check(r)
                                \/ Ends(r) /\ UNCHANGED dbVars
                                \/ Commit(r)
         \/ \E m \in Months : CreatePeriod(m)
         \/ UNCHANGED <<dbVars, lock, pc, arg>>
<1>1. ASSUME NEW r \in Requests, Submit(r) PROVE Idles(r)
  BY <1>1, SubmitIdles
<1>2. ASSUME NEW r \in Requests, Interrupt(r) PROVE Ends(r) /\ UNCHANGED dbVars
  BY <1>2, FinishEnds, AbortEnds DEF Interrupt, TimeOut, Crash, Abort
<1>3. ASSUME NEW r \in Requests, Serve(r)
      PROVE  Check(r) \/ (Ends(r) /\ UNCHANGED dbVars) \/ Commit(r)
  BY <1>3, FinishEnds, AbortEnds
     DEF Serve, ReplayInTransaction, Refuse, Conflict, AnswerAfterFailure, Abort
<1>4. ASSUME Tick PROVE UNCHANGED <<dbVars, lock, pc, arg>>
  BY <1>4 DEF Tick
<1>5. ASSUME UNCHANGED vars PROVE UNCHANGED <<dbVars, lock, pc, arg>>
  BY <1>5 DEF vars
<1>. QED BY <1>1, <1>2, <1>3, <1>4, <1>5 DEF Next

(***************************************************************************)
(* A commit on a day leaves every other day and every period alone.        *)
(***************************************************************************)
LEMMA SameRow ==
  ASSUME NEW d \in Days, SameDay(d)
  PROVE  RowOf(d)' = RowOf(d)
<1>1. \A k \in Kinds : Active(d, k)' = Active(d, k)
  BY DEF SameDay, Active
<1>. QED BY <1>1 DEF RowOf, SameDay, Kinds

LEMMA OtherEntries ==
  ASSUME TypeOK, NEW d \in Days, NEW x \in Days \ {d}, NEW from, NEW to
  PROVE  {e \in EntriesWith(d, from, to) : e.day = x} = {e \in entries : e.day = x}
<1>1. ASSUME NEW e \in entries
      PROVE  [e EXCEPT !.status = to].day = e.day
  BY DEF TypeOK, Entry
<1>2. ASSUME NEW e \in entries, e.day = x PROVE e \in EntriesWith(d, from, to)
  BY <1>2 DEF EntriesWith
<1>3. ASSUME NEW f \in EntriesWith(d, from, to), f.day = x PROVE f \in entries
  BY <1>1, <1>3 DEF EntriesWith
<1>. QED BY <1>2, <1>3

LEMMA OtherCorrections ==
  ASSUME TypeOK, NEW d \in Days, NEW x \in Days \ {d}, NEW id, NEW status
  PROVE  {c \in ResolvedAs(d, id, status) : c.day = x} = {c \in corrections : c.day = x}
<1>1. ASSUME NEW c \in corrections
      PROVE  [c EXCEPT !.status = status].day = c.day
  BY DEF TypeOK, Correction
<1>2. ASSUME NEW c \in corrections, c.day = x PROVE c \in ResolvedAs(d, id, status)
  BY <1>2 DEF ResolvedAs
<1>3. ASSUME NEW c \in ResolvedAs(d, id, status), c.day = x PROVE c \in corrections
  BY <1>1, <1>3 DEF ResolvedAs
<1>. QED BY <1>2, <1>3

LEMMA DayCommitFrame ==
  ASSUME TypeOK, NEW r \in Requests, Commit(r), ~CommitClose(r)
  PROVE  /\ arg[r].op # "closeAttendance"
         /\ arg[r].day \in Days
         /\ UNCHANGED <<periodVars, linked>>
         /\ \A d \in Days \ {arg[r].day} : SameDay(d)
<1>. DEFINE a == arg[r]
<1>. a \in Args
  BY DEF TypeOK
<1>0. a.op # "closeAttendance" /\ a.day \in Days
  BY ArgShapes DEF Commit, Commits, CommitClockIn, CommitClockOut, CommitApprove,
     CommitRequestCorrection, CommitApproveCorrection, CommitRejectCorrection,
     ClockArg, SpanArg, AcceptArg, RejectArg
<1>1. CASE CommitClockIn(r)
  BY <1>0, <1>1 DEF TypeOK, CommitClockIn, Commits, SameDay
<1>2. CASE CommitClockOut(r)
  BY <1>0, <1>2 DEF TypeOK, CommitClockOut, Commits, SetDay, SameDay
<1>3. CASE CommitApprove(r)
  BY <1>0, <1>3, OtherEntries DEF TypeOK, CommitApprove, SetDay, SameDay
<1>4. CASE CommitRequestCorrection(r)
  BY <1>0, <1>4 DEF TypeOK, CommitRequestCorrection, Commits, SetDay, SameDay
<1>5. CASE CommitApproveCorrection(r)
  <2>1. ASSUME NEW d \in Days \ {a.day}
        PROVE  {e \in entries' : e.day = d} = {e \in entries : e.day = d}
    BY <1>0, <1>5, OtherEntries DEF CommitApproveCorrection
  <2>. QED BY <1>0, <1>5, <2>1, OtherCorrections
           DEF TypeOK, CommitApproveCorrection, SetDay, SameDay
<1>6. CASE CommitRejectCorrection(r)
  BY <1>0, <1>6, OtherCorrections DEF TypeOK, CommitRejectCorrection, SetDay, SameDay
<1>. QED BY <1>0, <1>1, <1>2, <1>3, <1>4, <1>5, <1>6 DEF Commit

(***************************************************************************)
(* The month's invariant.  First what each kind of step does to what the   *)
(* invariant reads of a month.                                             *)
(***************************************************************************)
SameMonth(m) ==
  /\ PeriodClosed(m)' = PeriodClosed(m)
  /\ snapshot'[m] = snapshot[m]
  /\ SnapshotOf(m)' = SnapshotOf(m)
  /\ Existing(m)' = Existing(m)
  /\ \A d \in Existing(m) : dayStatus'[d] = dayStatus[d]

LEMMA SameMonthIfDaysAre ==
  ASSUME NEW m \in Months,
         \A d \in DaysIn(m) : SameDay(d),
         PeriodClosed(m)' = PeriodClosed(m), snapshot'[m] = snapshot[m]
  PROVE  SameMonth(m)
<1>1. \A d \in DaysIn(m) : RowOf(d)' = RowOf(d)
  BY SameRow DEF DaysIn
<1>2. \A d \in DaysIn(m) : dayStatus'[d] = dayStatus[d]
  BY DEF SameDay
<1>3. Existing(m)' = Existing(m)
  BY <1>2 DEF Existing, DaysIn
<1>4. SnapshotOf(m)' = SnapshotOf(m)
  <2>. DEFINE A == {x \in DaysIn(m) : dayStatus[x] = "APPROVED"}
  <2>1. A' = A
    BY <1>2 DEF DaysIn
  <2>2. SnapshotOf(m) = {RowOf(d) : d \in A}
    BY DEF SnapshotOf
  <2>3. SnapshotOf(m)' = {RowOf(d)' : d \in A'}
    BY DEF SnapshotOf
  <2>4. \A d \in A : RowOf(d)' = RowOf(d)
    BY <1>1
  <2>. HIDE DEF A
  <2>. QED BY <2>1, <2>2, <2>3, <2>4
<1>. QED BY <1>2, <1>3, <1>4 DEF SameMonth, Existing

LEMMA QuietMonths ==
  ASSUME UNCHANGED dbVars, NEW m \in Months
  PROVE  SameMonth(m)
<1>1. \A d \in Days : SameDay(d)
  BY DEF dbVars, dayVars, SameDay
<1>. QED BY <1>1, SameMonthIfDaysAre DEF dbVars, dayVars, periodVars, PeriodClosed, DaysIn

LEMMA CreateMonths ==
  ASSUME TypeOK, NEW n \in Months, CreatePeriod(n), NEW m \in Months
  PROVE  SameMonth(m)
<1>1. \A d \in Days : SameDay(d)
  BY DEF CreatePeriod, dayVars, SameDay
<1>2. PeriodClosed(m)' = PeriodClosed(m) /\ snapshot'[m] = snapshot[m]
  BY DEF TypeOK, CreatePeriod, PeriodClosed
<1>. QED BY <1>1, <1>2, SameMonthIfDaysAre DEF DaysIn

LEMMA DayCommitMonths ==
  ASSUME TypeOK, PhaseFits, MonthOfItsDay,
         NEW r \in Requests, Commit(r), ~CommitClose(r),
         NEW m \in Months, m # arg[r].month
  PROVE  SameMonth(m)
<1>1. arg[r] # NoArg
  BY CommitEnds DEF PhaseFits
<1>2. arg[r].day \notin DaysIn(m)
  BY <1>1, DayCommitFrame DEF MonthOfItsDay, DaysIn
<1>3. \A d \in DaysIn(m) : SameDay(d)
  BY <1>2, DayCommitFrame DEF DaysIn
<1>4. PeriodClosed(m)' = PeriodClosed(m) /\ snapshot'[m] = snapshot[m]
  BY DayCommitFrame DEF periodVars, PeriodClosed
<1>. QED BY <1>3, <1>4, SameMonthIfDaysAre

LEMMA CloseMonths ==
  ASSUME TypeOK, NEW r \in Requests, CommitClose(r), NEW m \in Months
  PROVE  /\ m # arg[r].month => SameMonth(m)
         /\ m = arg[r].month =>
              /\ SnapshotOf(m)' = SnapshotOf(m)
              /\ Existing(m)' = Existing(m)
              /\ UNCHANGED dayStatus
              /\ snapshot'[m] = arg[r].view
<1>1. \A d \in Days : SameDay(d)
  BY DEF CommitClose, SameDay
<1>2. m # arg[r].month =>
        PeriodClosed(m)' = PeriodClosed(m) /\ snapshot'[m] = snapshot[m]
  BY DEF TypeOK, CommitClose, PeriodClosed
<1>3. UNCHANGED <<dayStatus, dayVersion, approvedMinutes, entries>>
  BY DEF CommitClose
<1>4. SnapshotOf(m)' = SnapshotOf(m) /\ Existing(m)' = Existing(m)
  BY <1>3 DEF SnapshotOf, RowOf, Active, Existing
<1>5. m = arg[r].month => snapshot'[m] = arg[r].view
  BY DEF TypeOK, CommitClose
<1>. QED BY <1>1, <1>2, <1>3, <1>4, <1>5, SameMonthIfDaysAre DEF DaysIn

(***************************************************************************)
(* Two requests inside transactions are never in the same month.           *)
(***************************************************************************)
LEMMA OneInsideAMonth ==
  ASSUME LockIsHeld, NEW r \in Requests, NEW s \in Requests,
         pc[r] \in {"locked", "checked"}, pc[s] \in {"locked", "checked"},
         arg[r].month = arg[s].month
  PROVE  r = s
BY DEF LockIsHeld

(***************************************************************************)
(* The invariant is inductive, one lemma per conjunct.                     *)
(***************************************************************************)
LEMMA ArgMonth ==
  ASSUME TypeOK, PhaseFits, NEW r \in Requests, pc[r] # "idle"
  PROVE  arg[r].month \in Months /\ arg[r] # NoArg
BY ArgShapes DEF TypeOK, PhaseFits

LEMMA CheckArg ==
  ASSUME TypeOK, NEW r \in Requests, Check(r)
  PROVE  /\ arg'[r].month = arg[r].month
         /\ arg'[r].op = arg[r].op
         /\ arg[r].op # "closeAttendance" => arg'[r] = arg[r]
         /\ arg[r].op = "closeAttendance" => arg'[r].view = SnapshotOf(arg[r].month)
         /\ \A s \in Requests \ {r} : pc'[s] = pc[s] /\ arg'[s] = arg[s]
<1>. arg[r] \in Args
  BY DEF TypeOK
<1>1. CASE arg[r].op = "closeAttendance"
  <2>1. arg[r] \in CloseArg
    BY <1>1, ArgShapes
  <2>2. arg'[r] = [arg[r] EXCEPT !.view = SnapshotOf(arg[r].month)]
    BY <1>1 DEF Check, TypeOK
  <2>. QED BY <1>1, <2>1, <2>2 DEF Check, TypeOK, CloseArg
<1>2. CASE arg[r].op # "closeAttendance"
  BY <1>2 DEF Check, TypeOK
<1>. QED BY <1>1, <1>2

LEMMA MonthOfItsDayStep ==
  ASSUME MonthInv, [Next]_vars
  PROVE  MonthOfItsDay'
<1>1. ASSUME NEW r \in Requests, Idles(r) PROVE MonthOfItsDay'
  BY <1>1 DEF MonthInv, MonthOfItsDay, Idles, WellFormed
<1>2. ASSUME NEW r \in Requests, Lock(r) PROVE MonthOfItsDay'
  BY <1>2 DEF MonthInv, MonthOfItsDay, Lock
<1>3. ASSUME NEW r \in Requests, Check(r) PROVE MonthOfItsDay'
  <2>1. arg[r] # NoArg
    BY <1>3, ArgMonth DEF MonthInv, Check
  <2>. QED BY <1>3, <2>1, CheckArg DEF MonthInv, MonthOfItsDay
<1>4. ASSUME NEW r \in Requests, Ends(r) PROVE MonthOfItsDay'
  BY <1>4 DEF MonthInv, MonthOfItsDay, Ends
<1>5. ASSUME NEW m \in Months, CreatePeriod(m) PROVE MonthOfItsDay'
  BY <1>5 DEF MonthInv, MonthOfItsDay, CreatePeriod
<1>6. ASSUME UNCHANGED arg PROVE MonthOfItsDay'
  BY <1>6 DEF MonthInv, MonthOfItsDay
<1>. QED BY <1>1, <1>2, <1>3, <1>4, <1>5, <1>6, StepCases, CommitEnds DEF MonthInv

LEMMA LockIsHeldStep ==
  ASSUME MonthInv, [Next]_vars
  PROVE  LockIsHeld'
<1>1. ASSUME NEW r \in Requests, Idles(r) PROVE LockIsHeld'
  BY <1>1 DEF MonthInv, LockIsHeld, Idles, Outside
<1>2. ASSUME NEW r \in Requests, Lock(r) PROVE LockIsHeld'
  <2>1. arg[r].month \in Months
    BY <1>2, ArgMonth DEF MonthInv, Lock
  <2>2. ASSUME NEW s \in Requests, s # r, pc[s] \in {"locked", "checked"}
        PROVE  arg[s].month # arg[r].month
    BY <1>2, <2>2, RequestsAssumption DEF MonthInv, LockIsHeld, Lock
  <2>. QED BY <1>2, <2>1, <2>2 DEF MonthInv, TypeOK, LockIsHeld, Lock
<1>3. ASSUME NEW r \in Requests, Check(r) PROVE LockIsHeld'
  <2>1. lock' = lock /\ pc[r] = "locked"
    BY <1>3 DEF Check
  <2>. QED BY <1>3, <2>1, CheckArg DEF MonthInv, LockIsHeld
<1>4. ASSUME NEW r \in Requests, Ends(r) PROVE LockIsHeld'
  <2>1. ASSUME NEW s \in Requests, pc'[s] \in {"locked", "checked"}
        PROVE  lock'[arg'[s].month] = s
    <3>1. s # r /\ pc[s] = pc'[s] /\ arg[s] = arg'[s]
      BY <1>4, <2>1 DEF Ends, Outside
    <3>2. arg[s].month \in Months
      BY <2>1, <3>1, ArgMonth DEF MonthInv
    <3>3. lock[arg[s].month] = s
      BY <2>1, <3>1 DEF MonthInv, LockIsHeld
    <3>. QED BY <1>4, <3>1, <3>2, <3>3 DEF Ends, Free
  <2>. QED BY <2>1 DEF LockIsHeld
<1>5. ASSUME NEW m \in Months, CreatePeriod(m) PROVE LockIsHeld'
  BY <1>5 DEF MonthInv, LockIsHeld, CreatePeriod
<1>6. ASSUME UNCHANGED <<lock, pc, arg>> PROVE LockIsHeld'
  BY <1>6 DEF MonthInv, LockIsHeld
<1>. QED BY <1>1, <1>2, <1>3, <1>4, <1>5, <1>6, StepCases, CommitEnds DEF MonthInv

\* What a request relies on from its check to its commit.
Relies(r) ==
  /\ ~PeriodClosed(arg[r].month)
  /\ arg[r].op = "closeAttendance" =>
       /\ \A d \in Existing(arg[r].month) : dayStatus[d] = "APPROVED"
       /\ arg[r].view # {}
       /\ arg[r].view = SnapshotOf(arg[r].month)

LEMMA ReliesStays ==
  ASSUME NEW s \in Requests, Relies(s), arg'[s] = arg[s], SameMonth(arg[s].month)
  PROVE  Relies(s)'
BY DEF Relies, SameMonth

LEMMA CheckedStep ==
  ASSUME MonthInv, [Next]_vars, NEW s \in Requests, pc'[s] = "checked"
  PROVE  Relies(s)'
<1>0. ASSUME pc[s] = "checked" PROVE Relies(s) /\ arg[s].month \in Months
  BY <1>0, ArgMonth DEF MonthInv, CheckedMonthIsOpen, CheckedViewIsCurrent, Relies
<1>1. ASSUME NEW r \in Requests, Idles(r) PROVE Relies(s)'
  <2>1. s # r
    BY <1>1 DEF Idles, Outside
  <2>. QED BY <1>0, <1>1, <2>1, QuietMonths, ReliesStays DEF Idles
<1>2. ASSUME NEW r \in Requests, Lock(r) PROVE Relies(s)'
  <2>1. pc[s] = "checked" /\ arg'[s] = arg[s] /\ UNCHANGED dbVars
    BY <1>2 DEF MonthInv, TypeOK, Lock
  <2>. QED BY <1>0, <2>1, QuietMonths, ReliesStays
<1>3. ASSUME NEW r \in Requests, Check(r) PROVE Relies(s)'
  <2>. UNCHANGED dbVars
    BY <1>3 DEF Check
  <2>1. CASE s # r
    BY <1>0, <1>3, <2>1, CheckArg, QuietMonths, ReliesStays DEF MonthInv
  <2>2. CASE s = r
    <3>. DEFINE m == arg[r].month
    <3>1. m \in Months /\ arg'[r].month = m /\ arg'[r].op = arg[r].op
      BY <1>3, ArgMonth, CheckArg DEF MonthInv, Check
    <3>2. SameMonth(m)
      BY <3>1, QuietMonths
    <3>3. ~PeriodClosed(m)
      BY <1>3 DEF Check, CheckPasses, MonthStillOpen
    <3>4. arg[r].op = "closeAttendance" =>
            /\ \A d \in Existing(m) : dayStatus[d] = "APPROVED"
            /\ Existing(m) # {}
            /\ arg'[r].view = SnapshotOf(m)
      BY <1>3, CheckArg DEF MonthInv, Check, CheckPasses
    <3>5. arg[r].op = "closeAttendance" => SnapshotOf(m) # {}
      BY <3>4 DEF SnapshotOf, Existing
    <3>. QED BY <2>2, <3>1, <3>2, <3>3, <3>4, <3>5 DEF Relies, SameMonth
  <2>. QED BY <2>1, <2>2
<1>4. ASSUME NEW r \in Requests, Ends(r), UNCHANGED dbVars PROVE Relies(s)'
  <2>1. s # r
    BY <1>4 DEF Ends, Outside
  <2>. QED BY <1>0, <1>4, <2>1, QuietMonths, ReliesStays DEF Ends
<1>5. ASSUME NEW r \in Requests, Commit(r) PROVE Relies(s)'
  <2>1. s # r /\ pc[s] = "checked" /\ arg'[s] = arg[s] /\ pc[r] = "checked"
    BY <1>5, CommitEnds DEF MonthInv, Ends, Outside
  <2>2. arg[s].month # arg[r].month
    BY <2>1, OneInsideAMonth DEF MonthInv
  <2>3. SameMonth(arg[s].month)
    BY <1>0, <1>5, <2>1, <2>2, DayCommitMonths, CloseMonths DEF MonthInv
  <2>. QED BY <1>0, <2>1, <2>3, ReliesStays
<1>6. ASSUME NEW n \in Months, CreatePeriod(n) PROVE Relies(s)'
  <2>1. pc[s] = "checked" /\ arg'[s] = arg[s]
    BY <1>6 DEF CreatePeriod
  <2>. QED BY <1>0, <1>6, <2>1, CreateMonths, ReliesStays DEF MonthInv
<1>7. ASSUME UNCHANGED <<dbVars, pc, arg>> PROVE Relies(s)'
  BY <1>0, <1>7, QuietMonths, ReliesStays
<1>. QED BY <1>1, <1>2, <1>3, <1>4, <1>5, <1>6, <1>7, StepCases DEF MonthInv

Exact(m) ==
  PeriodClosed(m) =>
    /\ \A d \in Existing(m) : dayStatus[d] = "APPROVED"
    /\ snapshot[m] # {}
    /\ snapshot[m] = SnapshotOf(m)

LEMMA SnapshotStep ==
  ASSUME MonthInv, [Next]_vars, NEW m \in Months
  PROVE  Exact(m)'
<1>0. Exact(m)
  BY DEF MonthInv, SnapshotIsTheMonth, Exact
<1>1. ASSUME SameMonth(m) PROVE Exact(m)'
  BY <1>0, <1>1 DEF SameMonth, Exact
<1>2. ASSUME UNCHANGED dbVars PROVE Exact(m)'
  BY <1>1, <1>2, QuietMonths
<1>3. ASSUME NEW r \in Requests, Commit(r) PROVE Exact(m)'
  <2>1. pc[r] = "checked" /\ Relies(r)
    BY <1>3, CommitEnds DEF MonthInv, CheckedMonthIsOpen, CheckedViewIsCurrent, Relies
  <2>2. CASE CommitClose(r)
    <3>1. CASE m # arg[r].month
      BY <1>1, <2>2, <3>1, CloseMonths DEF MonthInv
    <3>2. CASE m = arg[r].month
      <4>1. arg[r].op = "closeAttendance"
        BY <2>2 DEF CommitClose, Commits
      <4>. QED BY <2>1, <2>2, <3>2, <4>1, CloseMonths DEF MonthInv, Relies, Exact
    <3>. QED BY <3>1, <3>2
  <2>3. CASE ~CommitClose(r)
    <3>1. CASE m # arg[r].month
      BY <1>1, <1>3, <2>3, <3>1, DayCommitMonths DEF MonthInv
    <3>2. CASE m = arg[r].month
      <4>1. ~PeriodClosed(m)'
        BY <1>3, <2>1, <2>3, <3>2, DayCommitFrame DEF MonthInv, Relies, PeriodClosed, periodVars
      <4>. QED BY <4>1 DEF Exact
    <3>. QED BY <3>1, <3>2
  <2>. QED BY <2>2, <2>3
<1>4. ASSUME NEW n \in Months, CreatePeriod(n) PROVE Exact(m)'
  BY <1>1, <1>4, CreateMonths DEF MonthInv
<1>5. ASSUME NEW r \in Requests, Idles(r) \/ Lock(r) \/ Check(r) PROVE UNCHANGED dbVars
  BY <1>5 DEF Idles, Lock, Check
<1>. QED BY <1>2, <1>3, <1>4, <1>5, StepCases DEF MonthInv

LEMMA InitMonth == Init => MonthInv
<1>. SUFFICES ASSUME Init PROVE MonthInv
  OBVIOUS
<1>1. TypeOK /\ PhaseFits
  BY InitType
<1>2. MonthOfItsDay /\ LockIsHeld /\ CheckedMonthIsOpen /\ CheckedViewIsCurrent
  BY DEF Init, MonthOfItsDay, LockIsHeld, CheckedMonthIsOpen, CheckedViewIsCurrent
<1>3. SnapshotIsTheMonth
  BY DEF Init, SnapshotIsTheMonth, PeriodClosed
<1>. QED BY <1>1, <1>2, <1>3 DEF MonthInv

LEMMA MonthStep == MonthInv /\ [Next]_vars => MonthInv'
<1>. SUFFICES ASSUME MonthInv, [Next]_vars PROVE MonthInv'
  OBVIOUS
<1>1. TypeOK' /\ PhaseFits'
  <2>1. CASE Next
    BY <2>1, NextType, NextPhase DEF MonthInv
  <2>2. CASE UNCHANGED vars
    BY <2>2 DEF vars, dbVars, dayVars, periodVars, MonthInv, TypeOK, PhaseFits
  <2>. QED BY <2>1, <2>2
<1>2. MonthOfItsDay' /\ LockIsHeld'
  BY MonthOfItsDayStep, LockIsHeldStep
<1>3. CheckedMonthIsOpen' /\ CheckedViewIsCurrent'
  BY CheckedStep DEF CheckedMonthIsOpen, CheckedViewIsCurrent, Relies
<1>4. SnapshotIsTheMonth'
  BY SnapshotStep DEF SnapshotIsTheMonth, Exact
<1>. QED BY <1>1, <1>2, <1>3, <1>4 DEF MonthInv

\* MonthInv holds in every state: a request between its check and its commit
\* owns its month, so what it checked is still so when it writes.
THEOREM MonthInvariant == Spec => []MonthInv
BY InitMonth, MonthStep, PTL DEF Spec

\* Once closeAttendance has closed a month, the snapshot is exactly the rows
\* of its days and all of them are APPROVED, whatever was in flight.
THEOREM SnapshotCorrect == Spec => []SnapshotIsTheMonth
<1>1. MonthInv => SnapshotIsTheMonth
  BY DEF MonthInv
<1>. QED BY <1>1, MonthInvariant, PTL

\* After the close no step of any handler touches the month: its days, their
\* entries and corrections, its period and its snapshot stay (INV-TIME-05).
THEOREM ClosedMonthStays == Spec => ClosedMonthIsFrozen
<1>. DEFINE Frozen ==
       \A m \in Months : PeriodClosed(m) =>
         /\ PeriodClosed(m)' /\ snapshot'[m] = snapshot[m]
         /\ \A d \in DaysIn(m) : SameDay(d)
<1>1. ASSUME MonthInv, [Next]_vars PROVE Frozen
  <2>. SUFFICES ASSUME NEW m \in Months, PeriodClosed(m)
       PROVE  /\ PeriodClosed(m)' /\ snapshot'[m] = snapshot[m]
              /\ \A d \in DaysIn(m) : SameDay(d)
    OBVIOUS
  <2>1. ASSUME UNCHANGED dbVars
        PROVE  /\ PeriodClosed(m)' /\ snapshot'[m] = snapshot[m]
               /\ \A d \in DaysIn(m) : SameDay(d)
    BY <2>1 DEF dbVars, dayVars, periodVars, PeriodClosed, SameDay
  <2>2. ASSUME NEW r \in Requests, Commit(r)
        PROVE  /\ PeriodClosed(m)' /\ snapshot'[m] = snapshot[m]
               /\ \A d \in DaysIn(m) : SameDay(d)
    <3>1. pc[r] = "checked" /\ m # arg[r].month
      BY <1>1, <2>2, CommitEnds DEF MonthInv, CheckedMonthIsOpen
    <3>2. CASE CommitClose(r)
      <4>1. \A d \in Days : SameDay(d)
        BY <3>2 DEF CommitClose, SameDay
      <4>. QED BY <1>1, <3>1, <3>2, <4>1, CloseMonths DEF MonthInv, SameMonth, DaysIn
    <3>3. CASE ~CommitClose(r)
      <4>1. arg[r].day \notin DaysIn(m)
        BY <1>1, <2>2, <3>1, <3>3, DayCommitFrame, ArgMonth DEF MonthInv, MonthOfItsDay, DaysIn
      <4>. QED BY <1>1, <2>2, <3>1, <3>3, <4>1, DayCommitFrame, DayCommitMonths
               DEF MonthInv, SameMonth, DaysIn
    <3>. QED BY <3>2, <3>3
  <2>3. ASSUME NEW n \in Months, CreatePeriod(n)
        PROVE  /\ PeriodClosed(m)' /\ snapshot'[m] = snapshot[m]
               /\ \A d \in DaysIn(m) : SameDay(d)
    <3>1. \A d \in Days : SameDay(d)
      BY <2>3 DEF CreatePeriod, dayVars, SameDay
    <3>. QED BY <1>1, <2>3, <3>1, CreateMonths DEF MonthInv, SameMonth, DaysIn
  <2>4. ASSUME NEW r \in Requests, Idles(r) \/ Lock(r) \/ Check(r) PROVE UNCHANGED dbVars
    BY <2>4 DEF Idles, Lock, Check
  <2>. QED BY <1>1, <2>1, <2>2, <2>3, <2>4, StepCases DEF MonthInv
<1>2. MonthInv /\ [Next]_vars => [Frozen]_vars
  BY <1>1
<1>3. ClosedMonthIsFrozen <=> [][Frozen]_vars
  BY DEF ClosedMonthIsFrozen
<1>. QED BY <1>2, <1>3, MonthInvariant, PTL DEF Spec

(***************************************************************************)
(* The work day's invariant.  The rows of a day agree with each other, and *)
(* while the version a request carries is the version of the row, so do    *)
(* the rows with the copy the request decided from.                        *)
(***************************************************************************)
ClockOuts(d) == {e \in entries : e.day = d /\ e.kind = "CLOCK_OUT"}
Single(S) == \E x \in S : S = {x}

DayFits(d) ==
  /\ dayStatus[d] = "NONE" => \A e \in entries : e.day # d
  /\ dayStatus[d] # "NONE" => Single(Active(d, "CLOCK_IN"))
  /\ dayStatus[d] = "OPEN" => ClockOuts(d) = {}
  /\ dayStatus[d] \in {"PENDING_APPROVAL", "APPROVED"} => ClockOuts(d) # {}
  /\ ClockOuts(d) # {} => Single(Active(d, "CLOCK_OUT"))
  /\ dayStatus[d] = "DISPUTED" => Single(Pending(d))
  /\ dayStatus[d] # "DISPUTED" => Pending(d) = {}
  /\ dayStatus[d] = "APPROVED" =>
       \A i \in Active(d, "CLOCK_IN"), o \in Active(d, "CLOCK_OUT") :
         approvedMinutes[d] = Minutes(i.at, o.at)

\* The operations that compare the version of the day.
Reviews == {"approve", "requestCorrection", "approveCorrection", "rejectCorrection"}

\* The copy r decided from says what the rows of the day say.
CopyAgrees(r) ==
  LET a == arg[r] IN
  /\ a.op = "approve" =>
       \E i \in Active(a.day, "CLOCK_IN"), o \in Active(a.day, "CLOCK_OUT") :
         a.in = i.at /\ a.out = o.at
  /\ a.op = "requestCorrection" => Pending(a.day) = {}
  /\ a.op \in {"approveCorrection", "rejectCorrection"} =>
       \E c \in Pending(a.day) : c.id = a.corr
  /\ a.op = "rejectCorrection" => a.target = TargetStatus(a.day)
CopyFits(r) ==
  arg[r].op \in Reviews =>
    /\ dayStatus[arg[r].day] # "NONE"
    /\ arg[r].version <= dayVersion[arg[r].day]
    /\ arg[r].version = dayVersion[arg[r].day] => CopyAgrees(r)

DayInv ==
  /\ MonthInv
  /\ \A d \in Days : DayFits(d)
  /\ \A r \in Requests : CopyFits(r)

(***************************************************************************)
(* The steps, as the rows of the days see them.                            *)
(***************************************************************************)
\* The rows of the days stay, and no request reads them to decide on.
RowsStay ==
  /\ UNCHANGED <<dayStatus, dayVersion, approvedMinutes, entries, corrections>>
  /\ \A r \in Requests : arg'[r] = arg[r] \/ arg'[r].op \notin Reviews

LEMMA EndsAreQuiet ==
  ASSUME NEW r \in Requests, Ends(r), UNCHANGED dbVars
  PROVE  RowsStay
BY DEF Ends, RowsStay, dbVars, dayVars, NoArg, Reviews

LEMMA DayCases ==
  ASSUME TypeOK, [Next]_vars
  PROVE  \/ \E r \in Requests : Submit(r)
         \/ \E r \in Requests : Commit(r) /\ ~CommitClose(r)
         \/ RowsStay
<1>1. ASSUME NEW r \in Requests, Lock(r) PROVE RowsStay
  BY <1>1 DEF Lock, RowsStay, dbVars, dayVars
<1>2. ASSUME NEW r \in Requests, Interrupt(r) PROVE RowsStay
  BY <1>2, FinishEnds, AbortEnds, EndsAreQuiet DEF Interrupt, TimeOut, Crash, Abort
<1>3. ASSUME NEW r \in Requests, Check(r) PROVE RowsStay
  <2>1. arg[r].op = "closeAttendance" => arg'[r].op \notin Reviews
    BY <1>3, CheckArg DEF Reviews
  <2>. QED BY <1>3, <2>1, CheckArg DEF Check, RowsStay, dbVars, dayVars
<1>4. ASSUME NEW r \in Requests, CommitClose(r) PROVE RowsStay
  <2>1. Ends(r)
    BY <1>4, CommitEnds DEF Commit
  <2>. QED BY <1>4, <2>1 DEF CommitClose, Ends, RowsStay, NoArg, Reviews
<1>5. ASSUME NEW r \in Requests, Serve(r), ~Check(r), ~Commit(r) PROVE RowsStay
  BY <1>5, FinishEnds, AbortEnds, EndsAreQuiet
     DEF Serve, ReplayInTransaction, Refuse, Conflict, AnswerAfterFailure, Abort
<1>6. ASSUME NEW m \in Months, CreatePeriod(m) PROVE RowsStay
  BY <1>6 DEF CreatePeriod, RowsStay, dayVars
<1>7. ASSUME Tick \/ UNCHANGED vars PROVE RowsStay
  BY <1>7 DEF Tick, RowsStay, vars, dbVars, dayVars
<1>. QED BY <1>1, <1>2, <1>3, <1>4, <1>5, <1>6, <1>7 DEF Next, Serve

\* What is said of a day and of a copy of it reads the rows of the day alone.
LEMMA SameDayReads ==
  ASSUME NEW d \in Days, SameDay(d)
  PROVE  /\ \A k \in Kinds : Active(d, k)' = Active(d, k)
         /\ ClockOuts(d)' = ClockOuts(d)
         /\ Pending(d)' = Pending(d)
         /\ TargetStatus(d)' = TargetStatus(d)
         /\ (\E e \in entries' : e.day = d) <=> (\E e \in entries : e.day = d)
<1>1. \A k \in Kinds : Active(d, k)' = Active(d, k)
  BY DEF SameDay, Active
<1>2. ClockOuts(d)' = ClockOuts(d)
  BY DEF SameDay, ClockOuts
<1>3. Pending(d)' = Pending(d)
  BY DEF SameDay, Pending
<1>4. TargetStatus(d)' = TargetStatus(d)
  <2>1. (\E e \in entries' : e.day = d /\ e.kind = "CLOCK_OUT")
          <=> (\E e \in entries : e.day = d /\ e.kind = "CLOCK_OUT")
    BY <1>2 DEF ClockOuts
  <2>. QED BY <2>1 DEF TargetStatus
<1>5. (\E e \in entries' : e.day = d) <=> (\E e \in entries : e.day = d)
  BY DEF SameDay
<1>. QED BY <1>1, <1>2, <1>3, <1>4, <1>5

LEMMA SameDayFits ==
  ASSUME NEW d \in Days, SameDay(d), DayFits(d)
  PROVE  DayFits(d)'
<1>1. Active(d, "CLOCK_IN")' = Active(d, "CLOCK_IN")
      /\ Active(d, "CLOCK_OUT")' = Active(d, "CLOCK_OUT")
  BY SameDayReads DEF Kinds
<1>2. dayStatus'[d] = dayStatus[d] /\ approvedMinutes'[d] = approvedMinutes[d]
  BY DEF SameDay
<1>3. /\ dayStatus'[d] = "NONE" => \A e \in entries' : e.day # d
      /\ dayStatus'[d] # "NONE" => Single(Active(d, "CLOCK_IN"))'
      /\ dayStatus'[d] = "OPEN" => ClockOuts(d)' = {}
      /\ dayStatus'[d] \in {"PENDING_APPROVAL", "APPROVED"} => ClockOuts(d)' # {}
      /\ ClockOuts(d)' # {} => Single(Active(d, "CLOCK_OUT"))'
  BY <1>1, <1>2, SameDayReads DEF DayFits, Single
<1>4. /\ dayStatus'[d] = "DISPUTED" => Single(Pending(d))'
      /\ dayStatus'[d] # "DISPUTED" => Pending(d)' = {}
  BY <1>2, SameDayReads DEF DayFits, Single
<1>5. dayStatus'[d] = "APPROVED" =>
        \A i \in Active(d, "CLOCK_IN")', o \in Active(d, "CLOCK_OUT")' :
          approvedMinutes'[d] = Minutes(i.at, o.at)
  BY <1>1, <1>2 DEF DayFits
<1>. QED BY <1>3, <1>4, <1>5 DEF DayFits

LEMMA SameCopyFits ==
  ASSUME TypeOK, NEW r \in Requests, arg'[r] = arg[r], CopyFits(r),
         arg[r].op \in Reviews => SameDay(arg[r].day)
  PROVE  CopyFits(r)'
<1>. SUFFICES ASSUME arg[r].op \in Reviews PROVE CopyFits(r)'
  BY DEF CopyFits
<1>1. arg[r].day \in Days
  BY ArgShapes DEF TypeOK, Reviews, SpanArg, AcceptArg, RejectArg
<1>2. PICK d \in Days : d = arg[r].day
  BY <1>1
<1>3. /\ {e \in entries' : e.day = d /\ e.kind = "CLOCK_IN" /\ e.status # "CORRECTED"}
            = Active(d, "CLOCK_IN")
      /\ {e \in entries' : e.day = d /\ e.kind = "CLOCK_OUT" /\ e.status # "CORRECTED"}
            = Active(d, "CLOCK_OUT")
      /\ {c \in corrections' : c.day = d /\ c.status = "PENDING"} = Pending(d)
  BY <1>2, SameDayReads DEF Active, Pending, Kinds
<1>4. (\E e \in entries' : e.day = d /\ e.kind = "CLOCK_OUT")
        <=> (\E e \in entries : e.day = d /\ e.kind = "CLOCK_OUT")
  BY <1>2, SameDayReads DEF ClockOuts
<1>5. dayStatus'[d] = dayStatus[d] /\ dayVersion'[d] = dayVersion[d]
  BY <1>2 DEF SameDay
<1>6. ASSUME CopyAgrees(r) PROVE CopyAgrees(r)'
  <2>1. arg[r].op = "approve" =>
          \E i \in Active(d, "CLOCK_IN"), o \in Active(d, "CLOCK_OUT") :
            arg[r].in = i.at /\ arg[r].out = o.at
    BY <1>2, <1>6 DEF CopyAgrees
  <2>2. (arg[r].op = "requestCorrection" => Pending(d) = {})
        /\ (arg[r].op \in {"approveCorrection", "rejectCorrection"} =>
              \E c \in Pending(d) : c.id = arg[r].corr)
    BY <1>2, <1>6 DEF CopyAgrees
  <2>3. arg[r].op = "rejectCorrection" => arg[r].target = TargetStatus(d)
    BY <1>2, <1>6 DEF CopyAgrees
  <2>4. arg'[r].op = "approve" =>
          \E i \in Active(arg[r].day, "CLOCK_IN")', o \in Active(arg[r].day, "CLOCK_OUT")' :
            arg'[r].in = i.at /\ arg'[r].out = o.at
    BY <1>2, <1>3, <2>1 DEF Active
  <2>5. (arg'[r].op = "requestCorrection" => Pending(arg[r].day)' = {})
        /\ (arg'[r].op \in {"approveCorrection", "rejectCorrection"} =>
              \E c \in Pending(arg[r].day)' : c.id = arg'[r].corr)
    BY <1>2, <1>3, <2>2 DEF Pending
  <2>6. arg'[r].op = "rejectCorrection" => arg'[r].target = TargetStatus(arg[r].day)'
    BY <1>2, <1>4, <2>3 DEF TargetStatus
  <2>. QED BY <2>4, <2>5, <2>6 DEF CopyAgrees
<1>. QED BY <1>2, <1>5, <1>6 DEF CopyFits


(***************************************************************************)
(* A submission reads the rows as they are.                                *)
(***************************************************************************)
LEMMA LoadedCopyFits ==
  ASSUME DayInv, NEW r \in Requests, Submit(r)
  PROVE  CopyFits(r)'
<1>0. TypeOK /\ CopyFits(r)
  BY DEF DayInv, MonthInv
<1>1. UNCHANGED <<dayStatus, dayVersion, entries, corrections>>
  BY <1>0, SubmitIdles DEF Idles, dbVars, dayVars
<1>2. ASSUME arg'[r] = arg[r] PROVE CopyFits(r)'
  <2>1. arg[r].op \in Reviews => SameDay(arg[r].day)
    BY <1>0, SubmitIdles DEF Idles, dbVars, dayVars, SameDay
  <2>. QED BY <1>0, <1>2, <2>1, SameCopyFits
<1>3. ASSUME arg'[r].op \notin Reviews PROVE CopyFits(r)'
  BY <1>3 DEF CopyFits
<1>4. ASSUME NEW d \in Days, LoadApprove(r, d) PROVE CopyFits(r)'
  <2>1. PICK i \in Active(d, "CLOCK_IN"), o \in Active(d, "CLOCK_OUT") :
          Load(r, [op |-> "approve", day |-> d, month |-> MonthOf[d],
                   version |-> dayVersion[d], in |-> i.at, out |-> o.at])
    BY <1>4 DEF LoadApprove
  <2>2. arg'[r] = [op |-> "approve", day |-> d, month |-> MonthOf[d],
                   version |-> dayVersion[d], in |-> i.at, out |-> o.at]
    BY <1>0, <2>1 DEF Load, TypeOK
  <2>3. i \in Active(d, "CLOCK_IN")' /\ o \in Active(d, "CLOCK_OUT")'
    BY <1>1 DEF Active
  <2>4. CopyAgrees(r)'
    BY <2>2, <2>3 DEF CopyAgrees, Active
  <2>5. dayStatus'[d] # "NONE" /\ dayVersion'[d] \in Nat /\ dayVersion'[d] = dayVersion[d]
    BY <1>0, <1>1, <1>4 DEF LoadApprove, TypeOK
  <2>. QED BY <2>2, <2>4, <2>5 DEF CopyFits
<1>5. ASSUME NEW d \in Days, NEW p \in Proposals, LoadRequestCorrection(r, d, p) PROVE CopyFits(r)'
  <2>1. arg'[r] = [op |-> "requestCorrection", day |-> d, month |-> MonthOf[d],
                   version |-> dayVersion[d], in |-> p[1], out |-> p[2]]
    BY <1>0, <1>5 DEF LoadRequestCorrection, Load, TypeOK
  <2>2. Pending(d)' = {}
    BY <1>1, <1>5 DEF LoadRequestCorrection, Pending
  <2>3. CopyAgrees(r)'
    BY <2>1, <2>2 DEF CopyAgrees, Pending
  <2>4. dayStatus'[d] # "NONE" /\ dayVersion'[d] \in Nat /\ dayVersion'[d] = dayVersion[d]
    BY <1>0, <1>1, <1>5 DEF LoadRequestCorrection, TypeOK
  <2>. QED BY <2>1, <2>3, <2>4 DEF CopyFits
<1>6. ASSUME NEW d \in Days, Pending(d) # {} PROVE dayStatus'[d] # "NONE"
  BY <1>1, <1>6 DEF DayInv, DayFits
<1>7. ASSUME NEW d \in Days, LoadApproveCorrection(r, d) PROVE CopyFits(r)'
  <2>1. PICK c \in Pending(d) :
          Load(r, [op |-> "approveCorrection", day |-> d, month |-> MonthOf[d],
                   version |-> dayVersion[d], corr |-> c.id, in |-> c.in, out |-> c.out])
    BY <1>7 DEF LoadApproveCorrection
  <2>2. arg'[r] = [op |-> "approveCorrection", day |-> d, month |-> MonthOf[d],
                   version |-> dayVersion[d], corr |-> c.id, in |-> c.in, out |-> c.out]
    BY <1>0, <2>1 DEF Load, TypeOK
  <2>3. c \in Pending(d)'
    BY <1>1 DEF Pending
  <2>4. CopyAgrees(r)'
    BY <2>2, <2>3 DEF CopyAgrees, Pending
  <2>5. dayStatus'[d] # "NONE" /\ dayVersion'[d] \in Nat /\ dayVersion'[d] = dayVersion[d]
    BY <1>0, <1>1, <1>6 DEF TypeOK
  <2>. QED BY <2>2, <2>4, <2>5 DEF CopyFits
<1>8. ASSUME NEW d \in Days, LoadRejectCorrection(r, d) PROVE CopyFits(r)'
  <2>1. PICK c \in Pending(d) :
          Load(r, [op |-> "rejectCorrection", day |-> d, month |-> MonthOf[d],
                   version |-> dayVersion[d], corr |-> c.id, target |-> TargetStatus(d)])
    BY <1>8 DEF LoadRejectCorrection
  <2>2. arg'[r] = [op |-> "rejectCorrection", day |-> d, month |-> MonthOf[d],
                   version |-> dayVersion[d], corr |-> c.id, target |-> TargetStatus(d)]
    BY <1>0, <2>1 DEF Load, TypeOK
  <2>3. c \in Pending(d)' /\ TargetStatus(d)' = TargetStatus(d)
    BY <1>1 DEF Pending, TargetStatus
  <2>4. CopyAgrees(r)'
    BY <2>2, <2>3 DEF CopyAgrees, Pending, TargetStatus
  <2>5. dayStatus'[d] # "NONE" /\ dayVersion'[d] \in Nat /\ dayVersion'[d] = dayVersion[d]
    BY <1>0, <1>1, <1>6 DEF TypeOK
  <2>. QED BY <2>2, <2>4, <2>5 DEF CopyFits
<1>9. ASSUME NEW a, Load(r, a), a.op \notin Reviews PROVE arg'[r].op \notin Reviews
  BY <1>0, <1>9 DEF Load, TypeOK
<1>10. ASSUME NEW k \in ClockInKeys, LoadClockIn(r, k) PROVE CopyFits(r)'
  BY <1>2, <1>3, <1>9, <1>10 DEF LoadClockIn, AnswerKnownKey, Reviews
<1>11. ASSUME NEW d \in Days, NEW k \in ClockOutKeys, LoadClockOut(r, d, k) PROVE CopyFits(r)'
  BY <1>2, <1>3, <1>9, <1>11 DEF LoadClockOut, AnswerKnownKey, Reviews
<1>12. ASSUME NEW m \in Months, LoadClose(r, m) PROVE CopyFits(r)'
  BY <1>3, <1>9, <1>12 DEF LoadClose, Reviews
<1>. QED BY <1>4, <1>5, <1>7, <1>8, <1>10, <1>11, <1>12 DEF Submit

(***************************************************************************)
(* What updateMany does to the entries of a day.                           *)
(***************************************************************************)
LEMMA ArchivedAll ==
  ASSUME TypeOK, NEW d \in Days,
         NEW f \in EntriesWith(d, {"RECORDED", "APPROVED"}, "CORRECTED"), f.day = d
  PROVE  f.status = "CORRECTED"
<1>1. PICK e \in entries :
        f = IF e.day = d /\ e.status \in {"RECORDED", "APPROVED"}
            THEN [e EXCEPT !.status = "CORRECTED"] ELSE e
  BY DEF EntriesWith
<1>. QED BY <1>1 DEF TypeOK, Entry, EntryStatuses

LEMMA ApprovedTimes ==
  ASSUME TypeOK, NEW d \in Days, NEW kind \in Kinds, NEW i, Active(d, kind) = {i}
  PROVE  \E j : /\ j.at = i.at
                /\ {e \in EntriesWith(d, {"RECORDED"}, "APPROVED") :
                      e.day = d /\ e.kind = kind /\ e.status # "CORRECTED"} = {j}
<1>. DEFINE To(e) == IF e.day = d /\ e.status \in {"RECORDED"}
                     THEN [e EXCEPT !.status = "APPROVED"] ELSE e
<1>1. ASSUME NEW e \in entries
      PROVE  /\ To(e).day = e.day /\ To(e).kind = e.kind /\ To(e).at = e.at
             /\ To(e).status = "CORRECTED" <=> e.status = "CORRECTED"
  BY DEF TypeOK, Entry, EntryStatuses
<1>2. EntriesWith(d, {"RECORDED"}, "APPROVED") = {To(e) : e \in entries}
  BY DEF EntriesWith
<1>3. i \in entries /\ i.day = d /\ i.kind = kind /\ i.status # "CORRECTED"
      /\ \A e \in entries : e.day = d /\ e.kind = kind /\ e.status # "CORRECTED" => e = i
  BY DEF Active
<1>. HIDE DEF To
<1>. QED BY <1>1, <1>2, <1>3

LEMMA ApprovedClockOuts ==
  ASSUME TypeOK, NEW d \in Days, ClockOuts(d) # {}
  PROVE  \E e \in EntriesWith(d, {"RECORDED"}, "APPROVED") : e.day = d /\ e.kind = "CLOCK_OUT"
<1>1. PICK e \in entries : e.day = d /\ e.kind = "CLOCK_OUT"
  BY DEF ClockOuts
<1>2. [e EXCEPT !.status = "APPROVED"].day = d /\ [e EXCEPT !.status = "APPROVED"].kind = "CLOCK_OUT"
  BY <1>1 DEF TypeOK, Entry
<1>. QED BY <1>1, <1>2 DEF EntriesWith

(***************************************************************************)
(* Each commit leaves its day in order.                                    *)
(***************************************************************************)
LEMMA ClockInFits ==
  ASSUME DayInv, NEW r \in Requests, CommitClockIn(r), NEW d \in Days, d = arg[r].day
  PROVE  DayFits(d)'
<1>. DEFINE new == [day |-> d, kind |-> "CLOCK_IN", status |-> "RECORDED",
                    at |-> arg[r].at, key |-> arg[r].key]
<1>1. dayStatus[d] = "NONE" /\ entries' = entries \union {new} /\ corrections' = corrections
  BY DEF CommitClockIn, Commits, CanWrite
<1>2. (\A e \in entries : e.day # d) /\ Pending(d) = {}
  BY <1>1 DEF DayInv, DayFits
<1>3. dayStatus'[d] = "OPEN"
  BY DEF CommitClockIn, DayInv, MonthInv, TypeOK
<1>4. new.day = d /\ new.kind = "CLOCK_IN" /\ new.status # "CORRECTED"
  OBVIOUS
<1>. HIDE DEF new
<1>5. Active(d, "CLOCK_IN")' = {new} /\ ClockOuts(d)' = {}
  BY <1>1, <1>2, <1>4 DEF Active, ClockOuts
<1>6. Pending(d)' = {}
  BY <1>1, <1>2 DEF Pending
<1>. QED BY <1>3, <1>5, <1>6 DEF DayFits, Single

LEMMA ClockOutFits ==
  ASSUME DayInv, NEW r \in Requests, CommitClockOut(r), NEW d \in Days, d = arg[r].day
  PROVE  DayFits(d)'
<1>. DEFINE new == [day |-> d, kind |-> "CLOCK_OUT", status |-> "RECORDED",
                    at |-> arg[r].at, key |-> arg[r].key]
<1>1. /\ dayStatus[d] = "OPEN" /\ entries' = entries \union {new}
      /\ corrections' = corrections
  BY DEF CommitClockOut, Commits, CanWrite, StillOpen
<1>2. Single(Active(d, "CLOCK_IN")) /\ ClockOuts(d) = {} /\ Pending(d) = {}
  BY <1>1 DEF DayInv, DayFits
<1>3. dayStatus'[d] = "PENDING_APPROVAL"
  BY DEF CommitClockOut, SetDay, DayInv, MonthInv, TypeOK
<1>4. new.day = d /\ new.kind = "CLOCK_OUT" /\ new.status # "CORRECTED"
  OBVIOUS
<1>. HIDE DEF new
<1>5. Active(d, "CLOCK_IN")' = Active(d, "CLOCK_IN")
  BY <1>1, <1>4 DEF Active
<1>6. Active(d, "CLOCK_OUT")' = {new} /\ new \in ClockOuts(d)'
  BY <1>1, <1>2, <1>4 DEF Active, ClockOuts
<1>7. Pending(d)' = {}
  BY <1>1, <1>2 DEF Pending
<1>. QED BY <1>2, <1>3, <1>5, <1>6, <1>7 DEF DayFits, Single

LEMMA ApproveFits ==
  ASSUME DayInv, NEW r \in Requests, CommitApprove(r), NEW d \in Days, d = arg[r].day
  PROVE  DayFits(d)'
<1>0. TypeOK
  BY DEF DayInv, MonthInv
<1>1. /\ dayStatus[d] = "PENDING_APPROVAL" /\ CopyAgrees(r) /\ arg[r].op = "approve"
      /\ entries' = EntriesWith(d, {"RECORDED"}, "APPROVED") /\ corrections' = corrections
  BY DEF CommitApprove, Commits, CanWrite, VersionMatches, DayInv, CopyFits, Reviews
<1>2. ClockOuts(d) # {} /\ Pending(d) = {}
  BY <1>1 DEF DayInv, DayFits
<1>3. PICK i, o : Active(d, "CLOCK_IN") = {i} /\ Active(d, "CLOCK_OUT") = {o}
  BY <1>1, <1>2 DEF DayInv, DayFits, Single
<1>4. arg[r].in = i.at /\ arg[r].out = o.at
  BY <1>1, <1>3 DEF CopyAgrees
<1>5. PICK j, p : /\ j.at = i.at /\ Active(d, "CLOCK_IN")' = {j}
                  /\ p.at = o.at /\ Active(d, "CLOCK_OUT")' = {p}
  <2>1. PICK j : j.at = i.at /\ Active(d, "CLOCK_IN")' = {j}
    BY <1>0, <1>1, <1>3, ApprovedTimes DEF Active, Kinds
  <2>2. PICK p : p.at = o.at /\ Active(d, "CLOCK_OUT")' = {p}
    BY <1>0, <1>1, <1>3, ApprovedTimes DEF Active, Kinds
  <2>. QED BY <2>1, <2>2
<1>6. ClockOuts(d)' # {} /\ Pending(d)' = {}
  BY <1>0, <1>1, <1>2, ApprovedClockOuts DEF ClockOuts, Pending
<1>7. dayStatus'[d] = "APPROVED" /\ approvedMinutes'[d] = Minutes(arg[r].in, arg[r].out)
  BY <1>0 DEF CommitApprove, SetDay, TypeOK
<1>. QED BY <1>4, <1>5, <1>6, <1>7 DEF DayFits, Single

LEMMA RequestCorrectionFits ==
  ASSUME DayInv, NEW r \in Requests, CommitRequestCorrection(r),
         NEW d \in Days, d = arg[r].day
  PROVE  DayFits(d)'
<1>. DEFINE new == [day |-> d, id |-> arg[r].version + 1, status |-> "PENDING",
                    in |-> arg[r].in, out |-> arg[r].out]
<1>1. /\ dayStatus[d] # "NONE" /\ CopyAgrees(r) /\ arg[r].op = "requestCorrection"
      /\ entries' = entries /\ corrections' = corrections \union {new}
  BY DEF CommitRequestCorrection, Commits, CanWrite, VersionMatches, DayInv, CopyFits, Reviews
<1>2. Pending(d) = {}
  BY <1>1 DEF CopyAgrees
<1>3. dayStatus'[d] = "DISPUTED"
  BY DEF CommitRequestCorrection, SetDay, DayInv, MonthInv, TypeOK
<1>4. new.day = d /\ new.status = "PENDING"
  OBVIOUS
<1>. HIDE DEF new
<1>5. Pending(d)' = {new}
  BY <1>1, <1>2, <1>4 DEF Pending
<1>6. /\ Active(d, "CLOCK_IN")' = Active(d, "CLOCK_IN")
      /\ Active(d, "CLOCK_OUT")' = Active(d, "CLOCK_OUT")
      /\ ClockOuts(d)' = ClockOuts(d)
  BY <1>1 DEF Active, ClockOuts
<1>7. Single(Active(d, "CLOCK_IN")) /\ (ClockOuts(d) # {} => Single(Active(d, "CLOCK_OUT")))
  BY <1>1 DEF DayInv, DayFits
<1>. QED BY <1>3, <1>5, <1>6, <1>7 DEF DayFits, Single

\* The correction a handler resolves is the only one that was pending.
LEMMA NothingPending ==
  ASSUME DayInv, NEW r \in Requests, NEW d \in Days, d = arg[r].day,
         arg[r].op \in {"approveCorrection", "rejectCorrection"}, CopyAgrees(r),
         NEW status \in {"APPROVED", "REJECTED"},
         corrections' = ResolvedAs(d, arg[r].corr, status)
  PROVE  Pending(d)' = {}
<1>1. PICK c \in Pending(d) : c.id = arg[r].corr
  BY DEF CopyAgrees
<1>2. \A b \in Pending(d) : b = c
  BY <1>1 DEF DayInv, DayFits, Single
<1>3. ASSUME NEW f \in corrections', f.day = d, f.status = "PENDING" PROVE FALSE
  <2>1. PICK b \in corrections :
          f = IF b.day = d /\ b.id = arg[r].corr THEN [b EXCEPT !.status = status] ELSE b
    BY <1>3 DEF ResolvedAs
  <2>2. [b EXCEPT !.status = status].status = status
    BY DEF DayInv, MonthInv, TypeOK, Correction
  <2>3. f = b /\ ~(b.day = d /\ b.id = arg[r].corr)
    BY <1>3, <2>1, <2>2
  <2>. QED BY <1>1, <1>2, <1>3, <2>3 DEF Pending
<1>. QED BY <1>3 DEF Pending

LEMMA ApproveCorrectionFits ==
  ASSUME DayInv, NEW r \in Requests, CommitApproveCorrection(r),
         NEW d \in Days, d = arg[r].day
  PROVE  DayFits(d)'
<1>0. TypeOK
  BY DEF DayInv, MonthInv
<1>. DEFINE New(kind, at) == [day |-> d, kind |-> kind, status |-> "APPROVED",
                              at |-> at, key |-> <<d, arg[r].corr, kind>>]
            i == New("CLOCK_IN", arg[r].in)
            o == New("CLOCK_OUT", arg[r].out)
            old == EntriesWith(d, {"RECORDED", "APPROVED"}, "CORRECTED")
<1>1. /\ CopyAgrees(r) /\ arg[r].op = "approveCorrection"
      /\ entries' = old \union {i, o}
      /\ corrections' = ResolvedAs(d, arg[r].corr, "APPROVED")
  BY DEF CommitApproveCorrection, Commits, CanWrite, VersionMatches, DayInv, CopyFits, Reviews
<1>2. /\ i.day = d /\ i.kind = "CLOCK_IN" /\ i.status # "CORRECTED" /\ i.at = arg[r].in
      /\ o.day = d /\ o.kind = "CLOCK_OUT" /\ o.status # "CORRECTED" /\ o.at = arg[r].out
  OBVIOUS
<1>3. \A f \in old : f.day = d => f.status = "CORRECTED"
  BY <1>0, ArchivedAll
<1>. HIDE DEF i, o, old
<1>4. Active(d, "CLOCK_IN")' = {i}
  BY <1>1, <1>2, <1>3 DEF Active
<1>5. Active(d, "CLOCK_OUT")' = {o} /\ o \in ClockOuts(d)'
  BY <1>1, <1>2, <1>3 DEF Active, ClockOuts
<1>6. Pending(d)' = {}
  BY <1>1, NothingPending
<1>7. dayStatus'[d] = "APPROVED" /\ approvedMinutes'[d] = Minutes(arg[r].in, arg[r].out)
  BY <1>0 DEF CommitApproveCorrection, SetDay, TypeOK
<1>. QED BY <1>2, <1>4, <1>5, <1>6, <1>7 DEF DayFits, Single

LEMMA RejectCorrectionFits ==
  ASSUME DayInv, NEW r \in Requests, CommitRejectCorrection(r),
         NEW d \in Days, d = arg[r].day
  PROVE  DayFits(d)'
<1>0. TypeOK
  BY DEF DayInv, MonthInv
<1>1. /\ dayStatus[d] = "DISPUTED" /\ CopyAgrees(r) /\ arg[r].op = "rejectCorrection"
      /\ entries' = entries /\ corrections' = ResolvedAs(d, arg[r].corr, "REJECTED")
  BY DEF CommitRejectCorrection, Commits, CanWrite, VersionMatches, DayInv, CopyFits, Reviews
<1>2. dayStatus'[d] = TargetStatus(d)
  BY <1>0, <1>1 DEF CommitRejectCorrection, SetDay, TypeOK, CopyAgrees
<1>3. /\ TargetStatus(d) \in {"OPEN", "PENDING_APPROVAL"}
      /\ TargetStatus(d) = "OPEN" <=> ClockOuts(d) = {}
  BY DEF TargetStatus, ClockOuts
<1>4. Pending(d)' = {}
  BY <1>1, NothingPending
<1>5. /\ Active(d, "CLOCK_IN")' = Active(d, "CLOCK_IN")
      /\ Active(d, "CLOCK_OUT")' = Active(d, "CLOCK_OUT")
      /\ ClockOuts(d)' = ClockOuts(d)
  BY <1>1 DEF Active, ClockOuts
<1>6. Single(Active(d, "CLOCK_IN")) /\ (ClockOuts(d) # {} => Single(Active(d, "CLOCK_OUT")))
  BY <1>1 DEF DayInv, DayFits
<1>. QED BY <1>2, <1>3, <1>4, <1>5, <1>6 DEF DayFits, Single

(***************************************************************************)
(* A commit moves its day on: the first clock-in makes the row, any other   *)
(* changes its version.                                                    *)
(***************************************************************************)
LEMMA CommitMovesOn ==
  ASSUME TypeOK, NEW r \in Requests, Commit(r), ~CommitClose(r),
         NEW d \in Days, d = arg[r].day
  PROVE  /\ dayStatus'[d] # "NONE"
         /\ dayStatus[d] = "NONE" \/ dayVersion'[d] = dayVersion[d] + 1
         /\ arg'[r] = NoArg
<1>. arg[r] \in Args
  BY DEF TypeOK
<1>1. CASE CommitClockIn(r)
  BY <1>1 DEF TypeOK, CommitClockIn, Commits, CanWrite, Finish
<1>2. CASE CommitClockOut(r)
  BY <1>2 DEF TypeOK, CommitClockOut, SetDay, Finish
<1>3. CASE CommitApprove(r)
  BY <1>3 DEF TypeOK, CommitApprove, SetDay, Finish
<1>4. CASE CommitRequestCorrection(r)
  BY <1>4 DEF TypeOK, CommitRequestCorrection, SetDay, Finish
<1>5. CASE CommitApproveCorrection(r)
  BY <1>5 DEF TypeOK, CommitApproveCorrection, SetDay, Finish
<1>6. CASE CommitRejectCorrection(r)
  <2>1. arg[r].target # "NONE"
    BY <1>6, ArgShapes DEF CommitRejectCorrection, Commits, RejectArg
  <2>. QED BY <1>6, <2>1 DEF TypeOK, CommitRejectCorrection, SetDay, Finish
<1>. QED BY <1>1, <1>2, <1>3, <1>4, <1>5, <1>6 DEF Commit

LEMMA CommitFits ==
  ASSUME DayInv, NEW r \in Requests, Commit(r), ~CommitClose(r), NEW x \in Days
  PROVE  DayFits(x)'
<1>0. TypeOK /\ DayFits(x)
  BY DEF DayInv, MonthInv
<1>1. CASE x = arg[r].day
  BY <1>1, ClockInFits, ClockOutFits, ApproveFits, RequestCorrectionFits,
     ApproveCorrectionFits, RejectCorrectionFits DEF Commit
<1>2. CASE x # arg[r].day
  BY <1>0, <1>2, DayCommitFrame, SameDayFits
<1>. QED BY <1>1, <1>2

LEMMA CommitCopies ==
  ASSUME DayInv, NEW r \in Requests, Commit(r), ~CommitClose(r), NEW s \in Requests
  PROVE  CopyFits(s)'
<1>0. TypeOK /\ CopyFits(s)
  BY DEF DayInv, MonthInv
<1>1. PICK d \in Days : d = arg[r].day
  BY <1>0, DayCommitFrame
<1>2. CASE s = r
  BY <1>0, <1>1, <1>2, CommitMovesOn DEF CopyFits, NoArg, Reviews
<1>3. CASE s # r
  <2>1. arg'[s] = arg[s]
    BY <1>0, <1>3, CommitEnds DEF Ends
  <2>2. CASE arg[s].op \in Reviews /\ arg[s].day = d
    <3>1. /\ dayStatus[d] # "NONE" /\ arg[s].version <= dayVersion[d]
          /\ arg[s].version \in Nat /\ dayVersion[d] \in Nat
      BY <1>0, <2>2, ArgShapes DEF CopyFits, TypeOK, Reviews, SpanArg, AcceptArg, RejectArg
    <3>2. dayStatus'[d] # "NONE" /\ dayVersion'[d] = dayVersion[d] + 1
      BY <1>0, <1>1, <3>1, CommitMovesOn
    <3>3. arg[s].version <= dayVersion'[d] /\ arg[s].version # dayVersion'[d]
      BY <3>1, <3>2
    <3>. QED BY <2>1, <2>2, <3>2, <3>3 DEF CopyFits
  <2>3. CASE ~(arg[s].op \in Reviews /\ arg[s].day = d)
    <3>1. arg[s].op \in Reviews => arg[s].day \in Days \ {arg[r].day}
      BY <1>0, <1>1, <2>3, ArgShapes DEF TypeOK, Reviews, SpanArg, AcceptArg, RejectArg
    <3>2. arg[s].op \in Reviews => SameDay(arg[s].day)
      BY <1>0, <3>1, DayCommitFrame
    <3>. QED BY <1>0, <2>1, <3>2, SameCopyFits
  <2>. QED BY <2>2, <2>3
<1>. QED BY <1>2, <1>3

LEMMA RowsStayFits ==
  ASSUME DayInv, RowsStay
  PROVE  (\A d \in Days : DayFits(d)') /\ (\A r \in Requests : CopyFits(r)')
<1>1. \A d \in Days : SameDay(d)
  BY DEF RowsStay, SameDay
<1>2. ASSUME NEW r \in Requests PROVE CopyFits(r)'
  <2>1. CASE arg'[r] = arg[r]
    <3>1. arg[r].op \in Reviews => SameDay(arg[r].day)
      BY DEF RowsStay, SameDay
    <3>. QED BY <2>1, <3>1, SameCopyFits DEF DayInv, MonthInv
  <2>2. CASE arg'[r].op \notin Reviews
    BY <2>2 DEF CopyFits
  <2>. QED BY <2>1, <2>2 DEF RowsStay
<1>. QED BY <1>1, <1>2, SameDayFits DEF DayInv

LEMMA InitDay == Init => DayInv
<1>. SUFFICES ASSUME Init PROVE DayInv
  OBVIOUS
<1>1. \A d \in Days : DayFits(d)
  BY DEF Init, DayFits, Active, ClockOuts, Pending, Single
<1>2. \A r \in Requests : CopyFits(r)
  BY DEF Init, CopyFits, NoArg, Reviews
<1>. QED BY <1>1, <1>2, InitMonth DEF DayInv

LEMMA DayStep == DayInv /\ [Next]_vars => DayInv'
<1>. SUFFICES ASSUME DayInv, [Next]_vars PROVE DayInv'
  OBVIOUS
<1>0. TypeOK /\ MonthInv'
  BY MonthStep DEF DayInv, MonthInv
<1>1. ASSUME NEW r \in Requests, Submit(r)
      PROVE  (\A d \in Days : DayFits(d)') /\ (\A s \in Requests : CopyFits(s)')
  <2>1. /\ UNCHANGED <<dayStatus, dayVersion, approvedMinutes, entries, corrections>>
        /\ \A s \in Requests \ {r} : arg'[s] = arg[s]
    BY <1>0, <1>1, SubmitIdles DEF Idles, dbVars, dayVars
  <2>2. \A d \in Days : SameDay(d)
    BY <2>1 DEF SameDay
  <2>3. ASSUME NEW s \in Requests \ {r} PROVE CopyFits(s)'
    <3>1. arg[s].op \in Reviews => SameDay(arg[s].day)
      BY <2>1 DEF SameDay
    <3>. QED BY <1>0, <2>1, <3>1, SameCopyFits DEF DayInv
  <2>4. CopyFits(r)'
    BY <1>1, LoadedCopyFits
  <2>. QED BY <2>2, <2>3, <2>4, SameDayFits DEF DayInv
<1>2. (\A d \in Days : DayFits(d)') /\ (\A s \in Requests : CopyFits(s)')
  BY <1>0, <1>1, DayCases, CommitFits, CommitCopies, RowsStayFits
<1>. QED BY <1>0, <1>2 DEF DayInv

\* DayInv holds in every state: a version that has not moved vouches for all a
\* request has read of the day, its entries and its corrections included.
THEOREM DayInvariant == Spec => []DayInv
BY InitDay, DayStep, PTL DEF Spec

\* A day is DISPUTED exactly while one correction of it is PENDING: the version
\* is enough to keep two requests for a correction apart.
THEOREM DisputesAreSingle == Spec => []DisputeHasItsCorrection
<1>1. DayInv => DisputeHasItsCorrection
  BY DEF DayInv, DayFits, Single, DisputeHasItsCorrection
<1>. QED BY <1>1, DayInvariant, PTL

\* A day that awaits approval or has it has one active entry of each kind, an
\* OPEN one no clock-out, and no row is without its clock-in.
THEOREM EntriesMatch == Spec => []EntriesMatchStatus
<1>1. ASSUME DayInv PROVE EntriesMatchStatus
  <2>. SUFFICES ASSUME NEW d \in Days
       PROVE  /\ dayStatus[d] # "NONE" <=> \E i \in entries : Active(d, "CLOCK_IN") = {i}
              /\ dayStatus[d] = "OPEN" => Active(d, "CLOCK_OUT") = {}
              /\ dayStatus[d] \in {"PENDING_APPROVAL", "APPROVED"} =>
                   \E o \in entries : Active(d, "CLOCK_OUT") = {o}
    BY DEF EntriesMatchStatus
  <2>1. DayFits(d)
    BY <1>1 DEF DayInv
  <2>2. \A k \in Kinds : Active(d, k) \subseteq entries
    BY DEF Active
  <2>3. dayStatus[d] = "NONE" => Active(d, "CLOCK_IN") = {}
    BY <2>1 DEF DayFits, Active
  <2>4. dayStatus[d] = "OPEN" => Active(d, "CLOCK_OUT") = {}
    BY <2>1 DEF DayFits, ClockOuts, Active
  <2>. QED BY <2>1, <2>2, <2>3, <2>4 DEF DayFits, Single, Kinds
<1>. QED BY <1>1, DayInvariant, PTL

\* The minutes of an APPROVED day are the span of its active entries, however
\* long before the commit they were computed.
THEOREM ApprovedMinutesCorrect == Spec => []ApprovedMinutesAgree
<1>1. DayInv => ApprovedMinutesAgree
  BY DEF DayInv, DayFits, ApprovedMinutesAgree
<1>. QED BY <1>1, DayInvariant, PTL

\* A step of any handler either leaves a work day alone or moves its version
\* by one, so an older copy of it is refused.
THEOREM VersionsWitness == Spec => VersionWitnessesChange
<1>. DEFINE Witnessed ==
       \A d \in Days : dayStatus[d] # "NONE" =>
         dayVersion'[d] = dayVersion[d] + 1 \/ SameDay(d)
<1>1. ASSUME DayInv, [Next]_vars PROVE Witnessed
  <2>0. TypeOK
    BY <1>1 DEF DayInv, MonthInv
  <2>1. ASSUME NEW r \in Requests, Submit(r) PROVE Witnessed
    BY <2>0, <2>1, SubmitIdles DEF Idles, dbVars, dayVars, SameDay
  <2>2. ASSUME NEW r \in Requests, Commit(r), ~CommitClose(r) PROVE Witnessed
    BY <2>0, <2>2, CommitMovesOn, DayCommitFrame
  <2>3. ASSUME RowsStay PROVE Witnessed
    BY <2>3 DEF RowsStay, SameDay
  <2>. QED BY <1>1, <2>0, <2>1, <2>2, <2>3, DayCases
<1>2. DayInv /\ [Next]_vars => [Witnessed]_vars
  BY <1>1
<1>3. VersionWitnessesChange <=> [][Witnessed]_vars
  BY DEF VersionWitnessesChange
<1>. QED BY <1>2, <1>3, DayInvariant, PTL DEF Spec

(***************************************************************************)
(* What the rows keep for ever, and the one open day.                      *)
(***************************************************************************)
\* f is the row that was e: archived rows stay archived.
Keeps(e, f) ==
  /\ [f EXCEPT !.status = e.status] = e
  /\ e.status = "CORRECTED" => f.status = "CORRECTED"

LEMMA UpdateKeeps ==
  ASSUME TypeOK, NEW e \in entries, NEW d \in Days,
         NEW from, NEW to, "CORRECTED" \notin from
  PROVE  \E f \in EntriesWith(d, from, to) : Keeps(e, f)
<1>1. e \in Entry
  BY DEF TypeOK
<1>2. CASE e.day = d /\ e.status \in from
  <2>. DEFINE f == [e EXCEPT !.status = to]
  <2>1. f \in EntriesWith(d, from, to)
    BY <1>2 DEF EntriesWith
  <2>2. [f EXCEPT !.status = e.status] = e
    BY <1>1 DEF Entry
  <2>. QED BY <1>2, <2>1, <2>2 DEF Keeps
<1>3. CASE ~(e.day = d /\ e.status \in from)
  <2>1. e \in EntriesWith(d, from, to)
    BY <1>3 DEF EntriesWith
  <2>2. Keeps(e, e)
    BY <1>1 DEF Keeps, Entry
  <2>. QED BY <2>1, <2>2
<1>. QED BY <1>2, <1>3

LEMMA EntriesKept ==
  ASSUME TypeOK, [Next]_vars, NEW e \in entries
  PROVE  \E f \in entries' : Keeps(e, f)
<1>1. ASSUME entries \subseteq entries' PROVE \E f \in entries' : Keeps(e, f)
  BY <1>1 DEF Keeps, TypeOK, Entry
<1>2. ASSUME NEW r \in Requests, Submit(r) PROVE entries' = entries
  BY <1>2, SubmitIdles DEF Idles, dbVars
<1>3. ASSUME NEW r \in Requests, Commit(r), ~CommitClose(r)
      PROVE  \E f \in entries' : Keeps(e, f)
  <2>0. arg[r].day \in Days
    BY <1>3, DayCommitFrame
  <2>1. CASE CommitClockIn(r) \/ CommitClockOut(r) \/ CommitRequestCorrection(r)
             \/ CommitRejectCorrection(r)
    BY <1>1, <2>1 DEF CommitClockIn, CommitClockOut, CommitRequestCorrection,
       CommitRejectCorrection
  <2>2. CASE CommitApprove(r)
    BY <2>0, <2>2, UpdateKeeps DEF CommitApprove
  <2>3. CASE CommitApproveCorrection(r)
    <3>1. PICK f \in EntriesWith(arg[r].day, {"RECORDED", "APPROVED"}, "CORRECTED") : Keeps(e, f)
      BY <2>0, UpdateKeeps
    <3>. QED BY <2>3, <3>1 DEF CommitApproveCorrection
  <2>. QED BY <1>3, <2>1, <2>2, <2>3 DEF Commit
<1>4. ASSUME RowsStay PROVE entries' = entries
  BY <1>4 DEF RowsStay
<1>. QED BY <1>1, <1>2, <1>3, <1>4, DayCases

\* A stored entry keeps its day, kind, time and key; its status may change, but
\* never from archived (INV-TIME-04).
THEOREM EntriesStay == Spec => EntriesAreKept
<1>. DEFINE Kept == \A e \in entries : \E f \in entries' :
                      /\ [f EXCEPT !.status = e.status] = e
                      /\ e.status = "CORRECTED" => f.status = "CORRECTED"
<1>1. TypeOK /\ [Next]_vars => [Kept]_vars
  BY EntriesKept DEF Keeps
<1>2. EntriesAreKept <=> [][Kept]_vars
  BY DEF EntriesAreKept
<1>. QED BY <1>1, <1>2, TypeCorrect, PTL DEF Spec

LEMMA KeysStay ==
  ASSUME MonthInv, [Next]_vars, NEW k, KeyUsed(k)
  PROVE  KeyUsed(k)'
<1>1. PICK e \in entries : e.key = k
  BY DEF KeyUsed
<1>2. PICK f \in entries' : Keeps(e, f)
  BY <1>1, EntriesKept DEF MonthInv
<1>3. [f EXCEPT !.status = e.status].key = f.key
  <2>1. f \in Entry
    BY <1>2, MonthStep DEF MonthInv, TypeOK
  <2>. QED BY <2>1 DEF Entry
<1>. QED BY <1>1, <1>2, <1>3 DEF Keeps, KeyUsed

LEMMA AckedStep ==
  ASSUME MonthInv, AckedIsRecorded, [Next]_vars
  PROVE  AckedIsRecorded'
<1>. SUFFICES ASSUME NEW k \in acked', k \notin acked PROVE KeyUsed(k)'
  BY KeysStay DEF AckedIsRecorded
<1>1. ASSUME NEW r \in Requests, Submit(r) PROVE KeyUsed(k)'
  <2>1. KeyUsed(k)
    BY <1>1 DEF Submit, LoadClockIn, LoadClockOut, LoadApprove, LoadRequestCorrection,
       LoadApproveCorrection, LoadRejectCorrection, LoadClose, Load, AnswerKnownKey, KeyUsed
  <2>. QED BY <2>1, KeysStay
<1>2. ASSUME NEW r \in Requests, Serve(r) PROVE KeyUsed(k)'
  <2>1. ASSUME NEW kind, acked' = acked \union {arg[r].key},
               entries' = entries \union {[day |-> arg[r].day, kind |-> kind,
                            status |-> "RECORDED", at |-> arg[r].at, key |-> arg[r].key]}
        PROVE  KeyUsed(k)'
    <3>. DEFINE new == [day |-> arg[r].day, kind |-> kind, status |-> "RECORDED",
                        at |-> arg[r].at, key |-> arg[r].key]
    <3>1. k = arg[r].key
      BY <2>1
    <3>2. new.key = k
      BY <3>1
    <3>3. new \in entries'
      BY <2>1
    <3>. QED BY <3>2, <3>3 DEF KeyUsed
  <2>2. CASE CommitClockIn(r)
    BY <2>1, <2>2 DEF CommitClockIn
  <2>3. CASE CommitClockOut(r)
    BY <2>1, <2>3 DEF CommitClockOut
  <2>4. CASE ReplayInTransaction(r) \/ AnswerAfterFailure(r)
    <3>1. KeyUsed(k)
      BY <2>4 DEF ReplayInTransaction, AnswerAfterFailure
    <3>. QED BY <3>1, KeysStay
  <2>5. ~(CommitApprove(r) \/ CommitRequestCorrection(r) \/ CommitApproveCorrection(r)
          \/ CommitRejectCorrection(r) \/ CommitClose(r))
    BY DEF CommitApprove, CommitRequestCorrection, CommitApproveCorrection,
       CommitRejectCorrection, CommitClose
  <2>6. ~(Check(r) \/ Refuse(r) \/ Conflict(r))
    BY DEF Check, Refuse, Conflict, Abort
  <2>. QED BY <1>2, <2>2, <2>3, <2>4, <2>5, <2>6 DEF Serve, Commit
<1>3. ASSUME NEW r \in Requests, Lock(r) \/ Interrupt(r) PROVE FALSE
  BY <1>3 DEF Lock, Interrupt, TimeOut, Crash, Abort
<1>4. ~(\E m \in Months : CreatePeriod(m)) /\ ~Tick /\ ~UNCHANGED vars
  BY DEF CreatePeriod, Tick, vars
<1>. QED BY <1>1, <1>2, <1>3, <1>4 DEF Next

\* Every clock request that was answered with success is on record, whatever
\* was retried, refused, rolled back or lost in between.
THEOREM AckedCorrect == Spec => []AckedIsRecorded
<1>1. Init => MonthInv /\ AckedIsRecorded
  BY InitMonth DEF Init, AckedIsRecorded
<1>2. MonthInv /\ AckedIsRecorded /\ [Next]_vars => (MonthInv /\ AckedIsRecorded)'
  BY MonthStep, AckedStep
<1>. QED BY <1>1, <1>2, PTL DEF Spec

LEMMA OpenStep ==
  ASSUME TypeOK, OneOpenDay, [Next]_vars
  PROVE  OneOpenDay'
<1>1. ASSUME UNCHANGED dayStatus PROVE OneOpenDay'
  BY <1>1 DEF OneOpenDay
<1>2. ASSUME NEW r \in Requests, Submit(r) PROVE UNCHANGED dayStatus
  BY <1>2, SubmitIdles DEF Idles, dbVars, dayVars
<1>3. ASSUME NEW r \in Requests, Commit(r), ~CommitClose(r) PROVE OneOpenDay'
  <2>. DEFINE a == arg[r]
  <2>0. a.day \in Days
    BY <1>3, DayCommitFrame
  <2>1. ASSUME ~AnOpenDay, NEW s \in DayStatuses, dayStatus' = [dayStatus EXCEPT ![a.day] = s]
        PROVE  OneOpenDay'
    BY <2>1 DEF TypeOK, OneOpenDay, AnOpenDay
  <2>2. ASSUME NEW s \in DayStatuses \ {"OPEN"}, dayStatus' = [dayStatus EXCEPT ![a.day] = s]
        PROVE  OneOpenDay'
    BY <2>2 DEF TypeOK, OneOpenDay
  <2>3. CASE CommitClockIn(r)
    BY <2>1, <2>3 DEF CommitClockIn, Commits, CanWrite, OpenIndexAllows, DayStatuses
  <2>4. CASE CommitClockOut(r) \/ CommitApprove(r) \/ CommitRequestCorrection(r)
             \/ CommitApproveCorrection(r)
    BY <2>2, <2>4 DEF CommitClockOut, CommitApprove, CommitRequestCorrection,
       CommitApproveCorrection, SetDay, DayStatuses
  <2>5. CASE CommitRejectCorrection(r)
    <3>1. /\ a.target \in {"OPEN", "PENDING_APPROVAL"}
          /\ a.target = "OPEN" => ~AnOpenDay
          /\ dayStatus' = [dayStatus EXCEPT ![a.day] = a.target]
      BY <2>5, ArgShapes DEF TypeOK, CommitRejectCorrection, Commits, CanWrite,
         OpenIndexAllows, SetDay, RejectArg
    <3>. QED BY <2>1, <2>2, <3>1 DEF DayStatuses
  <2>. QED BY <1>3, <2>3, <2>4, <2>5 DEF Commit
<1>4. ASSUME RowsStay PROVE UNCHANGED dayStatus
  BY <1>4 DEF RowsStay
<1>. QED BY <1>1, <1>2, <1>3, <1>4, DayCases

\* The relationship never has two OPEN days: the partial unique index holds what
\* the locks of two months cannot.
THEOREM OneDayOpen == Spec => []OneOpenDay
<1>1. Init => OneOpenDay
  BY DEF Init, OneOpenDay
<1>2. TypeOK /\ OneOpenDay /\ [Next]_vars => OneOpenDay'
  BY OpenStep
<1>. QED BY <1>1, <1>2, TypeCorrect, PTL DEF Spec

(***************************************************************************)
(* The handlers implement the ledger.  What the refinement needs besides   *)
(* DayInv: proposals run forward in time, and an open month has no         *)
(* snapshot.                                                               *)
(***************************************************************************)
Proposes == {"requestCorrection", "approveCorrection"}
ProposalsRunForward ==
  /\ \A c \in corrections : c.in < c.out
  /\ \A r \in Requests : arg[r].op \in Proposes => arg[r].in < arg[r].out
OpenMonthIsUnsealed == \A m \in Months : PeriodClosed(m) \/ snapshot[m] = {}

RefinementInv ==
  /\ DayInv
  /\ ProposalsRunForward
  /\ OpenMonthIsUnsealed

LEMMA ForwardStep ==
  ASSUME TypeOK, ProposalsRunForward, [Next]_vars
  PROVE  ProposalsRunForward'
<1>1. ASSUME NEW r \in Requests, Submit(r) PROVE ProposalsRunForward'
  <2>1. UNCHANGED corrections /\ \A s \in Requests \ {r} : arg'[s] = arg[s]
    BY <1>1, SubmitIdles DEF Idles, dbVars
  <2>2. arg'[r].op \in Proposes => arg'[r].in < arg'[r].out
    <3>1. ASSUME NEW a, Load(r, a) PROVE arg'[r] = a
      BY <3>1 DEF Load, TypeOK
    <3>2. ASSUME NEW d \in Days, NEW p \in Proposals, LoadRequestCorrection(r, d, p)
          PROVE  arg'[r].in < arg'[r].out
      <4>1. p[1] \in Int /\ p[2] \in Int /\ p[2] > p[1]
        BY <3>2, ProposalsAssumption, CalendarAssumption DEF LoadRequestCorrection, Instants
      <4>2. arg'[r].in = p[1] /\ arg'[r].out = p[2]
        BY <3>1, <3>2 DEF LoadRequestCorrection
      <4>. QED BY <4>1, <4>2
    <3>3. ASSUME NEW d \in Days, LoadApproveCorrection(r, d) PROVE arg'[r].in < arg'[r].out
      <4>1. PICK c \in Pending(d) :
              Load(r, [op |-> "approveCorrection", day |-> d, month |-> MonthOf[d],
                       version |-> dayVersion[d], corr |-> c.id, in |-> c.in, out |-> c.out])
        BY <3>3 DEF LoadApproveCorrection
      <4>2. arg'[r].in = c.in /\ arg'[r].out = c.out
        BY <3>1, <4>1
      <4>. QED BY <4>2 DEF Pending, ProposalsRunForward
    <3>4. ASSUME NEW k, AnswerKnownKey(r, k) PROVE arg'[r] = arg[r]
      BY <3>4 DEF AnswerKnownKey
    <3>5. ASSUME NEW k \in ClockInKeys, LoadClockIn(r, k)
          PROVE  arg'[r] = arg[r] \/ arg'[r].op \notin Proposes
      BY <3>1, <3>4, <3>5 DEF LoadClockIn, Proposes
    <3>6. ASSUME NEW d \in Days, NEW k \in ClockOutKeys, LoadClockOut(r, d, k)
          PROVE  arg'[r] = arg[r] \/ arg'[r].op \notin Proposes
      BY <3>1, <3>4, <3>6 DEF LoadClockOut, Proposes
    <3>7. ASSUME NEW d \in Days, LoadApprove(r, d) \/ LoadRejectCorrection(r, d)
          PROVE  arg'[r].op \notin Proposes
      <4>1. \E a : Load(r, a) /\ a.op \notin Proposes
        <5>1. CASE LoadApprove(r, d)
          <6>1. PICK i \in Active(d, "CLOCK_IN"), o \in Active(d, "CLOCK_OUT") :
                  Load(r, [op |-> "approve", day |-> d, month |-> MonthOf[d],
                           version |-> dayVersion[d], in |-> i.at, out |-> o.at])
            BY <5>1 DEF LoadApprove
          <6>. QED BY <6>1 DEF Proposes
        <5>2. CASE LoadRejectCorrection(r, d)
          <6>1. PICK c \in Pending(d) :
                  Load(r, [op |-> "rejectCorrection", day |-> d, month |-> MonthOf[d],
                           version |-> dayVersion[d], corr |-> c.id,
                           target |-> TargetStatus(d)])
            BY <5>2 DEF LoadRejectCorrection
          <6>. QED BY <6>1 DEF Proposes
        <5>. QED BY <3>7, <5>1, <5>2
      <4>. QED BY <3>1, <4>1
    <3>8. ASSUME NEW m \in Months, LoadClose(r, m) PROVE arg'[r].op \notin Proposes
      BY <3>1, <3>8 DEF LoadClose, Proposes
    <3>. QED BY <1>1, <3>2, <3>3, <3>5, <3>6, <3>7, <3>8 DEF Submit, ProposalsRunForward
  <2>. QED BY <2>1, <2>2 DEF ProposalsRunForward
<1>2. ASSUME NEW r \in Requests, Commit(r), ~CommitClose(r) PROVE ProposalsRunForward'
  <2>1. \A s \in Requests : arg'[s] = arg[s] \/ arg'[s].op \notin Proposes
    BY <1>2, CommitEnds DEF Ends, NoArg, Proposes
  <2>2. ASSUME NEW c \in corrections' PROVE c.in < c.out
    <3>1. CASE CommitRequestCorrection(r)
      <4>. DEFINE new == [day |-> arg[r].day, id |-> arg[r].version + 1, status |-> "PENDING",
                          in |-> arg[r].in, out |-> arg[r].out]
      <4>1. arg[r].in < arg[r].out /\ corrections' = corrections \union {new}
        BY <3>1 DEF CommitRequestCorrection, Commits, ProposalsRunForward, Proposes
      <4>2. new.in = arg[r].in /\ new.out = arg[r].out
        OBVIOUS
      <4>. HIDE DEF new
      <4>. QED BY <2>2, <4>1, <4>2 DEF ProposalsRunForward
    <3>2. ASSUME NEW d, NEW id, NEW status, corrections' = ResolvedAs(d, id, status)
          PROVE  c.in < c.out
      <4>1. PICK b \in corrections :
              c = IF b.day = d /\ b.id = id THEN [b EXCEPT !.status = status] ELSE b
        BY <2>2, <3>2 DEF ResolvedAs
      <4>2. b \in Correction /\ b.in < b.out
        BY DEF TypeOK, ProposalsRunForward
      <4>3. c.in = b.in /\ c.out = b.out
        BY <4>1, <4>2 DEF Correction
      <4>. QED BY <4>2, <4>3
    <3>3. CASE CommitApproveCorrection(r) \/ CommitRejectCorrection(r)
      BY <3>2, <3>3 DEF CommitApproveCorrection, CommitRejectCorrection
    <3>4. CASE CommitClockIn(r) \/ CommitClockOut(r) \/ CommitApprove(r)
      BY <2>2, <3>4 DEF CommitClockIn, CommitClockOut, CommitApprove, ProposalsRunForward
    <3>. QED BY <1>2, <3>1, <3>3, <3>4 DEF Commit
  <2>. QED BY <2>1, <2>2 DEF ProposalsRunForward
<1>3. ASSUME RowsStay PROVE ProposalsRunForward'
  BY <1>3 DEF RowsStay, ProposalsRunForward, Proposes, Reviews
<1>. QED BY <1>1, <1>2, <1>3, DayCases

LEMMA UnsealedStep ==
  ASSUME MonthInv, OpenMonthIsUnsealed, [Next]_vars
  PROVE  OpenMonthIsUnsealed'
<1>. SUFFICES ASSUME NEW m \in Months PROVE PeriodClosed(m)' \/ snapshot'[m] = {}
  BY DEF OpenMonthIsUnsealed
<1>0. TypeOK
  BY DEF MonthInv
<1>1. ASSUME SameMonth(m) PROVE PeriodClosed(m)' \/ snapshot'[m] = {}
  BY <1>1 DEF SameMonth, OpenMonthIsUnsealed
<1>2. ASSUME NEW r \in Requests, Commit(r), ~CommitClose(r)
      PROVE  PeriodClosed(m)' \/ snapshot'[m] = {}
  BY <1>0, <1>2, DayCommitFrame DEF periodVars, PeriodClosed, OpenMonthIsUnsealed
<1>3. ASSUME NEW r \in Requests, CommitClose(r), m = arg[r].month
      PROVE  PeriodClosed(m)' \/ snapshot'[m] = {}
  BY <1>0, <1>3 DEF CommitClose, PeriodClosed, TypeOK
<1>4. ASSUME NEW r \in Requests, CommitClose(r), m # arg[r].month PROVE SameMonth(m)
  BY <1>0, <1>4, CloseMonths
<1>5. ASSUME NEW r \in Requests, Idles(r) \/ Lock(r) \/ Check(r) PROVE UNCHANGED dbVars
  BY <1>5 DEF Idles, Lock, Check
<1>. QED BY <1>0, <1>1, <1>2, <1>3, <1>4, <1>5, StepCases, QuietMonths, CreateMonths

LEMMA RefinementStep == RefinementInv /\ [Next]_vars => RefinementInv'
<1>1. RefinementInv => TypeOK /\ MonthInv
  BY DEF RefinementInv, DayInv, MonthInv
<1>. QED BY <1>1, DayStep, ForwardStep, UnsealedStep DEF RefinementInv

LEMMA InitRefinement == Init => RefinementInv
BY InitDay DEF RefinementInv, ProposalsRunForward, OpenMonthIsUnsealed, Init, NoArg, Proposes

(***************************************************************************)
(* The ledger's view of the rows.                                          *)
(***************************************************************************)
Spans == [d \in Days |-> LedgerSpan(d)]
SealedRows(rows) ==
  {[day |-> row.day, minutes |-> row.minutes,
    span |-> [in |-> row.in, out |-> row.out]] : row \in rows}
Seals == [m \in Months |-> SealedRows(snapshot[m])]

LEMMA SameSpan ==
  ASSUME NEW d \in Days, SameDay(d)
  PROVE  LedgerSpan(d)' = LedgerSpan(d)
<1>1. Active(d, "CLOCK_IN")' = Active(d, "CLOCK_IN")
      /\ Active(d, "CLOCK_OUT")' = Active(d, "CLOCK_OUT")
  BY SameDayReads DEF Kinds
<1>. QED BY <1>1 DEF LedgerSpan

LEMMA OneSpanMoves ==
  ASSUME NEW d \in Days, \A x \in Days \ {d} : SameDay(x), NEW v, LedgerSpan(d)' = v
  PROVE  Spans' = [Spans EXCEPT ![d] = v]
<1>1. \A x \in Days \ {d} : LedgerSpan(x)' = LedgerSpan(x)
  BY SameSpan
<1>2. Spans' = [x \in Days |-> LedgerSpan(x)']
  BY DEF Spans
<1>3. \A x \in Days : LedgerSpan(x)' = IF x = d THEN v ELSE LedgerSpan(x)
  BY <1>1
<1>. QED BY <1>2, <1>3 DEF Spans

LEMMA SealsStay ==
  ASSUME UNCHANGED snapshot
  PROVE  Seals' = Seals
BY DEF Seals

\* A step that leaves the rows leaves the ledger.
LEMMA LedgerStutters ==
  ASSUME \A d \in Days : SameDay(d), UNCHANGED <<dayStatus, approvedMinutes, snapshot>>
  PROVE  UNCHANGED Ledger!ledger
<1>1. \A d \in Days : LedgerSpan(d)' = LedgerSpan(d)
  BY SameSpan
<1>2. Spans' = Spans
  BY <1>1 DEF Spans
<1>. QED BY <1>2, SealsStay DEF Ledger!ledger, Spans, Seals, SealedRows

\* The day a request is about to write is a day of a month not sealed yet.
LEMMA WritesAnOpenMonth ==
  ASSUME RefinementInv, NEW r \in Requests, Commit(r), ~CommitClose(r),
         NEW d \in Days, d = arg[r].day
  PROVE  /\ Seals[MonthOf[d]] = {}
         /\ Seals' = Seals
         /\ \A x \in Days \ {d} : SameDay(x)
<1>0. MonthInv /\ TypeOK /\ arg[r] \in Args
  BY DEF RefinementInv, DayInv, MonthInv, TypeOK
<1>1. pc[r] = "checked" /\ arg[r] # NoArg /\ arg[r].op # "closeAttendance"
  BY <1>0, CommitEnds, DayCommitFrame, ArgMonth DEF MonthInv
<1>2. arg[r].month = MonthOf[d] /\ MonthOf[d] \in Months /\ ~PeriodClosed(arg[r].month)
  BY <1>0, <1>1, CalendarAssumption DEF MonthInv, MonthOfItsDay, CheckedMonthIsOpen
<1>3. snapshot[MonthOf[d]] = {}
  BY <1>2 DEF RefinementInv, OpenMonthIsUnsealed
<1>4. snapshot' = snapshot /\ \A x \in Days \ {d} : SameDay(x)
  BY <1>0, DayCommitFrame DEF periodVars
<1>. QED BY <1>2, <1>3, <1>4, SealsStay DEF Seals, SealedRows

LEMMA ClockInOnLedger ==
  ASSUME RefinementInv, NEW r \in Requests, CommitClockIn(r)
  PROVE  \E d \in Days, t \in Instants : Ledger!ClockIn(d, t)
<1>0. TypeOK /\ arg[r] \in Args /\ DayInv
  BY DEF RefinementInv, DayInv, MonthInv, TypeOK
<1>1. PICK d \in Days, t \in Instants : d = arg[r].day /\ t = arg[r].at
  BY <1>0, ArgShapes DEF CommitClockIn, Commits, ClockArg
<1>2. Seals[MonthOf[d]] = {} /\ Seals' = Seals /\ \A x \in Days \ {d} : SameDay(x)
  BY <1>1, WritesAnOpenMonth DEF Commit, CommitClockIn, CommitClose, Commits
<1>3. LedgerSpan(d)' = [in |-> {t}, out |-> {}]
  <2>. DEFINE new == [day |-> d, kind |-> "CLOCK_IN", status |-> "RECORDED",
                      at |-> t, key |-> arg[r].key]
  <2>1. entries' = entries \union {new} /\ dayStatus[d] = "NONE"
    BY <1>1 DEF CommitClockIn, Commits, CanWrite
  <2>2. \A e \in entries : e.day # d
    BY <1>0, <2>1 DEF DayInv, DayFits
  <2>3. new.day = d /\ new.kind = "CLOCK_IN" /\ new.status # "CORRECTED" /\ new.at = t
    OBVIOUS
  <2>. HIDE DEF new
  <2>4. Active(d, "CLOCK_IN")' = {new} /\ Active(d, "CLOCK_OUT")' = {}
    BY <2>1, <2>2, <2>3 DEF Active
  <2>. QED BY <2>3, <2>4 DEF LedgerSpan
<1>4. Spans' = [Spans EXCEPT ![d] = [in |-> {t}, out |-> {}]]
  BY <1>2, <1>3, OneSpanMoves
<1>5. /\ dayStatus[d] = "NONE" /\ \A x \in Days : dayStatus[x] # "OPEN"
      /\ dayStatus' = [dayStatus EXCEPT ![d] = "OPEN"]
      /\ UNCHANGED <<approvedMinutes, snapshot>>
  BY <1>1 DEF CommitClockIn, Commits, CanWrite, OpenIndexAllows, AnOpenDay, periodVars
<1>. QED BY <1>2, <1>4, <1>5
     DEF Ledger!ClockIn, Ledger!CanClockIn, Ledger!Becomes, Ledger!NoneOpen, Ledger!Open,
         Ledger!Span, Spans, Seals, SealedRows

LEMMA ClockOutOnLedger ==
  ASSUME RefinementInv, NEW r \in Requests, CommitClockOut(r)
  PROVE  \E d \in Days, t \in Instants : Ledger!ClockOut(d, t)
<1>0. TypeOK /\ arg[r] \in Args /\ DayInv
  BY DEF RefinementInv, DayInv, MonthInv, TypeOK
<1>1. PICK d \in Days, t \in Instants : d = arg[r].day /\ t = arg[r].at
  BY <1>0, ArgShapes DEF CommitClockOut, Commits, ClockArg
<1>2. Seals[MonthOf[d]] = {} /\ Seals' = Seals /\ \A x \in Days \ {d} : SameDay(x)
  BY <1>1, WritesAnOpenMonth DEF Commit, CommitClockOut, CommitClose, Commits
<1>3. LedgerSpan(d)' = [in |-> LedgerSpan(d).in, out |-> {t}]
  <2>. DEFINE new == [day |-> d, kind |-> "CLOCK_OUT", status |-> "RECORDED",
                      at |-> t, key |-> arg[r].key]
  <2>1. entries' = entries \union {new} /\ Active(d, "CLOCK_OUT") = {}
    BY <1>1 DEF CommitClockOut, Commits, CanWrite
  <2>2. new.day = d /\ new.kind = "CLOCK_OUT" /\ new.status # "CORRECTED" /\ new.at = t
    OBVIOUS
  <2>. HIDE DEF new
  <2>3. Active(d, "CLOCK_IN")' = Active(d, "CLOCK_IN") /\ Active(d, "CLOCK_OUT")' = {new}
    BY <2>1, <2>2 DEF Active
  <2>4. {e.at : e \in Active(d, "CLOCK_OUT")'} = {t}
    BY <2>2, <2>3
  <2>5. LedgerSpan(d)' = [in |-> {e.at : e \in Active(d, "CLOCK_IN")}, out |-> {t}]
    BY <2>3, <2>4 DEF LedgerSpan
  <2>. QED BY <2>5 DEF LedgerSpan
<1>4. Spans' = [Spans EXCEPT ![d] = [in |-> LedgerSpan(d).in, out |-> {t}]]
  BY <1>2, <1>3, OneSpanMoves
<1>5. Spans' = [Spans EXCEPT ![d].out = {t}]
  BY <1>4 DEF Spans, LedgerSpan
<1>6. /\ dayStatus[d] = "OPEN" /\ dayStatus' = [dayStatus EXCEPT ![d] = "PENDING_APPROVAL"]
      /\ UNCHANGED approvedMinutes
  BY <1>1 DEF CommitClockOut, Commits, CanWrite, StillOpen, SetDay
<1>. QED BY <1>2, <1>5, <1>6
     DEF Ledger!ClockOut, Ledger!CanClockOut, Ledger!Becomes, Ledger!Open, Spans, Seals, SealedRows

LEMMA ApproveOnLedger ==
  ASSUME RefinementInv, NEW r \in Requests, CommitApprove(r)
  PROVE  \E d \in Days : Ledger!Approve(d)
<1>0. TypeOK /\ arg[r] \in Args /\ DayInv
  BY DEF RefinementInv, DayInv, MonthInv, TypeOK
<1>1. PICK d \in Days : d = arg[r].day
  BY <1>0, ArgShapes DEF CommitApprove, Commits, SpanArg
<1>2. Seals[MonthOf[d]] = {} /\ Seals' = Seals /\ \A x \in Days \ {d} : SameDay(x)
  BY <1>1, WritesAnOpenMonth DEF Commit, CommitApprove, CommitClose, Commits
<1>3. /\ dayStatus[d] = "PENDING_APPROVAL" /\ CopyAgrees(r) /\ arg[r].op = "approve"
      /\ entries' = EntriesWith(d, {"RECORDED"}, "APPROVED")
  BY <1>0, <1>1 DEF CommitApprove, Commits, CanWrite, VersionMatches, DayInv, CopyFits, Reviews
<1>4. PICK i, o : Active(d, "CLOCK_IN") = {i} /\ Active(d, "CLOCK_OUT") = {o}
  BY <1>0, <1>3 DEF DayInv, DayFits, Single
<1>5. arg[r].in = i.at /\ arg[r].out = o.at
  BY <1>1, <1>3, <1>4 DEF CopyAgrees
<1>6. LedgerSpan(d) = [in |-> {i.at}, out |-> {o.at}]
  BY <1>4 DEF LedgerSpan
<1>7. LedgerSpan(d)' = [in |-> {i.at}, out |-> {o.at}]
  <2>1. PICK j : j.at = i.at /\ Active(d, "CLOCK_IN")' = {j}
    BY <1>0, <1>3, <1>4, ApprovedTimes DEF Active, Kinds
  <2>2. PICK p : p.at = o.at /\ Active(d, "CLOCK_OUT")' = {p}
    BY <1>0, <1>3, <1>4, ApprovedTimes DEF Active, Kinds
  <2>. QED BY <2>1, <2>2 DEF LedgerSpan
<1>8. Spans' = [Spans EXCEPT ![d] = LedgerSpan(d)]
  BY <1>2, <1>6, <1>7, OneSpanMoves
<1>9. Spans' = Spans
  BY <1>8 DEF Spans
<1>10. /\ i.at \in Spans[d].in /\ o.at \in Spans[d].out
       /\ approvedMinutes' = [approvedMinutes EXCEPT ![d] = Minutes(i.at, o.at)]
       /\ dayStatus' = [dayStatus EXCEPT ![d] = "APPROVED"]
  BY <1>1, <1>5, <1>6 DEF CommitApprove, SetDay, Spans
<1>. QED BY <1>2, <1>3, <1>9, <1>10
     DEF Ledger!Approve, Ledger!CanApprove, Ledger!Becomes, Ledger!Open, Ledger!Duration,
         Minutes, Spans, Seals, SealedRows

LEMMA RequestCorrectionOnLedger ==
  ASSUME RefinementInv, NEW r \in Requests, CommitRequestCorrection(r)
  PROVE  \E d \in Days : Ledger!Dispute(d)
<1>0. TypeOK /\ arg[r] \in Args /\ DayInv
  BY DEF RefinementInv, DayInv, MonthInv, TypeOK
<1>1. PICK d \in Days : d = arg[r].day
  BY <1>0, ArgShapes DEF CommitRequestCorrection, Commits, SpanArg
<1>2. Seals[MonthOf[d]] = {} /\ Seals' = Seals /\ \A x \in Days \ {d} : SameDay(x)
  BY <1>1, WritesAnOpenMonth DEF Commit, CommitRequestCorrection, CommitClose, Commits
<1>3. dayStatus[d] # "NONE" /\ Pending(d) = {}
  BY <1>0, <1>1 DEF CommitRequestCorrection, Commits, CanWrite, VersionMatches, DayInv,
     CopyFits, CopyAgrees, Reviews
<1>4. dayStatus[d] \in {"OPEN", "PENDING_APPROVAL", "APPROVED"}
  BY <1>0, <1>3 DEF DayInv, DayFits, Single, TypeOK, DayStatuses
<1>5. LedgerSpan(d)' = LedgerSpan(d)
  BY DEF CommitRequestCorrection, LedgerSpan, Active
<1>6. Spans' = [Spans EXCEPT ![d] = LedgerSpan(d)]
  BY <1>2, <1>5, OneSpanMoves
<1>7. Spans' = Spans
  BY <1>6 DEF Spans
<1>8. dayStatus' = [dayStatus EXCEPT ![d] = "DISPUTED"] /\ UNCHANGED approvedMinutes
  BY <1>1 DEF CommitRequestCorrection, SetDay
<1>. QED BY <1>2, <1>4, <1>7, <1>8
     DEF Ledger!Dispute, Ledger!CanDispute, Ledger!Becomes, Ledger!Open, Spans, Seals, SealedRows

LEMMA ApproveCorrectionOnLedger ==
  ASSUME RefinementInv, NEW r \in Requests, CommitApproveCorrection(r)
  PROVE  \E d \in Days, i, o \in Instants : Ledger!Correct(d, i, o)
<1>0. TypeOK /\ arg[r] \in Args
  BY DEF RefinementInv, DayInv, MonthInv, TypeOK
<1>1. PICK d \in Days, in \in Instants, out \in Instants :
        d = arg[r].day /\ in = arg[r].in /\ out = arg[r].out
  BY <1>0, ArgShapes DEF CommitApproveCorrection, Commits, AcceptArg
<1>2. Seals[MonthOf[d]] = {} /\ Seals' = Seals /\ \A x \in Days \ {d} : SameDay(x)
  BY <1>1, WritesAnOpenMonth DEF Commit, CommitApproveCorrection, CommitClose, Commits
<1>3. in < out /\ dayStatus[d] = "DISPUTED"
  BY <1>1 DEF RefinementInv, ProposalsRunForward, Proposes, CommitApproveCorrection,
     Commits, CanWrite
<1>4. LedgerSpan(d)' = [in |-> {in}, out |-> {out}]
  <2>. DEFINE New(kind, at) == [day |-> d, kind |-> kind, status |-> "APPROVED",
                                at |-> at, key |-> <<d, arg[r].corr, kind>>]
              i == New("CLOCK_IN", in)
              o == New("CLOCK_OUT", out)
              old == EntriesWith(d, {"RECORDED", "APPROVED"}, "CORRECTED")
  <2>1. entries' = old \union {i, o}
    BY <1>1 DEF CommitApproveCorrection
  <2>2. /\ i.day = d /\ i.kind = "CLOCK_IN" /\ i.status # "CORRECTED" /\ i.at = in
        /\ o.day = d /\ o.kind = "CLOCK_OUT" /\ o.status # "CORRECTED" /\ o.at = out
    OBVIOUS
  <2>3. \A f \in old : f.day = d => f.status = "CORRECTED"
    BY <1>0, ArchivedAll
  <2>. HIDE DEF i, o, old
  <2>4. Active(d, "CLOCK_IN")' = {i} /\ Active(d, "CLOCK_OUT")' = {o}
    BY <2>1, <2>2, <2>3 DEF Active
  <2>. QED BY <2>2, <2>4 DEF LedgerSpan
<1>5. Spans' = [Spans EXCEPT ![d] = [in |-> {in}, out |-> {out}]]
  BY <1>2, <1>4, OneSpanMoves
<1>6. Minutes(in, out) = out - in
  BY <1>3, CalendarAssumption DEF Minutes, Instants
<1>7. /\ dayStatus' = [dayStatus EXCEPT ![d] = "APPROVED"]
      /\ approvedMinutes' = [approvedMinutes EXCEPT ![d] = out - in]
  BY <1>1, <1>6 DEF CommitApproveCorrection, SetDay
<1>. QED BY <1>2, <1>3, <1>5, <1>7
     DEF Ledger!Correct, Ledger!CanCorrect, Ledger!Becomes, Ledger!Open, Ledger!Span,
         Spans, Seals, SealedRows

LEMMA RejectCorrectionOnLedger ==
  ASSUME RefinementInv, NEW r \in Requests, CommitRejectCorrection(r)
  PROVE  \E d \in Days : Ledger!Dismiss(d)
<1>0. TypeOK /\ arg[r] \in Args /\ DayInv
  BY DEF RefinementInv, DayInv, MonthInv, TypeOK
<1>1. PICK d \in Days : d = arg[r].day
  BY <1>0, ArgShapes DEF CommitRejectCorrection, Commits, RejectArg
<1>2. Seals[MonthOf[d]] = {} /\ Seals' = Seals /\ \A x \in Days \ {d} : SameDay(x)
  BY <1>1, WritesAnOpenMonth DEF Commit, CommitRejectCorrection, CommitClose, Commits
<1>3. /\ dayStatus[d] = "DISPUTED" /\ arg[r].target = TargetStatus(d)
      /\ arg[r].target = "OPEN" => \A x \in Days : dayStatus[x] # "OPEN"
      /\ dayStatus' = [dayStatus EXCEPT ![d] = arg[r].target]
      /\ UNCHANGED approvedMinutes
  BY <1>0, <1>1 DEF CommitRejectCorrection, Commits, CanWrite, VersionMatches, DayInv,
     CopyFits, CopyAgrees, Reviews, OpenIndexAllows, AnOpenDay, SetDay
<1>4. LedgerSpan(d)' = LedgerSpan(d)
  BY DEF CommitRejectCorrection, LedgerSpan, Active
<1>5. Spans' = [Spans EXCEPT ![d] = LedgerSpan(d)]
  BY <1>2, <1>4, OneSpanMoves
<1>6. Spans' = Spans
  BY <1>5 DEF Spans
<1>7. CASE ClockOuts(d) = {}
  <2>1. Spans[d].out = {}
    BY <1>7 DEF Spans, LedgerSpan, Active, ClockOuts
  <2>2. arg[r].target = "OPEN"
    BY <1>3, <1>7 DEF TargetStatus, ClockOuts
  <2>. QED BY <1>2, <1>3, <1>6, <2>1, <2>2
       DEF Ledger!Dismiss, Ledger!CanDismiss, Ledger!Becomes, Ledger!NoneOpen, Ledger!Open,
           Spans, Seals, SealedRows
<1>8. CASE ClockOuts(d) # {}
  <2>1. Active(d, "CLOCK_OUT") # {}
    BY <1>0, <1>8 DEF DayInv, DayFits, Single
  <2>2. Spans[d].out # {}
    BY <2>1 DEF Spans, LedgerSpan
  <2>3. arg[r].target = "PENDING_APPROVAL"
    BY <1>3, <1>8 DEF TargetStatus, ClockOuts
  <2>. QED BY <1>2, <1>3, <1>6, <2>2, <2>3
       DEF Ledger!Dismiss, Ledger!CanDismiss, Ledger!Becomes, Ledger!Open, Spans, Seals, SealedRows
<1>. QED BY <1>7, <1>8

LEMMA CloseOnLedger ==
  ASSUME RefinementInv, NEW r \in Requests, CommitClose(r)
  PROVE  \E m \in Months : Ledger!Seal(m)
<1>0. MonthInv /\ TypeOK /\ arg[r] \in Args
  BY DEF RefinementInv, DayInv, MonthInv, TypeOK
<1>1. PICK m \in Months : m = arg[r].month
  BY <1>0, ArgShapes DEF CommitClose, Commits, CloseArg
<1>2. pc[r] = "checked" /\ arg[r].op = "closeAttendance" /\ Relies(r)
  BY <1>0 DEF CommitClose, Commits, MonthInv, CheckedMonthIsOpen, CheckedViewIsCurrent, Relies
<1>3. /\ snapshot[m] = {} /\ \A d \in Existing(m) : dayStatus[d] = "APPROVED"
      /\ arg[r].view = SnapshotOf(m) /\ arg[r].view # {}
  BY <1>1, <1>2 DEF Relies, RefinementInv, OpenMonthIsUnsealed
<1>. DEFINE there == {d \in Days : MonthOf[d] = m /\ dayStatus[d] # "NONE"}
            Row(d) == [day |-> d, minutes |-> approvedMinutes[d], span |-> Spans[d]]
<1>4. there = Existing(m) /\ {x \in DaysIn(m) : dayStatus[x] = "APPROVED"} = there
  BY <1>3 DEF Existing, DaysIn
<1>5. arg[r].view = {RowOf(d) : d \in there}
  BY <1>3, <1>4 DEF SnapshotOf
<1>6. there # {}
  BY <1>3, <1>5
<1>7. SealedRows(arg[r].view) = {Row(d) : d \in there}
  <2>1. ASSUME NEW d \in there
        PROVE  [day |-> RowOf(d).day, minutes |-> RowOf(d).minutes,
                span |-> [in |-> RowOf(d).in, out |-> RowOf(d).out]] = Row(d)
    BY <2>1 DEF RowOf, Spans, LedgerSpan
  <2>2. \A row \in arg[r].view : \E d \in there : row = RowOf(d)
    BY <1>5
  <2>3. \A d \in there : RowOf(d) \in arg[r].view
    BY <1>5
  <2>. HIDE DEF Row, there
  <2>. QED BY <2>1, <2>2, <2>3 DEF SealedRows
<1>8. snapshot' = [snapshot EXCEPT ![m] = arg[r].view]
  BY <1>1 DEF CommitClose
<1>9. Seals' = [Seals EXCEPT ![m] = {Row(d) : d \in there}]
  <2>1. \A n \in Months : SealedRows(snapshot'[n])
          = IF n = m THEN {Row(d) : d \in there} ELSE SealedRows(snapshot[n])
    BY <1>0, <1>7, <1>8 DEF TypeOK
  <2>2. Seals' = [n \in Months |-> SealedRows(snapshot'[n])]
    BY DEF Seals, SealedRows
  <2>. HIDE DEF Row, there
  <2>. QED BY <2>1, <2>2 DEF Seals
<1>10. Seals[m] = {}
  BY <1>3 DEF Seals, SealedRows
<1>11. Spans' = Spans /\ UNCHANGED <<dayStatus, approvedMinutes>>
  BY DEF CommitClose, Spans, LedgerSpan, Active
<1>. QED BY <1>3, <1>4, <1>6, <1>9, <1>10, <1>11
     DEF Ledger!Seal, Ledger!CanSeal, Ledger!Open, Ledger!DaysOf, Ledger!SealedDay,
         Spans, Seals, SealedRows

LEMMA LedgerStep == RefinementInv /\ [Next]_vars => [Ledger!Next]_(Ledger!ledger)
<1>. SUFFICES ASSUME RefinementInv, [Next]_vars PROVE [Ledger!Next]_(Ledger!ledger)
  OBVIOUS
<1>0. TypeOK /\ MonthInv
  BY DEF RefinementInv, DayInv, MonthInv
<1>1. ASSUME UNCHANGED dbVars PROVE UNCHANGED Ledger!ledger
  BY <1>1, LedgerStutters DEF dbVars, dayVars, periodVars, SameDay
<1>2. ASSUME NEW r \in Requests, Idles(r) \/ Lock(r) \/ Check(r) PROVE UNCHANGED dbVars
  BY <1>2 DEF Idles, Lock, Check
<1>3. ASSUME NEW r \in Requests, Commit(r) PROVE Ledger!Next
  BY <1>3, ClockInOnLedger, ClockOutOnLedger, ApproveOnLedger, RequestCorrectionOnLedger,
     ApproveCorrectionOnLedger, RejectCorrectionOnLedger, CloseOnLedger
     DEF Commit, Ledger!Next
<1>4. ASSUME NEW m \in Months, CreatePeriod(m) PROVE UNCHANGED Ledger!ledger
  <2>1. UNCHANGED <<dayVars, entries, corrections, snapshot>>
    BY <1>4 DEF CreatePeriod
  <2>. QED BY <2>1, LedgerStutters DEF dayVars, SameDay
<1>. QED BY <1>0, <1>1, <1>2, <1>3, <1>4, StepCases

\* Attendance implements the ledger: however stale the copies of the handlers,
\* every commit is what the operation would have done at once on the rows.
THEOREM LedgerImplemented == Spec => ImplementsLedger
<1>1. Init => RefinementInv
  BY InitRefinement
<1>2. ASSUME Init PROVE Ledger!Init
  <2>1. \A d \in Days, k \in Kinds : Active(d, k) = {}
    BY <1>2 DEF Init, Active
  <2>2. \A d \in Days : LedgerSpan(d) = Ledger!Span({}, {})
    BY <2>1 DEF LedgerSpan, Ledger!Span, Kinds
  <2>3. \A m \in Months : snapshot[m] = {}
    BY <1>2 DEF Init
  <2>. QED BY <1>2, <2>2, <2>3 DEF Init, Ledger!Init, NoMinutes
<1>. QED BY <1>1, <1>2, RefinementStep, LedgerStep, PTL DEF Spec, ImplementsLedger, Ledger!Spec
============================================================================
