---------------------------- MODULE Attendance ----------------------------
(***************************************************************************)
(* The attendance of one employment relationship: work days, time entries, *)
(* corrections, monthly periods and their snapshots, as the handlers of    *)
(* TimeTrackingService, AttendanceCorrectionsService and                   *)
(* PayrollPeriodsService change them.                                      *)
(*                                                                         *)
(* Every handler has the same shape.  It reads outside any transaction and *)
(* decides from that copy (Load...), opens a transaction that takes the    *)
(* advisory lock of the month (Lock), reads again under the lock (Check)   *)
(* and writes with a compare-and-set on the row (Commit...).  PostgreSQL   *)
(* runs it READ COMMITTED, so between any two of these steps every other   *)
(* request may take its own.  The writes of a transaction and its commit   *)
(* are one step: the row locks they hold and the unique indexes make no    *)
(* difference visible between them.                                        *)
(***************************************************************************)
EXTENDS Integers, FiniteSets

CONSTANTS
  Requests,       \* concurrent requests (one API worker serves each)
  NoRequest,      \* nobody holds the lock
  Days,           \* local dates that may have a work day
  Months,         \* calendar months, as numbers that grow with time
  MaxInstant,     \* the server clock runs from 0 to MaxInstant (bound)
  DateOf,         \* instant -> local date in the household's time zone
  MonthOf,        \* local date -> month
  ClockInKeys,    \* clientIdempotencyKey values sent with a clock-in
  ClockOutKeys,   \* ... and with a clock-out
  Proposals,      \* <<in, out>> pairs a correction may propose
  MaxVersion      \* a work day is not touched past this version (bound)

Instants == 0 .. MaxInstant

ASSUME RequestsAssumption == NoRequest \notin Requests
ASSUME CalendarAssumption ==
  /\ MaxInstant \in Nat
  /\ MaxVersion \in Nat
  /\ Months \subseteq Nat
  /\ DateOf \in [Instants -> Days]
  /\ MonthOf \in [Days -> Months]
ASSUME ProposalsAssumption == Proposals \subseteq Instants \X Instants
ASSUME KeysAssumption == ClockInKeys \intersect ClockOutKeys = {}

VARIABLES
  dayStatus,         \* WorkDay.status, "NONE" while there is no row
  dayVersion,        \* WorkDay.version
  approvedMinutes,   \* WorkDay.approvedMinutes, NoMinutes for null
  linked,            \* WorkDay.payrollPeriodId is set
  entries,           \* the TimeEntry rows
  corrections,       \* the AttendanceCorrection rows
  periodStatus,      \* PayrollPeriod.status, "NONE" while there is no row
  periodVersion,     \* PayrollPeriod.version
  attendanceApproved,\* PayrollPeriod.attendanceApprovedAt is set
  snapshot,          \* PeriodAttendanceSnapshot.payload.days, {} for no row
  lock,              \* who holds pg_advisory_xact_lock(attendance_lock:month)
  now,               \* the server clock
  pc, arg,           \* where each request is and what it carries
  acked              \* keys whose clock request was answered with success

dayVars    == <<dayStatus, dayVersion, approvedMinutes, linked>>
periodVars == <<periodStatus, periodVersion, attendanceApproved, snapshot>>
dbVars     == <<dayVars, entries, corrections, periodVars>>
vars       == <<dbVars, lock, now, pc, arg, acked>>

----------------------------------------------------------------------------
(* The data *)

NoMinutes == -1
Kinds == {"CLOCK_IN", "CLOCK_OUT"}
DayStatuses == {"NONE", "OPEN", "PENDING_APPROVAL", "DISPUTED", "APPROVED"}
EntryStatuses == {"RECORDED", "APPROVED", "CORRECTED"}
PeriodStatuses == {"NONE", "OPEN", "READY_FOR_CALCULATION"}

\* randomUUID() of the entries that a resolved correction creates: one per
\* correction and kind, never a key a client sends.
FreshKeys == Days \X Nat \X Kinds
EntryKeys == ClockInKeys \union ClockOutKeys \union FreshKeys

Entry == [day: Days, kind: Kinds, status: EntryStatuses, at: Instants, key: EntryKeys]

\* A correction's id is the version its request gave to the work day.
Correction == [day: Days, id: Nat, status: {"PENDING", "APPROVED", "REJECTED"},
               in: Instants, out: Instants]

SnapshotDay == [day: Days, version: Nat, minutes: Int,
                in: SUBSET Instants, out: SUBSET Instants]

ClockOps == {"clockIn", "clockOut"}

Minutes(in, out) == IF out >= in THEN out - in ELSE 0

DaysIn(m) == {d \in Days : MonthOf[d] = m}
Existing(m) == {d \in DaysIn(m) : dayStatus[d] # "NONE"}
Active(d, kind) ==
  {e \in entries : e.day = d /\ e.kind = kind /\ e.status # "CORRECTED"}
KeyUsed(k) == \E e \in entries : e.key = k
Pending(d) == {c \in corrections : c.day = d /\ c.status = "PENDING"}
AnOpenDay == \E d \in Days : dayStatus[d] = "OPEN"

\* isPeriodAttendanceClosed, and the OR of every closedPeriod query.
PeriodClosed(m) ==
  periodStatus[m] = "READY_FOR_CALCULATION" \/ attendanceApproved[m]
LinkedClosed(d) == linked[d] /\ PeriodClosed(MonthOf[d])

\* The row of a work day as the snapshot keeps it.
RowOf(d) ==
  [day |-> d, version |-> dayVersion[d], minutes |-> approvedMinutes[d],
   in |-> {e.at : e \in Active(d, "CLOCK_IN")},
   out |-> {e.at : e \in Active(d, "CLOCK_OUT")}]
SnapshotOf(m) == {RowOf(d) : d \in {x \in DaysIn(m) : dayStatus[x] = "APPROVED"}}

----------------------------------------------------------------------------
(* Requests *)

Phases == {"idle", "loaded", "locked", "checked", "failed"}

\* What a request remembers of the copy it read, and the input it answers.
ClockArg == [op: {"clockIn", "clockOut"}, day: Days, month: Months,
             key: ClockInKeys \union ClockOutKeys, at: Instants]
SpanArg == [op: {"approve", "requestCorrection"}, day: Days, month: Months,
            version: Nat, in: Instants, out: Instants]
AcceptArg == [op: {"approveCorrection"}, day: Days, month: Months,
              version: Nat, corr: Nat, in: Instants, out: Instants]
RejectArg == [op: {"rejectCorrection"}, day: Days, month: Months,
              version: Nat, corr: Nat, target: {"OPEN", "PENDING_APPROVAL"}]
CloseArg == [op: {"closeAttendance"}, month: Months, version: Nat,
             view: SUBSET SnapshotDay]
NoArg == [op |-> "none"]
Args == ClockArg \union SpanArg \union AcceptArg \union RejectArg
          \union CloseArg \union {NoArg}

Init ==
  /\ dayStatus = [d \in Days |-> "NONE"]
  /\ dayVersion = [d \in Days |-> 0]
  /\ approvedMinutes = [d \in Days |-> NoMinutes]
  /\ linked = [d \in Days |-> FALSE]
  /\ entries = {}
  /\ corrections = {}
  /\ periodStatus = [m \in Months |-> "NONE"]
  /\ periodVersion = [m \in Months |-> 0]
  /\ attendanceApproved = [m \in Months |-> FALSE]
  /\ snapshot = [m \in Months |-> {}]
  /\ lock = [m \in Months |-> NoRequest]
  /\ now = 0
  /\ pc = [r \in Requests |-> "idle"]
  /\ arg = [r \in Requests |-> NoArg]
  /\ acked = {}

----------------------------------------------------------------------------
(* Before the transaction: what each handler requires of the copy it read *)

Load(r, a) ==
  /\ pc[r] = "idle"
  /\ pc' = [pc EXCEPT ![r] = "loaded"]
  /\ arg' = [arg EXCEPT ![r] = a]
  /\ UNCHANGED <<dbVars, lock, now, acked>>

\* A retry whose key is already stored is answered without a transaction.
AnswerKnownKey(r, k) ==
  /\ pc[r] = "idle"
  /\ acked' = acked \union {k}
  /\ UNCHANGED <<dbVars, lock, now, pc, arg>>

LoadClockIn(r, k) ==
  \/ KeyUsed(k) /\ AnswerKnownKey(r, k)
  \/ /\ ~KeyUsed(k)
     /\ Load(r, [op |-> "clockIn", day |-> DateOf[now],
                 month |-> MonthOf[DateOf[now]], key |-> k, at |-> now])

LoadClockOut(r, d, k) ==
  \/ /\ \E e \in entries : e.day = d /\ e.kind = "CLOCK_OUT" /\ e.key = k
     /\ AnswerKnownKey(r, k)
  \/ /\ ~\E e \in entries : e.day = d /\ e.kind = "CLOCK_OUT" /\ e.key = k
     /\ dayStatus[d] = "OPEN"
     /\ ~LinkedClosed(d)
     /\ \E e \in Active(d, "CLOCK_IN") : now >= e.at
     /\ dayVersion[d] < MaxVersion
     /\ Load(r, [op |-> "clockOut", day |-> d, month |-> MonthOf[d],
                 key |-> k, at |-> now])

LoadApprove(r, d) ==
  /\ dayStatus[d] = "PENDING_APPROVAL"
  /\ ~LinkedClosed(d)
  /\ Pending(d) = {}
  /\ dayVersion[d] < MaxVersion
  /\ \E i \in Active(d, "CLOCK_IN"), o \in Active(d, "CLOCK_OUT") :
       Load(r, [op |-> "approve", day |-> d, month |-> MonthOf[d],
                version |-> dayVersion[d], in |-> i.at, out |-> o.at])

LoadRequestCorrection(r, d, p) ==
  /\ dayStatus[d] # "NONE"
  /\ ~LinkedClosed(d)
  /\ Pending(d) = {}
  /\ p[2] > p[1]
  /\ dayVersion[d] < MaxVersion
  /\ Load(r, [op |-> "requestCorrection", day |-> d, month |-> MonthOf[d],
              version |-> dayVersion[d], in |-> p[1], out |-> p[2]])

LoadApproveCorrection(r, d) ==
  /\ ~LinkedClosed(d)
  /\ dayVersion[d] < MaxVersion
  /\ \E c \in Pending(d) :
       Load(r, [op |-> "approveCorrection", day |-> d, month |-> MonthOf[d],
                version |-> dayVersion[d], corr |-> c.id, in |-> c.in, out |-> c.out])

\* A day goes back to OPEN when nobody ever clocked out of it.
AlwaysReopen(d) == "OPEN"
CorrectionStatusOf(d) == "PENDING"
TargetStatus(d) ==
  IF \E e \in entries : e.day = d /\ e.kind = "CLOCK_OUT"
  THEN "PENDING_APPROVAL" ELSE "OPEN"

LoadRejectCorrection(r, d) ==
  /\ ~LinkedClosed(d)
  /\ dayVersion[d] < MaxVersion
  /\ \E c \in Pending(d) :
       Load(r, [op |-> "rejectCorrection", day |-> d, month |-> MonthOf[d],
                version |-> dayVersion[d], corr |-> c.id,
                target |-> TargetStatus(d)])

\* canCloseMonthlyAttendancePeriod: the household's clock is past the month.
MonthIsOver(m) == MonthOf[DateOf[now]] > m

LoadClose(r, m) ==
  /\ periodStatus[m] # "NONE"
  /\ ~PeriodClosed(m)
  /\ MonthIsOver(m)
  /\ Load(r, [op |-> "closeAttendance", month |-> m,
              version |-> periodVersion[m], view |-> {}])

----------------------------------------------------------------------------
(* The transaction *)

Free(r) == [m \in Months |-> IF lock[m] = r THEN NoRequest ELSE lock[m]]

\* The transaction ends, with or without writes, and the caller is answered.
Finish(r) ==
  /\ pc' = [pc EXCEPT ![r] = "idle"]
  /\ arg' = [arg EXCEPT ![r] = NoArg]
  /\ lock' = Free(r)
  /\ UNCHANGED now

LockWithoutWaiting(r) ==
  /\ pc[r] = "loaded"
  /\ lock' = [lock EXCEPT ![arg[r].month] = r]
  /\ pc' = [pc EXCEPT ![r] = "locked"]
  /\ UNCHANGED <<dbVars, now, arg, acked>>
Lock(r) ==
  /\ pc[r] = "loaded"
  /\ lock[arg[r].month] = NoRequest
  /\ lock' = [lock EXCEPT ![arg[r].month] = r]
  /\ pc' = [pc EXCEPT ![r] = "locked"]
  /\ UNCHANGED <<dbVars, now, arg, acked>>

\* Inside the transaction clock-in looks its key up before it takes the
\* lock, clock-out after it has found the month open.
ReplayInTransaction(r) ==
  /\ \/ pc[r] = "loaded" /\ arg[r].op = "clockIn"
     \/ pc[r] = "locked" /\ arg[r].op = "clockOut" /\ ~PeriodClosed(arg[r].month)
  /\ KeyUsed(arg[r].key)
  /\ acked' = acked \union {arg[r].key}
  /\ Finish(r)
  /\ UNCHANGED dbVars

\* The closedPeriod query every transaction repeats under the lock.
TrustingTheLoad(a) == a.op = "closeAttendance" => ~PeriodClosed(a.month)
MonthStillOpen(a) == ~PeriodClosed(a.month)

\* What the handler demands of the rows it reads under the lock.
CheckPasses(a) ==
  /\ MonthStillOpen(a)
  /\ a.op = "clockIn" => ~AnOpenDay /\ dayStatus[a.day] = "NONE"
  /\ a.op = "clockOut" => ~KeyUsed(a.key)
  /\ a.op = "closeAttendance" =>
       /\ periodVersion[a.month] = a.version
       /\ \A d \in Existing(a.month) :
            /\ dayStatus[d] = "APPROVED"
            /\ Pending(d) = {}
            /\ approvedMinutes[d] >= 0
       /\ Existing(a.month) # {}

\* closeAttendance keeps the rows it read: they are the snapshot.
Check(r) ==
  /\ pc[r] = "locked"
  /\ CheckPasses(arg[r])
  /\ pc' = [pc EXCEPT ![r] = "checked"]
  /\ arg' = IF arg[r].op = "closeAttendance"
            THEN [arg EXCEPT ![r].view = SnapshotOf(arg[r].month)]
            ELSE arg
  /\ UNCHANGED <<dbVars, lock, now, acked>>

\* The transaction rolls back.  The clock handlers still look their key up
\* before they give the error to the caller.
Abort(r) ==
  /\ IF arg[r].op \in ClockOps
     THEN /\ pc' = [pc EXCEPT ![r] = "failed"]
          /\ lock' = Free(r)
          /\ UNCHANGED <<now, arg>>
     ELSE Finish(r)
  /\ UNCHANGED <<dbVars, acked>>

Refuse(r) ==
  /\ pc[r] = "locked"
  /\ ~CheckPasses(arg[r])
  /\ arg[r].op = "clockOut" => PeriodClosed(arg[r].month)
  /\ Abort(r)

AckAfterFailure(r) ==
  /\ pc[r] = "failed"
  /\ acked' = acked \union {arg[r].key}
  /\ Finish(r)
  /\ UNCHANGED dbVars
AnswerAfterFailure(r) ==
  /\ pc[r] = "failed"
  /\ acked' = IF KeyUsed(arg[r].key) THEN acked \union {arg[r].key} ELSE acked
  /\ Finish(r)
  /\ UNCHANGED dbVars

\* Prisma gives up on a transaction that waits or runs for too long.
TimeOut(r) ==
  /\ pc[r] \in {"loaded", "locked", "checked"}
  /\ Abort(r)

\* The process dies: PostgreSQL rolls the transaction back, nobody answers.
Crash(r) ==
  /\ pc[r] # "idle"
  /\ Finish(r)
  /\ UNCHANGED <<dbVars, acked>>

----------------------------------------------------------------------------
(* The writes *)

\* The version of the row is still the one the client reviewed.
IgnoringVersion(a) == TRUE
VersionMatches(a) == dayVersion[a.day] = a.version

\* clock-out compares the status only.
IgnoringStatus(a) == dayStatus[a.day] # "NONE"
StillOpen(a) == dayStatus[a.day] = "OPEN"

\* work_day_single_open_per_relationship_idx lets one more day be OPEN.
WithoutOpenIndex == TRUE
OpenIndexAllows == ~AnOpenDay

\* What the compare-and-set and the unique indexes demand of the rows as
\* they are when the writes run.
CanWrite(a) ==
  CASE a.op = "clockIn" ->
         OpenIndexAllows /\ dayStatus[a.day] = "NONE" /\ ~KeyUsed(a.key)
    [] a.op = "clockOut" ->
         StillOpen(a) /\ ~KeyUsed(a.key) /\ Active(a.day, "CLOCK_OUT") = {}
    [] a.op = "approve" ->
         dayStatus[a.day] = "PENDING_APPROVAL" /\ VersionMatches(a)
    [] a.op = "requestCorrection" -> VersionMatches(a)
    [] a.op = "approveCorrection" ->
         dayStatus[a.day] = "DISPUTED" /\ VersionMatches(a)
    [] a.op = "rejectCorrection" ->
         /\ dayStatus[a.day] = "DISPUTED" /\ VersionMatches(a)
         /\ a.target = "OPEN" => OpenIndexAllows
    [] a.op = "closeAttendance" ->
         periodVersion[a.month] = a.version /\ periodStatus[a.month] = "OPEN"

Conflict(r) ==
  /\ pc[r] = "checked"
  /\ ~CanWrite(arg[r])
  /\ Abort(r)

Commits(r, op) == pc[r] = "checked" /\ arg[r].op = op /\ CanWrite(arg[r])

\* version: { increment: 1 } with the new status.
SetStatusOnly(d, status) ==
  dayStatus' = [dayStatus EXCEPT ![d] = status] /\ UNCHANGED dayVersion
SetDay(d, status) ==
  /\ dayStatus' = [dayStatus EXCEPT ![d] = status]
  /\ dayVersion' = [dayVersion EXCEPT ![d] = @ + 1]

ResolvedAs(d, id, status) ==
  {IF c.day = d /\ c.id = id THEN [c EXCEPT !.status = status] ELSE c : c \in corrections}

\* updateMany on the entries of a day whose status is one of from.
EntriesDeleted(d, from, to) ==
  IF to = "CORRECTED" THEN {e \in entries : e.day # d \/ e.status \notin from} ELSE entries
EntriesWith(d, from, to) ==
  {IF e.day = d /\ e.status \in from THEN [e EXCEPT !.status = to] ELSE e : e \in entries}

CommitClockIn(r) ==
  LET a == arg[r] IN
  /\ Commits(r, "clockIn")
  /\ dayStatus' = [dayStatus EXCEPT ![a.day] = "OPEN"]
  /\ entries' = entries \union {[day |-> a.day, kind |-> "CLOCK_IN",
                                 status |-> "RECORDED", at |-> a.at, key |-> a.key]}
  /\ acked' = acked \union {a.key}
  /\ Finish(r)
  /\ UNCHANGED <<dayVersion, approvedMinutes, linked, corrections, periodVars>>

CommitClockOut(r) ==
  LET a == arg[r] IN
  /\ Commits(r, "clockOut")
  /\ SetDay(a.day, "PENDING_APPROVAL")
  /\ entries' = entries \union {[day |-> a.day, kind |-> "CLOCK_OUT",
                                 status |-> "RECORDED", at |-> a.at, key |-> a.key]}
  /\ acked' = acked \union {a.key}
  /\ Finish(r)
  /\ UNCHANGED <<approvedMinutes, linked, corrections, periodVars>>

CommitApprove(r) ==
  LET a == arg[r] IN
  /\ Commits(r, "approve")
  /\ SetDay(a.day, "APPROVED")
  /\ approvedMinutes' = [approvedMinutes EXCEPT ![a.day] = Minutes(a.in, a.out)]
  /\ entries' = EntriesWith(a.day, {"RECORDED"}, "APPROVED")
  /\ Finish(r)
  /\ UNCHANGED <<linked, corrections, periodVars, acked>>

CommitRequestCorrection(r) ==
  LET a == arg[r] IN
  /\ Commits(r, "requestCorrection")
  /\ SetDay(a.day, "DISPUTED")
  /\ corrections' = corrections \union {[day |-> a.day, id |-> a.version + 1,
                                         status |-> "PENDING", in |-> a.in, out |-> a.out]}
  /\ Finish(r)
  /\ UNCHANGED <<approvedMinutes, linked, entries, periodVars, acked>>

CommitApproveCorrection(r) ==
  LET a == arg[r]
      New(kind, at) == [day |-> a.day, kind |-> kind, status |-> "APPROVED",
                        at |-> at, key |-> <<a.day, a.corr, kind>>]
  IN
  /\ Commits(r, "approveCorrection")
  /\ SetDay(a.day, "APPROVED")
  /\ approvedMinutes' = [approvedMinutes EXCEPT ![a.day] = Minutes(a.in, a.out)]
  /\ corrections' = ResolvedAs(a.day, a.corr, "APPROVED")
  /\ entries' = EntriesWith(a.day, {"RECORDED", "APPROVED"}, "CORRECTED")
                  \union {New("CLOCK_IN", a.in), New("CLOCK_OUT", a.out)}
  /\ Finish(r)
  /\ UNCHANGED <<linked, periodVars, acked>>

CommitRejectCorrection(r) ==
  LET a == arg[r] IN
  /\ Commits(r, "rejectCorrection")
  /\ SetDay(a.day, a.target)
  /\ corrections' = ResolvedAs(a.day, a.corr, "REJECTED")
  /\ Finish(r)
  /\ UNCHANGED <<approvedMinutes, linked, entries, periodVars, acked>>

CommitClose(r) ==
  LET a == arg[r] IN
  /\ Commits(r, "closeAttendance")
  /\ periodStatus' = [periodStatus EXCEPT ![a.month] = "READY_FOR_CALCULATION"]
  /\ attendanceApproved' = [attendanceApproved EXCEPT ![a.month] = TRUE]
  /\ periodVersion' = [periodVersion EXCEPT ![a.month] = @ + 1]
  /\ linked' = [d \in Days |-> linked[d] \/ \E row \in a.view : row.day = d]
  /\ snapshot' = [snapshot EXCEPT ![a.month] = a.view]
  /\ Finish(r)
  /\ UNCHANGED <<dayStatus, dayVersion, approvedMinutes, entries, corrections, acked>>

----------------------------------------------------------------------------
(* Outside the month's lock *)

\* getOrCreate: the unique index on (relationship, year, month) makes every
\* concurrent caller but one read the row back.
CreatePeriod(m) ==
  /\ periodStatus[m] = "NONE"
  /\ periodStatus' = [periodStatus EXCEPT ![m] = "OPEN"]
  /\ UNCHANGED <<dayVars, entries, corrections, periodVersion,
                 attendanceApproved, snapshot, lock, now, pc, arg, acked>>

Tick ==
  /\ now < MaxInstant
  /\ now' = now + 1
  /\ UNCHANGED <<dbVars, lock, pc, arg, acked>>

----------------------------------------------------------------------------
(* The specification *)

Submit(r) ==
  \/ \E k \in ClockInKeys : LoadClockIn(r, k)
  \/ \E d \in Days, k \in ClockOutKeys : LoadClockOut(r, d, k)
  \/ \E d \in Days : LoadApprove(r, d)
  \/ \E d \in Days, p \in Proposals : LoadRequestCorrection(r, d, p)
  \/ \E d \in Days : LoadApproveCorrection(r, d)
  \/ \E d \in Days : LoadRejectCorrection(r, d)
  \/ \E m \in Months : LoadClose(r, m)

Commit(r) ==
  \/ CommitClockIn(r)
  \/ CommitClockOut(r)
  \/ CommitApprove(r)
  \/ CommitRequestCorrection(r)
  \/ CommitApproveCorrection(r)
  \/ CommitRejectCorrection(r)
  \/ CommitClose(r)

\* A step of an API worker on a request it has taken, once it need not wait.
Serve(r) ==
  \/ ReplayInTransaction(r)
  \/ Check(r)
  \/ Refuse(r)
  \/ Commit(r)
  \/ Conflict(r)
  \/ AnswerAfterFailure(r)

Interrupt(r) == TimeOut(r) \/ Crash(r)

Next ==
  \/ \E r \in Requests : Submit(r) \/ Lock(r) \/ Serve(r) \/ Interrupt(r)
  \/ \E m \in Months : CreatePeriod(m)
  \/ Tick

Spec == Init /\ [][Next]_vars

----------------------------------------------------------------------------
(* Properties *)

\* Every variable keeps its type; a request carries the copy of its operation.
TypeOK ==
  /\ dayStatus \in [Days -> DayStatuses]
  /\ dayVersion \in [Days -> Nat]
  /\ approvedMinutes \in [Days -> Nat \union {NoMinutes}]
  /\ linked \in [Days -> BOOLEAN]
  /\ entries \subseteq Entry
  /\ corrections \subseteq Correction
  /\ periodStatus \in [Months -> PeriodStatuses]
  /\ periodVersion \in [Months -> Nat]
  /\ attendanceApproved \in [Months -> BOOLEAN]
  /\ snapshot \in [Months -> SUBSET SnapshotDay]
  /\ lock \in [Months -> Requests \union {NoRequest}]
  /\ now \in Instants
  /\ pc \in [Requests -> Phases]
  /\ arg \in [Requests -> Args]
  /\ acked \subseteq ClockInKeys \union ClockOutKeys

\* The relationship never has two OPEN work days, although clock-ins of two
\* months hold different locks and a rejected correction reopens a day.
OneOpenDay ==
  \A d, e \in Days : dayStatus[d] = "OPEN" /\ dayStatus[e] = "OPEN" => d = e

\* A work day is DISPUTED exactly while one correction of it is PENDING, and
\* never has two: only the version compare-and-set keeps two requests apart.
DisputeHasItsCorrection ==
  \A d \in Days :
    /\ (dayStatus[d] = "DISPUTED") <=> (Pending(d) # {})
    /\ \A b, c \in Pending(d) : b = c

\* A work day has one active clock-in, an OPEN day no clock-out and every day
\* that awaits approval or has it one active clock-out: approve never meets an
\* incomplete day and the snapshot never holds a null time.
EntriesMatchStatus ==
  \A d \in Days :
    /\ dayStatus[d] # "NONE" <=> \E i \in entries : Active(d, "CLOCK_IN") = {i}
    /\ dayStatus[d] = "OPEN" => Active(d, "CLOCK_OUT") = {}
    /\ dayStatus[d] \in {"PENDING_APPROVAL", "APPROVED"} =>
         \E o \in entries : Active(d, "CLOCK_OUT") = {o}

\* The minutes approved for a day are the span of its active entries, although
\* approve and approveCorrection computed them from a copy read long before.
ApprovedMinutesAgree ==
  \A d \in Days : dayStatus[d] = "APPROVED" =>
    \A i \in Active(d, "CLOCK_IN"), o \in Active(d, "CLOCK_OUT") :
      approvedMinutes[d] = Minutes(i.at, o.at)

\* Once a month's attendance is closed its days are all APPROVED and the
\* snapshot is exactly their rows: nothing that was in flight slips in.
SnapshotIsTheMonth ==
  \A m \in Months : PeriodClosed(m) =>
    /\ \A d \in Existing(m) : dayStatus[d] = "APPROVED"
    /\ snapshot[m] # {}
    /\ snapshot[m] = SnapshotOf(m)

\* A clock request that was answered with success is on record: a retry, a
\* conflict and a rollback never report an entry that is not there.
AckedIsRecorded == \A k \in acked : KeyUsed(k)

\* What keeps the snapshot exact while requests are in flight.  A request that
\* is inside its transaction holds the lock of the month of its day; once it
\* has checked the month, the month stays open until it ends; and the rows a
\* close has read are still the rows of the month.
PhaseFits ==
  \A r \in Requests :
    /\ pc[r] = "idle" <=> arg[r] = NoArg
    /\ pc[r] = "failed" => arg[r].op \in ClockOps
MonthOfItsDay ==
  \A r \in Requests :
    arg[r] # NoArg /\ arg[r].op # "closeAttendance" => arg[r].month = MonthOf[arg[r].day]
LockIsHeld ==
  \A r \in Requests : pc[r] \in {"locked", "checked"} => lock[arg[r].month] = r
CheckedMonthIsOpen ==
  \A r \in Requests : pc[r] = "checked" => ~PeriodClosed(arg[r].month)
CheckedViewIsCurrent ==
  \A r \in Requests : pc[r] = "checked" /\ arg[r].op = "closeAttendance" =>
    /\ \A d \in Existing(arg[r].month) : dayStatus[d] = "APPROVED"
    /\ arg[r].view # {}
    /\ arg[r].view = SnapshotOf(arg[r].month)

MonthInv ==
  /\ TypeOK
  /\ PhaseFits
  /\ MonthOfItsDay
  /\ LockIsHeld
  /\ CheckedMonthIsOpen
  /\ CheckedViewIsCurrent
  /\ SnapshotIsTheMonth

\* A step leaves all that is stored of a work day alone.
SameDay(d) ==
  /\ dayStatus'[d] = dayStatus[d]
  /\ dayVersion'[d] = dayVersion[d]
  /\ approvedMinutes'[d] = approvedMinutes[d]
  /\ {e \in entries' : e.day = d} = {e \in entries : e.day = d}
  /\ {c \in corrections' : c.day = d} = {c \in corrections : c.day = d}

\* After the close no step touches the month's days, entries, corrections,
\* period or snapshot (INV-TIME-05).
ClosedMonthIsFrozen ==
  [][\A m \in Months : PeriodClosed(m) =>
       /\ PeriodClosed(m)' /\ snapshot'[m] = snapshot[m]
       /\ \A d \in DaysIn(m) : SameDay(d)]_vars

\* A stored entry keeps its day, kind, time and key for ever; a step may only
\* change its status, and an archived one stays archived (INV-TIME-04).
EntriesAreKept ==
  [][\A e \in entries : \E f \in entries' :
       /\ [f EXCEPT !.status = e.status] = e
       /\ e.status = "CORRECTED" => f.status = "CORRECTED"]_vars

\* Whatever changes a work day a client may be reviewing changes its version
\* by one, so a decision taken on an older copy is refused.
VersionWitnessesChange ==
  [][\A d \in Days : dayStatus[d] # "NONE" =>
       dayVersion'[d] = dayVersion[d] + 1 \/ SameDay(d)]_vars
============================================================================
