--------------------------- MODULE AttendancePage ---------------------------
(***************************************************************************)
(* What the three attendance panels of the web client share: the API they  *)
(* call and the requests they have under way.                              *)
(*                                                                         *)
(* The API is the AttendanceLedger, each operation at once (Attendance     *)
(* implements it), with what the panels need besides: a version per day,   *)
(* the hours a dispute proposes, and the date.  A read is served at one    *)
(* moment and its answer arrives at a later one, in any order.             *)
(***************************************************************************)
EXTENDS AttendanceLedger, Functions, FiniteSets

CONSTANTS
  MaxLoads,     \* reads a panel has under way at once (bound)
  Entries, Exits, \* the instants at which the clock is pressed (bound)
  None          \* no read, no answer, nothing shown, nothing selected

\* Days are dates in order, with a first one, and months follow them.
ASSUME DatesAssumption ==
  /\ Days \subseteq Int /\ Months \subseteq Int /\ None \notin Days
  /\ MonthOf \in [Days -> Months]
  /\ \A d, e \in Days : d <= e => MonthOf[d] <= MonthOf[e]
  /\ \E d \in Days : \A e \in Days : d <= e
ASSUME ClockAssumption == Entries \subseteq Instants /\ Exits \subseteq Instants

VARIABLES
  version,    \* day -> WorkDay.version
  proposal,   \* day -> the hours of its pending correction, as a set
  today,      \* the date in the household's time zone
  loads,      \* slot -> a read under way, or None
  busy,       \* procesando: the slot of the read that ends it, or None
  error,      \* whether the panel shows an error
  asShown     \* every press served so far was made on the copy the API had

server == <<ledger, version, proposal, today>>
requests == <<loads, busy, error>>
page == <<server, requests, asShown>>

Slots == 1..MaxLoads

\* toAttendanceView
Row(d) == [status |-> status[d], span |-> span[d], minutes |-> minutes[d],
           version |-> version[d], proposal |-> proposal[d]]
Copy(d, row) == [day |-> d, row |-> row]

\* The list of a relationship: the newest work days by date, so many at most.
Workdays == {d \in Days : status[d] # "NONE"}
NewestDays(limit) == {d \in Workdays : Cardinality({e \in Workdays : e > d}) < limit}
Rows(limit) == [d \in NewestDays(limit) |-> Row(d)]

\* The period's totals: days approved, their minutes, and days still to settle.
Settled(m) == {d \in DaysOf(m) : status[d] = "APPROVED"}
Totals(m) == [month |-> m, closed |-> ~Open(m),
              approved |-> {<<d, minutes[d]>> : d \in Settled(m)},
              pending |-> DaysOf(m) # Settled(m)]

\* canCloseMonthlyAttendancePeriod
MonthOver(m) == MonthOf[today] > m

PageInit ==
  /\ Init
  /\ version = [d \in Days |-> 0]
  /\ proposal = [d \in Days |-> {}]
  /\ today = CHOOSE d \in Days : \A e \in Days : d <= e
  /\ busy = None
  /\ error = FALSE
  /\ asShown = TRUE

----------------------------------------------------------------------------
(* The operations of the API.  All but the clock-in increment the version of *)
(* the day; those of the family and the corrections expect one.             *)

AnyVersion(d, v) == TRUE
Expected(d, v) == version[d] = v

Bump(d) ==
  /\ version' = [version EXCEPT ![d] = @ + 1]
  /\ UNCHANGED today

ServeClockIn == \E t \in Entries : ClockIn(today, t) /\ UNCHANGED <<version, proposal, today>>
ServeClockOut(d) == \E t \in Exits : ClockOut(d, t) /\ Bump(d) /\ UNCHANGED proposal
ServeApprove(d, v) == Expected(d, v) /\ Approve(d) /\ Bump(d) /\ UNCHANGED proposal

\* The hours are what the form holds: they were typed, or come from a copy.
ServeRequest(d, v) ==
  /\ Expected(d, v) /\ Dispute(d) /\ Bump(d)
  /\ \E i, o \in Instants : i < o /\ proposal' = [proposal EXCEPT ![d] = {[in |-> i, out |-> o]}]

\* A correction ends with the version it gave the day: to name it is to name both.
ServeAccept(d, v) ==
  /\ Expected(d, v) /\ Bump(d)
  /\ \E p \in proposal[d] : Correct(d, p.in, p.out)
  /\ proposal' = [proposal EXCEPT ![d] = {}]

ServeReject(d, v) ==
  /\ Expected(d, v) /\ Bump(d)
  /\ Dismiss(d)
  /\ proposal' = [proposal EXCEPT ![d] = {}]

ServeClose(m) == MonthOver(m) /\ Seal(m) /\ UNCHANGED <<version, proposal, today>>

Midnight == today + 1 \in Days /\ today' = today + 1 /\ UNCHANGED <<ledger, version, proposal>>

\* The other party, and the other devices of the same one.
Elsewhere ==
  /\ \/ Midnight \/ ServeClockIn
     \/ \E d \in Days : \/ ServeClockOut(d) \/ ServeApprove(d, version[d])
                        \/ ServeRequest(d, version[d])
                        \/ ServeAccept(d, version[d]) \/ ServeReject(d, version[d])
     \/ \E m \in Months : ServeClose(m)
  /\ UNCHANGED <<requests, asShown>>

----------------------------------------------------------------------------
(* The reads of a panel *)

Waiting(ask) == [ask |-> ask, answer |-> None]
Free == {s \in Slots : loads[s] = None}
Started(s, ask) == [loads EXCEPT ![s] = Waiting(ask)]

\* An effect or a handler calls the panel's load, which asks what it closed over.
Start(ask) == \E s \in Free : (\A f \in Free : s <= f) /\ loads' = Started(s, ask)

Read(s, answer) ==
  /\ loads[s] # None /\ loads[s].answer = None
  /\ loads' = [loads EXCEPT ![s].answer = answer]
  /\ UNCHANGED <<server, busy, error, asShown>>

Answered(s) == loads[s] # None /\ loads[s].answer # None
Released(s) == IF busy = s THEN None ELSE busy

\* Every load catches its own failure and shows it.
LoadFails(s) ==
  /\ loads[s] # None
  /\ loads' = [loads EXCEPT ![s] = None]
  /\ busy' = Released(s)
  /\ error' = TRUE
  /\ UNCHANGED <<server, asShown>>

\* A request is served and its answer comes back or is lost, or it fails:
\* refused, or lost on its way.
Send(served, fits) ==
  /\ busy = None
  /\ \/ served /\ asShown' = (asShown /\ fits) /\ error' \in BOOLEAN
     \/ error' = TRUE /\ UNCHANGED <<server, asShown>>

\* The load that follows, awaited: the panel is busy until it has ended.
ThenLoad(ask) == \E s \in Free : (\A f \in Free : s <= f) /\ loads' = Started(s, ask) /\ busy' = s
============================================================================
