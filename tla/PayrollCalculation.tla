------------------------- MODULE PayrollCalculation -------------------------
(***************************************************************************)
(* The calculation of a relationship's closed months, beside everything    *)
(* Conditions says of its terms.                                           *)
(*                                                                         *)
(* calculate reads the period with its snapshot, then the terms and the    *)
(* parameters, and runs the engine, all before its transaction.  The       *)
(* transaction demotes the current version, inserts the next one and       *)
(* compares the period.  Two inserts of the same number wait for each      *)
(* other at the unique index and the comparison decides, so the            *)
(* transaction takes effect at its commit or not at all.  Nothing compares *)
(* the terms again.                                                        *)
(***************************************************************************)
EXTENDS Conditions

CONSTANTS
  Calculators,  \* concurrent requests to calculate
  Periods,
  Minutes,      \* what a snapshot may have approved
  NoSnapshot,
  InForce,      \* per period, the Drafts whose effectiveFrom is by its toDate
  Payable       \* <<terms, minutes>> of which the engine reports no blocking error

ASSUME PeriodsAssumption ==
  /\ NoSnapshot \notin Minutes
  /\ InForce \in [Periods -> SUBSET Drafts]
  /\ Payable \subseteq Drafts \X Minutes

VARIABLES
  periodStatus,          \* PayrollPeriod.status
  periodVersion,         \* PayrollPeriod.version
  currentVersionNumber,  \* PayrollPeriod.currentVersionNumber
  snapshot,              \* approvedMinutes of its PeriodAttendanceSnapshot
  versions,              \* its PayrollVersions, each with its calculation
  calcPhase, calcArg     \* of each calculator: how far it is, what it has read

periodVars == <<periodStatus, periodVersion, currentVersionNumber, snapshot, versions>>
calcVars == <<calcPhase, calcArg>>
payrollVars == <<periodVars, calcVars>>
allVars == <<vars, payrollVars>>

Version == [number: Nat, isCurrent: BOOLEAN, minutes: Minutes, terms: Drafts]
Calculation == [period: Periods, version: Nat, number: Nat, minutes: Minutes,
                terms: Drafts \union {NoTerms}]
NoCalculation == [period |-> "none"]

PayrollInit ==
  /\ Init
  /\ periodStatus = [p \in Periods |-> "OPEN"]
  /\ periodVersion = [p \in Periods |-> 0]
  /\ currentVersionNumber = [p \in Periods |-> 0]
  /\ snapshot = [p \in Periods |-> NoSnapshot]
  /\ versions = [p \in Periods |-> {}]
  /\ calcPhase = [c \in Calculators |-> "idle"]
  /\ calcArg = [c \in Calculators |-> NoCalculation]

\* closeAttendance, whose steps Attendance has: the snapshot and the hand-over.
CloseAttendance(p) ==
  /\ periodStatus[p] = "OPEN"
  /\ periodStatus' = [periodStatus EXCEPT ![p] = "READY_FOR_CALCULATION"]
  /\ periodVersion' = [periodVersion EXCEPT ![p] = @ + 1]
  /\ \E min \in Minutes : snapshot' = [snapshot EXCEPT ![p] = min]
  /\ UNCHANGED <<vars, currentVersionNumber, versions, calcVars>>

----------------------------------------------------------------------------
(* calculate *)

Idle(c) ==
  /\ calcPhase' = [calcPhase EXCEPT ![c] = "idle"]
  /\ calcArg' = [calcArg EXCEPT ![c] = NoCalculation]

\* loadPeriodForEmployer
LoadPeriod(c, p) ==
  /\ calcPhase[c] = "idle"
  /\ periodStatus[p] = "READY_FOR_CALCULATION"
  /\ snapshot[p] # NoSnapshot
  /\ calcPhase' = [calcPhase EXCEPT ![c] = "loaded"]
  /\ calcArg' = [calcArg EXCEPT ![c] =
       [period |-> p, version |-> periodVersion[p], number |-> currentVersionNumber[p],
        minutes |-> snapshot[p], terms |-> NoTerms]]
  /\ UNCHANGED <<vars, periodVars>>

\* resolveTermsForPeriod
TermsOfAnyone(p) == terms \in InForce[p]
TermsForPeriod(p) == terms \in InForce[p] /\ accepted

\* The terms, and the engine's result for them, without a blocking error.
Compute(c) ==
  /\ calcPhase[c] = "loaded"
  /\ TermsForPeriod(calcArg[c].period)
  /\ <<terms, calcArg[c].minutes>> \in Payable
  /\ calcPhase' = [calcPhase EXCEPT ![c] = "computed"]
  /\ calcArg' = [calcArg EXCEPT ![c].terms = terms]
  /\ UNCHANGED <<vars, periodVars>>

\* No accepted terms, or a blocking error: no version is written.
Refuse(c) ==
  /\ calcPhase[c] = "loaded"
  /\ ~ (/\ TermsForPeriod(calcArg[c].period)
        /\ <<terms, calcArg[c].minutes>> \in Payable)
  /\ Idle(c)
  /\ UNCHANGED <<vars, periodVars>>

\* The unique index on period and number, and the comparison of the period
Unchecked(c) == TRUE
Unclaimed(c) ==
  LET p == calcArg[c].period IN
  /\ \A v \in versions[p] : v.number # calcArg[c].number + 1
  /\ periodVersion[p] = calcArg[c].version
  /\ periodStatus[p] = "READY_FOR_CALCULATION"

Demoted(V) == {[v EXCEPT !.isCurrent = FALSE] : v \in V}

StillReady == "READY_FOR_CALCULATION"
AfterCalculation == "CALCULATED"

Persist(c) ==
  LET p == calcArg[c].period
      n == calcArg[c].number + 1
  IN
  /\ calcPhase[c] = "computed" /\ Unclaimed(c)
  /\ versions' = [versions EXCEPT ![p] = Demoted(@) \union
       {[number |-> n, isCurrent |-> TRUE, minutes |-> calcArg[c].minutes,
         terms |-> calcArg[c].terms]}]
  /\ periodStatus' = [periodStatus EXCEPT ![p] = AfterCalculation]
  /\ currentVersionNumber' = [currentVersionNumber EXCEPT ![p] = n]
  /\ periodVersion' = [periodVersion EXCEPT ![p] = @ + 1]
  /\ Idle(c)
  /\ UNCHANGED <<vars, snapshot>>

\* The unique violation, or PERIOD_CONCURRENTLY_MODIFIED
Lose(c) ==
  /\ calcPhase[c] = "computed" /\ ~Unclaimed(c)
  /\ Idle(c)
  /\ UNCHANGED <<vars, periodVars>>

AbortCalculation(c) ==
  /\ calcPhase[c] # "idle"
  /\ Idle(c)
  /\ UNCHANGED <<vars, periodVars>>

----------------------------------------------------------------------------
(* The specification *)

PayrollNext ==
  \/ \E p \in Periods : CloseAttendance(p)
  \/ \E c \in Calculators :
       \/ \E p \in Periods : LoadPeriod(c, p)
       \/ Compute(c) \/ Refuse(c) \/ Persist(c) \/ Lose(c) \/ AbortCalculation(c)

\* The two families of requests share the database and nothing else.
ConditionsNext == Next /\ UNCHANGED payrollVars

PayrollSpec == PayrollInit /\ [][ConditionsNext \/ PayrollNext]_allVars

----------------------------------------------------------------------------
(* Properties *)

PayrollTypeOK ==
  /\ periodStatus \in [Periods -> {"OPEN", "READY_FOR_CALCULATION", "CALCULATED"}]
  /\ periodVersion \in [Periods -> Nat]
  /\ currentVersionNumber \in [Periods -> Nat]
  /\ snapshot \in [Periods -> Minutes \union {NoSnapshot}]
  /\ versions \in [Periods -> SUBSET Version]
  /\ calcPhase \in [Calculators -> {"idle", "loaded", "computed"}]
  /\ calcArg \in [Calculators -> Calculation \union {NoCalculation}]

\* However many calculations of a month run at once, the period and its
\* versions agree: numbered without gaps, the last one current and no other,
\* each computed from the minutes that were closed.
VersionsMatchThePeriod ==
  \A p \in Periods :
    /\ periodStatus[p] = "CALCULATED" <=> versions[p] # {}
    /\ {v.number : v \in versions[p]} = 1..currentVersionNumber[p]
    /\ \A v, w \in versions[p] : v.number = w.number => v = w
    /\ \A v \in versions[p] :
         /\ v.isCurrent <=> v.number = currentVersionNumber[p]
         /\ v.minutes = snapshot[p]

\* What is calculated was agreed: every version has the terms that the worker
\* accepted, although calculate compares nothing but the period, unless a put
\* of the schedule pulled the relationship back to where terms are edited.
CalculatedFromConsent ==
  ~stalePut =>
    \A p \in Periods : \A v \in versions[p] :
      evidence # NoEvidence /\ v.terms = evidence.terms

\* Why they hold: terms once accepted are no longer edited, and a calculator
\* that could still persist has read the period as it is.
AcceptedIsActive ==
  /\ accepted <=> evidence # NoEvidence
  /\ accepted /\ ~stalePut => status = "ACTIVE"
CalculatorsHold ==
  \A c \in Calculators :
    /\ calcPhase[c] # "idle" =>
         LET p == calcArg[c].period IN
         /\ calcArg[c] \in Calculation
         /\ periodStatus[p] # "OPEN"
         /\ periodStatus[p] = "READY_FOR_CALCULATION" =>
              calcArg[c].number = currentVersionNumber[p]
         /\ calcArg[c].minutes = snapshot[p]
    /\ calcPhase[c] = "computed" =>
         /\ calcArg[c].terms # NoTerms
         /\ accepted
         /\ ~stalePut => calcArg[c].terms = evidence.terms

PayrollInv ==
  /\ PayrollTypeOK
  /\ VersionsMatchThePeriod
  /\ CalculatedFromConsent
  /\ AcceptedIsActive
  /\ CalculatorsHold
============================================================================
